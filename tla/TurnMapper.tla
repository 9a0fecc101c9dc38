----------------------------- MODULE TurnMapper -----------------------------
(***************************************************************************)
(* The translation of one turn's pi records into events of the port        *)
(* (src/agents/pi/mapping.ts).  pi writes any records a run may hold, in   *)
(* the order pi keeps: a message's blocks end once, a tool starts before   *)
(* it reports.  Token counts stand for all the usage figures; a clock that *)
(* only moves forward drives the two throttles.                            *)
(***************************************************************************)
EXTENDS Naturals, Sequences, AgentPort

CONSTANTS
    Ids,         \* tool calls of pi; those of Nested were made by another tool
    Nested,
    Throttle,    \* ticks between two updates of a tool, or two usage events
    MaxTime, MaxRecords   \* bounds

VARIABLES
    edit,       \* commandProposals/commitProposals: "no", "suggest", "commit"
    announced, settled,
    reason,     \* #lastStopReason
    previous,   \* #previousUsage: the responses before this one
    response,   \* #messageUsage
    total,      \* #usage
    emitted,    \* #emittedUsage
    usageAt,    \* #lastUsageAt, or MaxTime + 1 before the first usage event
    running,    \* #tools
    dialogs,    \* #uiCounter, with the pi id each number stands for
    blocks,     \* #blocksByIndex
    blockCount, \* #blockCounter
    now,        \* the clock
    out,        \* events emitted
    piMessage, piEnded, piTools, piCount, piUsage   \* what pi has written

mapper == <<announced, settled, reason, previous, response, total, emitted, usageAt,
            running, dialogs, blocks, blockCount, out>>
pi == <<piMessage, piEnded, piTools, piCount, piUsage>>
vars == <<edit, mapper, now, pi>>

Never == MaxTime + 1
Larger(a, b) == IF a > b THEN a ELSE b

\* The turn_start that precedes what the run shows.
Begin == IF announced THEN <<>> ELSE <<[type |-> "turn_start"]>>
Emit(events) == out' = out \o events
Events(type) == <<[type |-> type]>>
-----------------------------------------------------------------------------
(* Usage.                                                                  *)

\* Mutant of Counted: a response's newest figure replaces its largest.
CountedLast(u) == u

\* A figure of the response never takes back an earlier one.
Counted(u) == Larger(response, u)

\* Whether the figures are worth an event: they moved, and the last event is
\* old enough or the response is over.
Worth(u, final) ==
    /\ previous + Counted(u) # emitted
    /\ final \/ usageAt = Never \/ now - usageAt >= Throttle

UsageEvents(u, final) ==
    IF u # 0 /\ Worth(u, final)
    THEN <<[type |-> "usage", total |-> previous + Counted(u)]>> ELSE <<>>

\* u = 0: the record carries no usage.
CountUsage(u, final) ==
    IF u = 0 THEN UNCHANGED <<response, total, emitted, usageAt>>
    ELSE /\ response' = Counted(u)
         /\ total' = previous + Counted(u)
         /\ emitted' = IF Worth(u, final) THEN previous + Counted(u) ELSE emitted
         /\ usageAt' = IF Worth(u, final) THEN now ELSE usageAt

\* pi's counters are those of one response; a user's or a tool's message does
\* not end the response.
RollResponse(role) ==
    IF role = "assistant" THEN previous' = total /\ response' = 0
    ELSE UNCHANGED <<previous, response>>
-----------------------------------------------------------------------------
(* The records.                                                            *)

AgentStart ==
    /\ Emit(Begin) /\ announced' = TRUE
    /\ UNCHANGED <<reason, previous, response, total, emitted, usageAt, running, dialogs, blocks, blockCount>>

\* The indices of a message's blocks are its own.
ForgetBlocks == blocks' = [i \in {} |-> 0]

MessageStart(role) ==
    /\ ForgetBlocks
    /\ RollResponse(role)
    /\ UNCHANGED <<announced, reason, total, emitted, usageAt, running, dialogs, blockCount, out>>

\* The block a content index of the running message stands for.
Block(index) == IF index \in DOMAIN blocks THEN blocks[index] ELSE blockCount

\* A delta, an end or an error of one block; type "" shows nothing.
MessageUpdate(type, index, u) ==
    LET event == CASE type \in {"text_delta", "text_end"} -> <<[type |-> type, block |-> Block(index)]>>
                   [] type = "thinking_delta" -> Events(type)
                   [] OTHER -> <<>>
    IN  /\ Emit(Begin \o UsageEvents(u, FALSE) \o event)
        /\ announced' = TRUE
        /\ CountUsage(u, FALSE)
        /\ blocks' = [i \in DOMAIN blocks \cup {index} |-> IF i = index THEN Block(index) ELSE blocks[i]]
        /\ blockCount' = IF index \in DOMAIN blocks THEN blockCount ELSE blockCount + 1
        /\ reason' = IF type = "error" THEN "error" ELSE reason
        /\ UNCHANGED <<previous, running, dialogs>>

MessageEnd(stopReason, u) ==
    /\ Emit(UsageEvents(u, TRUE))
    /\ CountUsage(u, TRUE)
    /\ reason' = stopReason
    /\ UNCHANGED <<announced, previous, running, dialogs, blocks, blockCount>>

ToolStart(id, name) ==
    /\ Emit(Begin \o <<[type |-> "tool_start", id |-> id]>>)
    /\ announced' = TRUE
    /\ running' = [i \in DOMAIN running \cup {id} |->
                     IF i = id THEN [name |-> name, updated |-> FALSE, at |-> now] ELSE running[i]]
    /\ UNCHANGED <<reason, previous, response, total, emitted, usageAt, dialogs, blocks, blockCount>>

\* An update of a tool that runs, not too soon after the last; the clock is
\* taken even when there is nothing to preview.
ToolUpdate(id, preview) ==
    /\ IF id \notin DOMAIN running \/ (running[id].updated /\ now - running[id].at < Throttle)
       THEN UNCHANGED <<running, out>>
       ELSE /\ running' = [running EXCEPT ![id].updated = TRUE, ![id].at = now]
            /\ Emit(IF preview THEN <<[type |-> "tool_update", id |-> id, at |-> now]>> ELSE <<>>)
    /\ UNCHANGED <<announced, reason, previous, response, total, emitted, usageAt, dialogs, blocks, blockCount>>

\* Only the tool of this edit proposes, called by the model itself.
Proposes(id) ==
    /\ edit # "no" /\ id \in DOMAIN running /\ id \notin Nested
    /\ running[id].name = edit

\* A successful tool's details may hold a valid command.
ToolEnd(id, ok, command) ==
    /\ Emit(<<[type |-> "tool_end", id |-> id]>> \o
            (IF ok /\ command /\ Proposes(id) THEN <<[type |-> "set_buffer", by |-> id]>> ELSE <<>>))
    /\ running' = [i \in DOMAIN running \ {id} |-> running[i]]
    /\ UNCHANGED <<announced, reason, previous, response, total, emitted, usageAt, dialogs, blocks, blockCount>>

UiEvents(method) ==
    CASE method = "dialog" -> <<[type |-> "ui_request", id |-> Len(dialogs) + 1]>>
      [] method = "set_editor_text" -> IF edit = "no" THEN <<[type |-> "set_buffer", by |-> "extension"]>> ELSE <<>>
      [] OTHER -> <<>>

\* A dialog gets a number of the turn.  Notifications and statuses are Report's;
\* widgets and titles are pi's own.
UiRequest(method, piId) ==
    /\ Emit(Begin \o UiEvents(method))
    /\ announced' = TRUE
    /\ dialogs' = Append(dialogs, piId)
    /\ UNCHANGED <<reason, previous, response, total, emitted, usageAt, running, blocks, blockCount>>

\* A retry or a compaction begins the turn; their ends, warnings and statuses do not.
Report(type, begins) ==
    /\ Emit((IF begins THEN Begin ELSE <<>>) \o Events(type))
    /\ announced' = (announced \/ begins)
    /\ UNCHANGED <<reason, previous, response, total, emitted, usageAt, running, dialogs, blocks, blockCount>>

\* Nothing is translated once the turn settled.
Guarded(A) == (IF settled THEN UNCHANGED mapper ELSE A) /\ UNCHANGED settled

\* The end: pi's own, an abort, or a failure of the transport.
Settle(why) ==
    /\ ~settled /\ settled' = TRUE
    /\ Emit(<<[type |-> "settled", reason |-> IF why = "pi" THEN reason ELSE why]>>)
    /\ UNCHANGED <<announced, reason, previous, response, total, emitted, usageAt, running, dialogs,
                   blocks, blockCount, edit, now, pi>>
-----------------------------------------------------------------------------
(* pi, and the clock.                                                      *)

Wrote == piCount < MaxRecords /\ piCount' = piCount + 1

PiWrites ==
    /\ Wrote
    /\ UNCHANGED <<edit, now>>
    /\ \/ Guarded(AgentStart) /\ UNCHANGED <<piMessage, piEnded, piTools, piUsage>>
       \/ \E role \in {"assistant", "user"} :
             /\ Guarded(MessageStart(role))
             /\ piMessage' = role /\ piEnded' = {} /\ UNCHANGED piTools
             /\ piUsage' = IF role = "assistant" THEN Append(piUsage, 0) ELSE piUsage
       \/ \E type \in {"text_delta", "text_end", "thinking_delta", "error", ""}, index \in 0..1, u \in 0..2 :
             /\ piMessage = "assistant" /\ index \notin piEnded
             /\ u = 0 \/ type = ""
             /\ index = 0 \/ type \in {"text_delta", "text_end"}
             /\ Guarded(MessageUpdate(type, index, u))
             /\ piEnded' = IF type = "text_end" THEN piEnded \cup {index} ELSE piEnded
             /\ piUsage' = [piUsage EXCEPT ![Len(piUsage)] = Larger(@, u)]
             /\ UNCHANGED <<piMessage, piTools>>
       \/ \E stopReason \in {"stop", "error"}, u \in {0, 2} :
             /\ piMessage = "assistant" /\ piMessage' = "none"
             /\ Guarded(MessageEnd(stopReason, u))
             /\ piUsage' = [piUsage EXCEPT ![Len(piUsage)] = Larger(@, u)]
             /\ UNCHANGED <<piEnded, piTools>>
       \/ \E id \in Ids \ DOMAIN piTools, name \in {"suggest", "commit"} :
             /\ Guarded(ToolStart(id, name))
             /\ piTools' = [i \in DOMAIN piTools \cup {id} |-> IF i = id THEN name ELSE piTools[i]]
             /\ UNCHANGED <<piMessage, piEnded, piUsage>>
       \/ \E id \in DOMAIN piTools, preview \in BOOLEAN :
             Guarded(ToolUpdate(id, preview)) /\ UNCHANGED <<piMessage, piEnded, piTools, piUsage>>
       \/ \E id \in DOMAIN piTools, ok, command \in BOOLEAN :
             /\ id \in DOMAIN running
             /\ Guarded(ToolEnd(id, ok, command)) /\ UNCHANGED <<piMessage, piEnded, piTools, piUsage>>
       \/ \E method \in {"dialog", "set_editor_text", "setTitle"} :
             Guarded(UiRequest(method, piCount)) /\ UNCHANGED <<piMessage, piEnded, piTools, piUsage>>
       \/ \E begins \in BOOLEAN :
             /\ Guarded(Report(IF begins THEN "retry" ELSE "notice", begins))
             /\ UNCHANGED <<piMessage, piEnded, piTools, piUsage>>

Tick == now < MaxTime /\ now' = now + 1 /\ UNCHANGED <<edit, mapper, pi>>

Init ==
    /\ edit \in {"no", "suggest"}
    /\ announced = FALSE /\ settled = FALSE /\ reason = "stop"
    /\ previous = 0 /\ response = 0 /\ total = 0 /\ emitted = 0 /\ usageAt = Never
    /\ running = [i \in {} |-> 0] /\ dialogs = <<>>
    /\ blocks = [i \in {} |-> 0] /\ blockCount = 0
    /\ now = 0 /\ out = <<>>
    /\ piMessage = "none" /\ piEnded = {} /\ piTools = [i \in {} |-> ""] /\ piCount = 0 /\ piUsage = <<>>

Next == PiWrites \/ Tick \/ \E why \in {"pi", "aborted", "error"} : Settle(why)
Spec == Init /\ [][Next]_vars
-----------------------------------------------------------------------------
SumUsage(s) ==
    LET sum[i \in 0..Len(s)] == IF i = 0 THEN 0 ELSE s[i] + sum[i - 1]
    IN  sum[Len(s)]

\* The events keep the port's contract, whatever pi writes and whenever the
\* turn ends (TurnMapper.map, settle, settleWithError).
Contract == KeepsContract(out)

\* The turn's usage is the sum over its responses of the largest figure pi gave
\* for each, and an event never claims more (#usageEvent, message_start).
UsageIsTheSum ==
    /\ ~settled => total = SumUsage(piUsage)
    /\ emitted <= total

\* Only the proposal tool of this edit turn fills the buffer, and in an edit
\* nothing else does (tool_execution_end, extension_ui_request).
OnlyTheEditFillsTheBuffer ==
    \A i \in Of(out, {"set_buffer"}) :
       IF edit = "no" THEN out[i].by = "extension"
       ELSE out[i].by \in Ids \ Nested /\ piTools[out[i].by] = edit

\* Two updates of one tool are at least the throttle apart.
UpdatesAreThrottled ==
    \A i, j \in Of(out, {"tool_update"}) :
       i < j /\ out[i].id = out[j].id => out[j].at - out[i].at >= Throttle
-----------------------------------------------------------------------------
(* Why it holds: of each kind of event, what the mapper remembers of those it has     *)
(* emitted, in the order that the next one keeps the contract.                          *)

Texts == {"text_end", "text_delta"}

\* Before the turn has begun, only what comes of no run was emitted.
Opened == announced \/ settled \/ \A i \in 1..Len(out) : out[i].type \in {"usage", "notice", "status"}

\* A block that has ended is of no index pi may still use; the next block is a new one.
BlocksAreOver ==
    /\ \A x \in DOMAIN blocks : blocks[x] \in Nat /\ blocks[x] < blockCount
    /\ \A x, y \in DOMAIN blocks : blocks[x] = blocks[y] => x = y
    /\ \A i \in Of(out, Texts) : out[i].block \in Nat /\ out[i].block < blockCount
    /\ \A i \in Of(out, {"text_end"}), x \in DOMAIN blocks : out[i].block = blocks[x] => x \in piEnded

\* The tools that run have started, and have not ended.
ToolsRun ==
    /\ \A id \in DOMAIN running : \E i \in Of(out, {"tool_start"}) : out[i].id = id
    /\ \A i \in Of(out, {"tool_end"}) : out[i].id \notin DOMAIN running
    /\ \A i \in Of(out, {"tool_start"}) : out[i].id \in DOMAIN piTools
    /\ \A id \in DOMAIN running : id \in DOMAIN piTools /\ running[id].name = piTools[id]

\* The last update of a tool that runs is the one it remembers.
UpdatesAreDated ==
    /\ \A id \in DOMAIN running : running[id].at \in 0..now
    /\ \A i \in Of(out, {"tool_update"}) :
          /\ out[i].at \in Nat
          /\ out[i].id \in DOMAIN running => running[out[i].id].updated /\ out[i].at <= running[out[i].id].at

\* The largest figures of the responses so far, and of the last one.
Figures ==
    /\ piUsage \in Seq(Nat)
    /\ total = previous + response
    /\ total = SumUsage(piUsage)
    /\ response = IF piUsage = <<>> THEN 0 ELSE piUsage[Len(piUsage)]
    /\ piMessage = "assistant" => piUsage # <<>>

\* Inductive.
MapperInductive ==
    /\ announced \in BOOLEAN /\ settled \in BOOLEAN /\ now \in Nat
    /\ {previous, response, total, emitted, blockCount} \subseteq Nat
    /\ running \in [DOMAIN running -> [name : {"suggest", "commit"}, updated : BOOLEAN, at : Nat]]
    /\ DOMAIN piTools \subseteq Ids
    /\ Contract /\ Opened /\ OnlyTheEditFillsTheBuffer /\ UpdatesAreThrottled
    /\ emitted <= total
    /\ \A i \in Of(out, {"usage"}) : out[i].total \in Nat /\ out[i].total <= emitted
    /\ \A i \in Of(out, {"ui_request"}) : out[i].id \in 1..Len(dialogs)
    /\ edit # "no" => \A i \in Of(out, {"set_buffer"}) : out[i].by \in DOMAIN piTools
    /\ ~settled => /\ Of(out, {"settled"}) = {}
                   /\ BlocksAreOver /\ ToolsRun /\ UpdatesAreDated /\ Figures
=============================================================================
