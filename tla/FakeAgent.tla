----------------------------- MODULE FakeAgent -----------------------------
(***************************************************************************)
(* The scripted backend: sessions on one transcript that survives them,    *)
(* and turns that play a scenario one step at a time, with an abort, an    *)
(* answer or a close between any two (src/agents/fake/adapter.ts and       *)
(* scenarios.ts).  A consumer may take its time at every yield.            *)
(***************************************************************************)
EXTENDS Naturals, Sequences, AgentPort

CONSTANTS MaxTurns   \* bound: turns begun

VARIABLES
    scenario,  \* the name the backend was made with
    session,   \* "closed", "open"
    turn,      \* turns begun over all sessions
    steps,     \* what the running turn plays, <<>> when none runs (#turn)
    pc,        \* the next step
    phase,     \* "step", "tick" (after a yield), "waiting" (parked on a dialog)
    aborted,   \* the turn's signal
    answer,    \* the answer an await_ui step got and has not shown
    blocks,    \* the text of each block of the newest turn: its length
    lastBlock, \* #lastBlock, or 9
    pendingUi, \* #pendingUi, or ""
    early,     \* #earlyUi: ids answered before anyone waited
    transcript,\* turns that joined the conversation
    usage,     \* the transcript's total
    out,       \* events of the newest turn
    ended      \* how each turn ended

vars == <<scenario, session, turn, steps, pc, phase, aborted, answer, blocks, lastBlock,
          pendingUi, early, transcript, usage, out, ended>>

NoBlock == 9
NoUi == ""
E(type) == [type |-> type]
Text(b) == [type |-> "text_delta", block |-> b]
End(b) == [type |-> "text_end", block |-> b]
Used(n) == [type |-> "usage", total |-> n]
Tool(is, t) == [type |-> is, id |-> t]
Done(why) == [type |-> "settled", reason |-> why]

Scenarios ==
    [hello  |-> <<E("turn_start"), Text(0), Text(0), End(0), Used(2), Done("stop")>>,
     tools  |-> <<E("turn_start"), Tool("tool_start", "t1"), Tool("tool_update", "t1"), Tool("tool_end", "t1"),
                  Tool("tool_start", "t2"), Tool("tool_end", "t2"), Text(0), End(0), Used(2), Done("stop")>>,
     dialog |-> <<E("turn_start"), Text(0), End(0), Tool("ui_request", "d1"), E("await_ui"), Used(2), Done("stop")>>,
     error  |-> <<E("turn_start"), Text(0), End(0), E("notice"), Used(2), Done("error")>>,
     retry  |-> <<E("turn_start"), E("retry"), E("retry"), Text(0), End(0), Used(2), Done("stop")>>,
     buffer |-> <<E("turn_start"), Text(0), End(0), E("set_buffer"), Used(2), Done("stop")>>]

\* What an edit turn of the default scenario plays instead.
Proposal == <<E("turn_start"), Text(0), End(0), E("set_buffer")>>

Running == steps # <<>>
-----------------------------------------------------------------------------
\* A resumed session goes on with the transcript.
Open ==
    /\ session = "closed" /\ session' = "open"
    /\ pendingUi' = NoUi /\ early' = {} /\ lastBlock' = NoBlock /\ blocks' = [b \in {} |-> 0]
    /\ UNCHANGED <<scenario, turn, steps, pc, phase, aborted, answer, transcript, usage, out, ended>>

Prompt(edit, alreadyAborted) ==
    /\ session = "open" /\ ~Running /\ turn < MaxTurns
    /\ turn' = turn + 1
    /\ steps' = IF edit /\ scenario = "hello" THEN Proposal ELSE Scenarios[scenario]
    /\ pc' = 1 /\ phase' = "step" /\ aborted' = alreadyAborted /\ answer' = FALSE
    /\ blocks' = [b \in {} |-> 0] /\ lastBlock' = NoBlock /\ out' = <<>>
    /\ ended' = Append(ended, "no")
    /\ UNCHANGED <<scenario, session, pendingUi, early, transcript, usage>>

\* A turn joins the conversation when it completed and answered something.
Joins(why) == why = "stop" /\ lastBlock # NoBlock

\* The turn's last event.  An abort is yielded without being recorded.
Settle(why) ==
    /\ out' = Append(out, Done(why))
    /\ steps' = <<>> /\ phase' = "step"
    /\ ended' = [ended EXCEPT ![turn] = why]
    /\ transcript' = IF why # "aborted" /\ Joins(why) THEN Append(transcript, turn) ELSE transcript
    /\ UNCHANGED <<scenario, session, turn, pc, aborted, answer, blocks, lastBlock, pendingUi, early, usage>>

\* What the session remembers of an event before it is yielded.
Recorded(e) ==
    /\ blocks' = IF e.type # "text_delta" THEN blocks
                 ELSE [b \in DOMAIN blocks \cup {e.block} |->
                         IF b \in DOMAIN blocks THEN blocks[b] + (IF b = e.block THEN 1 ELSE 0) ELSE 1]
    /\ lastBlock' = IF e.type = "text_end" THEN e.block ELSE lastBlock
    /\ pendingUi' = IF e.type = "ui_request" THEN e.id ELSE pendingUi
    /\ usage' = IF e.type = "usage" THEN usage + e.total ELSE usage
    /\ out' = Append(out, e)

\* The tick after a step: an abort ends the turn here.
AfterYield ==
    /\ Running /\ phase = "tick"
    /\ \/ aborted /\ Settle("aborted")
       \/ /\ ~aborted /\ phase' = "step"
          /\ UNCHANGED <<scenario, session, turn, steps, pc, aborted, answer, blocks, lastBlock,
                         pendingUi, early, transcript, usage, out, ended>>

\* The first step of a turn that was aborted before it began.
BeginAborted == Running /\ phase = "step" /\ pc = 1 /\ aborted /\ Settle("aborted")

PlayEvent ==
    /\ Running /\ phase = "step" /\ ~answer /\ (pc > 1 \/ ~aborted) /\ pc <= Len(steps)
    /\ steps[pc].type \notin {"await_ui", "settled"}
    /\ Recorded(steps[pc]) /\ pc' = pc + 1 /\ phase' = "tick"
    /\ UNCHANGED <<scenario, session, turn, steps, aborted, answer, early, transcript, ended>>

\* The dialog that is open was answered already, is waited for, or there is none.
AwaitUi ==
    /\ Running /\ phase = "step" /\ ~answer /\ pc <= Len(steps) /\ steps[pc].type = "await_ui"
    /\ pc' = pc + 1
    /\ early' = early \ {pendingUi}
    /\ answer' = (pendingUi \in early)
    /\ phase' = IF pendingUi = NoUi \/ pendingUi \in early THEN "step" ELSE "waiting"
    /\ UNCHANGED <<scenario, session, turn, steps, aborted, blocks, lastBlock, pendingUi,
                   transcript, usage, out, ended>>

\* The answer is shown as a block of its own.
ShowAnswer ==
    /\ Running /\ phase = "step" /\ answer
    /\ \/ aborted /\ Settle("aborted")
       \/ /\ ~aborted
          /\ answer' = FALSE
          /\ blocks' = [b \in DOMAIN blocks \cup {1} |-> IF b = 1 THEN 1 ELSE blocks[b]]
          /\ lastBlock' = 1
          /\ out' = out \o <<Text(1), End(1)>>
          /\ UNCHANGED <<scenario, session, turn, steps, pc, phase, aborted, pendingUi, early,
                         transcript, usage, ended>>

\* A turn parked on a dialog is woken by its signal.
WakeAborted == Running /\ phase = "waiting" /\ aborted /\ Settle("aborted")

ScriptedEnd ==
    /\ Running /\ phase = "step" /\ ~answer /\ pc <= Len(steps) /\ steps[pc].type = "settled"
    /\ Settle(steps[pc].reason)

\* A script without an end gets a usage figure, if it had none, and stops.
ImpliedEnd ==
    /\ Running /\ phase = "step" /\ ~answer /\ pc > Len(steps)
    /\ IF Of(out, {"usage"}) = {}
       THEN /\ Recorded(Used(1))
            /\ UNCHANGED <<scenario, session, turn, steps, pc, phase, aborted, answer, early, transcript, ended>>
       ELSE Settle("stop")

\* By the caller's signal or abort(): the two end in one signal.
Abort ==
    /\ Running /\ ~aborted /\ aborted' = TRUE
    /\ UNCHANGED <<scenario, session, turn, steps, pc, phase, answer, blocks, lastBlock,
                   pendingUi, early, transcript, usage, out, ended>>

\* An answer to the dialog the turn showed: whoever waits gets it, and before
\* that it is kept.
RespondUi(id) ==
    /\ Running /\ \E i \in Of(out, {"ui_request"}) : out[i].id = id
    /\ IF phase = "waiting" /\ id = pendingUi /\ ~aborted
       THEN answer' = TRUE /\ phase' = "step" /\ UNCHANGED early
       ELSE early' = early \cup {id} /\ UNCHANGED <<answer, phase>>
    /\ UNCHANGED <<scenario, session, turn, steps, pc, aborted, blocks, lastBlock, pendingUi,
                   transcript, usage, out, ended>>

Compact ==
    /\ session = "open" /\ ~Running /\ (usage > 0 \/ lastBlock # NoBlock)
    /\ usage' = 0 /\ blocks' = [b \in {} |-> 0] /\ lastBlock' = NoBlock
    /\ UNCHANGED <<scenario, session, turn, steps, pc, phase, aborted, answer, pendingUi, early,
                   transcript, out, ended>>

\* Closing aborts the turn and forgets who waits; what a parked turn hears is
\* its signal.
Close ==
    /\ session = "open" /\ session' = "closed"
    /\ aborted' = (aborted \/ Running) /\ early' = {}
    /\ UNCHANGED <<scenario, turn, steps, pc, phase, answer, blocks, lastBlock, pendingUi,
                   transcript, usage, out, ended>>

LastAssistantText == IF lastBlock = NoBlock THEN 0 ELSE blocks[lastBlock]

Init ==
    /\ scenario \in DOMAIN Scenarios /\ session = "closed" /\ turn = 0 /\ steps = <<>> /\ pc = 1
    /\ phase = "step" /\ aborted = FALSE /\ answer = FALSE
    /\ blocks = [b \in {} |-> 0] /\ lastBlock = NoBlock /\ pendingUi = NoUi /\ early = {}
    /\ transcript = <<>> /\ usage = 0 /\ out = <<>> /\ ended = <<>>

Play == AfterYield \/ BeginAborted \/ PlayEvent \/ AwaitUi \/ ShowAnswer \/ WakeAborted \/ ScriptedEnd \/ ImpliedEnd
Next ==
    \/ Play \/ Abort \/ Compact \/ Close
    \/ (~Running /\ Open)
    \/ \E edit, alreadyAborted \in BOOLEAN : Prompt(edit, alreadyAborted)
    \/ \E id \in {"d1"} : RespondUi(id)
Spec == Init /\ [][Next]_vars /\ WF_vars(Play)
-----------------------------------------------------------------------------
\* The fake keeps the port's contract, and its events are those of the script
\* up to the abort.
Contract == KeepsContract(out)

\* Only a completed turn joins the conversation (#finishTurn), once.
OnlyCompletedTurnsJoin ==
    /\ \A i \in 1..Len(transcript) : ended[transcript[i]] = "stop"
    /\ \A i, j \in 1..Len(transcript) : i < j => transcript[i] < transcript[j]

\* Why: a running turn has told the beginning of its script, with the answer of the
\* dialog in its place and a usage figure after the last step of a script without an
\* end; it awaits or holds an answer only at the step behind the await; and no turn
\* that still runs has joined.
Scripts == {Scenarios[s] : s \in DOMAIN Scenarios} \cup {Proposal}
Dialog == Scenarios.dialog
Unanswered == <<E("turn_start"), Text(0), End(0), Tool("ui_request", "d1"), Used(2), Done("stop")>>
Answered == <<E("turn_start"), Text(0), End(0), Tool("ui_request", "d1"), Text(1), End(1), Used(2), Done("stop")>>
Proposed == <<E("turn_start"), Text(0), End(0), E("set_buffer"), Used(1)>>
Tellings == (Scripts \ {Dialog, Proposal}) \cup {Proposed, Unanswered, Answered}

Kinds == {"turn_start", "await_ui", "notice", "retry", "set_buffer", "text_delta", "text_end", "usage",
          "tool_start", "tool_update", "tool_end", "ui_request", "settled"}
Reasons == {"stop", "error", "aborted"}
Ids == {"t1", "t2", "d1"}
Events == [type : Kinds] \cup [type : Kinds, block : Nat] \cup [type : Kinds, total : Nat]
          \cup [type : Kinds, id : Ids] \cup [type : Kinds, reason : Reasons]

BeginningOf(t) == Len(out) <= Len(t) /\ \A i \in DOMAIN out : out[i] = t[i]
Dialogs ==
    IF pc <= 5 THEN Len(out) = pc - 1 /\ BeginningOf(Unanswered) /\ ~answer /\ phase # "waiting"
    ELSE \/ Len(out) = pc - 2 /\ BeginningOf(Unanswered) /\ (answer \/ phase = "waiting" => pc = 6)
         \/ Len(out) = pc /\ BeginningOf(Answered) /\ ~answer /\ phase # "waiting"

ToldSoFar ==
    /\ pc \in Nat \ {0} /\ pc <= Len(steps) + 1 /\ steps \in Scripts
    /\ \A i \in DOMAIN out : out[i].type # "settled"
    /\ IF steps = Dialog THEN Dialogs
       ELSE /\ BeginningOf(IF steps = Proposal THEN Proposed ELSE steps)
            /\ Len(out) = pc - 1 \/ (steps = Proposal /\ pc = 5 /\ Len(out) = 5)
            /\ ~answer /\ phase # "waiting"

FakeInductive ==
    /\ turn \in Nat /\ ended \in Seq({"no"} \cup Reasons) /\ Len(ended) = turn
    /\ transcript \in Seq(1 .. turn) /\ scenario \in DOMAIN Scenarios /\ out \in Seq(Events)
    /\ Running => ToldSoFar /\ turn # 0 /\ \A i \in DOMAIN transcript : transcript[i] # turn
    /\ Contract /\ OnlyCompletedTurnsJoin

\* An abort is heard at every step, also while a dialog is open: nothing but
\* the settled event follows it by more than one step (#runTurn, #awaitUi).
Hearing == aborted /\ Running
AbortIsHeard == Hearing ~> ~Running
=============================================================================
