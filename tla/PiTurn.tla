------------------------------- MODULE PiTurn -------------------------------
(***************************************************************************)
(* The turns of one pi session: the generator that runs a prompt, the      *)
(* records it takes from the child's event queue, the context file that    *)
(* travels beside the prompt, and the bridge extension that reads it       *)
(* inside pi and switches pi's tools (src/agents/pi/adapter.ts, bridge.ts, *)
(* bridge-context.ts).  The transport's own timers and its ways of ending  *)
(* the child are PiRpc; here an ended child is down in one step.           *)
(*                                                                         *)
(* Turns are numbered.  A record of pi carries the number of the prompt    *)
(* that caused it, which the real record does not: only the properties     *)
(* look at it.  Records of number 0 were written while pi started.         *)
(***************************************************************************)
EXTENDS Naturals, Sequences, SequencesExt

CONSTANTS
    MaxTurn,   \* bound: turns of the session
    MaxText    \* bound: text records of one run

ASSUME TurnAssumption == MaxTurn \in Nat /\ MaxText \in Nat

VARIABLES
    bridgeLive, \* #bridgeLive, decided when the session opens
    persona,    \* #persona: "go" (none) or "read"
    phase,      \* the generator: "closed", "idle", "startup", "compose", "reading", "settled"
    turn,       \* turns begun
    kinds,      \* what each turn asked for: "go", "read" or "edit"
    aborted,    \* the turn's signal
    method,     \* abort(): "no", or "clearing" while clear_queue is answered
    started,    \* the running turn saw its agent_start
    out,        \* events yielded by the newest turn
    preReady,   \* startup records not taken yet
    skip,       \* startup records taken and still at the queue's head
    life,       \* the child: "up", "closing", "down"
    events,     \* records queued for the reader
    held,       \* open dialogs, by run (waitingForUi)
    verdict,    \* pi's reply to the newest prompt: "none" or "refused"
    context,    \* the context file: 0 or the turn it was written for
    ready,      \* the ready file is there
    inbox,      \* prompts pi has not taken up
    run,        \* the prompt pi works on, or 0
    stage,      \* "none", "preflight", "hooked", "started"
    asked,      \* runs that opened a dialog
    texts,      \* text records of the run
    tools,      \* pi's active tools
    bridge,     \* the extension's variables
    got,        \* the turn whose context each run was given (0: none)
    unswitched  \* runs during whose hook a tool switch failed

adapter == <<bridgeLive, persona, phase, turn, kinds, aborted, method, started, out, preReady, skip>>
files == <<context, ready>>
pi == <<inbox, run, stage, asked, texts>>
extension == <<tools, bridge, got, unswitched>>
vars == <<adapter, life, events, held, verdict, files, pi, extension>>

All == {"read", "write"}
ToolsOf == [go |-> All, read |-> {"read"}, edit |-> {"propose"}]
Record(n, is) == [run |-> n, is |-> is]
busy == phase \notin {"closed", "idle"}
waitingForUi == held # {}
Startup == [i \in 1..preReady |-> Record(0, "ask")]
-----------------------------------------------------------------------------
(* Opening a session.                                                      *)

\* With a bridge the child starts with every tool; when the bridge does not
\* load and the persona restricts tools, it is opened again without one and
\* gets the persona's tools on its command line.
SpawnTools(configured, loads, p) ==
    IF configured /\ (loads \/ p = "go") THEN All ELSE ToolsOf[p]

Open ==
    /\ phase = "closed" /\ turn = 0
    /\ \E configured, loads \in BOOLEAN, p \in {"go", "read"} :
          /\ tools' = SpawnTools(configured, loads, p)
          /\ bridgeLive' = (configured /\ loads)
          /\ ready' = (configured /\ loads)
          /\ persona' = p
    /\ phase' = "idle" /\ life' = "up"
    /\ \E n \in 0..1 : preReady' = n /\ events' = [i \in 1..n |-> Record(0, "ask")]
    /\ held' = IF preReady' = 0 THEN {} ELSE {0}
    /\ UNCHANGED <<turn, kinds, aborted, method, started, out, skip, verdict, context, pi,
                   bridge, got, unswitched>>

\* Only a live bridge can switch; the pool opens another child otherwise.
SetPersona ==
    /\ phase = "idle" /\ life = "up" /\ bridgeLive
    /\ persona' \in {"go", "read"}
    /\ UNCHANGED <<bridgeLive, phase, turn, kinds, aborted, method, started, out, preReady, skip,
                   life, events, held, verdict, files, pi, extension>>
-----------------------------------------------------------------------------
(* The child ends.                                                         *)

\* The process is gone: nothing it was doing goes on.
Gone ==
    /\ life' = "down" /\ held' = {}
    /\ inbox' = <<>> /\ run' = 0 /\ stage' = "none"
    /\ UNCHANGED <<asked, texts, extension>>

\* A dialog that is not answered, or a child that is closing, is not left
\* behind: the child is terminated and its ready file removed.
EndChildIf(condition) ==
    IF condition THEN Gone /\ ready' = FALSE
    ELSE UNCHANGED <<life, held, ready, pi, extension>>

Close ==
    /\ phase # "closed" /\ life = "up"
    /\ life' = "closing"
    /\ ready' = FALSE
    /\ context' = IF bridgeLive THEN 0 ELSE context
    /\ UNCHANGED <<adapter, events, held, verdict, pi, extension>>

Exits ==
    /\ life \in {"up", "closing"} /\ phase # "closed"
    /\ Gone
    /\ UNCHANGED <<adapter, events, verdict, files>>
-----------------------------------------------------------------------------
(* One turn.                                                               *)

\* The turn's kind: an edit, or the persona the prompt or the session names.
\* Without a bridge the pool only hands out a child of the right persona.
Begin(edit) ==
    /\ phase = "idle" /\ life = "up" /\ turn < MaxTurn
    /\ phase' = "startup"
    /\ turn' = turn + 1
    /\ kinds' = Append(kinds, IF edit THEN "edit" ELSE persona)
    /\ aborted' = FALSE /\ started' = FALSE /\ out' = <<>> /\ verdict' = "none"
    /\ skip' = 0
    /\ UNCHANGED <<bridgeLive, persona, method, preReady, life, events, held, files, pi, extension>>

\* Mutant of Settle: a turn that was already settled is settled again.
SettleTwice(how) ==
    /\ out' = out \o <<Record(turn, how), Record(turn, how)>>
    /\ phase' = IF phase = "reading" THEN "drop" ELSE "settled"

\* The last event of the turn; a reader that exists is still to be dropped.
Settle(how) ==
    /\ out' = Append(out, Record(turn, how))
    /\ phase' = IF phase = "reading" THEN "drop" ELSE "settled"

\* What pi wrote before it was ready belongs to the first turn that looks.
MapStartup ==
    /\ phase = "startup"
    /\ IF aborted
       THEN Settle("aborted") /\ UNCHANGED <<preReady, skip>>
       ELSE /\ out' = out \o Startup
            /\ skip' = preReady /\ preReady' = 0
            /\ phase' = "compose"
    /\ UNCHANGED <<bridgeLive, persona, turn, kinds, aborted, method, started,
                   life, events, held, verdict, files, pi, extension>>

\* The context travels in the file when the bridge is live.  An edit needs the
\* bridge's tools; a file that cannot be written stops the turn; without a
\* bridge the context is put before the message.
Publish(written) ==
    IF bridgeLive /\ written THEN context' = turn ELSE UNCHANGED context

Deliverable(written) ==
    /\ kinds[turn] = "edit" => bridgeLive /\ ready
    /\ bridgeLive => written

Compose ==
    /\ phase = "compose"
    /\ \/ /\ aborted
          /\ EndChildIf(waitingForUi \/ life = "closing")
          /\ Settle("aborted")
          /\ UNCHANGED <<verdict, context>>
       \/ /\ ~aborted
          /\ \E written \in BOOLEAN :
                \/ /\ Deliverable(written)
                   /\ Publish(written)
                   /\ phase' = "reading"
                   /\ inbox' = IF life = "up" THEN Append(inbox, turn) ELSE inbox
                   /\ verdict' = IF life = "up" THEN "none" ELSE "refused"
                   /\ UNCHANGED <<out, life, held, ready, run, stage, asked, texts, extension>>
                \/ /\ ~Deliverable(written)
                   /\ EndChildIf(life = "closing")
                   /\ Settle("error")
                   /\ UNCHANGED <<verdict, context>>
    /\ UNCHANGED <<bridgeLive, persona, turn, kinds, aborted, method, started, preReady, skip, events>>

\* Before its agent_start a turn only takes what the user is asked.
Takes(r) == started \/ r.is \in {"start", "ask"}

ReadRecord ==
    /\ phase = "reading" /\ events # <<>>
    /\ LET r == Head(events) IN
       /\ \/ skip > 0 /\ skip' = skip - 1 /\ UNCHANGED <<started, out, phase>>
          \/ /\ skip = 0 /\ Takes(r)
             /\ started' = (started \/ r.is = "start")
             /\ IF r.is = "settled" THEN Settle("settled")
                                    ELSE out' = Append(out, r) /\ UNCHANGED phase
             /\ UNCHANGED skip
          \/ skip = 0 /\ ~Takes(r) /\ UNCHANGED <<started, out, phase, skip>>
    /\ events' = Tail(events)
    /\ UNCHANGED <<bridgeLive, persona, turn, kinds, aborted, method, preReady,
                   life, held, verdict, files, pi, extension>>

\* Mutant of ReadAborted: an abort is noticed when the next record comes.
ReadAbortedPolled ==
    /\ phase = "reading" /\ aborted /\ events # <<>>
    /\ events' = <<>> /\ skip' = 0
    /\ EndChildIf(waitingForUi \/ life = "closing")
    /\ Settle("aborted")
    /\ UNCHANGED <<bridgeLive, persona, turn, kinds, aborted, method, started, preReady, verdict, context>>

\* The abort wins the race: what was queued is dropped with the reader.
ReadAborted ==
    /\ phase = "reading" /\ aborted
    /\ events' = <<>> /\ skip' = 0
    /\ EndChildIf(waitingForUi \/ life = "closing")
    /\ Settle("aborted")
    /\ UNCHANGED <<bridgeLive, persona, turn, kinds, aborted, method, started, preReady, verdict, context>>

\* pi refused the prompt, or its stream ended without a settle.
ReadFailure ==
    /\ phase = "reading"
    /\ verdict = "refused" \/ (life = "down" /\ events = <<>>)
    /\ EndChildIf(life = "closing" \/ (aborted /\ waitingForUi))
    /\ Settle(IF aborted THEN "aborted" ELSE "error")
    /\ UNCHANGED <<bridgeLive, persona, turn, kinds, aborted, method, started, preReady, skip,
                   events, verdict, context>>

\* Mutant of Finally: the context file is left when the turn ends.
FinallyKeepsFile ==
    /\ phase \in {"settled", "drop"}
    /\ events' = IF phase = "drop" THEN <<>> ELSE events
    /\ phase' = "idle" /\ skip' = 0
    /\ UNCHANGED <<bridgeLive, persona, turn, kinds, aborted, method, started, out, preReady,
                   life, held, verdict, files, pi, extension>>

\* Whatever way the turn ended: what is left in its queue is dropped and so is
\* a context nobody picked up.
Finally ==
    /\ phase \in {"settled", "drop"}
    /\ events' = IF phase = "drop" THEN <<>> ELSE events
    /\ context' = IF bridgeLive THEN 0 ELSE context
    /\ phase' = "idle" /\ skip' = 0
    /\ UNCHANGED <<bridgeLive, persona, turn, kinds, aborted, method, started, out, preReady,
                   life, held, verdict, ready, pi, extension>>

\* The daemon's only way to abort: the turn's signal.  pi is not told.
Signal ==
    /\ busy /\ ~aborted /\ phase \notin {"settled", "drop"}
    /\ aborted' = TRUE
    /\ UNCHANGED <<bridgeLive, persona, phase, turn, kinds, method, started, out, preReady, skip,
                   life, events, held, verdict, files, pi, extension>>

\* The session's own abort(): the turn is let go at once; a child that holds a
\* dialog is terminated, any other is asked to clear its queue and then to stop.
Abort ==
    /\ phase # "closed" /\ method = "no" /\ life = "up"
    /\ aborted' = (aborted \/ busy)
    /\ EndChildIf(waitingForUi)
    /\ method' = IF waitingForUi THEN "no" ELSE "clearing"
    /\ UNCHANGED <<bridgeLive, persona, phase, turn, kinds, started, out, preReady, skip,
                   events, verdict, context>>

\* The user's answer goes to pi under pi's own id, which the mapper of the
\* running turn knows for the dialogs it yielded.
RespondUi ==
    /\ busy /\ ~aborted
    /\ \E i \in 1..Len(out) : out[i].is = "ask" /\ out[i].run \in held
                              /\ held' = held \ {out[i].run}
    /\ UNCHANGED <<adapter, life, events, verdict, files, pi, extension>>

\* A dialog's own timeout passes.  A turn that was aborted goes on before any
\* timer fires, so not then.
DialogExpires ==
    /\ ~(aborted /\ busy)
    /\ \E r \in held : held' = held \ {r}
    /\ UNCHANGED <<adapter, life, events, verdict, files, pi, extension>>
-----------------------------------------------------------------------------
(* The bridge inside pi.                                                   *)

\* What an edit put aside comes back, unless pi refuses the switch; the edit's
\* guard is lifted either way.
Restored(ok) ==
    IF bridge.previous = {} THEN [set |-> tools, previous |-> {}]
    ELSE IF ok THEN [set |-> bridge.previous, previous |-> {}]
    ELSE [set |-> tools, previous |-> bridge.previous]

\* The tools of a turn's persona, or the normal ones when a persona was left.
Switch(k) ==
    IF k = "read" THEN bridge.applied # "read" ELSE bridge.applied # "go"

\* Mutant of Arm: an edit that cannot restore the tools is not guarded.
ArmLate(k, restored) == k = "edit" /\ restored

\* The guard of an edit is armed even when restoring the tools failed.
Arm(k, restored) == k = "edit"

\* before_agent_start with the context of a turn of kind k.  restored and
\* switched say whether pi accepted the two tool switches this may take.
Apply(k, restored, switched) ==
    LET back == Restored(restored)
        failed == bridge.previous # {} /\ ~restored
        armed == Arm(k, ~failed)
    IN  IF failed
        THEN tools' = back.set /\ bridge' = [bridge EXCEPT !.proposing = armed]
        ELSE CASE k = "edit" ->
                    /\ tools' = IF switched THEN {"propose"} ELSE back.set
                    /\ bridge' = [bridge EXCEPT !.proposing = armed, !.previous = back.set]
               [] k # "edit" /\ Switch(k) ->
                    /\ tools' = IF switched THEN ToolsOf[k] ELSE back.set
                    /\ bridge' = [proposing |-> armed, previous |-> {},
                                  applied |-> IF switched THEN k ELSE bridge.applied]
               [] OTHER ->
                    /\ tools' = back.set
                    /\ bridge' = [bridge EXCEPT !.proposing = armed, !.previous = {}]

\* The file is read and removed before anything is done with it; a run without
\* one keeps the tools and the guard it finds.
BeforeAgentStart ==
    /\ stage = "preflight" /\ held = {} /\ life # "down"
    /\ stage' = "hooked"
    /\ IF ~bridgeLive \/ context = 0
       THEN UNCHANGED <<context, extension>>
       ELSE /\ context' = 0
            /\ got' = [got EXCEPT ![run] = context]
            /\ \E restored, switched \in BOOLEAN :
                  /\ Apply(kinds[context], restored, switched)
                  /\ unswitched' = IF restored /\ switched THEN unswitched ELSE unswitched \cup {run}
    /\ UNCHANGED <<adapter, life, events, held, verdict, ready, inbox, run, asked, texts>>

\* agent_settled: the edit is over.
RestoreEdit(ok) ==
    /\ tools' = Restored(ok).set
    /\ bridge' = [bridge EXCEPT !.proposing = FALSE, !.previous = Restored(ok).previous]
    /\ UNCHANGED <<got, unswitched>>
-----------------------------------------------------------------------------
(* pi (external).  It works on one prompt at a time and may refuse any.    *)

Write(r) == events' = Append(events, r)

PiTakes ==
    /\ run = 0 /\ inbox # <<>> /\ life # "down" /\ held = {}
    /\ run' = Head(inbox) /\ inbox' = Tail(inbox) /\ stage' = "preflight" /\ texts' = 0
    /\ UNCHANGED <<adapter, life, events, held, verdict, files, asked, extension>>

PiRefuses ==
    /\ inbox # <<>> /\ life # "down"
    /\ inbox' = Tail(inbox)
    /\ verdict' = IF Head(inbox) = turn /\ phase = "reading" THEN "refused" ELSE verdict
    /\ UNCHANGED <<adapter, life, events, held, files, run, stage, asked, texts, extension>>

PiAsks ==
    /\ stage # "none" /\ held = {} /\ run \notin asked /\ life = "up"
    /\ held' = {run} /\ asked' = asked \cup {run}
    /\ Write(Record(run, "ask"))
    /\ UNCHANGED <<adapter, life, verdict, files, inbox, run, stage, texts, extension>>

PiStarts ==
    /\ stage = "hooked" /\ held = {} /\ life # "down"
    /\ stage' = "started" /\ Write(Record(run, "start"))
    /\ UNCHANGED <<adapter, life, held, verdict, files, inbox, run, asked, texts, extension>>

PiSpeaks ==
    /\ stage = "started" /\ held = {} /\ life # "down" /\ texts < MaxText
    /\ texts' = texts + 1 /\ Write(Record(run, "text"))
    /\ UNCHANGED <<adapter, life, held, verdict, files, inbox, run, stage, asked, extension>>

\* The run of pi ends, by itself or because it was told to.
Ends ==
    /\ Write(Record(run, "settled"))
    /\ run' = 0 /\ stage' = "none"
    /\ IF bridgeLive THEN \E ok \in BOOLEAN : RestoreEdit(ok) ELSE UNCHANGED extension
    /\ UNCHANGED <<life, held, verdict, files, inbox, asked, texts>>

PiSettles ==
    /\ stage = "started" /\ held = {} /\ life # "down"
    /\ Ends
    /\ UNCHANGED adapter

\* clear_queue is answered, then "abort" reaches pi.
PiIsTold ==
    /\ method = "clearing" /\ method' = "no"
    /\ IF run = 0 \/ life = "down" THEN UNCHANGED <<life, events, held, verdict, files, pi, extension>> ELSE Ends
    /\ UNCHANGED <<bridgeLive, persona, phase, turn, kinds, aborted, started, out, preReady, skip>>
-----------------------------------------------------------------------------
Init ==
    /\ bridgeLive = FALSE /\ persona = "go" /\ phase = "closed" /\ turn = 0 /\ kinds = <<>>
    /\ aborted = FALSE /\ method = "no" /\ started = FALSE /\ out = <<>>
    /\ preReady = 0 /\ skip = 0
    /\ life = "up" /\ events = <<>> /\ held = {} /\ verdict = "none"
    /\ context = 0 /\ ready = FALSE
    /\ inbox = <<>> /\ run = 0 /\ stage = "none" /\ asked = {} /\ texts = 0
    /\ tools = All
    /\ bridge = [proposing |-> FALSE, previous |-> {}, applied |-> "go"]
    /\ got = [n \in 1..MaxTurn |-> 0] /\ unswitched = {}

Session == Open \/ SetPersona \/ Close \/ Exits
Generator == MapStartup \/ Compose \/ ReadRecord \/ ReadAborted \/ ReadFailure \/ Finally
Pi == PiTakes \/ PiRefuses \/ BeforeAgentStart \/ PiStarts \/ PiSpeaks \/ PiSettles \/ PiIsTold

\* The order the design counts on: a turn is stopped before its prompt is sent,
\* while it holds a dialog, or once its run has begun; abort() is waited for;
\* and a run whose turn is gone asks nobody.
Orderly == phase = "reading" => (started \/ (run = turn /\ waitingForUi))
Attended == run = turn /\ phase = "reading" /\ ~aborted

Next ==
    \/ Session \/ Generator \/ Pi \/ RespondUi \/ DialogExpires
    \/ \E edit \in BOOLEAN : method = "no" /\ Begin(edit)
    \/ Orderly /\ Signal
    \/ Orderly /\ Abort
    \/ Attended /\ PiAsks

\* Any order: what the daemon and pi may do.
LooseNext ==
    \/ Session \/ Generator \/ Pi \/ RespondUi \/ DialogExpires \/ Signal \/ PiAsks
    \/ \E edit \in BOOLEAN : Begin(edit)

Fairness == WF_vars(Generator) /\ WF_vars(PiIsTold)
Spec == Init /\ [][Next]_vars /\ Fairness
LooseSpec == Init /\ [][LooseNext]_vars /\ Fairness
-----------------------------------------------------------------------------
Said == [run : 0..turn, is : {"ask", "start", "text", "settled"}]
Shown == [run : 0..turn, is : {"ask", "start", "text", "settled", "aborted", "error"}]

AdapterTypes ==
    /\ bridgeLive \in BOOLEAN /\ aborted \in BOOLEAN /\ started \in BOOLEAN
    /\ persona \in {"go", "read"} /\ method \in {"no", "clearing"}
    /\ phase \in {"closed", "idle", "startup", "compose", "reading", "settled", "drop"}
    /\ turn \in 0..MaxTurn /\ kinds \in Seq({"go", "read", "edit"}) /\ Len(kinds) = turn
    /\ out \in Seq(Shown) /\ preReady \in 0..1 /\ skip \in 0..1

ChildTypes ==
    /\ life \in {"up", "closing", "down"} /\ verdict \in {"none", "refused"}
    /\ events \in Seq(Said) /\ held \subseteq 0..turn
    /\ context \in 0..turn /\ ready \in BOOLEAN
    /\ inbox \in Seq(1..turn) /\ run \in 0..turn
    /\ stage \in {"none", "preflight", "hooked", "started"} /\ (stage = "none" <=> run = 0)
    /\ asked \subseteq 0..turn /\ texts \in 0..MaxText
    /\ tools \in {All, {"read"}, {"propose"}}
    /\ bridge \in [proposing : BOOLEAN, previous : {{}, All, {"read"}}, applied : {"go", "read"}]
    /\ got \in [1..MaxTurn -> 0..MaxTurn] /\ unswitched \subseteq 0..turn

TypeOK == AdapterTypes /\ ChildTypes

IsEnd(e) == e.is \in {"settled", "aborted", "error"}

\* Every turn that ended yielded one settled event, and it was the last
\* (PiSession.prompt; "Exactly one settled per turn", docs/DESIGN.md:984).
SettledOnceAndLast ==
    /\ \A i \in 1..Len(out) : IsEnd(out[i]) => i = Len(out)
    /\ phase = "idle" /\ turn > 0 => out # <<>> /\ IsEnd(Last(out))

\* A turn shows what its own run wrote, and startup records once: leftovers of
\* an abandoned run are dropped (adapter.ts:3-5, 344-346).
OwnRecords ==
    /\ \A i \in 1..Len(out) : out[i].run \in {0, turn}
    /\ \A i, j \in 1..Len(out) : out[i] = out[j] /\ out[i].is = "ask" => i = j

\* The events of a turn are its own, and end once (PiSession.prompt).
TurnIsItsOwn == SettledOnceAndLast /\ OwnRecords

\* Tools the run may really call: the guard on tool calls comes on top of the
\* active set.
Usable == IF bridge.proposing THEN tools \cap {"propose"} ELSE tools \ {"propose"}

\* A run of a child that is not being closed has the context of that turn and the tools of
\* its persona; an edit has nothing but its proposal tool, even when pi refused
\* to switch tools (before_agent_start, tool_call).
RunHasItsTools ==
    stage = "started" /\ life = "up" =>
       /\ bridgeLive => got[run] = run
       /\ kinds[run] = "edit" => Usable \subseteq {"propose"}
       /\ run \notin unswitched => Usable = ToolsOf[kinds[run]]

\* No context file outlives the turn it was written for (docs/DESIGN.md §10).
ContextIsCleared == phase = "idle" => context = 0

\* A child whose dialog was shown is not kept when the turn is given up: nobody
\* could answer it any more (prompt, abort).
NoDialogIsLeft ==
    phase = "idle" /\ aborted =>
       \A i \in 1..Len(out) : out[i].is = "ask" => out[i].run \notin held

\* A turn leaves neither its context file nor a dialog behind (the finally and the
\* catch of prompt).
NothingIsLeftOver == ContextIsCleared /\ NoDialogIsLeft

\* An aborted turn ends, whatever pi does (prompt, raceAbort).
AbortedTurnEnds == aborted /\ busy ~> phase = "idle"

\* Once its turn is aborted pi stops working on the prompt ("clear_queue then
\* abort on the adapter", docs/DESIGN.md:410).
AbortReachesPi ==
    \A n \in 1..MaxTurn : (turn = n /\ aborted /\ run = n) ~> run # n
-----------------------------------------------------------------------------
(* Why the invariants hold when the order is kept: more of what is true.    *)

\* What the session has before it is opened.
Closed ==
    phase = "closed" =>
        /\ turn = 0 /\ out = <<>> /\ events = <<>> /\ held = {} /\ inbox = <<>> /\ run = 0
        /\ method = "no" /\ context = 0 /\ ~aborted /\ ~started /\ preReady = 0 /\ skip = 0
        /\ life = "up" /\ verdict = "none"
        /\ bridge = [proposing |-> FALSE, previous |-> {}, applied |-> "go"]

\* pi has the prompt of the running turn, and of no other: it is sent when the
\* turn begins to read, and no turn is given up between that and its agent_start
\* with the child alive.
OnePrompt ==
    /\ life = "down" => inbox = <<>> /\ run = 0 /\ held = {}
    /\ inbox # <<>> => inbox = <<turn>> /\ phase = "reading" /\ ~started /\ run # turn
    /\ stage \in {"preflight", "hooked"} => run = turn /\ phase = "reading" /\ ~started
    /\ phase = "reading" /\ verdict = "refused" => inbox = <<>> /\ run # turn
    /\ phase = "reading" /\ aborted => started \/ life = "down" \/ (run = turn /\ held # {})
    /\ phase \in {"startup", "compose", "settled"} => run # turn
    /\ phase \in {"startup", "compose"} => ~started
    /\ started => run \in {0, turn}

Index == 1..Len(events)

\* What the reader will find: a startup record, then what an abandoned run still
\* wrote, then the records of the turn.
Queue ==
    /\ \A i \in Index : events[i].run = 0 => i = 1 /\ events[i].is = "ask"
    /\ \A i \in Index : events[i].run \notin {0, turn} => events[i].is \in {"text", "settled"}
    /\ \A i, j \in Index : i < j /\ events[i].run = turn => events[j].run = turn
    /\ run \notin {0, turn} \/ inbox # <<>> \/ phase \in {"startup", "compose", "settled"} =>
           turn = 0 \/ \A i \in Index : events[i].run # turn
    /\ started => skip = 0 /\ \A i \in Index : events[i].run = turn
    /\ stage \in {"preflight", "hooked"} =>
           \A i \in Index : events[i].run = turn => events[i].is = "ask"
    /\ \A i \in Index : events[i].run = turn /\ events[i].is = "settled" => run # turn
    /\ phase = "idle" => \A i \in Index : events[i].run # 0 => events[i].is \in {"text", "settled"}
    /\ preReady + skip = 1 => events # <<>> /\ events[1] = Record(0, "ask")
    /\ phase \in {"compose", "reading", "drop"} => preReady = 0
    /\ preReady + skip <= 1 /\ (phase \in {"closed", "idle", "startup"} => skip = 0)

\* No dialog comes twice, in what was yielded or in what is to be read.
AsksOnce ==
    /\ \A i, j \in Index : events[i] = events[j] /\ events[i].is = "ask" => i = j
    /\ \A i \in Index : events[i].is = "ask" /\ events[i].run # 0 => events[i].run \in asked
    /\ \A i \in 1..Len(out) : out[i].is = "ask" /\ out[i].run # 0 => out[i].run \in asked
    /\ phase \in {"startup", "compose", "reading"} =>
           \A i \in 1..Len(out), j \in Index : out[i] = events[j] /\ out[i].is = "ask" => j <= skip

\* A turn has ended when its last event was yielded.
Yields ==
    /\ phase = "startup" => out = <<>>
    /\ phase \in {"startup", "compose", "reading"} => \A i \in 1..Len(out) : ~IsEnd(out[i])
    /\ phase \in {"settled", "drop"} => out # <<>> /\ IsEnd(out[Len(out)])
    /\ busy => turn > 0

\* At most one dialog is open: the one of startup, or that of pi's run.
Dialogs ==
    /\ held \subseteq {run}
    /\ 0 \in held => \A i \in Index : events[i].run = 0
    /\ method = "clearing" => held = {} /\ (busy => aborted)
    /\ phase \in {"settled", "drop", "idle"} /\ aborted =>
           \A i \in 1..Len(out) : out[i].is = "ask" => out[i].run \notin held

\* The context file is that of the turn that reads, and is there when pi takes
\* its prompt up.
Published ==
    /\ context # 0 => bridgeLive /\ context = turn /\ phase \in {"reading", "drop"}
    /\ bridgeLive /\ life = "up" /\ (inbox # <<>> \/ stage = "preflight") => context = turn

\* The tools of the child outside an edit.
Base == IF bridge.previous = {} THEN tools ELSE bridge.previous

\* The tools the extension is to restore are those of the persona it applied;
\* without a bridge the child has those it was started with.
Equipped ==
    /\ bridgeLive => Base = ToolsOf[bridge.applied]
    /\ phase # "closed" /\ ~bridgeLive =>
           /\ tools = ToolsOf[persona] /\ ~bridge.proposing
           /\ \A n \in 1..turn : kinds[n] \in {persona, "edit"}
           /\ inbox # <<>> => kinds[turn] # "edit"
           /\ run # 0 => kinds[run] # "edit"
    /\ bridgeLive /\ life = "up" /\ stage \in {"hooked", "started"} =>
           /\ got[run] = run
           /\ bridge.proposing = (kinds[run] = "edit")
           /\ run \notin unswitched => tools = ToolsOf[kinds[run]]

\* Inductive with TypeOK.
Inductive ==
    /\ Closed /\ OnePrompt /\ Queue /\ AsksOnce /\ Yields /\ Dialogs /\ Published /\ Equipped
    /\ SettledOnceAndLast /\ OwnRecords
=============================================================================
