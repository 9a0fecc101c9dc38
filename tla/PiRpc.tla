------------------------------- MODULE PiRpc -------------------------------
(***************************************************************************)
(* One pi child and the transport that owns it: requests and their timers, *)
(* the dialogs that stop a prompt's timer, the handshake, and the ways the *)
(* child ends (src/agents/pi/rpc.ts).  pi itself and the operating system  *)
(* are the environment: pi may answer, ask, write or die at any moment, or *)
(* say nothing for ever.                                                   *)
(*                                                                         *)
(* Time is not counted: an armed timer may fire at any moment.  A request  *)
(* is named by the id its caller gets, a record pi writes by its number.   *)
(***************************************************************************)
EXTENDS Naturals, Sequences

CONSTANTS
    Calls,       \* the requests that may be made
    Hello,       \* the one among them that waitReady makes (get_state)
    Dialogs,     \* ids of dialogs pi may open
    MaxRecords   \* bound: records pi writes that are not replies

ASSUME RpcAssumption == Hello \in Calls /\ MaxRecords \in Nat

VARIABLES
    child,      \* the process: "none", "missing", "running", "dead"
    received,   \* requests in pi's stdin that pi has not answered
    pipe,       \* lines of pi's stdout that are not read yet
    wrote,      \* number of records pi has written
    runs,       \* accepted prompts whose run pi has not settled
    exit,       \* #exit: "no", "unspawned" (an error event), "exited"
    call,       \* state of each request: "idle", "sent", "ok", "refused"
    prompting,  \* the requests whose command is "prompt"
    clock,      \* the pending requests whose timer is armed
    dialogs,    \* open dialogs, with the prompts pending when each was opened
    expiring,   \* open dialogs that have a timeout of their own
    handshake,  \* waitReady: "no", "waiting", "ready", "failed"
    preReady,   \* records read before the handshake ended
    pushed,     \* records pushed to the events queue
    stream,     \* state of the events queue: "open", "closed", "failed"
    closing,    \* #closing
    terminator, \* terminate: "no", "waiting", "done"
    closer,     \* close: "no", "eof", "term", "kill", "done"
    signals     \* what was sent to the child: "EOF", "SIGTERM", "SIGKILL"

piVars == <<child, received, pipe, wrote, runs>>
callVars == <<call, prompting, clock>>
uiVars == <<dialogs, expiring>>
streamVars == <<handshake, preReady, pushed, stream>>
endVars == <<closing, terminator, closer, signals>>
vars == <<piVars, exit, callVars, uiVars, streamVars, endVars>>

Pending == {r \in Calls : call[r] = "sent"}
PendingPrompts == Pending \cap prompting
Open == DOMAIN dialogs
waitingForUi == Open # {}

Reply(r, ok) == [is |-> "reply", of |-> r, ok |-> ok]
Asking(d, n, timeout) == [is |-> "dialog", of |-> d, no |-> n, timeout |-> timeout]
Settled(n) == [is |-> "settled", no |-> n]
Event(n) == [is |-> "event", no |-> n]

\* No dialog is left: nothing restarts a prompt's timer.
ClearDialogs == dialogs' = <<>> /\ expiring' = {}

\* Mutant of FinishDialogs: a stopped deadline is not started again.
FinishDialogsUntimed(gone, live) ==
    /\ dialogs' = [d \in Open \ gone |-> dialogs[d]]
    /\ expiring' = expiring \ gone
    /\ clock' = clock \cap live

\* The dialogs of gone end.  When the last one does, every prompt that still
\* waits gets a fresh deadline.
FinishDialogs(gone, live) ==
    LET left == Open \ gone IN
    /\ dialogs' = [d \in left |-> dialogs[d]]
    /\ expiring' = expiring \ gone
    /\ clock' = IF left = {} /\ Open # {}
                THEN (clock \cap live) \cup (live \cap prompting)
                ELSE clock \cap live

\* Every pending request is rejected and the events end with the error.
Fail ==
    /\ call' = [r \in Calls |-> IF r \in Pending THEN "refused" ELSE call[r]]
    /\ clock' = {}
    /\ stream' = IF stream = "open" THEN "failed" ELSE stream
    /\ ClearDialogs

CloseStream == stream' = IF stream = "open" THEN "closed" ELSE stream

\* What waitReady's race has decided and its continuation has not yet done.
HandshakeDecided == handshake = "waiting" /\ call[Hello] # "sent"

\* Lines of pi's stdout: replies, and the records that belong to the events.
Line == [is : {"reply"}, of : Calls, ok : BOOLEAN]
        \cup [is : {"dialog"}, of : Dialogs, no : 1..MaxRecords, timeout : BOOLEAN]
        \cup [is : {"settled", "event"}, no : 1..MaxRecords]
Records == {i \in DOMAIN pipe : pipe[i].is # "reply"}

\* The records that were read, in this order.
Arrived == pushed \o (IF handshake = "ready" THEN <<>> ELSE preReady)
-----------------------------------------------------------------------------
(* Requests.                                                               *)

\* A request that is accepted is pending, timed unless a dialog is open over a
\* prompt, and written to a child that is still there to read it.
Send(r, isPrompt) ==
    /\ call' = [call EXCEPT ![r] = "sent"]
    /\ prompting' = IF isPrompt THEN prompting \cup {r} ELSE prompting
    /\ clock' = IF isPrompt /\ waitingForUi THEN clock ELSE clock \cup {r}
    /\ dialogs' = [d \in Open |-> IF isPrompt THEN dialogs[d] \cup {r} ELSE dialogs[d]]
    /\ UNCHANGED <<expiring, pipe, wrote, runs, exit>>

Refuse(r) ==
    /\ call' = [call EXCEPT ![r] = "refused"]
    /\ UNCHANGED <<piVars, exit, prompting, clock, uiVars>>

\* Mutant of Request: only closing refuses a request.
RequestOfDead(r, isPrompt) ==
    /\ ~HandshakeDecided
    /\ call[r] = "idle"
    /\ \/ closing /\ Refuse(r)
       \/ /\ ~closing
          /\ child' = IF child = "none" THEN "running" ELSE child
          /\ received' = IF child' = "running" THEN received \cup {r} ELSE received
          /\ Send(r, isPrompt)
    /\ UNCHANGED endVars

Request(r, isPrompt) ==
    /\ ~HandshakeDecided
    /\ call[r] = "idle"
    /\ \/ (closing \/ exit # "no") /\ Refuse(r)
       \/ /\ ~closing /\ exit = "no"
          /\ \/ child = "none" /\ child' \in {"running", "missing"}
             \/ child # "none" /\ UNCHANGED child
          /\ received' = IF child' = "running" THEN received \cup {r} ELSE received
          /\ Send(r, isPrompt)
    /\ UNCHANGED endVars

\* Any command but the handshake's: a session is handed out once it is ready.
Ask(r) ==
    /\ r # Hello /\ handshake = "ready"
    /\ \E isPrompt \in BOOLEAN : Request(r, isPrompt)
    /\ UNCHANGED streamVars

\* No run is under way, nor its end unread: when an undisturbed turn prompts.
Quiet ==
    /\ runs = {} /\ PendingPrompts = {}
    /\ \A i \in DOMAIN pipe : pipe[i].is # "settled"

WaitReady ==
    /\ handshake = "no"
    /\ Request(Hello, FALSE)
    /\ handshake' = "waiting"
    /\ UNCHANGED <<preReady, pushed, stream>>

\* The reply won the race: the records read so far go to the events, first.
HandshakeEnds ==
    /\ HandshakeDecided
    /\ handshake' = IF call[Hello] = "ok" THEN "ready" ELSE "failed"
    /\ pushed' = IF call[Hello] = "ok" /\ stream = "open"
                 THEN pushed \o preReady ELSE pushed
    /\ UNCHANGED <<piVars, exit, callVars, uiVars, preReady, stream, endVars>>

\* The deadline won: the request stays pending until its own timer fires.
HandshakeDeadline ==
    /\ handshake = "waiting" /\ call[Hello] = "sent"
    /\ handshake' = "failed"
    /\ UNCHANGED <<piVars, exit, callVars, uiVars, preReady, pushed, stream, endVars>>
-----------------------------------------------------------------------------
(* Ending the child: terminate and close.                                  *)

\* The synchronous part of terminate, with live the requests still pending.
\* A timed-out prompt calls it, and an abort under an open dialog.
BeginTerminate ==
    IF terminator # "no"
    THEN UNCHANGED <<closing, terminator, signals, uiVars, stream>>
    ELSE /\ closing' = TRUE
         /\ ClearDialogs
         /\ IF child = "none" \/ exit # "no"
            THEN /\ terminator' = "done"
                 /\ CloseStream
                 /\ UNCHANGED signals
            ELSE /\ terminator' = "waiting"
                 /\ signals' = signals \cup {"SIGKILL"}
                 /\ UNCHANGED stream

Terminate ==
    /\ handshake = "ready"
    /\ terminator = "no"
    /\ BeginTerminate
    /\ UNCHANGED <<piVars, exit, callVars, handshake, preReady, pushed, closer>>

\* The exit is confirmed, or the grace period ends first.
TerminateEnds ==
    /\ terminator = "waiting"
    /\ terminator' = "done"
    /\ Fail
    /\ UNCHANGED <<piVars, exit, prompting, handshake, preReady, pushed,
                   closing, closer, signals>>

Close ==
    /\ handshake \in {"ready", "failed"}
    /\ closer = "no"
    /\ closing' = TRUE
    /\ \/ /\ closing
          /\ closer' = "done"
          /\ UNCHANGED <<uiVars, stream, signals>>
       \/ /\ ~closing
          /\ ClearDialogs
          /\ IF child = "none"
             THEN closer' = "done" /\ CloseStream /\ UNCHANGED signals
             ELSE /\ closer' = "eof"
                  /\ signals' = IF exit = "no" THEN signals \cup {"EOF"} ELSE signals
                  /\ UNCHANGED stream
    /\ UNCHANGED <<piVars, exit, callVars, handshake, preReady, pushed, terminator>>

\* waitForExit saw the exit: at once, or through the gate, which only an exit
\* event opens.
CloseConfirmed ==
    /\ closer \in {"eof", "term", "kill"}
    /\ exit = "exited" \/ (exit = "unspawned" /\ closer = "eof" /\ signals = {})
    /\ closer' = "done"
    /\ CloseStream
    /\ UNCHANGED <<piVars, exit, callVars, uiVars, handshake, preReady, pushed,
                   closing, terminator, signals>>

\* Mutant of CloseEscalates: only a child not known to have ended is escalated.
CloseEscalatesAlive ==
    /\ closer \in {"eof", "term", "kill"} /\ exit = "no"
    /\ signals' = signals \cup {IF closer = "eof" THEN "SIGTERM" ELSE "SIGKILL"}
    /\ closer' = CASE closer = "eof" -> "term" [] closer = "term" -> "kill" [] OTHER -> "done"
    /\ UNCHANGED <<piVars, exit, callVars, uiVars, streamVars, closing, terminator>>

\* A grace period ends without the gate: the next signal, or, since waitForExit
\* looks at the exit before it waits again, the end.
CloseEscalates ==
    /\ closer \in {"eof", "term", "kill"}
    /\ exit # "exited"
    /\ IF closer = "kill"
       THEN closer' = "done" /\ CloseStream /\ UNCHANGED signals
       ELSE LET sent == IF closer = "eof" THEN "SIGTERM" ELSE "SIGKILL" IN
            /\ signals' = signals \cup {sent}
            /\ IF exit = "no"
               THEN closer' = (IF closer = "eof" THEN "term" ELSE "kill") /\ UNCHANGED stream
               ELSE closer' = "done" /\ CloseStream
    /\ UNCHANGED <<piVars, exit, callVars, uiVars, handshake, preReady, pushed,
                   closing, terminator>>
-----------------------------------------------------------------------------
(* Timers and people.                                                      *)

\* A request's deadline.  A prompt that missed its own ends the child, so that
\* a late preflight cannot start a model behind a turn that already failed.
RequestTimesOut(r) ==
    /\ ~HandshakeDecided
    /\ r \in Pending \cap clock
    /\ call' = [call EXCEPT ![r] = "refused"]
    /\ clock' = clock \ {r}
    /\ IF r \in prompting
       THEN BeginTerminate
       ELSE UNCHANGED <<closing, terminator, signals, uiVars, stream>>
    /\ UNCHANGED <<piVars, exit, prompting, handshake, preReady, pushed, closer>>

EndDialog(d) ==
    /\ FinishDialogs({d}, Pending)
    /\ UNCHANGED <<piVars, exit, call, prompting, streamVars, endVars>>

DialogExpires(d) == ~HandshakeDecided /\ d \in expiring /\ EndDialog(d)

\* The answer is written and the dialog is over.  An answer to a dialog that is
\* not open, or after the end, is dropped.
RespondUi(d) ==
    /\ ~HandshakeDecided
    /\ d \in Open /\ ~closing /\ exit = "no"
    /\ EndDialog(d)
-----------------------------------------------------------------------------
(* Reading pi's stdout, one line at a time.                                *)

Keep(no) ==
    IF handshake # "ready"
    THEN preReady' = Append(preReady, no) /\ UNCHANGED pushed
    ELSE /\ pushed' = IF stream = "open" THEN Append(pushed, no) ELSE pushed
         /\ UNCHANGED preReady

\* A reply settles its request and retires the dialogs that belong to it.
SettleReply(line) ==
    LET r == line.of IN
    /\ IF r \in Pending
       THEN /\ call' = [call EXCEPT ![r] = IF line.ok THEN "ok" ELSE "refused"]
            /\ FinishDialogs({d \in Open : r \in dialogs[d]}, Pending \ {r})
       ELSE UNCHANGED <<call, clock, uiVars>>
    /\ UNCHANGED <<preReady, pushed>>

\* A dialog stops the timers of the prompts that wait.
WaitForDialog(line) ==
    /\ IF line.of \in Open
       THEN UNCHANGED <<clock, uiVars>>
       ELSE /\ dialogs' = [d \in Open \cup {line.of} |->
                              IF d = line.of THEN PendingPrompts ELSE dialogs[d]]
            /\ expiring' = IF line.timeout THEN expiring \cup {line.of} ELSE expiring
            /\ clock' = clock \ PendingPrompts
    /\ UNCHANGED call
    /\ Keep(line.no)

HandleLine ==
    /\ pipe # <<>>
    /\ LET line == Head(pipe) IN
       CASE line.is = "reply" -> SettleReply(line)
         [] line.is = "dialog" -> WaitForDialog(line)
         [] line.is = "settled" -> ClearDialogs /\ UNCHANGED <<call, clock>> /\ Keep(line.no)
         [] OTHER -> UNCHANGED <<call, clock, uiVars>> /\ Keep(line.no)
    /\ pipe' = Tail(pipe)
    /\ UNCHANGED <<child, received, wrote, runs, exit, prompting, handshake, stream, endVars>>

\* The exit event, which the operating system may deliver before the last lines.
HandleExit ==
    /\ ~HandshakeDecided
    /\ child = "dead" /\ exit = "no"
    /\ exit' = "exited"
    /\ Fail
    /\ UNCHANGED <<piVars, prompting, handshake, preReady, pushed, endVars>>

\* The error event of a child that could not be started; no exit follows.
HandleSpawnFailure ==
    /\ ~HandshakeDecided
    /\ child = "missing" /\ exit = "no"
    /\ exit' = "unspawned"
    /\ Fail
    /\ UNCHANGED <<piVars, prompting, handshake, preReady, pushed, endVars>>
-----------------------------------------------------------------------------
(* The environment: pi and the operating system.                           *)

PiUnchanged == UNCHANGED <<exit, callVars, uiVars, streamVars, endVars>>

\* An accepted prompt starts a run.
PiReplies(r) ==
    /\ child = "running" /\ r \in received
    /\ received' = received \ {r}
    /\ \E ok \in BOOLEAN :
          /\ pipe' = Append(pipe, Reply(r, ok))
          /\ runs' = IF ok /\ r \in prompting THEN runs \cup {r} ELSE runs
    /\ UNCHANGED <<child, wrote>> /\ PiUnchanged

PiWrites(line) ==
    /\ child = "running" /\ wrote < MaxRecords
    /\ pipe' = Append(pipe, line)
    /\ wrote' = wrote + 1
    /\ UNCHANGED <<child, received>> /\ PiUnchanged

\* pi may ask at startup, before it accepts a prompt, and during a run.
PiAsks(d) ==
    /\ d \notin Open
    /\ \A i \in DOMAIN pipe : pipe[i].is = "dialog" => pipe[i].of # d
    /\ \E timeout \in BOOLEAN : PiWrites(Asking(d, wrote + 1, timeout))
    /\ UNCHANGED runs

PiSpeaks == PiWrites(Event(wrote + 1)) /\ UNCHANGED runs

PiSettles(r) ==
    /\ r \in runs
    /\ runs' = runs \ {r}
    /\ PiWrites(Settled(wrote + 1))

Dies ==
    /\ child = "running"
    /\ child' = "dead"
    /\ received' = {} /\ runs' = {}
    /\ UNCHANGED <<pipe, wrote>> /\ PiUnchanged
-----------------------------------------------------------------------------
Init ==
    /\ child = "none" /\ received = {} /\ pipe = <<>> /\ wrote = 0 /\ runs = {}
    /\ exit = "no"
    /\ call = [r \in Calls |-> "idle"] /\ prompting = {} /\ clock = {}
    /\ dialogs = <<>> /\ expiring = {}
    /\ handshake = "no" /\ preReady = <<>> /\ pushed = <<>> /\ stream = "open"
    /\ closing = FALSE /\ terminator = "no" /\ closer = "no" /\ signals = {}

Transport ==
    \/ \E r \in Calls : RequestTimesOut(r)
    \/ WaitReady \/ HandshakeEnds \/ HandshakeDeadline
    \/ Terminate \/ TerminateEnds
    \/ Close \/ CloseConfirmed \/ CloseEscalates
    \/ \E d \in Dialogs : DialogExpires(d) \/ RespondUi(d)
    \/ HandleLine \/ HandleExit \/ HandleSpawnFailure

Pi ==
    \/ \E r \in Calls : PiReplies(r) \/ PiSettles(r)
    \/ \E d \in Dialogs : PiAsks(d)
    \/ PiSpeaks \/ Dies

\* Undisturbed turns: a prompt is sent when the one before has settled.
Next ==
    \/ \E r \in Calls : Ask(r) /\ (r \in prompting' => Quiet)
    \/ Transport \/ Pi

\* After an abort the next prompt may be sent while pi still ends the last run.
LooseNext == (\E r \in Calls : Ask(r)) \/ Transport \/ Pi

\* Timers fire, lines and exits are read, a killed process dies.  Nothing is
\* assumed of pi, of the people it asks, or of who calls close and terminate.
Fairness ==
    /\ WF_vars(HandleLine) /\ WF_vars(HandleExit) /\ WF_vars(HandleSpawnFailure)
    /\ WF_vars(HandshakeEnds) /\ WF_vars(HandshakeDeadline)
    /\ \A r \in Calls : WF_vars(RequestTimesOut(r))
    /\ \A d \in Dialogs : WF_vars(DialogExpires(d))
    /\ WF_vars(TerminateEnds) /\ WF_vars(CloseConfirmed) /\ WF_vars(CloseEscalates)
    /\ WF_vars("SIGKILL" \in signals /\ Dies)

Spec == Init /\ [][Next]_vars /\ Fairness
LooseSpec == Init /\ [][LooseNext]_vars /\ Fairness
-----------------------------------------------------------------------------
TypeOK ==
    /\ child \in {"none", "missing", "running", "dead"}
    /\ pipe \in Seq(Line)
    /\ received \subseteq Calls /\ runs \subseteq Calls /\ wrote \in 0..MaxRecords
    /\ exit \in {"no", "unspawned", "exited"}
    /\ call \in [Calls -> {"idle", "sent", "ok", "refused"}]
    /\ prompting \subseteq Calls /\ clock \subseteq Pending
    /\ Open \subseteq Dialogs /\ expiring \subseteq Open
    /\ \A d \in Open : dialogs[d] \subseteq Calls
    /\ handshake \in {"no", "waiting", "ready", "failed"}
    /\ preReady \in Seq(1..MaxRecords) /\ pushed \in Seq(1..MaxRecords)
    /\ stream \in {"open", "closed", "failed"}
    /\ closing \in BOOLEAN
    /\ terminator \in {"no", "waiting", "done"}
    /\ closer \in {"no", "eof", "term", "kill", "done"}
    /\ signals \subseteq {"EOF", "SIGTERM", "SIGKILL"}

\* A prompt's deadline runs exactly while nobody is being asked anything, and
\* every other pending request has one: no request of a usable child can wait
\* without a bound (rpc.ts:493-540).
PromptClock ==
    ~closing /\ exit = "no" =>
        \A r \in Pending : r \in clock <=> (r \in prompting => ~waitingForUi)

\* Once the child's end is known nobody waits for it: no request is pending and
\* a reader of the events is released (rpc.ts:409-439).
EndReleasesAll == exit # "no" => Pending = {} /\ stream # "open"

\* The records reach the events in the order pi wrote them, each once, those
\* before the handshake included; only a tail can be lost, when the child ends
\* (rpc.ts:216-236, 288-294, 357-361).
RecordsInOrder ==
    /\ \A i \in DOMAIN pushed : pushed[i] = i
    /\ stream = "open" =>
          /\ \A i \in DOMAIN Arrived : Arrived[i] = i
          /\ {pipe[i].no : i \in Records} = Len(Arrived) + 1 .. wrote
          /\ \A i, j \in Records : i < j => pipe[i].no < pipe[j].no

\* When close returns, the child is gone or has been sent the signal it cannot
\* refuse, also when another ending was under way (rpc.ts:601-633).
ClosedChildIsDoomed ==
    closer = "done" => child # "running" \/ "SIGKILL" \in signals

\* A child that ends takes nothing with it that somebody waits for and nothing out
\* of its order.
EndLosesNothing == EndReleasesAll /\ RecordsInOrder /\ ClosedChildIsDoomed

(* Why they hold: an inductive invariant.                                  *)

IsReply(i, r) == pipe[i].is = "reply" /\ pipe[i].of = r

\* A request is asked once, answered at most once, and only what was asked.
AskedOnce ==
    /\ \A r \in received \cup prompting \cup runs : call[r] # "idle"
    /\ \A i \in DOMAIN pipe : pipe[i].is = "reply" =>
          call[pipe[i].of] # "idle" /\ pipe[i].of \notin received

\* Of a usable child pi has at most one prompt to answer, and it answers that
\* before it settles a run: the end of a run finds no prompt waiting behind a
\* dialog.
AnsweredBeforeSettled ==
    ~closing /\ exit = "no" =>
        /\ \A q, r \in PendingPrompts : q = r
        /\ received \cap prompting \subseteq Pending
        /\ runs # {} => \A r \in PendingPrompts : \E i \in DOMAIN pipe : IsReply(i, r)
        /\ \A i \in DOMAIN pipe : pipe[i].is = "settled" =>
              \A r \in PendingPrompts : \E j \in 1..(i - 1) : IsReply(j, r)

\* Records are handed on when the handshake has ended well and not before, and
\* none is read that pi did not write.
HeldBack ==
    /\ handshake # "ready" => pushed = <<>>
    /\ stream = "open" => Len(Arrived) \in 0..wrote

\* Who began to end the child, and what that has done to it.
Ending ==
    /\ closing <=> terminator # "no" \/ closer # "no"
    /\ exit = "exited" => child = "dead"
    /\ exit = "unspawned" => child = "missing"
    /\ terminator # "no" => child # "running" \/ "SIGKILL" \in signals
    /\ closer = "kill" => "SIGKILL" \in signals
    /\ closer = "done" => child # "running" \/ "SIGKILL" \in signals

Inductive ==
    AskedOnce /\ AnsweredBeforeSettled /\ HeldBack /\ Ending
    /\ PromptClock /\ EndReleasesAll /\ RecordsInOrder

\* Every request is settled, or somebody is being asked (rpc.ts:446-509).
EveryRequestSettles ==
    \A r \in Calls : call[r] = "sent" ~> (call[r] # "sent" \/ waitingForUi)

\* Ending a child ends: close returns within its three grace periods and
\* terminate within one, also for a child that never started (rpc.ts:561-648).
EndingEnds ==
    /\ closer # "no" ~> closer = "done"
    /\ terminator # "no" ~> terminator = "done" /\ Pending = {}

\* Nothing that was begun waits for ever.
NothingHangs == EveryRequestSettles /\ EndingEnds
=============================================================================
