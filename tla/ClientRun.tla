------------------------------ MODULE ClientRun ------------------------------
(***************************************************************************)
(* One `prefaix run`: what a line makes the client ask of the daemon, the  *)
(* keys pressed meanwhile, the answers, events and end that come back over *)
(* one ordered connection, and what is left to the shell at the end        *)
(* (src/client/run.ts: run, runTurn and runCommand).                       *)
(*                                                                         *)
(* The daemon is what operations.ts and turns.ts let a client see of one   *)
(* turn.  Promises are settled by messages and keys; the continuation of   *)
(* the one coroutine runs before the next key, but possibly after further  *)
(* messages of the same chunk.                                             *)
(***************************************************************************)
EXTENDS Naturals, Sequences, FiniteSets

CONSTANTS MaxEvents   \* bound: events of the turn

VARIABLES
    kind,      \* what the line asks for
    pc,        \* where the coroutine is
    calls,     \* the operations a command has still to call
    race,      \* what the awaited promise settled with, or None
    ended,     \* what `ended` settled with, or None
    control,   \* what `controlled` settled with, or None
    conv,      \* the conversation of the outcome
    acked,     \* acknowledged
    known,     \* turnId is set
    finished,
    aborted,   \* the controller's signal
    detach,    \* the detach signal
    abortSent, detachSent,
    seen,      \* sequence numbers shown
    told,      \* the user was told that output is missing
    typing,    \* the terminal is the client's
    captured,  \* characters typed ahead
    proposal,  \* the outcome's buffer: "none", "draft"
    agentText, \* the renderer's buffer
    exit,      \* the exit code so far
    keep,      \* preserveBackgroundStatus
    result,    \* what the shell gets
    toDaemon, toClient,  \* the connection, in order
    turn,      \* the daemon's turn: "none", "opening", "running", "ended"
    owned,     \* this connection owns it
    stop,      \* it was asked to stop
    next,      \* its next sequence number
    oldest,    \* the oldest event the ring still holds
    replay,    \* the client's attach is being replayed
    selected,  \* the conversation the daemon has for the shell
    alive      \* the daemon holds its end of the connection

clientVars == <<kind, pc, calls, race, ended, control, conv, acked, known, finished, aborted, detach, abortSent,
                detachSent, seen, told, typing, captured, proposal, agentText, exit, keep, result>>
daemonVars == <<turn, owned, stop, next, oldest, replay, selected, alive>>
runVars == <<clientVars, toDaemon, toClient, daemonVars>>

None == [is |-> "none"]
Turns == {"prompt", "suggest", "commit", "attach", "newText"}
Commands == {"new", "switch", "previous", "model", "info", "abort"}
Edit == kind \in {"suggest", "commit"}
Attach == kind = "attach"

\* What a command calls before it is done, or before its prompt.
Script(k) ==
    CASE k \in {"new", "newText"} -> <<"conv.new">>
      [] k = "switch"   -> <<"conv.list", "conv.get">>
      [] k = "previous" -> <<"conv.previous">>
      [] k = "model"    -> <<"model.list", "model.set">>
      [] k = "info"     -> <<"status.get">>
      [] k = "abort"    -> <<"turn.abort conversation">>
      [] OTHER          -> <<>>

\* What such a command leaves the shell on.
Chosen(k) == CASE k \in {"new", "newText"} -> "new" [] k = "switch" -> "c2" [] k = "previous" -> "c3" [] OTHER -> conv

\* What the shell gets: the directives, the status file and a commit made for it.
NoResult == [conversation |-> "", status |-> "none", file |-> "daemon's", buffer |-> <<>>, committed |-> FALSE]

-----------------------------------------------------------------------------
(* The daemon, as a client sees it. *)

Send(messages) == toClient' = toClient \o messages
Res(op, ok) == [t |-> "res", op |-> op, ok |-> ok]
End(status, buffer) == [t |-> "end", status |-> status, buffer |-> buffer]
Evt(n) == [t |-> "evt", seq |-> n]

Request(op) == alive /\ toDaemon # <<>> /\ Head(toDaemon) = op /\ toDaemon' = Tail(toDaemon)

\* A start claims a turn; the acknowledgement waits for the agent.
DaemonStart ==
    /\ Request("turn.start")
    /\ turn' = "opening" /\ owned' = TRUE
    /\ UNCHANGED <<clientVars, toClient, stop, next, oldest, replay, selected, alive>>

\* A notice about the conversation comes before the acknowledgement.
DaemonOpened ==
    /\ alive /\ turn = "opening"
    /\ \/ turn' = "running" /\ Send(<<Res("turn.start", TRUE)>>) /\ UNCHANGED next
       \/ turn' = "running" /\ Send(<<Evt(1), Res("turn.start", TRUE)>>) /\ next' = 2
       \/ turn' = "ended" /\ Send(<<Res("turn.start", FALSE)>>) /\ UNCHANGED next
    /\ UNCHANGED <<clientVars, toDaemon, owned, stop, oldest, replay, selected, alive>>

DaemonEvent ==
    /\ alive /\ turn = "running" /\ next <= MaxEvents
    /\ next' = next + 1
    /\ IF owned /\ ~replay THEN Send(<<Evt(next)>>) ELSE UNCHANGED toClient
    /\ UNCHANGED <<clientVars, toDaemon, turn, owned, stop, oldest, replay, selected, alive>>

\* The ring lets go of its oldest event.
DaemonEvicts ==
    /\ alive /\ oldest < next /\ ~owned
    /\ oldest' = oldest + 1
    /\ UNCHANGED <<clientVars, toDaemon, toClient, turn, owned, stop, next, replay, selected, alive>>

\* A turn that was asked to stop ends aborted, an edit turn even at the last moment.
DaemonEnds ==
    /\ alive /\ turn = "running"
    /\ turn' = "ended" /\ owned' = FALSE
    /\ \E status \in {"stop", "error", "aborted"} :
         /\ status = "aborted" <=> stop
         /\ IF owned /\ ~replay
            THEN Send(<<End(status, IF Edit /\ status = "stop" THEN "draft" ELSE "none")>>)
            ELSE UNCHANGED toClient
    /\ UNCHANGED <<clientVars, toDaemon, stop, next, oldest, replay, selected, alive>>

Stoppable == turn = "opening" \/ turn = "running"

\* An abort by id reaches any turn that is live, one by conversation a turn of its own.
DaemonAbort ==
    /\ alive
    /\ \E op \in {"turn.abort", "turn.abort conversation"} :
         /\ Request(op)
         /\ stop' = (stop \/ Stoppable)
         /\ Send(<<Res(op, Stoppable)>>)
    /\ UNCHANGED <<clientVars, turn, owned, next, oldest, replay, selected, alive>>

DaemonDetach ==
    /\ Request("turn.detach")
    /\ LET may == turn = "running" /\ owned IN
       /\ owned' = (owned /\ ~may)
       /\ Send(<<Res("turn.detach", may)>>)
    /\ UNCHANGED <<clientVars, turn, stop, next, oldest, replay, selected, alive>>

\* An attach owns a live turn at once and is answered when the replay has caught up.
DaemonAttach ==
    /\ Request("turn.attach")
    /\ IF turn = "none"
       THEN Send(<<Res("turn.attach", FALSE)>>) /\ UNCHANGED <<owned, replay>>
       ELSE replay' = TRUE /\ owned' = (turn = "running") /\ UNCHANGED toClient
    /\ UNCHANGED <<clientVars, turn, stop, next, oldest, selected, alive>>

\* The replay waits whenever the client does not read: it catches up in one go here.
DaemonReplayed ==
    /\ alive /\ replay
    /\ replay' = FALSE
    /\ Send([i \in 1..(next - oldest) |-> Evt(oldest + i - 1)]
            \o (IF turn = "ended" THEN <<End(IF stop THEN "aborted" ELSE "stop", "none")>> ELSE <<>>)
            \o <<Res("turn.attach", TRUE)>>)
    /\ UNCHANGED <<clientVars, toDaemon, turn, owned, stop, next, oldest, selected, alive>>

\* Everything else is answered, or refused.
DaemonAnswers ==
    /\ alive
    /\ \E op \in {"conv.new", "conv.list", "conv.get", "conv.previous", "model.list", "model.set", "status.get",
                  "commands.list", "conv.select"}, ok \in BOOLEAN :
         /\ Request(op)
         /\ Send(<<Res(op, ok)>>)
         /\ selected' = IF op = "conv.select" /\ ok THEN conv ELSE selected
    /\ UNCHANGED <<clientVars, turn, owned, stop, next, oldest, replay, alive>>

\* The daemon goes: what it sent arrives, then the close.
DaemonGone ==
    /\ alive /\ alive' = FALSE
    /\ Send(<<[t |-> "close"]>>) /\ toDaemon' = <<>>
    /\ UNCHANGED <<clientVars, turn, owned, stop, next, oldest, replay, selected>>
-----------------------------------------------------------------------------
(* The client. *)

InTurn == pc \in {"ack", "follow"}
Waiting == pc \in {"commandWait", "ack", "follow", "select", "status", "list"}

\* A key is read between two continuations, while the client has the terminal.
Idle == Waiting /\ race = None /\ typing

\* The client has seen the connection close.
Closed == ~alive /\ toClient = <<>>

\* What is written to a daemon that is gone is lost.
Ask(op) == toDaemon' = IF alive THEN Append(toDaemon, op) ELSE toDaemon

\* The catch of run().
Fail ==
    /\ pc' = "finally" /\ exit' = "error"
    /\ result' = [result EXCEPT !.status = "error"]

\* A call on a closed connection is refused.
Issue(op, then) ==
    /\ race' = None
    /\ IF Closed THEN Fail /\ UNCHANGED toDaemon
       ELSE pc' = then /\ Ask(op) /\ UNCHANGED <<exit, result>>

\* Mutant of Aborts: only what is known when the key is pressed is aborted.
AbortsOnce(named) ==
    /\ abortSent' = TRUE
    /\ IF named /\ ~abortSent THEN Ask("turn.abort") ELSE UNCHANGED toDaemon
    /\ control' = IF Attach /\ control = None THEN [is |-> "aborted"] ELSE control

\* onAbort: once, and only when there is something to name; an attach stops at once.
Aborts(named) ==
    /\ abortSent' = (abortSent \/ named \/ Attach)
    /\ IF ~abortSent /\ (named \/ Attach)
       THEN Ask(IF named THEN "turn.abort" ELSE "turn.abort conversation")
       ELSE UNCHANGED toDaemon
    /\ control' = IF Attach /\ control = None THEN [is |-> "aborted"] ELSE control

\* onDetach: once, for a turn that was acknowledged or is being followed.
MayDetach == detach /\ ~detachSent /\ ~finished

\* What an await of `ended` or of the request against `controlled` sees.
Settles(what) == race' = IF InTurn /\ race = None THEN what ELSE race

PressAbort ==
    /\ Idle /\ ~aborted
    /\ aborted' = TRUE
    /\ IF InTurn THEN Aborts(known) ELSE UNCHANGED <<abortSent, toDaemon, control>>
    /\ IF InTurn /\ Attach THEN Settles([is |-> "control"]) ELSE UNCHANGED race
    /\ UNCHANGED <<kind, pc, calls, ended, conv, acked, known, finished, detach, detachSent, seen, told, typing,
                   captured, proposal, agentText, exit, keep, result, toClient, daemonVars>>

\* An edit turn refuses to be detached.
PressDetach ==
    /\ Idle /\ ~detach /\ ~Edit
    /\ detach' = TRUE
    /\ IF InTurn /\ known /\ (acked \/ Attach)
       THEN detachSent' = TRUE /\ Ask("turn.detach")
       ELSE UNCHANGED <<detachSent, toDaemon>>
    /\ UNCHANGED <<kind, pc, calls, race, ended, control, conv, acked, known, finished, aborted, abortSent, seen,
                   told, typing, captured, proposal, agentText, exit, keep, result, toClient, daemonVars>>

PressChar ==
    /\ Idle /\ captured = 0
    /\ captured' = 1
    /\ UNCHANGED <<kind, pc, calls, race, ended, control, conv, acked, known, finished, aborted, detach, abortSent,
                   detachSent, seen, told, typing, proposal, agentText, exit, keep, result, toDaemon, toClient,
                   daemonVars>>

Received == toClient # <<>> /\ toClient' = Tail(toClient)

\* The answer to turn.detach settles the turn, or says it cannot be detached.
DetachAnswered(ok) ==
    LET outcome == IF ok THEN [is |-> "detached"] ELSE [is |-> "replay stopped"]
    IN  IF finished \/ (~ok /\ ~Attach) THEN UNCHANGED <<control, race>>
        ELSE /\ control' = IF control = None THEN outcome ELSE control
             /\ Settles([is |-> "control"])

\* The call whose promise the coroutine awaits: an answer settles its own.
Awaited ==
    CASE pc = "commandWait" -> Head(calls)
      [] pc = "ack"         -> IF Attach THEN "turn.attach" ELSE "turn.start"
      [] pc = "select"      -> "conv.select"
      [] pc = "status"      -> "status.get"
      [] pc = "list"        -> "commands.list"
      [] OTHER              -> "none"

\* The answers the coroutine awaits, the detach's, and those nobody reads.
ReceiveRes ==
    /\ Received /\ Head(toClient).t = "res"
    /\ LET m == Head(toClient) IN
       IF m.op = "turn.detach" THEN DetachAnswered(m.ok)
       ELSE /\ race' = IF race = None /\ m.op = Awaited THEN [is |-> "res", ok |-> m.ok] ELSE race
            /\ UNCHANGED control
    /\ UNCHANGED <<kind, pc, calls, ended, conv, acked, known, finished, aborted, detach, abortSent, detachSent,
                   seen, told, typing, captured, proposal, agentText, exit, keep, result, toDaemon, daemonVars>>

Newest == IF seen = {} THEN 0 ELSE CHOOSE n \in seen : \A m \in seen : m <= n

\* Mutant of Shown: the gap is not looked for.
ShownQuietly(n) == seen' = seen \cup {n} /\ UNCHANGED told

\* An event is shown once, and a hole before it is told to who attached.
Shown(n) ==
    IF n <= Newest THEN UNCHANGED <<seen, told>>
    ELSE /\ seen' = seen \cup {n}
         /\ told' = (told \/ (Attach /\ n > Newest + 1))

\* The first event may name the turn before its acknowledgement does.
ReceiveEvt ==
    /\ Received /\ Head(toClient).t = "evt"
    /\ IF finished THEN UNCHANGED <<known, abortSent, detachSent, control, race, seen, told, toDaemon>>
       ELSE /\ known' = TRUE
            /\ IF aborted
               THEN /\ Aborts(TRUE)
                    /\ IF Attach THEN Settles([is |-> "control"]) ELSE UNCHANGED race
                    /\ UNCHANGED detachSent
               ELSE /\ UNCHANGED <<abortSent, control, race>>
                    /\ IF Attach /\ MayDetach
                       THEN detachSent' = TRUE /\ Ask("turn.detach")
                       ELSE UNCHANGED <<detachSent, toDaemon>>
            /\ IF Attach /\ aborted THEN UNCHANGED <<seen, told>> ELSE Shown(Head(toClient).seq)
    /\ UNCHANGED <<kind, pc, calls, ended, conv, acked, finished, aborted, detach, typing, captured, proposal,
                   agentText, exit, keep, result, daemonVars>>

ReceiveEnd ==
    /\ Received /\ Head(toClient).t = "end"
    /\ ended' = IF ended = None
                THEN [is |-> "end", status |-> Head(toClient).status, buffer |-> Head(toClient).buffer] ELSE ended
    /\ race' = IF pc = "follow" /\ race = None THEN [is |-> "ended"] ELSE race
    /\ UNCHANGED <<kind, pc, calls, control, conv, acked, known, finished, aborted, detach, abortSent, detachSent,
                   seen, told, typing, captured, proposal, agentText, exit, keep, result, toDaemon, daemonVars>>

\* Mutant of CloseSettles: only the turn is told, not the calls.
CloseSettlesTurn == IF pc = "follow" /\ race = None THEN [is |-> "ended"] ELSE race

\* The close rejects every call and, while the turn runs, `ended`.
CloseSettles == IF ~Waiting \/ race # None THEN race
                ELSE IF pc = "follow" THEN [is |-> "ended"] ELSE [is |-> "res", ok |-> FALSE]

ReceiveClose ==
    /\ Received /\ Head(toClient).t = "close"
    /\ ended' = IF ended = None THEN [is |-> "closed"] ELSE ended
    /\ race' = CloseSettles
    /\ UNCHANGED <<kind, pc, calls, control, conv, acked, known, finished, aborted, detach, abortSent, detachSent,
                   seen, told, typing, captured, proposal, agentText, exit, keep, result, toDaemon, daemonVars>>
-----------------------------------------------------------------------------
(* The coroutine. *)

RunInit ==
    /\ kind \in Turns \cup Commands
    /\ pc = "connect" /\ calls = <<>> /\ race = None /\ ended = None /\ control = None
    /\ conv \in IF kind \in {"attach", "abort", "model"} THEN {"c1"} ELSE {"", "c1"}
    /\ acked = FALSE /\ known = FALSE /\ finished = FALSE /\ aborted = FALSE /\ detach = FALSE
    /\ abortSent = FALSE /\ detachSent = FALSE /\ seen = {} /\ told = FALSE /\ typing = FALSE /\ captured = 0
    /\ proposal = "none" /\ agentText = "none" /\ exit = "error" /\ keep = FALSE /\ result = NoResult
    /\ toDaemon = <<>> /\ toClient = <<>>
    /\ turn \in IF kind \in {"attach", "abort"} THEN {"none", "running", "ended"} ELSE {"none"}
    /\ owned = FALSE /\ stop = FALSE /\ next = 1 /\ oldest = 1 /\ replay = FALSE /\ selected = "c1" /\ alive = TRUE

\* Until the connection stands every error is the same; then a command has its calls to make.
Connect ==
    /\ pc = "connect"
    /\ \/ /\ alive
          /\ exit' = "ok" /\ calls' = Script(kind)
          /\ pc' = IF Script(kind) = <<>> THEN "begin" ELSE "command"
          /\ UNCHANGED result
       \/ ~alive /\ Fail /\ UNCHANGED calls
    /\ UNCHANGED <<kind, race, ended, control, conv, acked, known, finished, aborted, detach, abortSent, detachSent,
                   seen, told, typing, captured, proposal, agentText, keep, toDaemon, toClient, daemonVars>>

CallNext ==
    /\ pc = "command"
    /\ Issue(Head(calls), "commandWait")
    /\ UNCHANGED <<kind, calls, ended, control, conv, acked, known, finished, aborted, detach, abortSent, detachSent,
                   seen, told, typing, captured, proposal, agentText, keep, toClient, daemonVars>>

\* A refused call ends the command; a picker may be left without a choice.
CallAnswered ==
    /\ pc = "commandWait" /\ race # None
    /\ race' = None
    /\ IF ~race.ok THEN Fail /\ UNCHANGED <<calls, conv, keep>>
       ELSE /\ UNCHANGED exit
            /\ \/ /\ calls' = Tail(calls)
                  /\ IF Tail(calls) # <<>>
                     THEN pc' = "command" /\ UNCHANGED <<conv, keep, result>>
                     ELSE /\ conv' = Chosen(kind) /\ keep' = (kind = "abort")
                          /\ result' = [result EXCEPT !.conversation = conv']
                          /\ pc' = IF kind = "newText" THEN "begin" ELSE "chosen"
               \/ /\ kind \in {"switch", "model"} /\ Len(calls) > 1
                  /\ pc' = "chosen" /\ calls' = <<>> /\ UNCHANGED <<conv, keep, result>>
    /\ UNCHANGED <<kind, ended, control, acked, known, finished, aborted, detach, abortSent, detachSent,
                   seen, told, typing, captured, proposal, agentText, toDaemon, toClient, daemonVars>>

\* The terminal is taken over and the turn asked for.
BeginTurn ==
    /\ pc = "begin"
    /\ typing' = TRUE
    /\ Issue(IF Attach THEN "turn.attach" ELSE "turn.start", "ack")
    /\ UNCHANGED <<kind, calls, ended, control, conv, acked, known, finished, aborted, detach, abortSent, detachSent,
                   seen, told, captured, proposal, agentText, keep, toClient, daemonVars>>

\* What `controlled` made of the turn.
Controlled ==
    /\ finished' = TRUE /\ pc' = "chosen" /\ race' = None
    /\ exit' = IF control.is = "aborted" \/ (control.is = "detached" /\ aborted) THEN "aborted" ELSE "ok"
    /\ keep' = (keep \/ control.is = "detached")
    /\ result' = IF control.is = "detached" THEN [result EXCEPT !.status = "running"] ELSE result

\* The request was answered: what was pressed meanwhile can now be said.
Acknowledged ==
    /\ pc = "ack" /\ race # None /\ race.is = "res" /\ race.ok
    /\ pc' = "follow" /\ acked' = TRUE /\ known' = TRUE
    /\ conv' = IF conv = "" THEN "new" ELSE conv
    /\ result' = [result EXCEPT !.conversation = conv']
    /\ LET abort == aborted /\ ~abortSent
           away  == MayDetach
       IN  /\ abortSent' = (abortSent \/ abort)
           /\ detachSent' = (detachSent \/ away)
           /\ toDaemon' = IF alive THEN toDaemon \o (IF abort THEN <<"turn.abort">> ELSE <<>>)
                                                \o (IF away THEN <<"turn.detach">> ELSE <<>>)
                          ELSE toDaemon
    /\ race' = IF ended # None THEN [is |-> "ended"] ELSE IF control # None THEN [is |-> "control"] ELSE None
    /\ UNCHANGED <<kind, calls, ended, control, finished, aborted, detach, seen, told, typing, captured, proposal,
                   agentText, exit, keep, toClient, daemonVars>>

Refused ==
    /\ pc = "ack" /\ race # None /\ race.is = "res" /\ ~race.ok
    /\ Fail /\ finished' = TRUE /\ race' = None
    /\ UNCHANGED <<kind, calls, ended, control, conv, acked, known, aborted, detach, abortSent, detachSent,
                   seen, told, typing, captured, proposal, agentText, keep, toDaemon, toClient, daemonVars>>

\* The end decides the exit code, and an edit that stopped leaves its draft.
TurnEnded ==
    /\ pc = "follow" /\ race # None /\ race.is = "ended"
    /\ finished' = TRUE /\ race' = None
    /\ IF ended.is = "closed" THEN Fail /\ UNCHANGED proposal
       ELSE /\ exit' = IF ended.status = "stop" THEN "ok" ELSE ended.status
            /\ proposal' = IF (Edit \/ Attach) /\ ended.status = "stop" THEN ended.buffer ELSE "none"
            /\ pc' = "chosen" /\ UNCHANGED result
    /\ UNCHANGED <<kind, calls, ended, control, conv, acked, known, aborted, detach, abortSent, detachSent,
                   seen, told, typing, captured, agentText, keep, toDaemon, toClient, daemonVars>>

TurnControlled ==
    /\ InTurn /\ race # None /\ race.is = "control"
    /\ Controlled
    /\ UNCHANGED <<kind, calls, ended, control, conv, acked, known, aborted, detach, abortSent, detachSent,
                   seen, told, typing, captured, proposal, agentText, toDaemon, toClient, daemonVars>>

\* The shell's conversation is told to the daemon.
Select ==
    /\ pc = "chosen"
    /\ IF conv = "" THEN pc' = "finally" /\ race' = None /\ UNCHANGED <<exit, result, toDaemon>>
       ELSE IF Closed THEN Fail /\ race' = None /\ UNCHANGED toDaemon
       ELSE /\ pc' = "select" /\ race' = None /\ Ask("conv.select") /\ UNCHANGED exit
            /\ result' = [result EXCEPT !.conversation = conv]
    /\ UNCHANGED <<kind, calls, ended, control, conv, acked, known, finished, aborted, detach, abortSent, detachSent,
                   seen, told, typing, captured, proposal, agentText, keep, toClient, daemonVars>>

\* A background turn has its own status; otherwise it is read for the prompt.
Selected ==
    /\ pc = "select" /\ race # None
    /\ IF ~race.ok THEN Fail /\ race' = None /\ UNCHANGED toDaemon
       ELSE IF keep THEN pc' = "finally" /\ race' = None /\ UNCHANGED <<exit, result, toDaemon>>
       ELSE Issue("status.get", "status")
    /\ UNCHANGED <<kind, calls, ended, control, conv, acked, known, finished, aborted, detach, abortSent, detachSent,
                   seen, told, typing, captured, proposal, agentText, keep, toClient, daemonVars>>

StatusRead ==
    /\ pc = "status" /\ race # None
    /\ IF ~race.ok THEN Fail /\ race' = None /\ UNCHANGED toDaemon ELSE Issue("commands.list", "list")
    /\ UNCHANGED <<kind, calls, ended, control, conv, acked, known, finished, aborted, detach, abortSent, detachSent,
                   seen, told, typing, captured, proposal, agentText, keep, toClient, daemonVars>>

\* The list of commands is only cached: failing to get it fails nothing.
ListRead ==
    /\ pc = "list" /\ race # None
    /\ race' = None /\ pc' = "finally"
    /\ result' = [result EXCEPT !.status = IF exit \in {"aborted", "error"} THEN exit ELSE "label"]
    /\ UNCHANGED <<kind, calls, ended, control, conv, acked, known, finished, aborted, detach, abortSent, detachSent,
                   seen, told, typing, captured, proposal, agentText, exit, keep, toDaemon, toClient, daemonVars>>

\* The status file is the daemon's while a turn runs in the background.
Leave(r) ==
    [r EXCEPT !.file = IF r.status # "none" /\ ~keep THEN r.status ELSE @,
              !.buffer = (IF agentText' = "draft" THEN <<"draft">> ELSE <<>>)
                         \o (IF captured > 0 THEN <<"typed">> ELSE <<>>)]

\* Mutant of Withdrawn: what the terminal still held is not looked at.
WithdrawnEarly(late) == aborted /\ (Edit \/ Attach) /\ exit = "ok"

\* An Esc withdraws an edit even when it is read as the terminal is put back.
Withdrawn(late) == (aborted \/ late) /\ (Edit \/ Attach) /\ exit = "ok"

Finally ==
    /\ pc = "finally"
    /\ typing' = FALSE
    /\ \E late \in {FALSE, typing} :
         LET quit == Withdrawn(late)
             used == exit = "ok" /\ ~quit /\ proposal # "none"
         IN  /\ aborted' = (aborted \/ late)
             /\ exit' = IF quit THEN "aborted" ELSE exit
             /\ agentText' = IF used /\ kind # "commit" THEN "draft" ELSE agentText
             /\ pc' = IF used /\ kind = "commit" THEN "commit" ELSE "done"
             /\ result' = IF used /\ kind = "commit" THEN result
                          ELSE Leave(IF quit THEN [result EXCEPT !.status = "aborted"] ELSE result)
    /\ UNCHANGED <<kind, calls, race, ended, control, conv, acked, known, finished, detach, abortSent, detachSent,
                   seen, told, captured, proposal, keep, toDaemon, toClient, daemonVars>>

\* `:commit --run` makes the commit, or says why not (the index moved, git refused).
Commit ==
    /\ pc = "commit" /\ pc' = "done" /\ UNCHANGED agentText
    /\ \/ exit' = "ok" /\ result' = Leave([result EXCEPT !.committed = TRUE])
       \/ exit' = "error" /\ result' = Leave([result EXCEPT !.status = "error"])
    /\ UNCHANGED <<kind, calls, race, ended, control, conv, acked, known, finished, aborted, detach, abortSent,
                   detachSent, seen, told, typing, captured, proposal, keep, toDaemon, toClient, daemonVars>>

ClientStep ==
    \/ Connect \/ CallNext \/ CallAnswered \/ BeginTurn \/ Acknowledged \/ Refused \/ TurnEnded \/ TurnControlled
    \/ Select \/ Selected \/ StatusRead \/ ListRead \/ Finally \/ Commit
    \/ ReceiveRes \/ ReceiveEvt \/ ReceiveEnd \/ ReceiveClose
DaemonStep ==
    \/ DaemonStart \/ DaemonOpened \/ DaemonAbort \/ DaemonDetach \/ DaemonAttach \/ DaemonReplayed \/ DaemonAnswers
RunNext ==
    \/ ClientStep \/ DaemonStep \/ DaemonEvent \/ DaemonEvicts \/ DaemonEnds \/ DaemonGone
    \/ PressAbort \/ PressDetach \/ PressChar

(* The client and the daemon go on; a turn that was asked to stop ends.     *)
RunSpec == /\ RunInit /\ [][RunNext]_runVars
           /\ WF_runVars(ClientStep) /\ WF_runVars(DaemonStep) /\ WF_runVars(stop /\ DaemonEnds)
-----------------------------------------------------------------------------
Done == pc = "done"

(* An Esc pressed while the turn is being started, acknowledged or followed *)
(* reaches the daemon, whatever was known of the turn when it was pressed:  *)
(* the turn is told to stop, unless it is over or the connection is gone    *)
(* (onAbort of runTurn and its three calls).                                *)
AbortReachesTheTurn == (InTurn /\ aborted) ~> (stop \/ turn \in {"none", "ended"} \/ ~alive)

(* A client that lost its daemon, or was told to abort, gives the shell its *)
(* prompt back.                                                             *)
RunEnds == ((InTurn /\ aborted) \/ ~alive) ~> Done

(* A draft the user withdrew is neither put into the buffer nor committed,  *)
(* even when the Esc came after the daemon's end of the turn ("a key        *)
(* flushed during tty restoration can withdraw an edit").                   *)
WithdrawnIsNotUsed ==
    (Done /\ aborted /\ (Edit \/ Attach)) => /\ exit # "ok" /\ ~result.committed
                                            /\ agentText = "none"

(* A client that says the turn goes on in the background has let go of it:  *)
(* the daemon no longer counts it as this connection's, and the status file *)
(* is left to the daemon (detach of runTurn, preserveBackgroundStatus).     *)
DetachedIsLetGo ==
    (Done /\ keep) => /\ result.file = "daemon's"
                      /\ (kind \in Turns => ~owned)

(* When a run succeeds, the shell goes on with the conversation the daemon  *)
(* has for it, and what was typed meanwhile comes back.                     *)
ShellGoesOn ==
    Done => /\ (exit = "ok" /\ conv # "" => result.conversation = conv /\ selected = conv)
            /\ (captured > 0 => "typed" \in {result.buffer[i] : i \in DOMAIN result.buffer})

(* However a run ends, what it leaves is what the user decided: nothing     *)
(* withdrawn is used, nothing detached is claimed, nothing typed is lost.   *)
RunLeavesCleanly == WithdrawnIsNotUsed /\ DetachedIsLetGo /\ ShellGoesOn

(* Output that fell out of the ring before an attach, or in the middle of   *)
(* its replay, is never skipped silently.                                   *)
HolesAreTold == (Newest > Cardinality(seen)) => told
-----------------------------------------------------------------------------
(* Why they hold: an inductive invariant.                                   *)

CallOps == {"conv.new", "conv.list", "conv.get", "conv.previous", "model.list", "model.set", "status.get",
            "turn.abort conversation"}
Ops == CallOps \cup {"turn.start", "turn.attach", "turn.abort", "turn.detach", "commands.list", "conv.select"}
Statuses == {"stop", "error", "aborted"}
Message ==
    [t : {"res"}, op : Ops, ok : BOOLEAN] \cup [t : {"evt"}, seq : Nat]
        \cup [t : {"end"}, status : Statuses, buffer : {"none", "draft"}] \cup [t : {"close"}]

Convs == {"", "c1", "c2", "c3", "new"}
Labels == {"none", "running", "label", "error", "aborted"}
Results == [conversation : Convs, status : Labels, file : {"daemon's"} \cup Labels,
            buffer : Seq({"draft", "typed"}), committed : BOOLEAN]
Early == {"connect", "command", "commandWait", "begin"}
Late == {"select", "status", "list", "finally", "commit", "done"}

PlaceTypes ==
    /\ kind \in Turns \cup Commands /\ pc \in Early \cup {"ack", "follow", "chosen"} \cup Late
    /\ calls \in Seq(CallOps) /\ (pc \in {"command", "commandWait"} => calls # <<>>)
RaceTypes ==
    /\ race \in [is : {"none", "ended", "control"}] \cup [is : {"res"}, ok : BOOLEAN]
    /\ ended \in [is : {"none", "closed"}]
                  \cup [is : {"end"}, status : Statuses, buffer : {"none", "draft"}]
    /\ race.is = "ended" => ended.is # "none"
    /\ control \in [is : {"none", "aborted", "detached", "replay stopped"}]
FlagTypes ==
    /\ acked \in BOOLEAN /\ known \in BOOLEAN /\ finished \in BOOLEAN /\ aborted \in BOOLEAN
    /\ detach \in BOOLEAN /\ abortSent \in BOOLEAN /\ detachSent \in BOOLEAN
    /\ told \in BOOLEAN /\ typing \in BOOLEAN /\ keep \in BOOLEAN
ShellTypes ==
    /\ conv \in Convs /\ exit \in {"ok", "error", "aborted"}
    /\ seen \subseteq Nat /\ captured \in Nat
    /\ proposal \in {"none", "draft"} /\ agentText \in {"none", "draft"}
    /\ result \in Results
WireTypes == toDaemon \in Seq(Ops) /\ toClient \in Seq(Message)
DaemonTypes ==
    /\ turn \in {"none", "opening", "running", "ended"} /\ selected \in Convs
    /\ owned \in BOOLEAN /\ stop \in BOOLEAN /\ replay \in BOOLEAN /\ alive \in BOOLEAN
    /\ next \in Nat /\ oldest \in Nat
RunTypes == PlaceTypes /\ RaceTypes /\ FlagTypes /\ ShellTypes /\ WireTypes /\ DaemonTypes

Asks(op) == \E i \in DOMAIN toDaemon : toDaemon[i] = op
Hears(m) == \E i \in DOMAIN toClient : toClient[i] = m
Claim == {"turn.start", "turn.attach"}
Claims == \E op \in Claim : Asks(op)
Once == \A i, j \in DOMAIN toDaemon : toDaemon[i] \in Claim /\ toDaemon[j] \in Claim => i = j

\* A run asks for one turn, once, and nothing of it is in flight before.
OneTurn ==
    /\ Once
    /\ pc \in {"begin", "ack", "follow"} => kind \in Turns
    /\ pc \in Early => /\ ~Claims /\ ~owned /\ ~typing /\ ~detach /\ ~keep /\ control.is # "detached"
                       /\ ~Asks("turn.detach") /\ ~Hears(Res("turn.detach", TRUE))
    /\ owned => ~Claims

\* A turn the daemon has let go of is not this connection's again.
LetGo ==
    control.is = "detached" \/ (keep /\ kind \in Turns) \/ Hears(Res("turn.detach", TRUE))
        => ~owned /\ ~Claims

\* The events in s come in order and without a hole after the first k, up to the turn's last while it is owned.
Silent(s) == \A i \in DOMAIN s : s[i].t # "evt"
Stream(s, k, mine, last) ==
    /\ \A i \in DOMAIN s : s[i].t = "evt" =>
           s[i].seq > k /\ \A n \in (k + 1)..s[i].seq : \E j \in DOMAIN s : j <= i /\ s[j] = Evt(n)
    /\ \A i, j \in DOMAIN s : i < j /\ s[i].t = "evt" /\ s[j].t = "evt" => s[i].seq < s[j].seq
    /\ mine => /\ k < last
               /\ \A i \in DOMAIN s : s[i].t = "evt" => s[i].seq < last
               /\ \A n \in (k + 1)..(last - 1) : \E j \in DOMAIN s : s[j] = Evt(n)

\* What has been shown is all there was, or the user was told.
Streamed ==
    /\ ~Attach => ~replay /\ ~Asks("turn.attach")
    /\ Attach => turn # "opening" /\ ~Asks("turn.start")
    /\ turn = "opening" => owned /\ next = 1
    /\ kind \in Turns \ {"attach"} /\ (pc \in Early \/ Claims) =>
           turn = "none" /\ next = 1 /\ seen = {} /\ Silent(toClient)
    /\ kind \in Commands => ~owned /\ ~Claims /\ Silent(toClient)
    /\ told \/ \E k \in {0} \cup seen : seen = 1..k /\ (~Attach /\ ~finished => Stream(toClient, k, owned, next))

\* The daemon's choice for the shell is the run's, once it has answered.
Settled == selected = conv /\ result.conversation = conv
Followed ==
    /\ Asks("conv.select") \/ (\E ok \in BOOLEAN : Hears(Res("conv.select", ok))) => pc \in Late
    /\ Hears(Res("conv.select", TRUE)) => selected = conv
    /\ pc \in {"commandWait", "select", "status", "list"} => race.is \in {"none", "res"}
    /\ pc = "select" => result.conversation = conv /\ (race.is = "res" /\ race.ok => selected = conv)
    /\ pc \in {"status", "list"} => Settled
    /\ pc \in {"finally", "commit", "done"} /\ exit = "ok" /\ conv # "" => Settled

\* Nothing is used, and the status file is not touched, before the run is over.
Unused ==
    /\ pc # "done" => agentText = "none" /\ ~result.committed /\ result.file = "daemon's"
    /\ pc = "commit" => kind = "commit" /\ exit = "ok" /\ ~aborted
    /\ Done => /\ WithdrawnIsNotUsed
               /\ keep => result.file = "daemon's"
               /\ captured > 0 => \E i \in DOMAIN result.buffer : result.buffer[i] = "typed"

\* Inductive with RunTypes.
Inductive == OneTurn /\ LetGo /\ Streamed /\ Followed /\ Unused
=============================================================================
