----------------------------- MODULE Connection -----------------------------
(***************************************************************************)
(* One client and the daemon's socket: finding or spawning a daemon within *)
(* a budget, the handshake, calls and answers that may overtake each other,*)
(* and either side closing (src/client/connection.ts; SocketServer and     *)
(* Router of src/daemon/server.ts; the envelope of src/core/protocol.ts).  *)
(***************************************************************************)
EXTENDS Naturals, Sequences, FiniteSets

CONSTANTS Budget,     \* AUTOSPAWN_BUDGET_MS in units of the first retry's wait
          MaxRetry,   \* MAX_RETRY_MS in the same unit
          MaxCalls    \* bound: calls the client makes

VARIABLES
    daemon,    \* "absent", "starting", "serving", "stopping", "stopped"
    version,   \* whether it speaks the client's protocol
    clock,     \* units since the spawn
    wait,      \* the next sleep of #poll, 0 when it is not polling
    due,       \* when the running sleep ends
    client,    \* "new", "polling", "hello" (handshake), "up", "failed", "closed"
    closing,   \* the server hung up on this connection (socket.end)
    linked,    \* the connection stands: "no", "up", "gone"
    greeted,   \* the router has had this connection's hello
    calls,     \* id -> "pending", "ok", "refused"
    running,   \* operations the daemon is working on
    toServer, toPeer,  \* the two directions, in order
    served     \* ids of operations that were run

connVars == <<daemon, version, clock, wait, due, client, closing, linked, greeted, calls, running, toServer, toPeer,
              served>>

Ids == DOMAIN calls
Hello(v) == [t |-> "hello", v |-> v]
Req(id) == [t |-> "req", id |-> id]
Answer(id, ok) == [t |-> "res", id |-> id, ok |-> ok]
Least(a, b) == IF a < b THEN a ELSE b

ConnInit ==
    /\ daemon \in {"absent", "serving"} /\ version \in BOOLEAN
    /\ clock = 0 /\ wait = 0 /\ due = 0 /\ client = "new" /\ closing = FALSE /\ linked = "no" /\ greeted = FALSE
    /\ calls = <<>> /\ running = {} /\ toServer = <<>> /\ toPeer = <<>> /\ served = {}
-----------------------------------------------------------------------------
(* The client looks for a daemon. *)

\* #open on a socket that answers: the hello is written, and its answer awaited.
Link == /\ linked' = "up" /\ client' = "hello" /\ greeted' = FALSE /\ closing' = FALSE
        /\ toServer' = <<Hello(TRUE)>> /\ toPeer' = <<>> /\ wait' = 0

OpenFirst ==
    /\ client = "new"
    /\ IF daemon = "serving"
       THEN Link /\ UNCHANGED <<daemon, due>>
       ELSE /\ client' = "polling" /\ wait' = 1 /\ due' = clock + 1
            /\ daemon' = IF daemon = "absent" THEN "starting" ELSE daemon
            /\ UNCHANGED <<linked, greeted, closing, toServer, toPeer>>
    /\ UNCHANGED <<version, clock, calls, running, served>>

\* Another sleep starts only before the deadline, each twice as long up to a cap.
Again == clock < Budget

\* A sleep of #poll ends: the socket is tried again.
OpenAgain ==
    /\ client = "polling" /\ clock = due
    /\ IF daemon = "serving" THEN Link /\ UNCHANGED due
       ELSE /\ IF Again
               THEN /\ wait' = Least(wait * 2, MaxRetry) /\ due' = clock + wait'
                    /\ UNCHANGED client
               ELSE client' = "failed" /\ wait' = 0 /\ UNCHANGED due
            /\ UNCHANGED <<linked, greeted, closing, toServer, toPeer>>
    /\ UNCHANGED <<daemon, version, clock, calls, running, served>>

\* Time passes while the client sleeps.
Tick ==
    /\ client = "polling" /\ clock < due
    /\ clock' = clock + 1
    /\ UNCHANGED <<daemon, version, wait, due, client, closing, linked, greeted, calls, running, toServer, toPeer, served>>

\* A spawned daemon listens, or gives up (external: DaemonLock has the whole start).
DaemonUp ==
    /\ daemon = "starting" /\ daemon' \in {"serving", "stopped"}
    /\ UNCHANGED <<version, clock, wait, due, client, closing, linked, greeted, calls, running, toServer, toPeer, served>>

\* The handshake timer.
HelloTimeout ==
    /\ client = "hello" /\ client' = "failed"
    /\ UNCHANGED <<daemon, version, clock, wait, due, closing, linked, greeted, calls, running, toServer, toPeer, served>>
-----------------------------------------------------------------------------
(* The client's messages. *)

\* Mutant of RejectAll: what was asked before the close is forgotten, not rejected.
RejectNone == calls

\* handleClose rejects every pending call.
RejectAll == [id \in Ids |-> IF calls[id] = "pending" THEN "refused" ELSE calls[id]]

\* A call has an id of its own, and is refused at once on a closed connection.
Call ==
    /\ client \in {"up", "closed"} /\ Len(calls) < MaxCalls
    /\ LET id == Len(calls) + 1 IN
       IF client = "up"
       THEN /\ calls' = Append(calls, "pending")
            /\ toServer' = IF linked = "up" THEN Append(toServer, Req(id)) ELSE toServer
       ELSE calls' = Append(calls, "refused") /\ UNCHANGED toServer
    /\ UNCHANGED <<daemon, version, clock, wait, due, client, closing, linked, greeted, running, toPeer, served>>

\* An answer settles the call of its id, if that still waits.
Settle(m) ==
    calls' = [i \in Ids |-> IF i = m.id /\ calls[i] = "pending"
                            THEN (IF m.ok THEN "ok" ELSE "refused") ELSE calls[i]]

\* A hello or a refusal ends the handshake; afterwards answers go to their calls.
ClientReads ==
    /\ toPeer # <<>> /\ toPeer' = Tail(toPeer) /\ client \in {"hello", "up", "failed"}
    /\ LET m == Head(toPeer) IN
       IF m.t = "hello"
       THEN client' = (IF client # "hello" THEN client ELSE IF m.v THEN "up" ELSE "failed") /\ UNCHANGED calls
       ELSE IF client = "hello" THEN client' = "failed" /\ UNCHANGED calls
       ELSE Settle(m) /\ UNCHANGED client
    /\ UNCHANGED <<daemon, version, clock, wait, due, closing, linked, greeted, running, toServer, served>>

\* The server's end is read after everything it wrote; node answers it with an end of its own.
ClientSeesClose ==
    /\ toPeer = <<>> /\ (closing \/ linked = "gone") /\ client \in {"hello", "up", "failed"}
    /\ client' = IF client = "up" THEN "closed" ELSE "failed"
    /\ linked' = "gone"
    /\ calls' = RejectAll
    /\ UNCHANGED <<daemon, version, clock, wait, due, closing, greeted, running, toServer, toPeer, served>>

\* client.close(), at the end of a run or after a failed handshake: nothing more is read.
ClientCloses ==
    /\ client \in {"up", "failed"} /\ linked = "up"
    /\ client' = IF client = "up" THEN "closed" ELSE client
    /\ linked' = "gone" /\ calls' = RejectAll /\ toServer' = <<>> /\ toPeer' = <<>>
    /\ UNCHANGED <<daemon, version, clock, wait, due, closing, greeted, running, served>>
-----------------------------------------------------------------------------
(* The server. *)

\* A closed connection sends nothing more.
Reply(m) == toPeer' = IF closing \/ linked # "up" THEN toPeer ELSE Append(toPeer, m)

\* Requests are heard only after a hello of this protocol.
Admitted == greeted

\* onMessage: a hello is answered in kind, or refused and hung up on.
RouterHello(m) ==
    IF version THEN /\ greeted' = TRUE /\ Reply(Hello(TRUE)) /\ UNCHANGED <<closing, running, served>>
    ELSE /\ Reply(Answer(0, FALSE)) /\ closing' = TRUE /\ UNCHANGED <<greeted, running, served>>

RouterRequest(m) ==
    IF Admitted
    THEN /\ running' = running \cup {m.id} /\ served' = served \cup {m.id}
         /\ UNCHANGED <<greeted, closing, toPeer>>
    ELSE Reply(Answer(m.id, FALSE)) /\ UNCHANGED <<greeted, closing, running, served>>

\* A hung-up connection is still read until its client ends it.
ServerReads ==
    /\ toServer # <<>> /\ toServer' = Tail(toServer) /\ daemon \in {"serving", "stopping"} /\ linked = "up"
    /\ LET m == Head(toServer) IN IF m.t = "hello" THEN RouterHello(m) ELSE RouterRequest(m)
    /\ UNCHANGED <<daemon, version, clock, wait, due, client, linked, calls>>

\* Operations end in any order, each with one answer.
OperationEnds ==
    /\ \E id \in running, ok \in BOOLEAN :
         running' = running \ {id} /\ Reply(Answer(id, ok))
    /\ UNCHANGED <<daemon, version, clock, wait, due, client, closing, linked, greeted, calls, toServer, served>>

\* close(): every connection is hung up on and no other is taken.
ServerCloses ==
    /\ daemon = "serving" /\ daemon' = "stopping"
    /\ closing' = (closing \/ linked = "up")
    /\ UNCHANGED <<version, clock, wait, due, client, linked, greeted, calls, running, toServer, toPeer, served>>

\* Mutant of Drained: the server is closed when it has hung up.
DrainedAnyway == TRUE

\* It is closed when the last connection is.
Drained == linked # "up"

ServerClosed ==
    /\ daemon = "stopping" /\ Drained /\ daemon' = "stopped"
    /\ UNCHANGED <<version, clock, wait, due, client, closing, linked, greeted, calls, running, toServer, toPeer, served>>

ConnNext ==
    \/ OpenFirst \/ OpenAgain \/ Tick \/ DaemonUp \/ HelloTimeout \/ Call \/ ClientReads \/ ClientSeesClose \/ ClientCloses
    \/ ServerReads \/ OperationEnds \/ ServerCloses \/ ServerClosed

(* The client reads and its sleeps end; the daemon reads what it is sent    *)
(* and its operations end.                                                  *)
ConnSpec == /\ ConnInit /\ [][ConnNext]_connVars
            /\ WF_connVars(OpenFirst) /\ WF_connVars(OpenAgain) /\ WF_connVars(Tick)
            /\ WF_connVars(ClientReads) /\ WF_connVars(ClientSeesClose) /\ WF_connVars(HelloTimeout)
            /\ WF_connVars(ServerReads) /\ WF_connVars(OperationEnds) /\ WF_connVars(ServerClosed)
            /\ WF_connVars(client = "failed" /\ ClientCloses)
-----------------------------------------------------------------------------
(* A call that succeeded was run, and a call is answered for itself even    *)
(* when answers overtake each other.                                        *)
AnswersMatch == \A id \in Ids : calls[id] = "ok" => id \in served \ running

(* Every call is settled in the end: answered, or refused by the close.     *)
Asked(id) == id \in Ids /\ calls[id] = "pending"
EveryCallIsSettled == \A id \in 1..MaxCalls : Asked(id) ~> ~Asked(id)

(* Looking for a daemon ends, within the budget and one more sleep, and a   *)
(* daemon that listens before then is found (connect and #poll).            *)
Looking == client \in {"new", "polling", "hello"}
LookingEnds == Looking ~> ~Looking
LookingIsBounded == clock <= Budget + MaxRetry
GivesUp == client = "polling" /\ client' = "failed"
GivesUpOnlyInVain == [][GivesUp => daemon # "serving" /\ clock >= Budget]_connVars

(* Why: a request is of a call that was not run yet, and no two are of the  *)
(* same one; an answer that says well is of an operation that was run and   *)
(* has ended; each sleep starts before the deadline; and only a serving or  *)
(* a stopping daemon has a connection.                                      *)
ToServer == [t : {"hello"}, v : BOOLEAN] \cup [t : {"req"}, id : Nat]
ToPeer == [t : {"hello"}, v : BOOLEAN] \cup [t : {"res"}, id : Nat, ok : BOOLEAN]
LinkTyped ==
    /\ calls \in Seq({"pending", "ok", "refused"}) /\ toServer \in Seq(ToServer) /\ toPeer \in Seq(ToPeer)
    /\ served \subseteq Ids /\ running \subseteq served
    /\ clock \in Nat /\ due \in Nat /\ wait \in 0 .. MaxRetry
RequestsAreNew ==
    \A i \in DOMAIN toServer : toServer[i].t = "req" =>
      /\ toServer[i].id \in Ids \ served
      /\ \A j \in DOMAIN toServer : i # j /\ toServer[j].t = "req" => toServer[i].id # toServer[j].id
AnswersAreTrue ==
    \A i \in DOMAIN toPeer : toPeer[i].t = "res" /\ toPeer[i].ok => toPeer[i].id \in served \ running
SleepsAreShort ==
    /\ client = "new" => clock = 0
    /\ client = "polling" => clock <= due /\ due <= Budget + MaxRetry /\ wait # 0
OnlyServersAreLinked == daemon \notin {"serving", "stopping"} => linked # "up"
LinkInductive ==
    /\ LinkTyped /\ RequestsAreNew /\ AnswersAreTrue /\ SleepsAreShort /\ OnlyServersAreLinked
    /\ AnswersMatch /\ LookingIsBounded

(* A server that closes waits for its client's side, and gets it: the       *)
(* client reads to the end and ends its own (close of SocketServer).        *)
ServerIsClosed == (daemon = "stopping") ~> (daemon = "stopped")
ClosedServerIsAlone == daemon = "stopped" => linked # "up"
=============================================================================
