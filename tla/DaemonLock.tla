----------------------------- MODULE DaemonLock -----------------------------
(***************************************************************************)
(* How daemon processes share one user's runtime directory: the lock file  *)
(* (daemon/lock.ts), the socket (server.ts), start and stop (daemon.ts).   *)
(* A file is named after the process that made it.                         *)
(***************************************************************************)
EXTENDS Integers

CONSTANTS
    Proc,       \* the daemon processes; no process id is used twice
    Gone,       \* a daemon that died before the first step
    NoFile,
    Starts      \* a subset of {"apart", "together"}

Maker == Proc \cup {Gone}

ASSUME LockAssumption ==
    Gone \notin Proc /\ NoFile \notin Maker /\ Starts \subseteq {"apart", "together"}

VARIABLES
    starts,     \* whether a process may be started while another is starting
    lock,       \* daemon.lock
    signed,     \* the makers whose process id is in the file they made
    sock,       \* daemon.sock
    pc,
    attempt,    \* tryLock's pass, while it runs
    saw         \* the process id that tryLock has just read, NoFile for none

lockVars == <<starts, lock, signed, sock, pc, attempt, saw>>

Starting == {"create", "write", "read", "judge", "unlink", "stat", "probe", "unsock", "bind"}
Listening == {"up", "draining"}
Stopping == {"draining", "rmsock", "release", "unlock"}
Over == {"refused", "stopped", "dead"}
Alive(p) == p \in Proc /\ pc[p] \notin Over \cup {"off"}

LockTypeOK ==
    /\ starts \in Starts
    /\ lock \in Maker \cup {NoFile} /\ sock \in Maker \cup {NoFile} /\ signed \subseteq Maker
    /\ pc \in [Proc -> {"off", "up", "giveup", "undo"} \cup Starting \cup Stopping \cup Over]
    /\ attempt \in [Proc -> 1..2] /\ saw \in [Proc -> Maker \cup {NoFile}]

\* A daemon that died may have left either file, the lock empty or not.
LockInit ==
    /\ starts \in Starts
    /\ lock \in {NoFile, Gone} /\ sock \in {NoFile, Gone} /\ signed \in SUBSET {Gone}
    /\ pc = [p \in Proc |-> "off"]
    /\ attempt = [p \in Proc |-> 1] /\ saw = [p \in Proc |-> NoFile]

GoTo(p, l) == pc' = [pc EXCEPT ![p] = l]

-----------------------------------------------------------------------------
(* tryLock.                                                                *)

Spawn(p) ==
    /\ pc[p] = "off"
    /\ starts = "apart" => \A q \in Proc : pc[q] \notin Starting
    /\ GoTo(p, "create")
    /\ UNCHANGED <<starts, lock, signed, sock, attempt, saw>>

\* open(path, "wx"): EEXIST leads to the file that is there.
Create(p) ==
    /\ pc[p] = "create"
    /\ \/ lock = NoFile /\ lock' = p /\ GoTo(p, "write") /\ attempt' = [attempt EXCEPT ![p] = 1]
       \/ lock # NoFile /\ GoTo(p, "read") /\ UNCHANGED <<lock, attempt>>
    /\ UNCHANGED <<starts, signed, sock, saw>>

\* The file it made may have been removed: then nobody reads what is written.
WritePid(p) ==
    /\ pc[p] = "write"
    /\ signed' = signed \cup {p}
    /\ GoTo(p, "stat")
    /\ UNCHANGED <<starts, lock, sock, attempt, saw>>

ReadPid(p) ==
    /\ pc[p] = "read"
    /\ saw' = [saw EXCEPT ![p] = IF lock \in signed THEN lock ELSE NoFile]
    /\ GoTo(p, "judge")
    /\ UNCHANGED <<starts, lock, signed, sock, attempt>>

\* Mutant: a lock file is taken for stale whoever holds it.
JudgeAllStale(p) ==
    /\ pc[p] = "judge"
    /\ GoTo(p, "unlink")
    /\ saw' = [saw EXCEPT ![p] = NoFile]
    /\ UNCHANGED <<starts, lock, signed, sock, attempt>>
\* LockHeldError, or the file is stale.
Judge(p) ==
    /\ pc[p] = "judge"
    /\ GoTo(p, IF Alive(saw[p]) THEN "refused" ELSE "unlink")
    /\ saw' = [saw EXCEPT ![p] = NoFile]
    /\ UNCHANGED <<starts, lock, signed, sock, attempt>>

\* Mutants: one attempt; attempts without an end.
UnlinkOnce(p) ==
    /\ pc[p] = "unlink"
    /\ lock' = NoFile
    /\ GoTo(p, "refused")
    /\ UNCHANGED <<starts, signed, sock, attempt, saw>>
\* The path is unlinked, whatever is there by now.
UnlinkLock(p) ==
    /\ pc[p] = "unlink"
    /\ lock' = NoFile
    /\ \/ attempt[p] = 1 /\ GoTo(p, "create") /\ attempt' = [attempt EXCEPT ![p] = 2]
       \/ attempt[p] = 2 /\ GoTo(p, "refused") /\ attempt' = [attempt EXCEPT ![p] = 1]
    /\ UNCHANGED <<starts, signed, sock, saw>>

-----------------------------------------------------------------------------
(* SocketServer.listen.                                                    *)

Stat(p) ==
    /\ pc[p] = "stat"
    /\ GoTo(p, IF sock = NoFile THEN "bind" ELSE "probe")
    /\ UNCHANGED <<starts, lock, signed, sock, attempt, saw>>

\* A connect that succeeds means a live daemon.
Answers == sock \in Proc /\ pc[sock] \in Listening

Probe(p) ==
    /\ pc[p] = "probe"
    /\ GoTo(p, IF Answers THEN "giveup" ELSE "unsock")
    /\ UNCHANGED <<starts, lock, signed, sock, attempt, saw>>

RemoveStale(p) ==
    /\ pc[p] = "unsock"
    /\ sock' = NoFile
    /\ GoTo(p, "bind")
    /\ UNCHANGED <<starts, lock, signed, attempt, saw>>

\* bind fails on a path that exists; Daemon.start then gives the lock back.
Bind(p) ==
    /\ pc[p] = "bind"
    /\ \/ sock = NoFile /\ sock' = p /\ GoTo(p, "up")
       \/ sock # NoFile /\ GoTo(p, "giveup") /\ UNCHANGED sock
    /\ UNCHANGED <<starts, lock, signed, attempt, saw>>

-----------------------------------------------------------------------------
(* Daemon.stop, and the release of the lock.                               *)

Stop(p) ==
    /\ pc[p] = "up"
    /\ GoTo(p, "draining")
    /\ UNCHANGED <<starts, lock, signed, sock, attempt, saw>>
\* The pool does not close: the daemon goes on listening, and can be stopped again.
StopFails(p) ==
    /\ pc[p] = "draining"
    /\ GoTo(p, "up")
    /\ UNCHANGED <<starts, lock, signed, sock, attempt, saw>>

\* Mutant: the lock goes before the socket.
CloseAfterUnlock(p) ==
    /\ pc[p] = "draining"
    /\ lock' = IF lock = p THEN NoFile ELSE lock
    /\ GoTo(p, "rmsock")
    /\ UNCHANGED <<starts, signed, sock, attempt, saw>>
\* The closing server removes the path it was bound to.
CloseServer(p) ==
    /\ pc[p] = "draining"
    /\ sock' = NoFile
    /\ GoTo(p, "rmsock")
    /\ UNCHANGED <<starts, lock, signed, attempt, saw>>
\* And SocketServer.close removes it again.
RemoveSocket(p) ==
    /\ pc[p] = "rmsock"
    /\ sock' = NoFile
    /\ GoTo(p, "release")
    /\ UNCHANGED <<starts, lock, signed, attempt, saw>>

EndOf(p) == IF pc[p] \in {"giveup", "undo"} THEN "refused" ELSE "stopped"

\* release: only a lock with its own process id is removed.
ReleaseLock(p) ==
    /\ pc[p] \in {"release", "giveup"}
    /\ \/ /\ lock = p /\ p \in signed
          /\ GoTo(p, IF pc[p] = "giveup" THEN "undo" ELSE "unlock")
       \/ ~(lock = p /\ p \in signed) /\ GoTo(p, EndOf(p))
    /\ UNCHANGED <<starts, lock, signed, sock, attempt, saw>>
Unlock(p) ==
    /\ pc[p] \in {"unlock", "undo"}
    /\ lock' = NoFile
    /\ GoTo(p, EndOf(p))
    /\ UNCHANGED <<starts, signed, sock, attempt, saw>>

\* A crash leaves the files as they are.
Die(p) ==
    /\ Alive(p)
    /\ GoTo(p, "dead") /\ attempt' = [attempt EXCEPT ![p] = 1] /\ saw' = [saw EXCEPT ![p] = NoFile]
    /\ UNCHANGED <<starts, lock, signed, sock>>

-----------------------------------------------------------------------------

LockStep(p) ==
    \/ Create(p) \/ WritePid(p) \/ ReadPid(p) \/ Judge(p) \/ UnlinkLock(p)
    \/ Stat(p) \/ Probe(p) \/ RemoveStale(p) \/ Bind(p) \/ ReleaseLock(p) \/ Unlock(p)
    \/ CloseServer(p) \/ RemoveSocket(p)

LockNext == \E p \in Proc : LockStep(p) \/ Spawn(p) \/ Stop(p) \/ StopFails(p) \/ Die(p)

LockSpec == LockInit /\ [][LockNext]_lockVars

\* A process that has something to do does it, or dies.
LockFairSpec == LockSpec /\ \A p \in Proc : WF_lockVars(LockStep(p))

-----------------------------------------------------------------------------
(* Properties.                                                             *)

\* One daemon per user: at most one process listens.
OneDaemon == \A p, q \in Proc : pc[p] \in Listening /\ pc[q] \in Listening => p = q

\* From its lock to its exit no process meets another there, through crashes,
\* restarts and stops that overlap a start, as long as starts do not overlap.
Holding == {"write", "stat", "probe", "unsock", "bind", "undo", "giveup"} \cup Listening \cup Stopping
LockExcludes ==
    starts = "apart" => \A p, q \in Proc : pc[p] \in Holding /\ pc[q] \in Holding => p = q

\* Then a daemon that listens is the one the socket leads to and the lock names:
\* no stopping or starting process has taken its files away.
ServingIsReachable ==
    starts = "apart" =>
        \A p \in Proc : pc[p] \in Listening => sock = p /\ lock = p /\ p \in signed

\* However many are started at once: when all but the refused ones are at
\* rest, and none has died or been stopped, one of them listens.
SomeoneServes ==
    (\A p \in Proc : pc[p] \in {"off", "refused", "up"}) /\ (\E p \in Proc : pc[p] = "refused")
        => \E p \in Proc : pc[p] = "up"

\* A daemon that listens can be found, and starting many at once leaves one.
DaemonIsFound == ServingIsReachable /\ SomeoneServes

\* Whatever a dead daemon left, the next one that starts alone comes up.
CrashIsNoObstacle ==
    \A p \in Proc :
        (starts = "apart" /\ pc[p] = "create" /\ \A q \in Proc \ {p} : ~Alive(q))
            ~> pc[p] \in Listening \cup {"dead"}
=============================================================================
