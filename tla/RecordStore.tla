---------------------------- MODULE RecordStore ----------------------------
(***************************************************************************)
(* One record of the conversation store (daemon/store.ts) and the file it  *)
(* lives in: the queue of #withRecord, the temporary file, the rename, the *)
(* syncs, each of which may fail, and a crash between any two of them.     *)
(***************************************************************************)
CONSTANTS Caller, Field, Value, None, Torn, Ok, Failed,
    Nobody,     \* not a caller
    Asked       \* bound: the operations that are tried

Record == [Field -> Value]
Op == [kind : {"get", "remove"}] \cup [kind : {"save"}, to : Record]
      \cup [kind : {"update"}, field : Field, to : Value]

ASSUME StoreAssumption ==
    /\ None \notin Record /\ Torn \notin Record /\ None # Torn /\ Nobody \notin Caller
    /\ Asked \subseteq Op

VARIABLES
    file,       \* what the record's name in the directory refers to
    kept,       \* what it may refer to after a crash: entries not synced yet
    temp,       \* the running operation's temporary file
    at,         \* where each call is
    request,    \* what it asks, while it runs
    next,       \* the record it writes
    behind,     \* the call whose gate it awaits
    last,       \* recordOperations.get(target)
    reply       \* what the last call was answered

fileVars == <<file, kept, temp>>
gateVars == <<behind, last>>
recordVars == <<fileVars, at, request, next, gateVars, reply>>

Running == {"reading", "quarantine", "aside", "writing", "syncing", "renaming", "syncdir",
            "cleaning", "cleaned", "removing"}

RecordTypeOK ==
    /\ file \in Record \cup {None, Torn} /\ kept \in SUBSET (Record \cup {None, Torn})
    /\ temp \in {"none", "written", "synced"}
    /\ at \in [Caller -> {"idle", "queued"} \cup Running]
    /\ request \in [Caller -> Asked \cup {None}] /\ next \in [Caller -> Record \cup {None}]
    /\ behind \in [Caller -> Caller \cup {Nobody}] /\ last \in Caller \cup {Nobody}
    /\ reply \in [Caller -> Record \cup {None, Ok, Failed}]

RecordInit ==
    /\ file = None /\ kept = {None} /\ temp = "none"
    /\ at = [c \in Caller |-> "idle"]
    /\ request = [c \in Caller |-> None] /\ next = [c \in Caller |-> None]
    /\ behind = [c \in Caller |-> Nobody] /\ last = Nobody
    /\ reply = [c \in Caller |-> None]

-----------------------------------------------------------------------------
(* The queue.                                                              *)

\* #withRecord up to its await: the call queues behind the last one.
Call(c, o) ==
    /\ at[c] = "idle"
    /\ at' = [at EXCEPT ![c] = "queued"] /\ request' = [request EXCEPT ![c] = o]
    /\ reply' = [reply EXCEPT ![c] = None]
    /\ behind' = [behind EXCEPT ![c] = last] /\ last' = c
    /\ UNCHANGED <<fileVars, next>>

\* Its turn has come.
Start(c) ==
    /\ at[c] = "queued" /\ behind[c] = Nobody
    /\ at' = [at EXCEPT ![c] = CASE request[c].kind = "save" -> "writing"
                                 [] request[c].kind = "remove" -> "removing"
                                 [] OTHER -> "reading"]
    /\ next' = IF request[c].kind = "save" THEN [next EXCEPT ![c] = request[c].to] ELSE next
    /\ UNCHANGED <<fileVars, request, gateVars, reply>>

\* Mutant: the gate opens only for a success.
ReleaseOnSuccess(c, r) ==
    /\ behind' = [d \in Caller |-> IF behind[d] = c /\ r # Failed THEN Nobody ELSE behind[d]]
    /\ last' = IF last = c THEN Nobody ELSE last

\* The finally of #withRecord.
Release(c, r) ==
    /\ behind' = [d \in Caller |-> IF behind[d] = c THEN Nobody ELSE behind[d]]
    /\ last' = IF last = c THEN Nobody ELSE last

\* The operation is over and its caller has the answer r.
Return(c, r) ==
    /\ at' = [at EXCEPT ![c] = "idle"] /\ reply' = [reply EXCEPT ![c] = r]
    /\ request' = [request EXCEPT ![c] = None] /\ next' = [next EXCEPT ![c] = None]
    /\ Release(c, r)

Go(c, stage) == at' = [at EXCEPT ![c] = stage] /\ UNCHANGED <<request, gateVars, reply>>

-----------------------------------------------------------------------------
(* #get, and the read of update.                                           *)

\* Without a record get answers undefined and update throws.
Missing(c) == IF request[c].kind = "get" THEN None ELSE Failed

Read(c) ==
    /\ at[c] = "reading"
    /\ \/ file = None /\ Return(c, Missing(c))
       \/ file = Torn /\ Go(c, "quarantine") /\ UNCHANGED next
       \/ file \in Record /\ request[c].kind = "get" /\ Return(c, file)
       \/ /\ file \in Record /\ request[c].kind = "update"
          /\ next' = [next EXCEPT ![c] = [file EXCEPT ![request[c].field] = request[c].to]]
          /\ Go(c, "writing")
    /\ UNCHANGED fileVars
ReadFails(c) == at[c] = "reading" /\ Return(c, Failed) /\ UNCHANGED fileVars

\* The corrupt file is moved away, and the move is synced; every failure on
\* the way is only logged.
Quarantine(c) ==
    /\ at[c] = "quarantine"
    /\ file' = None /\ kept' = kept \cup {None}
    /\ Go(c, "aside")
    /\ UNCHANGED <<temp, next>>
QuarantineFails(c) == at[c] = "quarantine" /\ Return(c, Missing(c)) /\ UNCHANGED fileVars
Aside(c) ==
    /\ at[c] = "aside"
    /\ kept' \in {kept, {file}}
    /\ Return(c, Missing(c))
    /\ UNCHANGED <<file, temp>>

-----------------------------------------------------------------------------
(* #save.                                                                  *)

WriteTemp(c) ==
    /\ at[c] = "writing"
    /\ temp' = "written"
    /\ Go(c, "syncing")
    /\ UNCHANGED <<file, kept, next>>
\* mkdir or open fails, or the write does.
OpenFails(c) == at[c] = "writing" /\ Return(c, Failed) /\ UNCHANGED fileVars
WriteFails(c) ==
    /\ at[c] = "writing"
    /\ temp' = "written"
    /\ Go(c, "cleaning")
    /\ UNCHANGED <<file, kept, next>>

\* Mutant: handle.sync() is left out.
SyncNothing(c) ==
    /\ at[c] = "syncing"
    /\ Go(c, "renaming")
    /\ UNCHANGED <<fileVars, next>>
SyncTemp(c) ==
    /\ at[c] = "syncing"
    /\ temp' = "synced"
    /\ Go(c, "renaming")
    /\ UNCHANGED <<file, kept, next>>
SyncFails(c) == at[c] = "syncing" /\ Go(c, "cleaning") /\ UNCHANGED <<fileVars, next>>

\* After a crash the name may refer to a file whose content was never synced.
Rename(c) ==
    /\ at[c] = "renaming"
    /\ file' = next[c]
    /\ kept' = kept \cup {next[c]} \cup (IF temp = "synced" THEN {} ELSE {Torn})
    /\ temp' = "none"
    /\ Go(c, "syncdir")
    /\ UNCHANGED next
RenameFails(c) == at[c] = "renaming" /\ Go(c, "cleaning") /\ UNCHANGED <<fileVars, next>>

SyncDir(c) ==
    /\ at[c] = "syncdir"
    /\ kept' = {file}
    /\ Return(c, Ok)
    /\ UNCHANGED <<file, temp>>
SyncDirFails(c) == at[c] = "syncdir" /\ Return(c, Failed) /\ UNCHANGED fileVars

\* The finally of #save for a temporary file it still owns.
Clean(c) ==
    /\ at[c] = "cleaning"
    /\ temp' = "none"
    /\ Go(c, "cleaned")
    /\ UNCHANGED <<file, kept, next>>
\* The file stays behind: nothing reads it, and no later save uses its name.
CleanFails(c) ==
    /\ at[c] = "cleaning"
    /\ temp' = "none"
    /\ Return(c, Failed)
    /\ UNCHANGED <<file, kept>>
Cleaned(c) ==
    /\ at[c] = "cleaned"
    /\ kept' \in {kept, {file}}
    /\ Return(c, Failed)
    /\ UNCHANGED <<file, temp>>

-----------------------------------------------------------------------------
(* remove.                                                                 *)

Unlink(c) ==
    /\ at[c] = "removing" /\ file # None
    /\ file' = None /\ kept' = kept \cup {None}
    /\ Go(c, "syncdir")
    /\ UNCHANGED <<temp, next>>
NothingThere(c) == at[c] = "removing" /\ file = None /\ Return(c, None) /\ UNCHANGED fileVars
UnlinkFails(c) == at[c] = "removing" /\ Return(c, Failed) /\ UNCHANGED fileVars

-----------------------------------------------------------------------------
(* The environment.                                                        *)

\* Somebody edits the file by hand, at a time when no operation is under way.
Spoil ==
    /\ file # None /\ \A c \in Caller : at[c] \notin Running
    /\ file' = Torn /\ kept' = {Torn}
    /\ UNCHANGED <<temp, at, request, next, gateVars, reply>>

\* The daemon dies, or the machine does: no call returns, the queue is gone,
\* and the directory has what was synced and perhaps more.
Crash ==
    /\ file' \in kept /\ kept' = {file'} /\ temp' = "none"
    /\ at' = [c \in Caller |-> "idle"]
    /\ request' = [c \in Caller |-> None] /\ next' = [c \in Caller |-> None]
    /\ behind' = [c \in Caller |-> Nobody] /\ last' = Nobody
    /\ UNCHANGED reply

-----------------------------------------------------------------------------

Step(c) ==
    \/ Start(c) \/ Read(c) \/ ReadFails(c) \/ Quarantine(c) \/ QuarantineFails(c) \/ Aside(c)
    \/ WriteTemp(c) \/ OpenFails(c) \/ WriteFails(c) \/ SyncTemp(c) \/ SyncFails(c)
    \/ Rename(c) \/ RenameFails(c) \/ SyncDir(c) \/ SyncDirFails(c)
    \/ Clean(c) \/ CleanFails(c) \/ Cleaned(c)
    \/ Unlink(c) \/ NothingThere(c) \/ UnlinkFails(c)

RecordNext ==
    \/ \E c \in Caller : \E o \in Asked : Call(c, o)
    \/ \E c \in Caller : Step(c)
    \/ Spoil \/ Crash

RecordSpec == RecordInit /\ [][RecordNext]_recordVars

\* Every file operation comes back, with success or with an error.
RecordFairSpec == RecordSpec /\ \A c \in Caller : WF_recordVars(Step(c))

-----------------------------------------------------------------------------
(* Properties.                                                             *)

\* The operations of a record run one at a time, whatever fails in them: what
\* the read of update saw is what its write replaces.
OneAtATime == \A c, d \in Caller : at[c] \in Running /\ at[d] \in Running => c = d

\* A save that fails leaves no temporary file unless its removal failed too.
NoLitter ==
    temp # "none" => \E c \in Caller : at[c] \in {"syncing", "renaming", "cleaning"}

\* No failure, and no crash that it outlives, holds up the calls queued behind it.
EveryCallReturns == \A c \in Caller : at[c] = "queued" ~> at[c] = "idle"

\* The store is a durable record: each operation is in effect at one instant,
\* no reader and no crash sees half a record, no update overwrites another's
\* field, and a successful save, update or removal survives a crash.
Abs == INSTANCE DurableRecord WITH
    shown <- file,
    stage <- [c \in Caller |-> CASE at[c] = "idle" -> "idle"
                                 [] at[c] = "syncdir" -> "written"
                                 [] OTHER -> "asked"]
Implements == Abs!Spec
=============================================================================
