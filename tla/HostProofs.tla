----------------------------- MODULE HostProofs ------------------------------
(***************************************************************************)
(* What the daemon stands on: its files and the pipes to its children.     *)
(* The store of one record is a durable record, for any number of calls,   *)
(* fields and values; while starts do not overlap the lock file excludes   *)
(* and the socket leads to the daemon, for any number of processes; and    *)
(* the transport of one child pairs what it asks with what it hears, for   *)
(* any number of calls.                                                    *)
(***************************************************************************)
EXTENDS RecordStore, DaemonLock, PiRpc, SequenceTheorems, TLAPS

-----------------------------------------------------------------------------
(* The record.                                                             *)

Busy(c) == at[c] # "idle"

\* The calls of the record stand in line: each is one place behind the call
\* whose gate it awaits, and last is the end of the line.
InLine(rank) ==
    /\ \A c \in Caller : at[c] # "queued" => behind[c] = Nobody
    /\ \A c, d \in Caller : Busy(c) /\ Busy(d) /\ rank[c] = rank[d] => c = d
    /\ \A c \in Caller : behind[c] # Nobody => Busy(behind[c]) /\ rank[c] = rank[behind[c]] + 1
    /\ \A c, d \in Caller : Busy(c) /\ Busy(d) /\ behind[c] = Nobody => rank[c] <= rank[d]
    /\ last = Nobody => \A c \in Caller : ~Busy(c)
    /\ last # Nobody => Busy(last) /\ \A c \in Caller : Busy(c) => rank[c] <= rank[last]
Queueing == \E rank \in [Caller -> Nat] : InLine(rank)

\* What the running operation knows of the file it works on.
Knows(c) ==
    /\ at[c] \in {"reading", "quarantine", "aside"} => request[c].kind \in {"get", "update"}
    /\ at[c] = "quarantine" => file = Torn
    /\ at[c] = "aside" => file = None
    /\ at[c] = "removing" => request[c].kind = "remove"
    /\ at[c] \in {"writing", "syncing", "renaming"} =>
        /\ next[c] \in Record
        /\ \/ request[c].kind = "save" /\ next[c] = request[c].to
           \/ /\ request[c].kind = "update" /\ file \in Record
              /\ next[c] = [file EXCEPT ![request[c].field] = request[c].to]
    /\ at[c] = "renaming" => temp = "synced"
Known == file \in kept /\ \A c \in Caller : Knows(c)

LEMMA LineIsOneAtATime == RecordTypeOK /\ Queueing => OneAtATime
<1> SUFFICES ASSUME RecordTypeOK, NEW rank \in [Caller -> Nat], InLine(rank),
                    NEW c \in Caller, NEW d \in Caller, at[c] \in Running, at[d] \in Running
             PROVE  c = d
    BY DEF Queueing, OneAtATime
<1>1. Busy(c) /\ Busy(d) /\ behind[c] = Nobody /\ behind[d] = Nobody
    BY DEF InLine, Busy, Running
<1>2. rank[c] <= rank[d] /\ rank[d] <= rank[c]
    BY <1>1 DEF InLine
<1> QED BY <1>1, <1>2 DEF InLine

LEMMA CallKeepsLine ==
    ASSUME RecordTypeOK, Queueing, NEW c \in Caller, NEW o \in Asked, Call(c, o)
    PROVE  Queueing'
<1>1. PICK rank \in [Caller -> Nat] : InLine(rank) BY DEF Queueing
<1>2. last # Nobody => last \in Caller BY DEF RecordTypeOK
<1>3. PICK new \in [Caller -> Nat] :
        new = [rank EXCEPT ![c] = IF last = Nobody THEN 0 ELSE rank[last] + 1]
  <2>1. [rank EXCEPT ![c] = IF last = Nobody THEN 0 ELSE rank[last] + 1] \in [Caller -> Nat]
    <3>1. CASE last = Nobody BY <3>1
    <3>2. CASE last # Nobody
      <4>1. rank[last] + 1 \in Nat BY <3>2, <1>2
      <4> QED BY <3>2, <4>1
    <3> QED BY <3>1, <3>2
  <2> QED BY <2>1
<1>4. /\ \A d \in Caller : d # c => new[d] = rank[d] /\ Busy(d)' = Busy(d) /\ at'[d] = at[d]
                                     /\ behind'[d] = behind[d]
      /\ new[c] = IF last = Nobody THEN 0 ELSE rank[last] + 1
      /\ at[c] = "idle" /\ at'[c] = "queued" /\ Busy(c)' /\ ~Busy(c)
      /\ behind'[c] = last /\ last' = c /\ c # Nobody
    BY <1>1, <1>3, StoreAssumption DEF Call, RecordTypeOK, Busy
<1>5. \A d \in Caller : behind[d] # c
    BY <1>1, <1>4, StoreAssumption DEF InLine, RecordTypeOK
<1>6. \A d \in Caller : behind[d] # Nobody => behind[d] \in Caller BY DEF RecordTypeOK
<1>7. \A d \in Caller : rank[d] \in Nat /\ new[d] \in Nat OBVIOUS
<1>8. \A d \in Caller : Busy(d) => last # Nobody /\ rank[d] <= rank[last]
    BY <1>1 DEF InLine
<1>9. InLine(new)'
  <2>1. \A d \in Caller : at'[d] # "queued" => behind'[d] = Nobody
    BY <1>1, <1>4 DEF InLine
  <2>2. \A d, e \in Caller : Busy(d)' /\ Busy(e)' /\ new[d] = new[e] => d = e
    <3> TAKE d, e \in Caller
    <3>1. CASE d # c /\ e # c BY <3>1, <1>1, <1>4 DEF InLine
    <3>2. CASE d = c /\ e # c BY <3>2, <1>2, <1>4, <1>7, <1>8
    <3>3. CASE d # c /\ e = c BY <3>3, <1>2, <1>4, <1>7, <1>8
    <3> QED BY <3>1, <3>2, <3>3
  <2>3. \A d \in Caller : behind'[d] # Nobody
                            => Busy(behind[d])' /\ new[d] = new[behind'[d]] + 1 /\ behind'[d] # c
    <3> TAKE d \in Caller
    <3>1. CASE d = c BY <3>1, <1>1, <1>2, <1>4, <1>8 DEF InLine, Busy
    <3>2. CASE d # c BY <3>2, <1>1, <1>4, <1>5, <1>6 DEF InLine, Busy
    <3> QED BY <3>1, <3>2
  <2>4. \A d, e \in Caller : Busy(d)' /\ Busy(e)' /\ behind'[d] = Nobody => new[d] <= new[e]
    <3> TAKE d, e \in Caller
    <3>1. CASE d # c /\ e # c BY <3>1, <1>1, <1>4 DEF InLine
    <3>2. CASE d = c BY <3>2, <1>1, <1>4, <1>7 DEF InLine
    <3>3. CASE d # c /\ e = c BY <3>3, <1>2, <1>4, <1>7, <1>8
    <3> QED BY <3>1, <3>2, <3>3
  <2>5. last' # Nobody /\ (Busy(last))'
    BY <1>4 DEF Busy
  <2>6. \A d \in Caller : Busy(d)' => new[d] <= new[last']
    BY <1>2, <1>4, <1>7, <1>8
  <2> QED BY <2>1, <2>2, <2>3, <2>4, <2>5, <2>6 DEF InLine
<1> QED BY <1>9 DEF Queueing

LEMMA ReturnKeepsLine ==
    ASSUME RecordTypeOK, Queueing, NEW c \in Caller, NEW r, at[c] \in Running, Return(c, r)
    PROVE  Queueing'
<1>1. PICK rank \in [Caller -> Nat] : InLine(rank) BY DEF Queueing
<1>2. /\ \A d \in Caller : d # c => at'[d] = at[d] /\ Busy(d)' = Busy(d)
      /\ at'[c] = "idle" /\ ~Busy(c)' /\ Busy(c)
      /\ behind[c] = Nobody /\ c # Nobody
    BY <1>1, StoreAssumption DEF Return, RecordTypeOK, Busy, Running, InLine
<1>3. /\ \A d \in Caller : behind'[d] = IF behind[d] = c THEN Nobody ELSE behind[d]
      /\ last' = IF last = c THEN Nobody ELSE last
    BY DEF Return, Release
<1>4. \A d \in Caller : rank[d] \in Nat OBVIOUS
<1>5. \A d \in Caller : Busy(d) => rank[c] <= rank[d]
    BY <1>1, <1>2 DEF InLine
<1>6. \A d \in Caller : Busy(d) /\ d # c => rank[c] + 1 <= rank[d]
    BY <1>1, <1>2, <1>4, <1>5 DEF InLine
<1>7. \A d \in Caller : behind[d] # Nobody => behind[d] \in Caller BY DEF RecordTypeOK
<1>8. last # Nobody => last \in Caller BY DEF RecordTypeOK
<1>9. InLine(rank)'
  <2>1. \A d \in Caller : at'[d] # "queued" => behind'[d] = Nobody
    BY <1>1, <1>2, <1>3 DEF InLine
  <2>2. \A d, e \in Caller : Busy(d)' /\ Busy(e)' /\ rank[d] = rank[e] => d = e
    BY <1>1, <1>2 DEF InLine
  <2>3. \A d \in Caller : behind'[d] # Nobody
                            => (Busy(behind[d]))' /\ rank[d] = rank[behind'[d]] + 1
    BY <1>1, <1>2, <1>3, <1>7 DEF InLine, Busy
  <2>4. \A d, e \in Caller : Busy(d)' /\ Busy(e)' /\ behind'[d] = Nobody => rank[d] <= rank[e]
    <3> SUFFICES ASSUME NEW d \in Caller, NEW e \in Caller, Busy(d)', Busy(e)', behind'[d] = Nobody
                 PROVE  rank[d] <= rank[e]
      OBVIOUS
    <3>1. d # c /\ e # c /\ Busy(d) /\ Busy(e) BY <1>2
    <3>2. CASE behind[d] = c
      BY <3>1, <3>2, <1>1, <1>2, <1>6 DEF InLine
    <3>3. CASE behind[d] # c BY <3>1, <3>3, <1>1, <1>3 DEF InLine
    <3> QED BY <3>2, <3>3
  <2>5. last' = Nobody => \A d \in Caller : ~Busy(d)'
    <3>1. CASE last = c
      <4>1. \A d \in Caller : Busy(d) => rank[d] <= rank[c] BY <3>1, <1>1, <1>2 DEF InLine
      <4> QED BY <4>1, <1>2, <1>4, <1>6
    <3>2. CASE last # c BY <3>2, <1>1, <1>2, <1>3 DEF InLine
    <3> QED BY <3>1, <3>2
  <2>6. last' # Nobody => (Busy(last))' /\ \A d \in Caller : Busy(d)' => rank[d] <= rank[last']
    BY <1>1, <1>2, <1>3, <1>8 DEF InLine, Busy
  <2> QED BY <2>1, <2>2, <2>3, <2>4, <2>5, <2>6 DEF InLine
<1> QED BY <1>9 DEF Queueing

\* A running operation goes on: the line does not move.
LEMMA GoKeepsLine ==
    ASSUME RecordTypeOK, Queueing, NEW c \in Caller, NEW s \in Running, Go(c, s),
           at[c] \in Running
    PROVE  Queueing'
<1>1. PICK rank \in [Caller -> Nat] : InLine(rank) BY DEF Queueing
<1>2. InLine(rank)'
    BY <1>1, StoreAssumption DEF InLine, Busy, Go, gateVars, RecordTypeOK, Running
<1> QED BY <1>1, <1>2 DEF Queueing

LEMMA StartKeepsLine ==
    ASSUME RecordTypeOK, Queueing, NEW c \in Caller, Start(c)
    PROVE  Queueing'
<1>1. PICK rank \in [Caller -> Nat] : InLine(rank) BY DEF Queueing
<1>2. InLine(rank)'
    BY <1>1, StoreAssumption DEF InLine, Busy, Start, gateVars, RecordTypeOK
<1> QED BY <1>1, <1>2 DEF Queueing

LEMMA CrashKeepsLine == ASSUME RecordTypeOK, Queueing, Crash PROVE Queueing'
<1>1. PICK rank \in [Caller -> Nat] : InLine(rank) BY DEF Queueing
<1>2. InLine(rank)' BY <1>1, StoreAssumption DEF InLine, Busy, Crash, RecordTypeOK
<1> QED BY <1>1, <1>2 DEF Queueing

LEMMA Ops ==
    ASSUME NEW o \in Op
    PROVE  /\ o.kind \in {"get", "remove", "save", "update"}
           /\ o.kind = "save" => o.to \in Record
           /\ o.kind = "update" => o.field \in Field /\ o.to \in Value
BY DEF Op

\* A call that is not idle has its request.
Requested == \A c \in Caller : at[c] # "idle" => request[c] \in Op

LEMMA ReturnTyped ==
    ASSUME RecordTypeOK, Requested, NEW c \in Caller, NEW r \in Record \cup {None, Ok, Failed}, Return(c, r),
           file' \in Record \cup {None, Torn}, kept' \in SUBSET (Record \cup {None, Torn}),
           temp' \in {"none", "written", "synced"}
    PROVE  RecordTypeOK' /\ Requested'
BY StoreAssumption DEF RecordTypeOK, Requested, Return, Release

LEMMA GoTyped ==
    ASSUME RecordTypeOK, Requested, NEW c \in Caller, at[c] # "idle", NEW s \in Running, Go(c, s),
           next' \in [Caller -> Record \cup {None}],
           file' \in Record \cup {None, Torn}, kept' \in SUBSET (Record \cup {None, Torn}),
           temp' \in {"none", "written", "synced"}
    PROVE  RecordTypeOK' /\ Requested'
BY StoreAssumption DEF RecordTypeOK, Requested, Go, gateVars, Running

LEMMA StepTyped ==
    ASSUME RecordTypeOK, Requested, Known, NEW c \in Caller, Step(c)
    PROVE  RecordTypeOK' /\ Requested'
<1> USE DEF fileVars, Running
<1>0. /\ file \in Record \cup {None, Torn} /\ kept \in SUBSET (Record \cup {None, Torn})
      /\ temp \in {"none", "written", "synced"} /\ next \in [Caller -> Record \cup {None}]
      /\ at[c] # "idle" => request[c] \in Op
    BY DEF RecordTypeOK, Requested
<1>1. CASE Start(c)
  <2>1. request[c] \in Op /\ request[c].kind = "save" => request[c].to \in Record BY Ops
  <2>2. at[c] # "idle" BY <1>1 DEF Start
  <2> QED BY <1>0, <1>1, <2>1, <2>2, StoreAssumption DEF Start, RecordTypeOK, Requested, gateVars
<1>2. CASE Read(c)
  <2>1. CASE \E r \in Record \cup {None, Failed} : Return(c, r) /\ UNCHANGED fileVars
    BY <2>1, <1>0, ReturnTyped
  <2>2. CASE Go(c, "quarantine") /\ UNCHANGED next /\ UNCHANGED fileVars
    BY <2>2, <1>0, <1>2, GoTyped DEF Read
  <2>3. CASE /\ file \in Record /\ request[c].kind = "update"
             /\ next' = [next EXCEPT ![c] = [file EXCEPT ![request[c].field] = request[c].to]]
             /\ Go(c, "writing") /\ UNCHANGED fileVars
    <3>1. request[c] \in Op BY <1>0, <1>2 DEF Read
    <3>2. request[c].field \in Field /\ request[c].to \in Value BY <2>3, <3>1, Ops
    <3>3. [file EXCEPT ![request[c].field] = request[c].to] \in Record BY <2>3, <3>2 DEF Record
    <3>4. next' \in [Caller -> Record \cup {None}] BY <2>3, <3>3, <1>0
    <3> QED BY <2>3, <3>4, <1>0, <1>2, GoTyped DEF Read
  <2>4. Missing(c) \in {None, Failed} BY DEF Missing
  <2> QED BY <1>2, <2>1, <2>2, <2>3, <2>4 DEF Read
<1>3. CASE ReadFails(c) BY <1>0, <1>3, ReturnTyped DEF ReadFails
<1>4. CASE Quarantine(c) BY <1>0, <1>4, GoTyped DEF Quarantine
<1>5. CASE QuarantineFails(c) BY <1>0, <1>5, ReturnTyped DEF QuarantineFails, Missing
<1>6. CASE Aside(c) BY <1>0, <1>6, ReturnTyped DEF Aside, Missing
<1>7. CASE WriteTemp(c) BY <1>0, <1>7, GoTyped DEF WriteTemp
<1>8. CASE OpenFails(c) BY <1>0, <1>8, ReturnTyped DEF OpenFails
<1>9. CASE WriteFails(c) BY <1>0, <1>9, GoTyped DEF WriteFails
<1>10. CASE SyncTemp(c) BY <1>0, <1>10, GoTyped DEF SyncTemp
<1>11. CASE SyncFails(c) BY <1>0, <1>11, GoTyped DEF SyncFails
<1>12. CASE Rename(c)
  <2>1. next[c] \in Record BY <1>12 DEF Rename, Known, Knows
  <2> QED BY <1>0, <1>12, <2>1, GoTyped DEF Rename
<1>13. CASE RenameFails(c) BY <1>0, <1>13, GoTyped DEF RenameFails
<1>14. CASE SyncDir(c) BY <1>0, <1>14, ReturnTyped DEF SyncDir
<1>15. CASE SyncDirFails(c) BY <1>0, <1>15, ReturnTyped DEF SyncDirFails
<1>16. CASE Clean(c) BY <1>0, <1>16, GoTyped DEF Clean
<1>17. CASE CleanFails(c) BY <1>0, <1>17, ReturnTyped DEF CleanFails
<1>18. CASE Cleaned(c) BY <1>0, <1>18, ReturnTyped DEF Cleaned
<1>19. CASE Unlink(c) BY <1>0, <1>19, GoTyped DEF Unlink
<1>20. CASE NothingThere(c) BY <1>0, <1>20, ReturnTyped DEF NothingThere
<1>21. CASE UnlinkFails(c) BY <1>0, <1>21, ReturnTyped DEF UnlinkFails
<1> QED
  BY <1>1, <1>2, <1>3, <1>4, <1>5, <1>6, <1>7, <1>8, <1>9, <1>10, <1>11, <1>12, <1>13, <1>14,
     <1>15, <1>16, <1>17, <1>18, <1>19, <1>20, <1>21 DEF Step

\* Only the running operation touches the file, so what it knows stays true.
LEMMA StepKnown ==
    ASSUME RecordTypeOK, Requested, Queueing, Known, NoLitter, NEW c \in Caller, Step(c)
    PROVE  Known' /\ NoLitter'
<1> USE DEF fileVars, Running
<1>0. OneAtATime BY LineIsOneAtATime
<1>1. \A d \in Caller : /\ d # c => at'[d] = at[d] /\ next'[d] = next[d]
                        /\ d # c /\ at[d] # "idle" => request'[d] = request[d]
    BY DEF Step, Start, Read, ReadFails, Quarantine, QuarantineFails, Aside, WriteTemp, OpenFails,
           WriteFails, SyncTemp, SyncFails, Rename, RenameFails, SyncDir, SyncDirFails, Clean,
           CleanFails, Cleaned, Unlink, NothingThere, UnlinkFails, Return, Go, RecordTypeOK
<1>2. CASE Start(c)
  <2>1. request[c] \in Op BY <1>2 DEF Start, Requested
  <2>2. /\ request[c].kind \in {"get", "remove", "save", "update"}
        /\ request[c].kind = "save" => request[c].to \in Record
    BY <2>1, Ops
  <2>3. Knows(c)' BY <1>2, <2>2 DEF Knows, Start, RecordTypeOK
  <2>4. \A d \in Caller : d # c => Knows(d)'
    BY <1>1, <1>2 DEF Known, Knows, Start
  <2>5. Known' BY <1>2, <2>3, <2>4 DEF Known, Start
  <2>6. NoLitter' BY <1>1, <1>2 DEF NoLitter, Start
  <2> QED BY <2>5, <2>6
<1>3. CASE ~Start(c)
  <2>1. at[c] \in Running
    BY <1>3 DEF Step, Read, ReadFails, Quarantine, QuarantineFails, Aside, WriteTemp, OpenFails,
           WriteFails, SyncTemp, SyncFails, Rename, RenameFails, SyncDir, SyncDirFails, Clean,
           CleanFails, Cleaned, Unlink, NothingThere, UnlinkFails
  <2>2. \A d \in Caller : d # c => at[d] \notin Running BY <2>1, <1>0 DEF OneAtATime
  <2>3. \A d \in Caller : d # c => Knows(d)' BY <1>1, <2>2 DEF Knows
  <2>4. temp # "none" => at[c] \in {"syncing", "renaming", "cleaning"}
    BY <2>2 DEF NoLitter
  <2>5. Known' /\ NoLitter'
    <3>1. Knows(c)' /\ file' \in kept'
      <4> USE DEF Known, Knows, Return, Go, RecordTypeOK
      <4>1. CASE Read(c)
        <5>1. CASE file \in Record /\ request[c].kind = "update" /\ Go(c, "writing")
          <6>1. request[c] \in Op BY <2>1 DEF Requested
          <6>2. request[c].field \in Field /\ request[c].to \in Value BY <5>1, <6>1, Ops
          <6>3. [file EXCEPT ![request[c].field] = request[c].to] \in Record
            BY <5>1, <6>2 DEF Record
          <6> QED BY <4>1, <5>1, <6>3, StoreAssumption DEF Read
        <5> QED BY <4>1, <5>1 DEF Read
      <4>2. CASE ReadFails(c) BY <4>2 DEF ReadFails
      <4>3. CASE Quarantine(c) BY <4>3 DEF Quarantine
      <4>4. CASE QuarantineFails(c) BY <4>4 DEF QuarantineFails
      <4>5. CASE Aside(c) BY <4>5 DEF Aside
      <4>6. CASE WriteTemp(c) BY <4>6 DEF WriteTemp
      <4>7. CASE OpenFails(c) BY <4>7 DEF OpenFails
      <4>8. CASE WriteFails(c) BY <4>8 DEF WriteFails
      <4>9. CASE SyncTemp(c) BY <4>9 DEF SyncTemp
      <4>10. CASE SyncFails(c) BY <4>10 DEF SyncFails
      <4>11. CASE Rename(c) BY <4>11 DEF Rename
      <4>12. CASE RenameFails(c) BY <4>12 DEF RenameFails
      <4>13. CASE SyncDir(c) BY <4>13 DEF SyncDir
      <4>14. CASE SyncDirFails(c) BY <4>14 DEF SyncDirFails
      <4>15. CASE Clean(c) BY <4>15 DEF Clean
      <4>16. CASE CleanFails(c) BY <4>16 DEF CleanFails
      <4>17. CASE Cleaned(c) BY <4>17 DEF Cleaned
      <4>18. CASE Unlink(c) BY <4>18 DEF Unlink
      <4>19. CASE NothingThere(c) BY <4>19 DEF NothingThere
      <4>20. CASE UnlinkFails(c) BY <4>20 DEF UnlinkFails
      <4> QED
        BY <1>3, <4>1, <4>2, <4>3, <4>4, <4>5, <4>6, <4>7, <4>8, <4>9, <4>10,
           <4>11, <4>12, <4>13, <4>14, <4>15, <4>16, <4>17, <4>18, <4>19, <4>20 DEF Step
    <3>2. NoLitter'
      BY <1>3, <2>4 DEF NoLitter, Step, Read, ReadFails, Quarantine, QuarantineFails, Aside,
           WriteTemp, OpenFails, WriteFails, SyncTemp, SyncFails, Rename, RenameFails, SyncDir,
           SyncDirFails, Clean, CleanFails, Cleaned, Unlink, NothingThere, UnlinkFails, Return, Go,
           RecordTypeOK
    <3> QED BY <2>3, <3>1, <3>2 DEF Known
  <2> QED BY <2>5
<1> QED BY <1>2, <1>3

LEMMA StepKeepsLine ==
    ASSUME RecordTypeOK, Queueing, NEW c \in Caller, Step(c)
    PROVE  Queueing'
<1>1. CASE Start(c) BY <1>1, StartKeepsLine
<1>2. CASE \E r : at[c] \in Running /\ Return(c, r) BY <1>2, ReturnKeepsLine
<1>3. CASE \E s \in Running : at[c] \in Running /\ Go(c, s) BY <1>3, GoKeepsLine
<1> QED
  BY <1>1, <1>2, <1>3 DEF Step, Running, Read, ReadFails, Quarantine, QuarantineFails, Aside,
     WriteTemp, OpenFails, WriteFails, SyncTemp, SyncFails, Rename, RenameFails, SyncDir,
     SyncDirFails, Clean, CleanFails, Cleaned, Unlink, NothingThere, UnlinkFails

Inv == RecordTypeOK /\ Requested /\ Queueing /\ Known /\ NoLitter

LEMMA InitInv == RecordInit => Inv
<1> SUFFICES ASSUME RecordInit PROVE Inv OBVIOUS
<1> USE StoreAssumption DEF RecordInit
<1>1. RecordTypeOK /\ Requested /\ Known /\ NoLitter
  BY DEF RecordTypeOK, Requested, Known, Knows, NoLitter
<1>2. InLine([c \in Caller |-> 0]) BY DEF InLine, Busy
<1>3. [c \in Caller |-> 0] \in [Caller -> Nat] OBVIOUS
<1> QED BY <1>1, <1>2, <1>3 DEF Inv, Queueing

LEMMA NextInv == Inv /\ [RecordNext]_recordVars => Inv'
<1> SUFFICES ASSUME Inv, [RecordNext]_recordVars PROVE Inv' OBVIOUS
<1> USE DEF Inv
<1>1. ASSUME NEW c \in Caller, NEW o \in Asked, Call(c, o) PROVE Inv'
  <2>1. o \in Op BY StoreAssumption
  <2>2. RecordTypeOK' /\ Requested' BY <1>1, <2>1, StoreAssumption DEF Call, RecordTypeOK, Requested, fileVars
  <2>3. Known' BY <1>1 DEF Call, RecordTypeOK, Known, Knows, fileVars
  <2>4. NoLitter' BY <1>1 DEF Call, RecordTypeOK, NoLitter, fileVars
  <2> QED BY <1>1, <2>2, <2>3, <2>4, CallKeepsLine
<1>2. ASSUME NEW c \in Caller, Step(c) PROVE Inv'
  BY <1>2, StepTyped, StepKnown, StepKeepsLine
<1>3. CASE Spoil
  <2>1. RecordTypeOK' /\ Requested' /\ NoLitter' /\ Known'
    BY <1>3 DEF Spoil, RecordTypeOK, Requested, NoLitter, Known, Knows, gateVars, Running
  <2>2. Queueing' BY <1>3 DEF Spoil, Queueing, InLine, Busy, gateVars
  <2> QED BY <2>1, <2>2
<1>4. CASE Crash
  <2>1. RecordTypeOK' /\ Requested' /\ NoLitter' /\ Known'
    BY <1>4, StoreAssumption DEF Crash, RecordTypeOK, Requested, NoLitter, Known, Knows
  <2> QED BY <1>4, <2>1, CrashKeepsLine
<1>5. CASE UNCHANGED recordVars
  <2>1. RecordTypeOK' /\ Requested' /\ NoLitter' /\ Known'
    BY <1>5 DEF recordVars, fileVars, gateVars, RecordTypeOK, Requested, NoLitter, Known, Knows
  <2>2. Queueing' BY <1>5 DEF recordVars, gateVars, Queueing, InLine, Busy
  <2> QED BY <2>1, <2>2
<1> QED BY <1>1, <1>2, <1>3, <1>4, <1>5 DEF RecordNext

\* Every value keeps its type.
THEOREM TypesHold == RecordSpec => []RecordTypeOK
<1>1. Inv => RecordTypeOK BY DEF Inv
<1> QED BY <1>1, InitInv, NextInv, PTL DEF RecordSpec

\* The operations of a record never overlap, however many are called and
\* whatever fails: #withRecord is a queue.
THEOREM NeverTwoAtATime == RecordSpec => []OneAtATime
<1>1. Inv => OneAtATime BY LineIsOneAtATime DEF Inv
<1> QED BY <1>1, InitInv, NextInv, PTL DEF RecordSpec

\* Temporary files are only there while a save is at work on them.
THEOREM LeavesNoLitter == RecordSpec => []NoLitter
<1>1. Inv => NoLitter BY DEF Inv
<1> QED BY <1>1, InitInv, NextInv, PTL DEF RecordSpec

-----------------------------------------------------------------------------
(* Refinement.                                                             *)

\* How far a call is in the abstract store.
StageOf(c) == CASE at[c] = "idle" -> "idle" [] at[c] = "syncdir" -> "written" [] OTHER -> "asked"
Stages == [c \in Caller |-> StageOf(c)]

\* A running operation that keeps its stage and touches nothing shown is a stutter.
LEMMA GoStutters ==
    ASSUME RecordTypeOK, NEW c \in Caller, NEW s \in Running \ {"syncdir"}, Go(c, s),
           at[c] \in Running \ {"syncdir"} \/ at[c] = "queued", file' = file, kept' = kept
    PROVE  UNCHANGED Abs!vars
<1>1. \A d \in Caller : StageOf(d)' = StageOf(d)
  BY DEF StageOf, Go, RecordTypeOK, Running
<1>2. Stages' = Stages BY <1>1 DEF Stages
<1> QED BY <1>2 DEF Abs!vars, Stages, StageOf, Go

\* What a return does to the abstract store.
LEMMA ReturnAnswers ==
    ASSUME RecordTypeOK, NEW c \in Caller, NEW r, Return(c, r), file' = file, kept' \in {kept, {file}}
    PROVE  Abs!Answer(c, r)
<1>1. \A d \in Caller : StageOf(d)' = IF d = c THEN "idle" ELSE StageOf(d)
  BY DEF StageOf, Return, RecordTypeOK
<1>2. Stages' = [Stages EXCEPT ![c] = "idle"] BY <1>1 DEF Stages
<1> QED BY <1>2 DEF Abs!Answer, Stages, StageOf, Return

\* The two writes, at the rename of a save and at the unlink of a removal.
LEMMA WriteHappens ==
    ASSUME RecordTypeOK, Requested, Known, NEW c \in Caller, Rename(c) \/ Unlink(c)
    PROVE  Abs!Write(c)
<1> USE DEF Running
<1>1. \A d \in Caller : StageOf(d)' = IF d = c THEN "written" ELSE StageOf(d)
  BY DEF StageOf, Rename, Unlink, Go, RecordTypeOK
<1>2. Stages' = [Stages EXCEPT ![c] = "written"] BY <1>1 DEF Stages
<1>3. Stages[c] = "asked" BY DEF Stages, StageOf, Rename, Unlink
<1>4. request' = request /\ reply' = reply BY DEF Rename, Unlink, Go
<1>5. /\ Abs!Writes(request[c], file) /\ file' = Abs!Effect(request[c], file)
      /\ kept' = kept \cup {file'}
  <2>1. CASE Rename(c)
    <3>1. Knows(c) /\ at[c] = "renaming" BY <2>1 DEF Known, Rename
    <3>2. file' = next[c] /\ kept' = kept \cup {file'}
      BY <2>1, <3>1 DEF Rename, Knows
    <3> QED BY <3>1, <3>2 DEF Knows, Abs!Writes, Abs!Effect, Abs!Record, Record
  <2>2. CASE Unlink(c)
    BY <2>2 DEF Unlink, Known, Knows, Abs!Writes, Abs!Effect
  <2> QED BY <2>1, <2>2
<1> QED BY <1>2, <1>3, <1>4, <1>5 DEF Abs!Write, Stages, StageOf

\* Each step of a call is a step of the durable record or none.
LEMMA StepRefines ==
    ASSUME RecordTypeOK, Requested, Known, NEW c \in Caller, Step(c)
    PROVE  Abs!Next \/ UNCHANGED Abs!vars
<1> USE DEF Running, fileVars
<1>0. Known /\ Knows(c) BY DEF Known
<1>1. CASE Start(c)
  <2>1. \A d \in Caller : StageOf(d)' = StageOf(d)
    BY <1>1 DEF StageOf, Start, RecordTypeOK
  <2>2. Stages' = Stages BY <2>1 DEF Stages
  <2> QED BY <1>1, <2>2 DEF Start, Abs!vars, Stages, StageOf
<1>2. ASSUME NEW r, Return(c, r), file' = file, kept' \in {kept, {file}},
             \/ r = Failed
             \/ r = Ok /\ at[c] = "syncdir" /\ kept' = {file}
             \/ /\ request[c].kind = "get" /\ at[c] # "syncdir"
                /\ r = IF file \in Record THEN file ELSE None
             \/ request[c].kind = "remove" /\ file = None /\ r = None /\ at[c] # "syncdir",
             at[c] # "idle"
      PROVE  Abs!Next
  <2>1. Abs!Answer(c, r) BY <1>2, ReturnAnswers
  <2>2. Stages[c] = IF at[c] = "syncdir" THEN "written" ELSE "asked"
    BY <1>2 DEF Stages, StageOf
  <2>3. CASE r = Failed
    <3>1. Stages[c] # "idle" BY <2>2
    <3>2. Abs!Fail(c) BY <2>1, <2>3, <3>1 DEF Abs!Fail, Stages, StageOf
    <3> QED BY <3>2 DEF Abs!Next
  <2>4. CASE r = Ok /\ at[c] = "syncdir" /\ kept' = {file}
    <3>1. Abs!Done(c) BY <2>1, <2>2, <2>4 DEF Abs!Done, Stages, StageOf
    <3> QED BY <3>1 DEF Abs!Next
  <2>5. CASE /\ request[c].kind = "get" /\ at[c] # "syncdir"
             /\ r = IF file \in Record THEN file ELSE None
    <3>1. Stages[c] = "asked" BY <2>2, <2>5
    <3>2. Abs!Record = Record BY DEF Abs!Record, Record
    <3>3. r = IF file \in Abs!Record THEN file ELSE None BY <2>5, <3>2
    <3>4. Abs!Answer(c, IF file \in Abs!Record THEN file ELSE None)
      BY ONLY <2>1, <3>3 DEF Abs!Answer
    <3>5. Abs!Got(c) BY ONLY <2>5, <3>1, <3>4 DEF Abs!Got, Stages, StageOf
    <3> QED BY <3>5 DEF Abs!Next
  <2>6. CASE request[c].kind = "remove" /\ file = None /\ r = None /\ at[c] # "syncdir"
    <3>1. Stages[c] = "asked" BY <2>2, <2>6
    <3>2. Abs!NothingToRemove(c) BY <2>1, <2>6, <3>1 DEF Abs!NothingToRemove, Stages, StageOf
    <3> QED BY <3>2 DEF Abs!Next
  <2> QED BY <1>2, <2>3, <2>4, <2>5, <2>6
<1>3. CASE Read(c)
  <2>1. CASE file = None /\ Return(c, Missing(c))
    BY <1>0, <1>2, <1>3, <2>1, StoreAssumption DEF Read, Missing, Knows
  <2>2. CASE file \in Record /\ request[c].kind = "get" /\ Return(c, file)
    BY <1>2, <1>3, <2>2 DEF Read
  <2>3. CASE \E s \in {"quarantine", "writing"} : Go(c, s)
    BY <1>3, <2>3, GoStutters DEF Read
  <2> QED BY <1>3, <2>1, <2>2, <2>3 DEF Read
<1>4. CASE ReadFails(c) BY <1>2, <1>4 DEF ReadFails
<1>5. CASE Quarantine(c)
  <2>1. \A d \in Caller : StageOf(d)' = StageOf(d)
    BY <1>5 DEF StageOf, Quarantine, Go, RecordTypeOK
  <2>2. Stages' = Stages BY <2>1 DEF Stages
  <2>3. Stages[c] = "asked" BY <1>5 DEF Stages, StageOf, Quarantine
  <2>4. Abs!Quarantine(c)
    BY <1>0, <1>5, <2>2, <2>3
       DEF Abs!Quarantine, Abs!Reads, Quarantine, Go, Knows, Stages, StageOf
  <2> QED BY <2>4 DEF Abs!Next
<1>6. CASE QuarantineFails(c)
  BY <1>0, <1>2, <1>6, StoreAssumption DEF QuarantineFails, Missing, Knows
<1>7. CASE Aside(c) BY <1>0, <1>2, <1>7, StoreAssumption DEF Aside, Missing, Knows
<1>8. CASE WriteTemp(c) BY <1>8, GoStutters DEF WriteTemp
<1>9. CASE OpenFails(c) BY <1>2, <1>9 DEF OpenFails
<1>10. CASE WriteFails(c) BY <1>10, GoStutters DEF WriteFails
<1>11. CASE SyncTemp(c) BY <1>11, GoStutters DEF SyncTemp
<1>12. CASE SyncFails(c) BY <1>12, GoStutters DEF SyncFails
<1>13. CASE Rename(c) BY <1>13, WriteHappens DEF Abs!Next
<1>14. CASE RenameFails(c) BY <1>14, GoStutters DEF RenameFails
<1>15. CASE SyncDir(c) BY <1>2, <1>15 DEF SyncDir
<1>16. CASE SyncDirFails(c) BY <1>2, <1>16 DEF SyncDirFails
<1>17. CASE Clean(c) BY <1>17, GoStutters DEF Clean
<1>18. CASE CleanFails(c) BY <1>2, <1>18 DEF CleanFails
<1>19. CASE Cleaned(c) BY <1>2, <1>19 DEF Cleaned
<1>20. CASE Unlink(c) BY <1>20, WriteHappens DEF Abs!Next
<1>21. CASE NothingThere(c) BY <1>0, <1>2, <1>21 DEF NothingThere, Knows
<1>22. CASE UnlinkFails(c) BY <1>2, <1>22 DEF UnlinkFails
<1> QED
  BY <1>1, <1>3, <1>4, <1>5, <1>6, <1>7, <1>8, <1>9, <1>10, <1>11, <1>12, <1>13, <1>14, <1>15,
     <1>16, <1>17, <1>18, <1>19, <1>20, <1>21, <1>22 DEF Step

LEMMA NextRefines == Inv /\ [RecordNext]_recordVars => [Abs!Next]_Abs!vars
<1> SUFFICES ASSUME Inv, [RecordNext]_recordVars PROVE Abs!Next \/ UNCHANGED Abs!vars OBVIOUS
<1> USE DEF Inv
<1>1. ASSUME NEW c \in Caller, NEW o \in Asked, Call(c, o) PROVE Abs!Next
  <2>1. \A d \in Caller : StageOf(d)' = IF d = c THEN "asked" ELSE StageOf(d)
    BY <1>1 DEF StageOf, Call, RecordTypeOK
  <2>2. Stages' = [Stages EXCEPT ![c] = "asked"] BY <2>1 DEF Stages
  <2>3. Stages[c] = "idle" BY <1>1 DEF Stages, StageOf, Call
  <2>4. Abs!Ask(c, o) BY <1>1, <2>2, <2>3 DEF Abs!Ask, Call, fileVars, Stages, StageOf
  <2>5. o \in Abs!Op BY StoreAssumption DEF Op, Abs!Op, Record, Abs!Record
  <2> QED BY <2>4, <2>5 DEF Abs!Next
<1>2. ASSUME NEW c \in Caller, Step(c) PROVE Abs!Next \/ UNCHANGED Abs!vars
  BY <1>2, StepRefines
<1>3. CASE Spoil
  <2>1. \A d \in Caller : StageOf(d)' = StageOf(d) /\ StageOf(d) # "written"
    BY <1>3 DEF StageOf, Spoil, Running
  <2>2. Stages' = Stages /\ \A d \in Caller : Stages[d] # "written" BY <2>1 DEF Stages
  <2>3. Abs!Spoil BY <1>3, <2>2 DEF Abs!Spoil, Spoil, Stages, StageOf
  <2> QED BY <2>3 DEF Abs!Next
<1>4. CASE Crash
  <2>1. \A d \in Caller : StageOf(d)' = "idle" BY <1>4 DEF StageOf, Crash
  <2>2. Stages' = [d \in Caller |-> "idle"] BY <2>1 DEF Stages
  <2>3. Abs!Crash BY <1>4, <2>2 DEF Abs!Crash, Crash, Stages, StageOf
  <2> QED BY <2>3 DEF Abs!Next
<1>5. CASE UNCHANGED recordVars
  <2>1. \A d \in Caller : StageOf(d)' = StageOf(d) BY <1>5 DEF recordVars, StageOf
  <2>2. Stages' = Stages BY <2>1 DEF Stages
  <2> QED BY <1>5, <2>2 DEF recordVars, fileVars, Abs!vars, Stages, StageOf
<1> QED BY <1>1, <1>2, <1>3, <1>4, <1>5 DEF RecordNext

\* The file discipline of the store gives a durable record: whatever fails and
\* whenever the daemon dies, each operation takes effect at one instant, no
\* half record is ever shown, and what was answered is kept.
THEOREM StoreIsDurable == RecordSpec => Implements
<1>1. RecordInit => Abs!Init
  <2> SUFFICES ASSUME RecordInit PROVE Abs!Init OBVIOUS
  <2>1. \A d \in Caller : StageOf(d) = "idle" BY DEF RecordInit, StageOf
  <2>2. Stages = [d \in Caller |-> "idle"] BY <2>1 DEF Stages
  <2> QED BY <2>2 DEF RecordInit, Abs!Init, Stages, StageOf
<1> QED BY <1>1, InitInv, NextInv, NextRefines, PTL DEF RecordSpec, Implements, Abs!Spec

-----------------------------------------------------------------------------
(* The lock and the socket.                                                *)

\* A process that holds the lock made the file that is there, and a second
\* start finds its process id in it.
Held ==
    \A p \in Proc : pc[p] \in Holding => lock = p /\ (pc[p] # "write" => p \in signed)
OneStarts == \A p, q \in Proc : pc[p] \in Starting /\ pc[q] \in Starting => p = q
Bound ==
    \A p \in Proc : /\ pc[p] \in Listening => sock = p
                    /\ pc[p] = "bind" => sock = NoFile
\* What the start has read is still true of the holder, if there is one.
Judged ==
    \A p, q \in Proc : /\ pc[p] = "judge" /\ pc[q] \in Holding => saw[p] = q
                       /\ pc[p] = "unlink" => pc[q] \notin Holding

Apart == Held /\ OneStarts /\ Bound /\ Judged
LockInv == LockTypeOK /\ (starts = "apart" => Apart)

LEMMA InitLockInv == LockInit => LockInv
BY LockAssumption
   DEF LockInit, LockInv, LockTypeOK, Apart, Held, OneStarts, Bound, Judged, Maker, Holding, Starting,
       Listening, Stopping, Over

LEMMA LockStepTyped == ASSUME LockTypeOK, [LockNext]_lockVars PROVE LockTypeOK'
<1> USE DEF LockTypeOK, GoTo, Maker, Starting, Stopping, Over, Listening
<1>1. ASSUME NEW p \in Proc, Create(p) \/ WritePid(p) \/ ReadPid(p) \/ Judge(p) \/ UnlinkLock(p)
      PROVE  LockTypeOK'
  BY <1>1 DEF Create, WritePid, ReadPid, Judge, UnlinkLock
<1>2. ASSUME NEW p \in Proc, Stat(p) \/ Probe(p) \/ RemoveStale(p) \/ Bind(p)
      PROVE  LockTypeOK'
  BY <1>2 DEF Stat, Probe, RemoveStale, Bind
<1>3. ASSUME NEW p \in Proc, ReleaseLock(p) \/ Unlock(p) \/ CloseServer(p) \/ RemoveSocket(p)
      PROVE  LockTypeOK'
  BY <1>3 DEF ReleaseLock, Unlock, CloseServer, RemoveSocket, EndOf
<1>4. ASSUME NEW p \in Proc, Spawn(p) \/ Stop(p) \/ StopFails(p) \/ Die(p)
      PROVE  LockTypeOK'
  BY <1>4 DEF Spawn, Stop, StopFails, Die
<1>5. CASE UNCHANGED lockVars BY <1>5 DEF lockVars
<1> QED BY <1>1, <1>2, <1>3, <1>4, <1>5 DEF LockNext, LockStep

\* One process at a time has the lock.
LEMMA HeldByOne ==
    ASSUME Held, NEW p \in Proc, NEW q \in Proc, pc[p] \in Holding, pc[q] \in Holding
    PROVE  p = q
BY DEF Held

LEMMA StepApart ==
    ASSUME LockTypeOK, starts = "apart", Apart, NEW p \in Proc,
           LockStep(p) \/ Spawn(p) \/ Stop(p) \/ StopFails(p) \/ Die(p)
    PROVE  Apart'
<1> USE LockAssumption DEF Apart, LockTypeOK, GoTo, Maker, Holding, Starting, Listening, Stopping, Over
<1>1. CASE Create(p)
  <2>1. lock = NoFile => \A q \in Proc : pc[q] \notin Holding BY DEF Held
  <2> QED BY <1>1, <2>1 DEF Create, Held, OneStarts, Bound, Judged
<1>2. CASE WritePid(p) BY <1>2 DEF WritePid, Held, OneStarts, Bound, Judged
<1>3. CASE ReadPid(p)
  <2>1. \A q \in Proc : pc[q] \in Holding => lock = q /\ q \in signed
    BY <1>3 DEF ReadPid, Held, OneStarts
  <2> QED BY <1>3, <2>1 DEF ReadPid, Held, OneStarts, Bound, Judged
<1>4. CASE Judge(p) BY <1>4 DEF Judge, Alive, Held, OneStarts, Bound, Judged
<1>5. CASE UnlinkLock(p) BY <1>5 DEF UnlinkLock, Held, OneStarts, Bound, Judged
<1>6. CASE Stat(p) BY <1>6 DEF Stat, Held, OneStarts, Bound, Judged
<1>7. CASE Probe(p) BY <1>7 DEF Probe, Answers, Held, OneStarts, Bound, Judged
<1>8. CASE RemoveStale(p)
  <2>1. \A q \in Proc : q # p => pc[q] \notin Holding BY <1>8, HeldByOne DEF RemoveStale
  <2> QED BY <1>8, <2>1 DEF RemoveStale, Held, OneStarts, Bound, Judged
<1>9. CASE Bind(p)
  <2>1. \A q \in Proc : q # p => pc[q] \notin Holding BY <1>9, HeldByOne DEF Bind
  <2> QED BY <1>9, <2>1 DEF Bind, Held, OneStarts, Bound, Judged
<1>10. CASE CloseServer(p) \/ RemoveSocket(p)
  <2>1. \A q \in Proc : q # p => pc[q] \notin Holding
    BY <1>10, HeldByOne DEF CloseServer, RemoveSocket
  <2> QED BY <1>10, <2>1 DEF CloseServer, RemoveSocket, Held, OneStarts, Bound, Judged
<1>11. CASE ReleaseLock(p) BY <1>11 DEF ReleaseLock, EndOf, Held, OneStarts, Bound, Judged
<1>12. CASE Unlock(p)
  <2>1. \A q \in Proc : q # p => pc[q] \notin Holding BY <1>12, HeldByOne DEF Unlock
  <2> QED BY <1>12, <2>1 DEF Unlock, EndOf, Held, OneStarts, Bound, Judged
<1>13. CASE Spawn(p) BY <1>13 DEF Spawn, Held, OneStarts, Bound, Judged
<1>14. CASE Stop(p) \/ StopFails(p) BY <1>14 DEF Stop, StopFails, Held, OneStarts, Bound, Judged
<1>15. CASE Die(p) BY <1>15 DEF Die, Alive, Held, OneStarts, Bound, Judged
<1> QED
  BY <1>1, <1>2, <1>3, <1>4, <1>5, <1>6, <1>7, <1>8, <1>9, <1>10, <1>11, <1>12, <1>13, <1>14,
     <1>15 DEF LockStep

LEMMA NextLockInv == LockInv /\ [LockNext]_lockVars => LockInv'
<1> SUFFICES ASSUME LockInv, [LockNext]_lockVars PROVE LockInv' OBVIOUS
<1>1. starts' = starts
  BY DEF LockNext, lockVars, LockStep, Create, WritePid, ReadPid, Judge, UnlinkLock, Stat, Probe, RemoveStale, Bind,
         ReleaseLock, Unlock, CloseServer, RemoveSocket, Spawn, Stop, StopFails, Die
<1>2. LockTypeOK' BY LockStepTyped DEF LockInv
<1>3. ASSUME starts = "apart" PROVE Apart'
  <2>1. CASE UNCHANGED lockVars
    BY <1>3, <2>1 DEF LockInv, lockVars, Apart, Held, OneStarts, Bound, Judged
  <2> QED BY <1>3, <2>1, StepApart DEF LockInv, LockNext
<1> QED BY <1>1, <1>2, <1>3 DEF LockInv

\* Every value keeps its type.
THEOREM LockTyped == LockSpec => []LockTypeOK
<1>1. LockInv => LockTypeOK BY DEF LockInv
<1> QED BY <1>1, InitLockInv, NextLockInv, PTL DEF LockSpec

\* Through crashes, restarts, failed and overlapping stops, two processes never
\* hold the lock: tryLock and release exclude when starts do not overlap.
THEOREM Exclusion == LockSpec => []LockExcludes
<1>1. LockInv => LockExcludes BY HeldByOne DEF LockInv, Apart, LockExcludes
<1> QED BY <1>1, InitLockInv, NextLockInv, PTL DEF LockSpec

\* And then nobody takes the files of a daemon that listens.
THEOREM Reachability == LockSpec => []ServingIsReachable
<1>1. LockInv => ServingIsReachable
  BY DEF LockInv, Apart, Held, Bound, ServingIsReachable, Holding, Listening
<1> QED BY <1>1, InitLockInv, NextLockInv, PTL DEF LockSpec

-----------------------------------------------------------------------------
(* However many are started at once, one of them comes up.                 *)

\* Nobody has died, and nobody has stopped or can no longer go back.
AtRest == \A p \in Proc : pc[p] \notin {"dead", "stopped", "rmsock", "release", "unlock"}

\* On the way to the socket, or there.
Coming == {"write", "stat", "probe", "unsock", "bind"} \cup Listening

\* Some process has made the lock file or was refused.
Begun ==
    \/ lock \in Proc \/ signed \cap Proc # {}
    \/ \E p \in Proc : attempt[p] = 2 /\ pc[p] \in {"read", "judge", "unlink"}
    \/ \E p \in Proc : pc[p] = "refused"

\* The lock of the dead daemon is not what a second attempt meets.
SecondTry == (\E p \in Proc : attempt[p] = 2) => lock # Gone
\* A process id is read only when it was written, and a start gives up with its own written.
Written == \A p \in Proc : /\ saw[p] \in Proc => saw[p] \in signed
                           /\ pc[p] \in {"stat", "probe", "unsock", "bind", "giveup", "undo"} => p \in signed
\* Only a daemon that listens can make bind fail.
BindFails == AtRest => \A p \in Proc : pc[p] = "bind" /\ sock # NoFile => sock \in Proc /\ pc[sock] \in Listening
SomeoneComes == AtRest /\ Begun => \E q \in Proc : pc[q] \in Coming

Crowd == SecondTry /\ Written /\ BindFails /\ SomeoneComes

LEMMA InitCrowd == LockInit => Crowd
BY LockAssumption
   DEF LockInit, Crowd, SecondTry, Written, BindFails, SomeoneComes, AtRest, Begun, Coming, Listening, Maker

\* A daemon that listens goes on, or the processes are not quiet any more.
LEMMA QuietBefore ==
    ASSUME LockTypeOK, NEW p \in Proc, LockStep(p) \/ Spawn(p) \/ Stop(p) \/ StopFails(p) \/ Die(p), AtRest'
    PROVE  /\ AtRest /\ ~Die(p) /\ ~CloseServer(p) /\ ~RemoveSocket(p)
           /\ \A q \in Proc : pc[q] \in Listening => pc'[q] \in Listening
           /\ \A q \in Proc : q # p => pc'[q] = pc[q]
<1> USE DEF LockTypeOK, GoTo, AtRest, Listening
<1>1. \A q \in Proc : q # p => pc'[q] = pc[q]
  BY DEF LockStep, Create, WritePid, ReadPid, Judge, UnlinkLock, Stat, Probe, RemoveStale, Bind, ReleaseLock, Unlock,
         CloseServer, RemoveSocket, Spawn, Stop, StopFails, Die
<1>2. ~Die(p) /\ ~CloseServer(p) /\ ~RemoveSocket(p) BY DEF Die, CloseServer, RemoveSocket
<1>3. pc[p] \notin {"dead", "stopped", "rmsock", "release", "unlock"}
  BY <1>2 DEF LockStep, Create, WritePid, ReadPid, Judge, UnlinkLock, Stat, Probe, RemoveStale, Bind, ReleaseLock, Unlock,
         Spawn, Stop, StopFails, EndOf
<1>4. pc[p] \in Listening => pc'[p] \in Listening
  BY <1>2 DEF LockStep, Create, WritePid, ReadPid, Judge, UnlinkLock, Stat, Probe, RemoveStale, Bind, ReleaseLock, Unlock,
         Spawn, Stop, StopFails
<1> QED BY <1>1, <1>2, <1>3, <1>4

LEMMA StepCrowd ==
    ASSUME LockTypeOK, Crowd, NEW p \in Proc, LockStep(p) \/ Spawn(p) \/ Stop(p) \/ StopFails(p) \/ Die(p)
    PROVE  Crowd'
<1> USE LockAssumption DEF LockTypeOK, GoTo, Maker
<1>0. SecondTry /\ Written /\ BindFails /\ SomeoneComes BY DEF Crowd
<1>1. SecondTry'
  <2>1. lock' = Gone => lock = Gone /\ attempt'[p] \in {attempt[p], 1}
    BY DEF LockStep, Create, WritePid, ReadPid, Judge, UnlinkLock, Stat, Probe, RemoveStale, Bind, ReleaseLock, Unlock,
           CloseServer, RemoveSocket, Spawn, Stop, StopFails, Die
  <2>2. \A q \in Proc : q # p => attempt'[q] = attempt[q]
    BY DEF LockStep, Create, WritePid, ReadPid, Judge, UnlinkLock, Stat, Probe, RemoveStale, Bind, ReleaseLock, Unlock,
           CloseServer, RemoveSocket, Spawn, Stop, StopFails, Die
  <2> QED BY <1>0, <2>1, <2>2 DEF SecondTry
<1>2. Written'
  <2>1. signed \subseteq signed' /\ \A q \in Proc : q # p => pc'[q] = pc[q] /\ saw'[q] = saw[q]
    BY DEF LockStep, Create, WritePid, ReadPid, Judge, UnlinkLock, Stat, Probe, RemoveStale, Bind, ReleaseLock, Unlock,
           CloseServer, RemoveSocket, Spawn, Stop, StopFails, Die
  <2>2. saw'[p] \in Proc => saw'[p] \in signed
    BY <1>0 DEF LockStep, Create, WritePid, ReadPid, Judge, UnlinkLock, Stat, Probe, RemoveStale, Bind, ReleaseLock, Unlock,
           CloseServer, RemoveSocket, Spawn, Stop, StopFails, Die, Written
  <2>3. pc'[p] \in {"stat", "probe", "unsock", "bind", "giveup", "undo"} => p \in signed'
    BY <1>0 DEF LockStep, Create, WritePid, ReadPid, Judge, UnlinkLock, Stat, Probe, RemoveStale, Bind, ReleaseLock, Unlock,
           CloseServer, RemoveSocket, Spawn, Stop, StopFails, Die, Written, EndOf
  <2> QED BY <1>0, <2>1, <2>2, <2>3 DEF Written
<1>3. ASSUME AtRest'
      PROVE  /\ AtRest /\ ~Die(p) /\ ~CloseServer(p) /\ ~RemoveSocket(p)
             /\ \A q \in Proc : pc[q] \in Listening => pc'[q] \in Listening
             /\ \A q \in Proc : q # p => pc'[q] = pc[q]
  BY <1>3, QuietBefore
<1>4. BindFails'
  <2> SUFFICES ASSUME AtRest', NEW q \in Proc, pc'[q] = "bind", sock' # NoFile
               PROVE  sock' \in Proc /\ pc'[sock'] \in Listening
    BY DEF BindFails
  <2>1. CASE Bind(p) /\ sock = NoFile /\ sock' = p /\ GoTo(p, "up")
    <3>1. pc'[p] = "up" BY <2>1
    <3> QED BY <2>1, <3>1 DEF Listening
  <2>2. CASE sock' = sock
    <3>1. pc[q] = "bind"
      <4>1. q = p /\ pc[q] # "bind" => sock = NoFile
        BY <1>3, <2>2 DEF LockStep, Create, WritePid, ReadPid, Judge, UnlinkLock, Stat, Probe, RemoveStale, Bind, ReleaseLock,
           Unlock, Spawn, Stop, StopFails, EndOf
      <4> QED BY <1>3, <2>2, <4>1
    <3> QED BY <1>0, <1>3, <2>2, <3>1 DEF BindFails
  <2>3. sock' = sock \/ sock' = NoFile \/ (Bind(p) /\ sock = NoFile /\ sock' = p /\ GoTo(p, "up"))
    BY DEF LockStep, Create, WritePid, ReadPid, Judge, UnlinkLock, Stat, Probe, RemoveStale, Bind, ReleaseLock, Unlock,
           CloseServer, RemoveSocket, Spawn, Stop, StopFails, Die
  <2> QED BY <2>1, <2>2, <2>3
<1>5. SomeoneComes'
  <2> SUFFICES ASSUME AtRest', Begun' PROVE \E q \in Proc : pc'[q] \in Coming
    BY DEF SomeoneComes, Coming, Listening
  <2>1. CASE Begun
    <3>1. PICK q \in Proc : pc[q] \in Coming BY <1>0, <1>3, <2>1 DEF SomeoneComes
    <3>2. CASE pc'[p] \in Coming BY <3>2
    <3>3. CASE q # p BY <1>3, <3>1, <3>3
    <3>4. CASE q = p /\ pc'[p] \notin Coming
      <4>1. pc'[p] = "giveup" /\ ((pc[p] = "probe" /\ Answers) \/ (pc[p] = "bind" /\ sock # NoFile))
        <5> USE DEF GoTo, Coming, Listening
        <5>1. pc[p] \in Coming /\ pc'[p] \notin Coming BY <3>1, <3>4
        <5>2. ~Create(p) /\ ~ReadPid(p) /\ ~Judge(p) /\ ~UnlinkLock(p) /\ ~Spawn(p)
          BY <5>1 DEF Create, ReadPid, Judge, UnlinkLock, Spawn
        <5>3. ~WritePid(p) /\ ~Stat(p) /\ ~RemoveStale(p) /\ ~Stop(p) /\ ~StopFails(p)
          BY <5>1 DEF WritePid, Stat, RemoveStale, Stop, StopFails
        <5>4. ~ReleaseLock(p) /\ ~Unlock(p) BY <5>1 DEF ReleaseLock, Unlock
        <5>5. CASE Probe(p)
          <6>1. CASE Answers BY <5>5, <6>1 DEF Probe
          <6>2. CASE ~Answers BY <5>1, <5>5, <6>2 DEF Probe
          <6> QED BY <6>1, <6>2
        <5>6. CASE Bind(p) BY <5>1, <5>6 DEF Bind
        <5> QED BY <1>3, <5>2, <5>3, <5>4, <5>5, <5>6 DEF LockStep
      <4>2. sock \in Proc /\ pc[sock] \in Listening BY <1>0, <1>3, <4>1 DEF Answers, BindFails
      <4> QED BY <1>3, <4>2 DEF Coming
    <3> QED BY <3>2, <3>3, <3>4
  <2>2. CASE ~Begun
    <3>1. pc'[p] \in {"write", "stat"}
      <4>1. lock \notin Proc /\ signed \cap Proc = {} /\ (\A q \in Proc : pc[q] # "refused")
            /\ \A q \in Proc : ~(attempt[q] = 2 /\ pc[q] \in {"read", "judge", "unlink"})
        BY <2>2 DEF Begun
      <4>2. saw[p] \notin Proc /\ pc[p] \notin {"stat", "probe", "unsock", "bind", "giveup", "undo"}
        BY <1>0, <4>1 DEF Written
      <4>3. attempt[p] = 2 => lock \in {NoFile} BY <1>0, <4>1 DEF SecondTry
      <4>4. CASE Create(p)
        <5>1. CASE lock = NoFile BY <4>4, <5>1 DEF Create
        <5>2. CASE lock # NoFile
          <6>1. UNCHANGED <<lock, signed, attempt>> /\ attempt[p] # 2 /\ pc'[p] = "read"
            BY <4>3, <4>4, <5>2 DEF Create
          <6>2. ~Begun' BY <1>3, <4>1, <6>1 DEF Begun
          <6> QED BY <6>2
        <5> QED BY <5>1, <5>2
      <4>5. CASE WritePid(p) BY <4>5 DEF WritePid
      <4>6. CASE ~Create(p) /\ ~WritePid(p)
        <5>1. pc[p] \in {"off", "read", "judge", "unlink", "up", "draining"}
          BY <1>3, <4>2, <4>6 DEF LockStep, ReadPid, Judge, UnlinkLock, Stat, Probe, RemoveStale, Bind, ReleaseLock, Unlock,
             Spawn, Stop, StopFails, AtRest
        <5>2. signed' = signed /\ (lock' = lock \/ lock' = NoFile) /\ NoFile \notin Proc
          BY <1>3, <4>6 DEF LockStep, ReadPid, Judge, UnlinkLock, Stat, Probe, RemoveStale, Bind, ReleaseLock, Unlock,
             Spawn, Stop, StopFails
        <5>3. pc'[p] # "refused" /\ ~(attempt'[p] = 2 /\ pc'[p] \in {"read", "judge", "unlink"})
          BY <1>3, <4>1, <4>2, <4>6, <5>1 DEF LockStep, ReadPid, Judge, UnlinkLock, Stat, Probe, RemoveStale, Bind, ReleaseLock,
             Unlock, Spawn, Stop, StopFails, Alive
        <5>4. \A q \in Proc : q # p => attempt'[q] = attempt[q]
          BY DEF LockStep, Create, WritePid, ReadPid, Judge, UnlinkLock, Stat, Probe, RemoveStale, Bind, ReleaseLock, Unlock,
             CloseServer, RemoveSocket, Spawn, Stop, StopFails, Die
        <5>5. ~Begun' BY <1>3, <4>1, <5>2, <5>3, <5>4 DEF Begun
        <5> QED BY <5>5
      <4> QED BY <4>4, <4>5, <4>6
    <3> QED BY <3>1 DEF Coming
  <2> QED BY <2>1, <2>2
<1> QED BY <1>1, <1>2, <1>4, <1>5 DEF Crowd

LEMMA NextCrowd == LockTypeOK /\ Crowd /\ [LockNext]_lockVars => Crowd'
<1>1. ASSUME Crowd, UNCHANGED lockVars PROVE Crowd'
  BY <1>1 DEF lockVars, Crowd, SecondTry, Written, BindFails, SomeoneComes, AtRest, Begun
<1> QED BY <1>1, StepCrowd DEF LockNext

\* However many are started at once, whatever each finds of the others' files:
\* when all but the refused are at rest and none has died or been stopped, one
\* of them listens (tryLock's second attempt, listen and its failure).
THEOREM OneComesUp == LockSpec => []SomeoneServes
<1>1. LockTypeOK /\ Crowd => SomeoneServes
  BY DEF Crowd, SomeoneComes, AtRest, Begun, Coming, Listening, SomeoneServes
<1> QED BY <1>1, InitLockInv, NextLockInv, LockTyped, InitCrowd, NextCrowd, PTL DEF LockSpec

\* A daemon that listens can be found, and starting many at once leaves one.
THEOREM Findable == LockSpec => []DaemonIsFound
<1>1. ServingIsReachable /\ SomeoneServes => DaemonIsFound BY DEF DaemonIsFound
<1> QED BY <1>1, Reachability, OneComesUp, PTL

-----------------------------------------------------------------------------
(* The pipes to a child.                                                   *)

(* Types.                                                                   *)

\* The transport starts with nothing asked and nothing read.
LEMMA InitTyped == Init => TypeOK
<1>. SUFFICES ASSUME Init PROVE TypeOK
  OBVIOUS
<1>. USE RpcAssumption DEF Init, RpcAssumption
<1>1. pipe \in Seq(Line) /\ preReady \in Seq(1..MaxRecords) /\ pushed \in Seq(1..MaxRecords)
  BY EmptySeq
<1>2. Open = {} BY DEF Open
<1>3. call \in [Calls -> {"idle", "sent", "ok", "refused"}]
  OBVIOUS
<1>4. child = "none" /\ received \subseteq Calls /\ runs \subseteq Calls /\ wrote \in 0..MaxRecords
  OBVIOUS
<1>5. prompting \subseteq Calls /\ clock \subseteq Pending /\ Open \subseteq Dialogs
      /\ expiring \subseteq Open /\ \A d \in Open : dialogs[d] \subseteq Calls
  BY <1>2
<1>. QED BY <1>1, <1>3, <1>4, <1>5 DEF TypeOK

\* The parts of the type invariant that concern the dialogs and the requests.
RequestTypes ==
    /\ call \in [Calls -> {"idle", "sent", "ok", "refused"}]
    /\ prompting \subseteq Calls /\ clock \subseteq Pending
UiTypes ==
    /\ Open \subseteq Dialogs /\ expiring \subseteq Open
    /\ \A d \in Open : dialogs[d] \subseteq Calls

\* Clearing the dialogs leaves none.
LEMMA Cleared == ASSUME ClearDialogs PROVE Open' = {} /\ UiTypes'
  BY DEF ClearDialogs, UiTypes, Open

\* The end of some dialogs leaves the others.
LEMMA Finished ==
  ASSUME UiTypes, RequestTypes, NEW gone, NEW live \in SUBSET Calls, FinishDialogs(gone, live)
  PROVE  UiTypes' /\ Open' = Open \ gone /\ clock' \subseteq live
  BY DEF FinishDialogs, UiTypes, RequestTypes, Open

\* A failure leaves no request pending and no event queue open.
LEMMA FailureClears ==
  ASSUME RequestTypes, stream \in {"open", "closed", "failed"}, Fail, UNCHANGED prompting
  PROVE  /\ RequestTypes' /\ UiTypes' /\ Pending' = {} /\ clock' = {}
         /\ stream' \in {"closed", "failed"}
         /\ \A r \in Calls : call'[r] = "idle" <=> call[r] = "idle"
  BY Cleared DEF Fail, RequestTypes, Pending

\* Beginning to end the child closes what is open.
LEMMA BegunTyped ==
  ASSUME TypeOK, BeginTerminate
  PROVE  /\ UiTypes' /\ closing' \in BOOLEAN /\ terminator' \in {"no", "waiting", "done"}
         /\ signals' \subseteq {"EOF", "SIGTERM", "SIGKILL"}
         /\ stream' \in {"open", "closed", "failed"}
  BY Cleared DEF TypeOK, UiTypes, BeginTerminate, CloseStream, uiVars, Open

\* A request is refused, or pending from now on.
LEMMA RequestTyped ==
  ASSUME TypeOK, NEW r \in Calls, NEW isPrompt \in BOOLEAN, Request(r, isPrompt)
  PROVE  /\ RequestTypes' /\ UiTypes'
         /\ child' \in {"none", "missing", "running", "dead"} /\ received' \subseteq Calls
         /\ UNCHANGED <<pipe, wrote, runs, exit, endVars>>
<1>1. UNCHANGED <<pipe, wrote, runs, exit, endVars>>
  BY DEF Request, Refuse, Send, piVars, uiVars
<1>2. CASE Refuse(r)
  BY <1>2 DEF TypeOK, Request, Refuse, Send, RequestTypes, UiTypes, Pending, Open, piVars, uiVars
<1>3. CASE ~Refuse(r)
  <2>1. Send(r, isPrompt) BY <1>3 DEF Request
  <2>2. RequestTypes' BY <2>1 DEF TypeOK, Send, RequestTypes, Pending
  <2>3. UiTypes' BY <2>1 DEF TypeOK, Send, UiTypes, Open
  <2>4. child' \in {"none", "missing", "running", "dead"} /\ received' \subseteq Calls
    BY <1>3 DEF TypeOK, Request
  <2>. QED BY <1>1, <2>2, <2>3, <2>4
<1>. QED BY <1>1, <1>2, <1>3

\* A record that is read is held back or handed on.
LEMMA KeptTyped ==
  ASSUME TypeOK, NEW no \in 1..MaxRecords, Keep(no)
  PROVE  preReady' \in Seq(1..MaxRecords) /\ pushed' \in Seq(1..MaxRecords)
<1>1. Append(preReady, no) \in Seq(1..MaxRecords) /\ Append(pushed, no) \in Seq(1..MaxRecords)
  BY AppendProperties DEF TypeOK
<1>. QED BY <1>1 DEF TypeOK, Keep

\* What is left of the pipe holds lines; records have numbers.
LEMMA Lines ==
  ASSUME TypeOK
  PROVE  /\ \A i \in DOMAIN pipe : pipe[i] \in Line
         /\ \A l \in Line : /\ l.is \in {"reply", "dialog", "settled", "event"}
                            /\ l.is = "reply" => l.of \in Calls /\ l.ok \in BOOLEAN
                            /\ l.is = "dialog" => l.of \in Dialogs /\ l.timeout \in BOOLEAN
                            /\ l.is # "reply" => l.no \in 1..MaxRecords
         /\ pipe # <<>> => /\ Head(pipe) \in Line /\ Head(pipe) = pipe[1]
                           /\ Tail(pipe) \in Seq(Line)
                           /\ Len(pipe) \in Nat \ {0}
                           /\ DOMAIN pipe = 1..Len(pipe)
                           /\ DOMAIN Tail(pipe) = 1..Len(pipe) - 1
                           /\ \A i \in 1..Len(pipe) - 1 : Tail(pipe)[i] = pipe[i + 1]
<1>1. \A i \in DOMAIN pipe : pipe[i] \in Line BY DEF TypeOK
<1>2. \A l \in Line : /\ l.is \in {"reply", "dialog", "settled", "event"}
                      /\ l.is = "reply" => l.of \in Calls /\ l.ok \in BOOLEAN
                      /\ l.is = "dialog" => l.of \in Dialogs /\ l.timeout \in BOOLEAN
                      /\ l.is # "reply" => l.no \in 1..MaxRecords
  BY DEF Line
<1>3. ASSUME pipe # <<>>
      PROVE  /\ Head(pipe) \in Line /\ Head(pipe) = pipe[1]
             /\ Tail(pipe) \in Seq(Line)
             /\ Len(pipe) \in Nat \ {0}
             /\ DOMAIN pipe = 1..Len(pipe)
             /\ DOMAIN Tail(pipe) = 1..Len(pipe) - 1
             /\ \A i \in 1..Len(pipe) - 1 : Tail(pipe)[i] = pipe[i + 1]
  BY <1>3, HeadTailProperties, LenProperties DEF TypeOK
<1>. QED BY <1>1, <1>2, <1>3

\* Reading a line.
LEMMA ReadTyped == ASSUME TypeOK, HandleLine PROVE TypeOK'
<1>. DEFINE line == Head(pipe)
<1>0. /\ line \in Line /\ pipe' = Tail(pipe) /\ pipe' \in Seq(Line)
      /\ UNCHANGED <<child, received, wrote, runs, exit, prompting, handshake, stream, endVars>>
  BY Lines DEF HandleLine
<1>1. RequestTypes /\ UiTypes BY DEF TypeOK, RequestTypes, UiTypes
<1>2. CASE line.is = "reply"
  <2>1. SettleReply(line) BY <1>2 DEF HandleLine
  <2>2. preReady' \in Seq(1..MaxRecords) /\ pushed' \in Seq(1..MaxRecords)
    BY <2>1 DEF SettleReply, TypeOK
  <2>3. CASE line.of \in Pending
    <3>. DEFINE gone == {d \in Open : line.of \in dialogs[d]}
    <3>1. FinishDialogs(gone, Pending \ {line.of}) BY <2>1, <2>3 DEF SettleReply
    <3>2. UiTypes' /\ clock' \subseteq Pending \ {line.of}
      BY <1>1, <3>1, Finished DEF Pending
    <3>3. RequestTypes'
      BY <2>1, <2>3, <3>2, <1>0, <1>1 DEF SettleReply, RequestTypes, Pending
    <3>. QED BY <1>0, <2>2, <3>2, <3>3 DEF TypeOK, RequestTypes, UiTypes, endVars
  <2>4. CASE line.of \notin Pending
    BY <1>0, <2>1, <2>2, <2>4 DEF SettleReply, TypeOK, uiVars, endVars, Pending, Open
  <2>. QED BY <2>3, <2>4
<1>3. CASE line.is = "dialog"
  <2>1. WaitForDialog(line) BY <1>3 DEF HandleLine
  <2>2. preReady' \in Seq(1..MaxRecords) /\ pushed' \in Seq(1..MaxRecords)
    BY <1>0, <1>3, <2>1, Lines, KeptTyped DEF WaitForDialog
  <2>3. UiTypes' BY <1>0, <1>1, <1>3, <2>1, Lines DEF WaitForDialog, UiTypes, uiVars, Open, PendingPrompts, Pending
  <2>4. RequestTypes' BY <1>0, <1>1, <2>1 DEF WaitForDialog, RequestTypes, Pending
  <2>. QED BY <1>0, <2>2, <2>3, <2>4 DEF TypeOK, RequestTypes, UiTypes, endVars
<1>4. CASE line.is \in {"settled", "event"}
  <2>1. Keep(line.no) /\ UNCHANGED <<call, clock>> /\ (ClearDialogs \/ UNCHANGED uiVars)
    BY <1>4 DEF HandleLine, uiVars
  <2>2. preReady' \in Seq(1..MaxRecords) /\ pushed' \in Seq(1..MaxRecords)
    BY <1>0, <1>4, <2>1, Lines, KeptTyped
  <2>3. UiTypes' BY <2>1, <1>1, Cleared DEF UiTypes, uiVars, Open
  <2>. QED BY <1>0, <2>1, <2>2, <2>3 DEF TypeOK, UiTypes, endVars, Pending
<1>. QED BY <1>0, <1>2, <1>3, <1>4, Lines

\* Every step keeps the types.
LEMMA TypingNext == TypeOK /\ [LooseNext]_vars => TypeOK'
<1>. SUFFICES ASSUME TypeOK, [LooseNext]_vars PROVE TypeOK'
  OBVIOUS
<1>0. RequestTypes /\ UiTypes BY DEF TypeOK, RequestTypes, UiTypes
<1>. USE DEF piVars, callVars, uiVars, streamVars, endVars
<1>1. ASSUME NEW r \in Calls, Ask(r) PROVE TypeOK'
  BY <1>1, RequestTyped DEF Ask, TypeOK, RequestTypes, UiTypes
<1>2. CASE WaitReady
  BY <1>2, RequestTyped, RpcAssumption DEF WaitReady, TypeOK, RequestTypes, UiTypes, RpcAssumption
<1>3. CASE HandshakeEnds
  BY <1>3, ConcatProperties DEF HandshakeEnds, TypeOK, Pending, Open
<1>4. CASE HandshakeDeadline
  BY <1>4 DEF HandshakeDeadline, TypeOK, Pending, Open
<1>5. CASE Terminate
  BY <1>5, BegunTyped DEF Terminate, TypeOK, UiTypes, Pending
<1>6. CASE TerminateEnds
  BY <1>0, <1>6, FailureClears DEF TerminateEnds, TypeOK, RequestTypes, UiTypes
<1>7. CASE Close
  BY <1>0, <1>7, Cleared DEF Close, CloseStream, TypeOK, UiTypes, Pending, Open
<1>8. CASE CloseConfirmed
  BY <1>8 DEF CloseConfirmed, CloseStream, TypeOK, Pending, Open
<1>9. CASE CloseEscalates
  BY <1>9 DEF CloseEscalates, CloseStream, TypeOK, Pending, Open
<1>10. ASSUME NEW r \in Calls, RequestTimesOut(r) PROVE TypeOK'
  <2>1. UiTypes' /\ closing' \in BOOLEAN /\ terminator' \in {"no", "waiting", "done"}
        /\ signals' \subseteq {"EOF", "SIGTERM", "SIGKILL"}
        /\ stream' \in {"open", "closed", "failed"}
    BY <1>0, <1>10, BegunTyped DEF RequestTimesOut, TypeOK, UiTypes, Open
  <2>2. RequestTypes' BY <1>10, <1>0 DEF RequestTimesOut, RequestTypes, Pending
  <2>. QED BY <1>10, <2>1, <2>2 DEF RequestTimesOut, TypeOK, RequestTypes, UiTypes
<1>11. ASSUME NEW d \in Dialogs, DialogExpires(d) \/ RespondUi(d) PROVE TypeOK'
  <2>1. EndDialog(d) BY <1>11 DEF DialogExpires, RespondUi
  <2>2. UiTypes' /\ clock' \subseteq Pending BY <1>0, <2>1, Finished DEF EndDialog, Pending
  <2>. QED BY <2>1, <2>2 DEF EndDialog, TypeOK, UiTypes, Pending
<1>12. CASE HandleLine BY <1>12, ReadTyped
<1>13. CASE HandleExit \/ HandleSpawnFailure
  BY <1>0, <1>13, FailureClears DEF HandleExit, HandleSpawnFailure, TypeOK, RequestTypes, UiTypes
<1>14. ASSUME NEW r \in Calls, PiReplies(r) PROVE TypeOK'
  <2>1. PICK ok \in BOOLEAN : pipe' = Append(pipe, Reply(r, ok)) BY <1>14 DEF PiReplies
  <2>2. pipe' \in Seq(Line) BY <2>1 DEF Reply, Line, TypeOK
  <2>. QED BY <1>14, <2>2 DEF PiReplies, PiUnchanged, TypeOK, Pending, Open
<1>15. ASSUME NEW line \in Line, PiWrites(line), runs' \subseteq runs PROVE TypeOK'
  <2>1. pipe' \in Seq(Line) /\ wrote' \in 0..MaxRecords
    BY <1>15, RpcAssumption DEF PiWrites, TypeOK, RpcAssumption
  <2>. QED BY <1>15, <2>1 DEF PiWrites, PiUnchanged, TypeOK, Pending, Open
<1>16. ASSUME wrote < MaxRecords PROVE wrote + 1 \in 1..MaxRecords
  BY <1>16, RpcAssumption DEF TypeOK, RpcAssumption
<1>17. ASSUME NEW r \in Calls, PiSettles(r) PROVE TypeOK'
  BY <1>15, <1>16, <1>17 DEF PiSettles, PiWrites, Settled, Line
<1>18. ASSUME NEW d \in Dialogs, PiAsks(d) PROVE TypeOK'
  BY <1>15, <1>16, <1>18 DEF PiAsks, PiWrites, Asking, Line
<1>19. CASE PiSpeaks
  BY <1>15, <1>16, <1>19 DEF PiSpeaks, PiWrites, Event, Line
<1>20. CASE Dies
  BY <1>20 DEF Dies, PiUnchanged, TypeOK, Pending, Open
<1>21. CASE UNCHANGED vars
  BY <1>21 DEF vars, TypeOK, Pending, Open
<1>. QED
  BY <1>1, <1>2, <1>3, <1>4, <1>5, <1>6, <1>7, <1>8, <1>9, <1>10, <1>11, <1>12, <1>13, <1>14,
     <1>17, <1>18, <1>19, <1>20, <1>21 DEF LooseNext, Transport, Pi

(* Requests are asked and answered once.                                    *)

\* What most steps do to the requests, and to what pi has of them: no request
\* becomes idle, and none is asked or answered anew.
Settles ==
    /\ \A r \in Calls : call'[r] = "idle" <=> call[r] = "idle"
    /\ UNCHANGED prompting /\ received' \subseteq received /\ runs' \subseteq runs

\* The steps that neither ask nor answer.
LEMMA SettleSteps ==
  ASSUME TypeOK, [LooseNext]_vars
  PROVE  \/ \E r \in Calls, isPrompt \in BOOLEAN : Request(r, isPrompt)
         \/ \E r \in Calls : PiReplies(r)
         \/ Settles /\ UNCHANGED pipe
         \/ Settles /\ pipe # <<>> /\ pipe' = Tail(pipe)
         \/ Settles /\ \E l \in Line : l.is # "reply" /\ pipe' = Append(pipe, l)
<1>. USE DEF piVars, callVars, uiVars, streamVars, endVars, Settles
<1>1. ASSUME NEW r \in Calls, Ask(r)
      PROVE  \E q \in Calls, isPrompt \in BOOLEAN : Request(q, isPrompt)
  BY <1>1 DEF Ask
<1>2. ASSUME WaitReady PROVE Request(Hello, FALSE) /\ Hello \in Calls
  BY <1>2, RpcAssumption DEF WaitReady, RpcAssumption
<1>3. ASSUME HandshakeEnds \/ HandshakeDeadline \/ Terminate \/ Close \/ CloseConfirmed \/ CloseEscalates
      PROVE  Settles /\ UNCHANGED pipe
  BY <1>3 DEF HandshakeEnds, HandshakeDeadline, Terminate, Close, CloseConfirmed, CloseEscalates
<1>4. ASSUME TerminateEnds \/ HandleExit \/ HandleSpawnFailure
      PROVE  Settles /\ UNCHANGED pipe
  BY <1>4 DEF TerminateEnds, HandleExit, HandleSpawnFailure, Fail, Pending, TypeOK
<1>5. ASSUME NEW r \in Calls, RequestTimesOut(r)
      PROVE  Settles /\ UNCHANGED pipe
  BY <1>5 DEF RequestTimesOut, Pending, TypeOK
<1>6. ASSUME NEW d \in Dialogs, DialogExpires(d) \/ RespondUi(d)
      PROVE  Settles /\ UNCHANGED pipe
  BY <1>6 DEF DialogExpires, RespondUi, EndDialog
<1>7. ASSUME HandleLine PROVE Settles /\ pipe # <<>> /\ pipe' = Tail(pipe)
  <2>1. pipe # <<>> /\ pipe' = Tail(pipe) /\ UNCHANGED <<prompting, received, runs>>
    BY <1>7 DEF HandleLine
  <2>2. \A r \in Calls : call'[r] = "idle" <=> call[r] = "idle"
    BY <1>7, Lines DEF HandleLine, SettleReply, WaitForDialog, TypeOK, Pending
  <2>. QED BY <2>1, <2>2
<1>8. ASSUME Dies
      PROVE  Settles /\ UNCHANGED pipe
  BY <1>8 DEF Dies, PiUnchanged
<1>9. ASSUME NEW line \in Line, line.is # "reply", PiWrites(line), runs' \subseteq runs
      PROVE  Settles /\ \E l \in Line : l.is # "reply" /\ pipe' = Append(pipe, l)
  BY <1>9 DEF PiWrites, PiUnchanged
<1>10. ASSUME wrote < MaxRecords PROVE wrote + 1 \in 1..MaxRecords
  BY <1>10, RpcAssumption DEF TypeOK, RpcAssumption
<1>11. ASSUME NEW r \in Calls, PiSettles(r)
       PROVE  Settles /\ \E l \in Line : l.is # "reply" /\ pipe' = Append(pipe, l)
  <2>1. Settled(wrote + 1) \in Line /\ Settled(wrote + 1).is # "reply"
    BY <1>10, <1>11 DEF PiSettles, PiWrites, Settled, Line
  <2>. QED BY <2>1, <1>9, <1>11 DEF PiSettles
<1>12. ASSUME NEW d \in Dialogs, PiAsks(d)
       PROVE  Settles /\ \E l \in Line : l.is # "reply" /\ pipe' = Append(pipe, l)
  <2>1. PICK timeout \in BOOLEAN : PiWrites(Asking(d, wrote + 1, timeout)) BY <1>12 DEF PiAsks
  <2>2. Asking(d, wrote + 1, timeout) \in Line /\ Asking(d, wrote + 1, timeout).is # "reply"
    BY <1>10, <2>1 DEF PiWrites, Asking, Line
  <2>. QED BY <2>1, <2>2, <1>9, <1>12 DEF PiAsks
<1>13. ASSUME PiSpeaks
       PROVE  Settles /\ \E l \in Line : l.is # "reply" /\ pipe' = Append(pipe, l)
  <2>1. Event(wrote + 1) \in Line /\ Event(wrote + 1).is # "reply"
    BY <1>10, <1>13 DEF PiSpeaks, PiWrites, Event, Line
  <2>. QED BY <2>1, <1>9, <1>13 DEF PiSpeaks
<1>14. ASSUME UNCHANGED vars
      PROVE  Settles /\ UNCHANGED pipe
  BY <1>14 DEF vars
<1>. HIDE DEF Settles, piVars, callVars, uiVars, streamVars, endVars
<1>15. CASE \E r \in Calls : Ask(r)
  BY <1>1, <1>15
<1>16. CASE Transport
  BY <1>2, <1>3, <1>4, <1>5, <1>6, <1>7, <1>16 DEF Transport
<1>17. CASE Pi
  BY <1>8, <1>11, <1>12, <1>13, <1>17 DEF Pi
<1>. QED BY <1>14, <1>15, <1>16, <1>17 DEF LooseNext

\* What a line appended to the pipe is found as.
LEMMA Appended ==
  ASSUME TypeOK, NEW l \in Line, pipe' = Append(pipe, l)
  PROVE  /\ Len(pipe) \in Nat /\ DOMAIN pipe = 1..Len(pipe)
         /\ DOMAIN pipe' = 1..Len(pipe) + 1
         /\ \A i \in 1..Len(pipe) : pipe'[i] = pipe[i]
         /\ pipe'[Len(pipe) + 1] = l
  BY AppendProperties, LenProperties DEF TypeOK

\* A request is answered at most once, and not before it was asked.
LEMMA AskedOnceNext == ASSUME TypeOK, AskedOnce, [LooseNext]_vars PROVE AskedOnce'
<1>1. ASSUME NEW r \in Calls, NEW isPrompt \in BOOLEAN, Request(r, isPrompt) PROVE AskedOnce'
  <2>1. call[r] = "idle" /\ call' \in {[call EXCEPT ![r] = "sent"], [call EXCEPT ![r] = "refused"]}
    BY <1>1 DEF Request, Refuse, Send
  <2>2. received' \subseteq received \cup {r} /\ prompting' \subseteq prompting \cup {r}
        /\ UNCHANGED <<pipe, runs>>
    BY <1>1 DEF Request, Refuse, Send, piVars
  <2>3. \A q \in Calls : call'[q] = "idle" <=> call[q] = "idle" /\ q # r
    BY <2>1 DEF TypeOK
  <2>. QED BY <2>1, <2>2, <2>3, Lines DEF AskedOnce, TypeOK
<1>2. ASSUME NEW r \in Calls, PiReplies(r) PROVE AskedOnce'
  <2>1. PICK ok \in BOOLEAN : pipe' = Append(pipe, Reply(r, ok)) /\ runs' \subseteq runs \cup {r}
    BY <1>2 DEF PiReplies
  <2>2. Reply(r, ok) \in Line /\ Reply(r, ok).of = r BY DEF Reply, Line
  <2>3. r \in received /\ received' = received \ {r} /\ UNCHANGED <<call, prompting>>
    BY <1>2 DEF PiReplies, PiUnchanged, callVars
  <2>. QED BY <2>1, <2>2, <2>3, Appended DEF AskedOnce
<1>3. ASSUME Settles, UNCHANGED pipe PROVE AskedOnce'
  BY <1>3, Lines DEF Settles, AskedOnce, TypeOK
<1>4. ASSUME Settles, pipe # <<>>, pipe' = Tail(pipe) PROVE AskedOnce'
  BY <1>4, Lines DEF Settles, AskedOnce, TypeOK
<1>5. ASSUME Settles, NEW l \in Line, l.is # "reply", pipe' = Append(pipe, l) PROVE AskedOnce'
  BY <1>5, Lines, Appended DEF Settles, AskedOnce, TypeOK
<1>. QED BY <1>1, <1>2, <1>3, <1>4, <1>5, SettleSteps

(* A prompt is answered before its run is settled.                          *)

\* Nothing is said of a child that is being ended or has ended, which stays so.
LEMMA UsableBefore ==
  ASSUME TypeOK, [LooseNext]_vars, ~closing', exit' = "no"
  PROVE  ~closing /\ exit = "no"
<1>. USE DEF piVars, callVars, uiVars, streamVars, endVars
<1>1. ASSUME NEW r \in Calls, NEW isPrompt \in BOOLEAN, Request(r, isPrompt)
      PROVE  UNCHANGED <<closing, exit>>
  BY <1>1 DEF Request, Refuse, Send
<1>2. CASE \E r \in Calls : Ask(r)
  BY <1>1, <1>2 DEF Ask
<1>3. CASE Transport
  <2>1. CASE WaitReady BY <1>1, <2>1, RpcAssumption DEF WaitReady, RpcAssumption
  <2>2. CASE HandshakeEnds \/ HandshakeDeadline \/ TerminateEnds \/ CloseConfirmed \/ CloseEscalates
             \/ HandleLine
    BY <2>2 DEF HandshakeEnds, HandshakeDeadline, TerminateEnds, CloseConfirmed, CloseEscalates,
                HandleLine
  <2>3. CASE Terminate BY <2>3 DEF Terminate, BeginTerminate
  <2>4. CASE Close \/ HandleExit \/ HandleSpawnFailure
    BY <2>4 DEF Close, HandleExit, HandleSpawnFailure
  <2>5. ASSUME NEW r \in Calls, RequestTimesOut(r) PROVE ~closing /\ exit = "no"
    BY <2>5 DEF RequestTimesOut, BeginTerminate
  <2>6. ASSUME NEW d \in Dialogs, DialogExpires(d) \/ RespondUi(d) PROVE ~closing /\ exit = "no"
    BY <2>6 DEF DialogExpires, RespondUi, EndDialog
  <2>. QED BY <1>3, <2>1, <2>2, <2>3, <2>4, <2>5, <2>6 DEF Transport
<1>4. CASE Pi
  BY <1>4 DEF Pi, PiReplies, PiSettles, PiAsks, PiSpeaks, PiWrites, Dies, PiUnchanged
<1>. QED BY <1>2, <1>3, <1>4 DEF LooseNext, vars

\* A request that is no prompt changes nothing about prompts.
LEMMA OtherRequest ==
  ASSUME TypeOK, AskedOnce, NEW r \in Calls, Request(r, FALSE), ~closing, exit = "no"
  PROVE  /\ PendingPrompts' = PendingPrompts /\ r \notin prompting'
         /\ UNCHANGED <<prompting, pipe, runs>> /\ received' \subseteq received \cup {r}
  BY DEF Request, Refuse, Send, TypeOK, AskedOnce, PendingPrompts, Pending, piVars

\* Who waits still waits for what is still in the pipe.
LEMMA StillAnswered ==
  ASSUME TypeOK, AnsweredBeforeSettled, ~closing, exit = "no",
         PendingPrompts' \subseteq PendingPrompts, runs' \subseteq runs,
         received' \cap prompting' \subseteq Pending',
         \/ UNCHANGED pipe
         \/ \E l \in Line : l.is # "settled" /\ pipe' = Append(pipe, l)
  PROVE  AnsweredBeforeSettled'
<1>. USE DEF AnsweredBeforeSettled, IsReply
<1>1. CASE UNCHANGED pipe
  BY <1>1
<1>2. ASSUME NEW l \in Line, l.is # "settled", pipe' = Append(pipe, l)
      PROVE  AnsweredBeforeSettled'
  <2>1. \A q, r \in PendingPrompts' : q = r OBVIOUS
  <2>2. runs' # {} => \A r \in PendingPrompts' : \E i \in DOMAIN pipe' : IsReply(i, r)'
    BY <1>2, Appended
  <2>3. \A i \in DOMAIN pipe' : pipe'[i].is = "settled" =>
              \A r \in PendingPrompts' : \E j \in 1..(i - 1) : IsReply(j, r)'
    <3>. SUFFICES ASSUME NEW i \in DOMAIN pipe', pipe'[i].is = "settled", NEW r \in PendingPrompts'
                  PROVE  \E j \in 1..(i - 1) : IsReply(j, r)'
      OBVIOUS
    <3>1. i \in 1..Len(pipe) /\ pipe[i].is = "settled" BY <1>2, Appended
    <3>2. PICK j \in 1..(i - 1) : IsReply(j, r) BY <3>1, Appended, <1>2
    <3>3. pipe'[j] = pipe[j] BY <3>1, <1>2, Appended
    <3>. QED BY <3>2, <3>3
  <2>. QED BY <2>1, <2>2, <2>3
<1>. QED BY <1>1, <1>2

\* Reading a line: an answer that is read is waited for no more.
LEMMA ReadAnswered ==
  ASSUME TypeOK, AskedOnce, AnsweredBeforeSettled, ~closing, exit = "no", HandleLine
  PROVE  AnsweredBeforeSettled'
<1>. DEFINE line == Head(pipe)
<1>1. /\ pipe # <<>> /\ pipe' = Tail(pipe) /\ line \in Line /\ line = pipe[1]
      /\ UNCHANGED <<runs, received, prompting>>
  BY Lines DEF HandleLine
<1>2. line.is = "reply" => SettleReply(line) BY DEF HandleLine
<1>3. line.is # "reply" => UNCHANGED call
  BY <1>1, Lines DEF HandleLine, WaitForDialog
<1>4. PendingPrompts' = PendingPrompts \ {r \in Calls : IsReply(1, r)}
  BY <1>1, <1>2, <1>3, Lines DEF SettleReply, PendingPrompts, Pending, IsReply, TypeOK
<1>5. received' \cap prompting' \subseteq Pending'
  <2>. SUFFICES ASSUME NEW r \in received \cap prompting PROVE r \in Pending'
    BY <1>1
  <2>1. r \in Pending /\ ~IsReply(1, r)
    BY <1>1, Lines DEF AnsweredBeforeSettled, AskedOnce, IsReply
  <2>. QED BY <2>1, <1>1, <1>2, <1>3 DEF SettleReply, Pending, IsReply, TypeOK
<1>6. ASSUME NEW r \in PendingPrompts', NEW n \in 1..Len(pipe), NEW j \in 1..n, IsReply(j, r)
      PROVE  \E i \in 1..(n - 1) : IsReply(i, r)'
  <2>1. j # 1 /\ r \in PendingPrompts BY <1>4, <1>6 DEF PendingPrompts, Pending
  <2>2. j - 1 \in 1..(n - 1) /\ j - 1 \in 1..Len(pipe) - 1 /\ (j - 1) + 1 = j BY <2>1, <1>1, Lines
  <2>3. pipe'[j - 1] = pipe[j] BY <2>2, <1>1, Lines
  <2>. QED BY <2>2, <2>3, <1>6 DEF IsReply
<1>7. runs' # {} => \A r \in PendingPrompts' : \E i \in DOMAIN pipe' : IsReply(i, r)'
  <2>. SUFFICES ASSUME runs # {}, NEW r \in PendingPrompts' PROVE \E i \in DOMAIN pipe' : IsReply(i, r)'
    BY <1>1
  <2>1. PICK j \in DOMAIN pipe : IsReply(j, r) BY <1>4 DEF AnsweredBeforeSettled
  <2>2. Len(pipe) \in 1..Len(pipe) /\ j \in 1..Len(pipe) BY <1>1, Lines
  <2>. QED BY <2>1, <2>2, <1>6, <1>1, Lines
<1>8. \A i \in DOMAIN pipe' : pipe'[i].is = "settled" =>
          \A r \in PendingPrompts' : \E j \in 1..(i - 1) : IsReply(j, r)'
  <2>. SUFFICES ASSUME NEW i \in 1..Len(pipe) - 1, pipe[i + 1].is = "settled", NEW r \in PendingPrompts'
                PROVE  \E j \in 1..(i - 1) : IsReply(j, r)'
    BY <1>1, Lines
  <2>1. i + 1 \in 1..Len(pipe) /\ DOMAIN pipe = 1..Len(pipe) /\ i \in 1..Len(pipe) BY <1>1, Lines
  <2>2. PICK j \in 1..((i + 1) - 1) : IsReply(j, r) BY <1>4, <2>1 DEF AnsweredBeforeSettled
  <2>3. j \in 1..i BY <2>1, <2>2
  <2>. QED BY <2>1, <2>2, <2>3, <1>6
<1>. QED BY <1>4, <1>5, <1>7, <1>8 DEF AnsweredBeforeSettled

\* A prompt is answered before the end of its run is read, whatever else happens.
LEMMA AnsweredNext ==
  ASSUME TypeOK, AskedOnce, Ending, AnsweredBeforeSettled, [Next]_vars
  PROVE  AnsweredBeforeSettled'
<1>. SUFFICES ASSUME ~closing', exit' = "no" PROVE AnsweredBeforeSettled'
  BY DEF AnsweredBeforeSettled
<1>0. ~closing /\ exit = "no" BY UsableBefore DEF Next, LooseNext
<1>1. ASSUME UNCHANGED <<call, prompting, received, pipe, runs>> PROVE AnsweredBeforeSettled'
  BY <1>1, <1>0 DEF AnsweredBeforeSettled, PendingPrompts, Pending, IsReply
<1>2. ASSUME NEW r \in Calls, Request(r, FALSE) PROVE AnsweredBeforeSettled'
  <2>1. received' \cap prompting' \subseteq Pending'
    BY <1>0, <1>2, OtherRequest DEF AnsweredBeforeSettled, PendingPrompts
  <2>. QED BY <2>1, <1>0, <1>2, OtherRequest, StillAnswered
<1>3. ASSUME NEW r \in Calls, Request(r, TRUE), Quiet PROVE AnsweredBeforeSettled'
  <2>1. Send(r, TRUE) /\ received' \subseteq received \cup {r} BY <1>0, <1>3 DEF Request
  <2>2. PendingPrompts' = {r} /\ prompting' = prompting \cup {r} /\ UNCHANGED <<pipe, runs>>
    BY <2>1, <1>3 DEF Send, Quiet, PendingPrompts, Pending, TypeOK
  <2>3. received \cap prompting = {} BY <1>0, <1>3 DEF AnsweredBeforeSettled, Quiet, AskedOnce, Request, PendingPrompts
  <2>4. received' \cap prompting' \subseteq Pending'
    <3>. SUFFICES ASSUME NEW q \in received', q \in prompting', q # r PROVE q \in Pending'
      BY <2>2 DEF PendingPrompts
    <3>. QED BY <2>1, <2>2, <2>3
  <2>. QED BY <2>2, <2>4, <1>3 DEF AnsweredBeforeSettled, Quiet
<1>4. ASSUME NEW r \in Calls, Ask(r), r \in prompting' => Quiet PROVE AnsweredBeforeSettled'
  <2>1. PICK isPrompt \in BOOLEAN : Request(r, isPrompt) BY <1>4 DEF Ask
  <2>2. CASE isPrompt = TRUE
    <3>1. r \in prompting' BY <1>0, <2>1, <2>2 DEF Request, Send
    <3>. QED BY <3>1, <2>1, <2>2, <1>3, <1>4
  <2>3. CASE isPrompt = FALSE BY <2>1, <2>3, <1>2
  <2>. QED BY <2>2, <2>3
<1>5. CASE Transport
  <2>1. CASE WaitReady BY <1>2, <2>1, RpcAssumption DEF WaitReady, RpcAssumption
  <2>2. CASE HandshakeEnds \/ HandshakeDeadline \/ Terminate \/ Close \/ CloseConfirmed
             \/ CloseEscalates
    BY <1>1, <2>2 DEF HandshakeEnds, HandshakeDeadline, Terminate, Close, CloseConfirmed,
                      CloseEscalates, piVars, callVars
  <2>3. ~TerminateEnds /\ ~HandleExit /\ ~HandleSpawnFailure
    BY <1>0 DEF TerminateEnds, HandleExit, HandleSpawnFailure, Ending
  <2>4. ASSUME NEW r \in Calls, RequestTimesOut(r) PROVE AnsweredBeforeSettled'
    <3>1. r \notin prompting BY <1>0, <2>4 DEF RequestTimesOut, BeginTerminate, Ending
    <3>2. PendingPrompts' = PendingPrompts /\ UNCHANGED <<pipe, runs, received, prompting>>
      BY <2>4, <3>1 DEF RequestTimesOut, PendingPrompts, Pending, TypeOK, piVars
    <3>3. received' \cap prompting' \subseteq Pending'
      BY <1>0, <3>2 DEF AnsweredBeforeSettled, PendingPrompts
    <3>. QED BY <1>0, <3>2, <3>3, StillAnswered
  <2>5. ASSUME NEW d \in Dialogs, DialogExpires(d) \/ RespondUi(d) PROVE AnsweredBeforeSettled'
    BY <1>1, <2>5 DEF DialogExpires, RespondUi, EndDialog, piVars
  <2>6. CASE HandleLine BY <1>0, <2>6, ReadAnswered
  <2>. QED BY <1>5, <2>1, <2>2, <2>3, <2>4, <2>5, <2>6 DEF Transport
<1>6. ASSUME NEW r \in Calls, PiReplies(r) PROVE AnsweredBeforeSettled'
  <2>1. PICK ok \in BOOLEAN : /\ pipe' = Append(pipe, Reply(r, ok))
                              /\ runs' = IF ok /\ r \in prompting THEN runs \cup {r} ELSE runs
    BY <1>6 DEF PiReplies
  <2>2. r \in received /\ received' \subseteq received
        /\ UNCHANGED <<call, prompting>> /\ Reply(r, ok) \in Line
    BY <1>6 DEF PiReplies, PiUnchanged, callVars, Reply, Line
  <2>3. PendingPrompts' = PendingPrompts /\ Pending' = Pending BY <2>2 DEF PendingPrompts, Pending
  <2>4. received' \cap prompting' \subseteq Pending' BY <1>0, <2>2, <2>3 DEF AnsweredBeforeSettled
  <2>5. CASE runs' = runs
    BY <1>0, <2>1, <2>2, <2>3, <2>4, <2>5, StillAnswered DEF Reply
  <2>6. CASE runs' # runs
    <3>1. \A q \in PendingPrompts : q = r
      BY <1>0, <2>1, <2>2, <2>6 DEF AnsweredBeforeSettled, PendingPrompts
    <3>2. \E i \in DOMAIN pipe' : IsReply(i, r)'
      <4>1. pipe'[Len(pipe) + 1] = Reply(r, ok) /\ Len(pipe) + 1 \in DOMAIN pipe'
        BY <2>1, <2>2, Appended
      <4>2. Reply(r, ok).is = "reply" /\ Reply(r, ok).of = r BY DEF Reply
      <4>. QED BY <4>1, <4>2 DEF IsReply
    <3>3. \A i \in DOMAIN pipe' : pipe'[i].is = "settled" =>
              \A q \in PendingPrompts' : \E j \in 1..(i - 1) : IsReply(j, q)'
      <4>. SUFFICES ASSUME NEW i \in DOMAIN pipe', pipe'[i].is = "settled", NEW q \in PendingPrompts
                    PROVE  \E j \in 1..(i - 1) : IsReply(j, q)'
        BY <2>3
      <4>1. i \in 1..Len(pipe) /\ pipe[i].is = "settled" BY <2>1, <2>2, Appended DEF Reply
      <4>2. PICK j \in 1..(i - 1) : IsReply(j, q)
        BY <1>0, <4>1, <2>1, <2>2, Appended DEF AnsweredBeforeSettled
      <4>3. pipe'[j] = pipe[j] BY <4>1, <2>1, <2>2, Appended
      <4>. QED BY <4>2, <4>3 DEF IsReply
    <3>4. \A q \in PendingPrompts' : q = r BY <2>3, <3>1
    <3>5. \A q \in PendingPrompts' : \E i \in DOMAIN pipe' : IsReply(i, q)' BY <3>2, <3>4
    <3>6. \A p, q \in PendingPrompts' : p = q BY <3>4
    <3>. QED BY <2>4, <3>3, <3>5, <3>6 DEF AnsweredBeforeSettled
  <2>. QED BY <2>5, <2>6
<1>7. ASSUME NEW line \in Line, line.is # "settled", PiWrites(line), UNCHANGED runs
      PROVE  AnsweredBeforeSettled'
  <2>1. pipe' = Append(pipe, line) /\ UNCHANGED <<received, call, prompting>>
    BY <1>7 DEF PiWrites, PiUnchanged, callVars
  <2>2. PendingPrompts' = PendingPrompts /\ received' \cap prompting' \subseteq Pending'
    BY <1>0, <2>1 DEF PendingPrompts, Pending, AnsweredBeforeSettled
  <2>. QED BY <1>0, <1>7, <2>1, <2>2, StillAnswered
<1>8. ASSUME wrote < MaxRecords PROVE wrote + 1 \in 1..MaxRecords
  BY <1>8, RpcAssumption DEF TypeOK, RpcAssumption
<1>9. ASSUME NEW d \in Dialogs, PiAsks(d) PROVE AnsweredBeforeSettled'
  <2>1. PICK timeout \in BOOLEAN : PiWrites(Asking(d, wrote + 1, timeout)) /\ UNCHANGED runs
    BY <1>9 DEF PiAsks
  <2>2. Asking(d, wrote + 1, timeout) \in Line /\ Asking(d, wrote + 1, timeout).is # "settled"
    BY <1>8, <2>1 DEF PiWrites, Asking, Line
  <2>. QED BY <2>1, <2>2, <1>7
<1>10. CASE PiSpeaks
  <2>1. Event(wrote + 1) \in Line /\ Event(wrote + 1).is # "settled"
    BY <1>8, <1>10 DEF PiSpeaks, PiWrites, Event, Line
  <2>. QED BY <2>1, <1>7, <1>10 DEF PiSpeaks
<1>11. ASSUME NEW r \in Calls, PiSettles(r) PROVE AnsweredBeforeSettled'
  <2>1. /\ runs # {} /\ pipe' = Append(pipe, Settled(wrote + 1))
        /\ UNCHANGED <<received, call, prompting>> /\ runs' \subseteq runs
    BY <1>11 DEF PiSettles, PiWrites, PiUnchanged, callVars
  <2>2. Settled(wrote + 1) \in Line BY <1>8, <1>11 DEF PiSettles, PiWrites, Settled, Line
  <2>3. PendingPrompts' = PendingPrompts /\ received' \cap prompting' \subseteq Pending'
    BY <1>0, <2>1 DEF PendingPrompts, Pending, AnsweredBeforeSettled
  <2>4. \A i \in 1..Len(pipe), q \in Calls : IsReply(i, q)' <=> IsReply(i, q)
    BY <2>1, <2>2, Appended DEF IsReply
  <2>5. \A q \in PendingPrompts : \E i \in 1..Len(pipe) : IsReply(i, q)
    BY <1>0, <2>1, <2>2, Appended DEF AnsweredBeforeSettled
  <2>6. PendingPrompts \subseteq Calls BY DEF PendingPrompts, Pending
  <2>7. \A i \in DOMAIN pipe' : pipe'[i].is = "settled" =>
              \A q \in PendingPrompts' : \E j \in 1..(i - 1) : IsReply(j, q)'
    <3>. SUFFICES ASSUME NEW i \in DOMAIN pipe', pipe'[i].is = "settled", NEW q \in PendingPrompts
                  PROVE  \E j \in 1..(i - 1) : IsReply(j, q)'
      BY <2>3
    <3>0. Len(pipe) \in Nat /\ (i \in 1..Len(pipe) \/ i = Len(pipe) + 1)
      BY <2>1, <2>2, Appended
    <3>1. CASE i \in 1..Len(pipe)
      <4>1. PICK j \in 1..(i - 1) : IsReply(j, q)
        BY <1>0, <3>1, <2>1, <2>2, Appended DEF AnsweredBeforeSettled
      <4>2. j \in 1..Len(pipe) BY <3>0, <3>1, <4>1
      <4>. QED BY <4>1, <4>2, <2>4, <2>6
    <3>2. CASE i = Len(pipe) + 1
      BY <3>0, <3>2, <2>4, <2>5, <2>6
    <3>. QED BY <3>0, <3>1, <3>2
  <2>8. \A q \in PendingPrompts' : \E i \in DOMAIN pipe' : IsReply(i, q)'
    <3>1. 1..Len(pipe) \subseteq DOMAIN pipe' BY <2>1, <2>2, Appended
    <3>. QED BY <3>1, <2>3, <2>4, <2>5, <2>6
  <2>. QED BY <1>0, <2>3, <2>7, <2>8 DEF AnsweredBeforeSettled
<1>12. CASE Dies
  <2>1. received' = {} /\ runs' = {} /\ UNCHANGED <<pipe, call, prompting>>
    BY <1>12 DEF Dies, PiUnchanged, callVars
  <2>2. PendingPrompts' = PendingPrompts BY <2>1 DEF PendingPrompts, Pending
  <2>. QED BY <1>0, <2>1, <2>2, StillAnswered
<1>13. CASE UNCHANGED vars
  BY <1>1, <1>13 DEF vars, piVars, callVars
<1>14. CASE Pi
  BY <1>6, <1>9, <1>10, <1>11, <1>12, <1>14 DEF Pi
<1>. QED BY <1>4, <1>5, <1>13, <1>14 DEF Next

(* How the child ends.                                                      *)

\* A child ends once, and whoever ends it makes sure of it.
LEMMA EndingNext == ASSUME TypeOK, Ending, [LooseNext]_vars PROVE Ending'
<1>. USE DEF piVars, callVars, uiVars, streamVars, endVars
<1>1. ASSUME NEW r \in Calls, NEW isPrompt \in BOOLEAN, Request(r, isPrompt) PROVE Ending'
  BY <1>1 DEF Request, Refuse, Send, Ending
<1>2. ASSUME BeginTerminate, UNCHANGED <<child, exit, closer>> PROVE Ending'
  BY <1>2 DEF BeginTerminate, Ending, TypeOK
<1>3. ASSUME UNCHANGED <<child, exit, endVars>> PROVE Ending'
  BY <1>3 DEF Ending
<1>4. ASSUME NEW r \in Calls, Ask(r) PROVE Ending'
  BY <1>1, <1>4 DEF Ask
<1>5. CASE Transport
  <2>1. ASSUME NEW r \in Calls, RequestTimesOut(r) PROVE Ending'
    BY <1>2, <1>3, <2>1 DEF RequestTimesOut
  <2>2. CASE WaitReady BY <1>1, <2>2, RpcAssumption DEF WaitReady, RpcAssumption
  <2>3. CASE HandshakeEnds \/ HandshakeDeadline \/ HandleLine
    BY <1>3, <2>3 DEF HandshakeEnds, HandshakeDeadline, HandleLine
  <2>4. CASE Terminate BY <1>2, <2>4 DEF Terminate
  <2>5. CASE TerminateEnds BY <2>5 DEF TerminateEnds, Ending
  <2>6. CASE Close BY <2>6 DEF Close, Ending, TypeOK
  <2>7. CASE CloseConfirmed BY <2>7 DEF CloseConfirmed, Ending, TypeOK
  <2>8. CASE CloseEscalates BY <2>8 DEF CloseEscalates, Ending, TypeOK
  <2>9. ASSUME NEW d \in Dialogs, DialogExpires(d) \/ RespondUi(d) PROVE Ending'
    BY <1>3, <2>9 DEF DialogExpires, RespondUi, EndDialog
  <2>10. CASE HandleExit \/ HandleSpawnFailure
    BY <2>10 DEF HandleExit, HandleSpawnFailure, Ending
  <2>. QED BY <1>5, <2>1, <2>2, <2>3, <2>4, <2>5, <2>6, <2>7, <2>8, <2>9, <2>10 DEF Transport
<1>6. CASE Pi
  <2>1. CASE Dies BY <2>1 DEF Dies, PiUnchanged, Ending
  <2>2. CASE ~Dies
    BY <1>3, <1>6, <2>2 DEF Pi, PiReplies, PiSettles, PiAsks, PiSpeaks, PiWrites, PiUnchanged
  <2>. QED BY <2>1, <2>2
<1>7. CASE UNCHANGED vars
  BY <1>3, <1>7 DEF vars
<1>. QED BY <1>4, <1>5, <1>6, <1>7 DEF LooseNext

\* Once the end is known nothing becomes pending, and the events stay ended.
LEMMA ReleaseNext == ASSUME TypeOK, EndReleasesAll, [LooseNext]_vars PROVE EndReleasesAll'
<1>. USE DEF piVars, callVars, uiVars, streamVars, endVars
<1>0. RequestTypes /\ UiTypes BY DEF TypeOK, RequestTypes, UiTypes
<1>1. ASSUME NEW r \in Calls, NEW isPrompt \in BOOLEAN, Request(r, isPrompt), UNCHANGED stream
      PROVE  EndReleasesAll'
  BY <1>1 DEF Request, Refuse, Send, EndReleasesAll, Pending, TypeOK
<1>2. ASSUME UNCHANGED exit, Pending' \subseteq Pending, stream' = stream \/ stream' # "open"
      PROVE  EndReleasesAll'
  BY <1>2 DEF EndReleasesAll
<1>3. ASSUME Fail, UNCHANGED prompting PROVE EndReleasesAll'
  BY <1>0, <1>3, FailureClears DEF EndReleasesAll, TypeOK
<1>4. ASSUME NEW r \in Calls, Ask(r) PROVE EndReleasesAll'
  BY <1>1, <1>4 DEF Ask
<1>5. CASE Transport
  <2>1. ASSUME NEW r \in Calls, RequestTimesOut(r) PROVE EndReleasesAll'
    <3>1. Pending' \subseteq Pending /\ UNCHANGED exit
      BY <2>1 DEF RequestTimesOut, Pending, TypeOK
    <3>2. stream' = stream \/ stream' # "open"
      BY <2>1 DEF RequestTimesOut, BeginTerminate, CloseStream
    <3>. QED BY <1>2, <3>1, <3>2
  <2>2. CASE WaitReady BY <1>1, <2>2, RpcAssumption DEF WaitReady, RpcAssumption
  <2>3. CASE HandshakeEnds \/ HandshakeDeadline
    BY <1>2, <2>3 DEF HandshakeEnds, HandshakeDeadline, Pending
  <2>4. CASE Terminate BY <1>2, <2>4 DEF Terminate, BeginTerminate, CloseStream, Pending
  <2>5. CASE TerminateEnds \/ HandleExit \/ HandleSpawnFailure
    BY <1>3, <2>5 DEF TerminateEnds, HandleExit, HandleSpawnFailure
  <2>6. CASE Close \/ CloseConfirmed \/ CloseEscalates
    <3>1. UNCHANGED <<call, exit>> /\ (stream' = stream \/ stream' # "open")
      BY <2>6 DEF Close, CloseConfirmed, CloseEscalates, CloseStream
    <3>. QED BY <1>2, <3>1 DEF Pending
  <2>7. ASSUME NEW d \in Dialogs, DialogExpires(d) \/ RespondUi(d) PROVE EndReleasesAll'
    BY <1>2, <2>7 DEF DialogExpires, RespondUi, EndDialog, Pending
  <2>8. CASE HandleLine
    <3>1. UNCHANGED <<exit, stream>> BY <2>8 DEF HandleLine
    <3>2. Pending' \subseteq Pending
      BY <2>8, Lines DEF HandleLine, SettleReply, WaitForDialog, Pending, TypeOK
    <3>. QED BY <1>2, <3>1, <3>2
  <2>. QED BY <1>5, <2>1, <2>2, <2>3, <2>4, <2>5, <2>6, <2>7, <2>8 DEF Transport
<1>6. CASE Pi
  BY <1>2, <1>6 DEF Pi, PiReplies, PiSettles, PiAsks, PiSpeaks, PiWrites, Dies, PiUnchanged, Pending
<1>7. CASE UNCHANGED vars
  BY <1>2, <1>7 DEF vars, Pending
<1>. QED BY <1>4, <1>5, <1>6, <1>7 DEF LooseNext

(* A prompt's deadline.                                                     *)

\* When dialogs end, whoever still waits has a deadline exactly as before, or
\* anew when the last dialog ended.
LEMMA FinishedClock ==
  ASSUME TypeOK, PromptClock, ~closing, exit = "no", NEW gone,
         UNCHANGED prompting, FinishDialogs(gone, Pending'), Pending' \subseteq Pending
  PROVE  PromptClock'
<1>1. Open' = Open \ gone BY DEF FinishDialogs, Open
<1>2. ASSUME NEW r \in Pending'
      PROVE  r \in clock' <=> (r \in prompting' => ~waitingForUi')
  <2>1. r \in clock <=> (r \in prompting => ~waitingForUi) BY DEF PromptClock
  <2>2. clock' = IF Open' = {} /\ Open # {}
                 THEN (clock \cap Pending') \cup (Pending' \cap prompting)
                 ELSE clock \cap Pending'
    BY <1>1 DEF FinishDialogs
  <2>. QED BY <1>1, <2>1, <2>2 DEF waitingForUi
<1>. QED BY <1>2 DEF PromptClock

\* A prompt's deadline is stopped by a dialog and started again after the last.
LEMMA ClockNext ==
  ASSUME TypeOK, AskedOnce, AnsweredBeforeSettled, Ending, PromptClock, [LooseNext]_vars
  PROVE  PromptClock'
<1>. SUFFICES ASSUME ~closing', exit' = "no" PROVE PromptClock'
  BY DEF PromptClock
<1>0. ~closing /\ exit = "no" BY UsableBefore
<1>. USE DEF piVars, callVars, uiVars, streamVars, endVars
<1>1. ASSUME UNCHANGED <<call, prompting, clock, dialogs>> PROVE PromptClock'
  BY <1>0, <1>1 DEF PromptClock, Pending, waitingForUi, Open
<1>2. ASSUME NEW r \in Calls, NEW isPrompt \in BOOLEAN, Request(r, isPrompt) PROVE PromptClock'
  <2>1. Send(r, isPrompt) /\ r \notin prompting BY <1>0, <1>2 DEF Request, AskedOnce
  <2>2. Open' = Open /\ Pending' = Pending \cup {r} BY <2>1 DEF Send, Open, Pending, TypeOK
  <2>3. \A q \in Pending : q \in clock <=> (q \in prompting => ~waitingForUi)
    BY <1>0 DEF PromptClock
  <2>4. r \notin Pending /\ r \notin clock BY <1>2 DEF Request, Pending, TypeOK
  <2>5. \A q \in Pending' : q \in clock' <=> (q \in prompting' => ~waitingForUi')
    <3>1. CASE isPrompt = TRUE
      BY <2>1, <2>2, <2>3, <2>4, <3>1 DEF Send, waitingForUi
    <3>2. CASE isPrompt = FALSE
      BY <2>1, <2>2, <2>3, <2>4, <3>2 DEF Send, waitingForUi
    <3>. QED BY <3>1, <3>2
  <2>. QED BY <2>5 DEF PromptClock
<1>3. ASSUME NEW r \in Calls, Ask(r) PROVE PromptClock'
  BY <1>2, <1>3 DEF Ask
<1>4. CASE Transport
  <2>1. ASSUME NEW r \in Calls, RequestTimesOut(r) PROVE PromptClock'
    <3>1. r \notin prompting BY <1>0, <2>1 DEF RequestTimesOut, BeginTerminate, Ending
    <3>2. Pending' = Pending \ {r} /\ clock' = clock \ {r} /\ UNCHANGED <<prompting, dialogs>>
      BY <2>1, <3>1 DEF RequestTimesOut, Pending, TypeOK
    <3>. QED BY <1>0, <3>2 DEF PromptClock, waitingForUi, Open
  <2>2. CASE WaitReady BY <1>2, <2>2, RpcAssumption DEF WaitReady, RpcAssumption
  <2>3. CASE HandshakeEnds \/ HandshakeDeadline \/ CloseConfirmed \/ CloseEscalates
    BY <1>1, <2>3 DEF HandshakeEnds, HandshakeDeadline, CloseConfirmed, CloseEscalates
  <2>4. ~Terminate /\ ~TerminateEnds /\ ~Close /\ ~HandleExit /\ ~HandleSpawnFailure
    BY <1>0 DEF Terminate, BeginTerminate, TerminateEnds, Close, HandleExit, HandleSpawnFailure, Ending
  <2>5. ASSUME NEW d \in Dialogs, DialogExpires(d) \/ RespondUi(d) PROVE PromptClock'
    <3>1. FinishDialogs({d}, Pending) /\ UNCHANGED <<call, prompting>>
      BY <2>5 DEF DialogExpires, RespondUi, EndDialog
    <3>2. Pending' = Pending BY <3>1 DEF Pending
    <3>. QED BY <1>0, <3>1, <3>2, FinishedClock
  <2>6. CASE HandleLine
    <3>. DEFINE line == Head(pipe)
    <3>0. /\ pipe # <<>> /\ line \in Line /\ line = pipe[1] /\ 1 \in DOMAIN pipe
          /\ UNCHANGED prompting
      BY <2>6, Lines DEF HandleLine
    <3>1. CASE line.is = "reply"
      <4>1. SettleReply(line) BY <2>6, <3>1 DEF HandleLine
      <4>2. CASE line.of \in Pending
        <5>1. Pending' = Pending \ {line.of} BY <4>1, <4>2 DEF SettleReply, Pending, TypeOK
        <5>2. PICK gone : FinishDialogs(gone, Pending') BY <4>1, <4>2, <5>1 DEF SettleReply
        <5>. QED BY <1>0, <3>0, <5>1, <5>2, FinishedClock
      <4>3. CASE line.of \notin Pending
        BY <1>1, <3>0, <4>1, <4>3 DEF SettleReply
      <4>. QED BY <4>2, <4>3
    <3>2. CASE line.is = "dialog"
      <4>1. WaitForDialog(line) BY <2>6, <3>2 DEF HandleLine
      <4>2. CASE line.of \in Open BY <1>1, <3>0, <4>1, <4>2 DEF WaitForDialog
      <4>3. CASE line.of \notin Open
        <5>1. Open' # {} /\ clock' = clock \ PendingPrompts /\ Pending' = Pending
          BY <4>1, <4>3 DEF WaitForDialog, Open, Pending
        <5>. QED BY <1>0, <3>0, <5>1 DEF PromptClock, PendingPrompts, waitingForUi
      <4>. QED BY <4>2, <4>3
    <3>3. CASE line.is = "settled"
      <4>1. ClearDialogs /\ UNCHANGED <<call, clock>> BY <2>6, <3>3 DEF HandleLine
      <4>2. PendingPrompts = {}
        BY <1>0, <3>0, <3>3 DEF AnsweredBeforeSettled
      <4>3. Pending' = Pending /\ Open' = {} BY <4>1 DEF Pending, ClearDialogs, Open
      <4>. QED BY <1>0, <3>0, <4>1, <4>2, <4>3 DEF PromptClock, PendingPrompts, waitingForUi
    <3>4. CASE line.is = "event"
      BY <1>1, <2>6, <3>0, <3>4 DEF HandleLine
    <3>. QED BY <3>0, <3>1, <3>2, <3>3, <3>4, Lines
  <2>. QED BY <1>4, <2>1, <2>2, <2>3, <2>4, <2>5, <2>6 DEF Transport
<1>5. CASE Pi
  BY <1>1, <1>5 DEF Pi, PiReplies, PiSettles, PiAsks, PiSpeaks, PiWrites, Dies, PiUnchanged
<1>6. CASE UNCHANGED vars
  BY <1>1, <1>6 DEF vars
<1>. QED BY <1>3, <1>4, <1>5, <1>6 DEF LooseNext

(* The order of the records.                                                *)

\* What has arrived is what was handed on, or is still held back.
LEMMA ArrivedIs ==
  ASSUME TypeOK, HeldBack
  PROVE  /\ Arrived = IF handshake = "ready" THEN pushed ELSE preReady
         /\ Arrived \in Seq(1..MaxRecords)
<1>1. pushed \o <<>> = pushed /\ <<>> \o preReady = preReady
  BY EmptySeq, ConcatEmptySeq DEF TypeOK
<1>. QED BY <1>1 DEF Arrived, HeldBack, TypeOK

\* Steps that read and write no record.
LEMMA SameRecords ==
  ASSUME HeldBack, RecordsInOrder, UNCHANGED <<pipe, wrote, pushed>>, Arrived' = Arrived,
         stream' = "open" => stream = "open",
         handshake' # "ready" => handshake # "ready"
  PROVE  HeldBack' /\ RecordsInOrder'
  BY DEF HeldBack, RecordsInOrder, Records

\* The first line of the pipe, when it is a record, is the next to arrive.
LEMMA HeadIsNext ==
  ASSUME TypeOK, HeldBack, RecordsInOrder, stream = "open", pipe # <<>>, pipe[1].is # "reply"
  PROVE  /\ pipe[1].no = Len(Arrived) + 1 /\ Len(Arrived) \in Nat /\ Len(Arrived) < wrote
         /\ {pipe[i].no : i \in Records \ {1}} = Len(Arrived) + 2 .. wrote
<1>. DEFINE n == Len(Arrived)
            no(i) == pipe[i].no
<1>1. n \in 0..wrote /\ wrote \in Nat BY RpcAssumption DEF HeldBack, TypeOK, RpcAssumption
<1>2. 1 \in Records /\ Records \subseteq 1..Len(pipe) /\ Len(pipe) \in Nat BY Lines DEF Records
<1>3. \A i \in Records : no(i) \in n + 1 .. wrote BY DEF RecordsInOrder
<1>4. \A k \in n + 1 .. wrote : \E i \in Records : no(i) = k BY DEF RecordsInOrder
<1>5. \A i \in Records \ {1} : no(1) < no(i) BY <1>2 DEF RecordsInOrder
<1>. HIDE DEF no
<1>6. no(1) \in n + 1 .. wrote BY <1>2, <1>3
<1>7. n + 1 \in n + 1 .. wrote BY <1>1, <1>6
<1>8. no(1) = n + 1
  <2>1. PICK i \in Records : no(i) = n + 1 BY <1>4, <1>7
  <2>2. i = 1 BY <1>1, <1>3, <1>5, <1>6, <2>1
  <2>. QED BY <2>1, <2>2
<1>9. {no(i) : i \in Records \ {1}} = n + 2 .. wrote
  <2>1. \A i \in Records \ {1} : no(i) \in n + 2 .. wrote BY <1>1, <1>3, <1>5, <1>8
  <2>2. \A k \in n + 2 .. wrote : \E i \in Records \ {1} : no(i) = k
    <3>. SUFFICES ASSUME NEW k \in n + 2 .. wrote PROVE \E i \in Records \ {1} : no(i) = k
      OBVIOUS
    <3>1. k \in n + 1 .. wrote /\ k # n + 1 BY <1>1
    <3>. QED BY <3>1, <1>4, <1>8
  <2>. QED BY <2>1, <2>2
<1>. QED BY <1>1, <1>6, <1>8, <1>9 DEF no

\* What is left in the pipe when its first line is gone, one place further on.
LEMMA Shifted ==
  ASSUME TypeOK, pipe # <<>>, pipe' = Tail(pipe)
  PROVE  /\ {pipe'[i].no : i \in Records'} = {pipe[i].no : i \in Records \ {1}}
         /\ \A i \in Records' : i \in Nat /\ i + 1 \in Records \ {1} /\ pipe'[i] = pipe[i + 1]
<1>1. /\ DOMAIN pipe = 1..Len(pipe) /\ DOMAIN pipe' = 1..Len(pipe) - 1 /\ Len(pipe) \in Nat
      /\ \A i \in 1..Len(pipe) - 1 : pipe'[i] = pipe[i + 1]
  BY Lines
<1>2. \A i \in Records' : i \in Nat /\ i + 1 \in Records \ {1} /\ pipe'[i] = pipe[i + 1]
  BY <1>1 DEF Records
<1>3. \A j \in Records \ {1} : j - 1 \in Records' /\ pipe'[j - 1] = pipe[j]
  <2>. SUFFICES ASSUME NEW j \in Records \ {1} PROVE j - 1 \in Records' /\ pipe'[j - 1] = pipe[j]
    OBVIOUS
  <2>1. j - 1 \in 1..Len(pipe) - 1 /\ (j - 1) + 1 = j BY <1>1 DEF Records
  <2>. QED BY <2>1, <1>1 DEF Records
<1>4. ASSUME NEW i \in Records' PROVE pipe'[i].no \in {pipe[j].no : j \in Records \ {1}}
  BY <1>2
<1>5. ASSUME NEW j \in Records \ {1} PROVE pipe[j].no \in {pipe'[i].no : i \in Records'}
  BY <1>3
<1>6. {pipe'[i].no : i \in Records'} = {pipe[i].no : i \in Records \ {1}}
  BY <1>4, <1>5
<1>. QED BY <1>2, <1>6

\* Reading a line hands on the next record, or none.
LEMMA ReadInOrder ==
  ASSUME TypeOK, HeldBack, RecordsInOrder, HandleLine
  PROVE  HeldBack' /\ RecordsInOrder'
<1>0. /\ pipe # <<>> /\ pipe' = Tail(pipe) /\ Head(pipe) = pipe[1] /\ pipe[1] \in Line
      /\ UNCHANGED <<wrote, handshake, stream>>
  BY Lines DEF HandleLine
<1>1. TypeOK' BY ReadTyped
<1>2. \A i, j \in Records' : stream = "open" /\ i < j => pipe'[i].no < pipe'[j].no
  <2>. SUFFICES ASSUME stream = "open", NEW i \in Records', NEW j \in Records', i < j
                PROVE  pipe'[i].no < pipe'[j].no
    OBVIOUS
  <2>1. i + 1 < j + 1 /\ i + 1 \in Records /\ j + 1 \in Records BY <1>0, Shifted
  <2>. QED BY <2>1, <1>0, Shifted DEF RecordsInOrder
<1>3. CASE pipe[1].is = "reply"
  <2>1. UNCHANGED <<preReady, pushed>> BY <1>0, <1>3 DEF HandleLine, SettleReply
  <2>2. Arrived' = Arrived BY <1>0, <2>1 DEF Arrived
  <2>3. Records \ {1} = Records BY <1>3 DEF Records
  <2>4. {pipe'[i].no : i \in Records'} = {pipe[i].no : i \in Records} BY <1>0, <2>3, Shifted
  <2>. QED BY <1>0, <1>2, <2>1, <2>2, <2>4 DEF HeldBack, RecordsInOrder
<1>4. CASE pipe[1].is # "reply"
  <2>1. Keep(pipe[1].no) /\ pipe[1].no \in 1..MaxRecords
    BY <1>0, <1>4, Lines DEF HandleLine, WaitForDialog
  <2>2. handshake # "ready" => pushed' = pushed BY <2>1 DEF Keep
  <2>3. CASE stream # "open"
    <3>1. pushed' = pushed BY <2>1, <2>3 DEF Keep
    <3>. QED BY <1>0, <2>3, <3>1 DEF HeldBack, RecordsInOrder
  <2>4. CASE stream = "open"
    <3>0. Arrived' = IF handshake' = "ready" THEN pushed' ELSE preReady'
      <4>1. handshake # "ready" => pushed' = <<>> BY <2>2 DEF HeldBack
      <4>2. pushed' \o <<>> = pushed' /\ <<>> \o preReady' = preReady'
        BY <1>1, EmptySeq, ConcatEmptySeq DEF TypeOK
      <4>. QED BY <1>0, <4>1, <4>2 DEF Arrived
    <3>1. Arrived' = Append(Arrived, pipe[1].no)
      BY <1>0, <2>1, <2>4, <3>0, ArrivedIs DEF Keep
    <3>2. Len(Arrived') = Len(Arrived) + 1
          /\ \A i \in DOMAIN Arrived' : i \in DOMAIN Arrived \/ i = Len(Arrived) + 1
      BY <2>1, <3>1, ArrivedIs, AppendProperties, LenProperties
    <3>3. Len(Arrived') \in 0..wrote
      <4>1. Len(Arrived) \in Nat /\ Len(Arrived) < wrote /\ wrote \in Nat
        BY <1>0, <1>4, <2>4, HeadIsNext, RpcAssumption DEF TypeOK, RpcAssumption
      <4>. QED BY <4>1, <3>2
    <3>4. \A i \in DOMAIN Arrived' : Arrived'[i] = i
      <4>1. \A i \in DOMAIN Arrived : Arrived'[i] = Arrived[i] /\ Arrived[i] = i
        BY <2>1, <2>4, <3>1, ArrivedIs, AppendProperties, LenProperties DEF RecordsInOrder
      <4>2. Arrived'[Len(Arrived) + 1] = Len(Arrived) + 1
        BY <1>0, <1>4, <2>1, <2>4, <3>1, ArrivedIs, AppendProperties, HeadIsNext
      <4>. QED BY <3>2, <4>1, <4>2
    <3>5. {pipe'[i].no : i \in Records'} = Len(Arrived') + 1 .. wrote
      <4>1. {pipe'[i].no : i \in Records'} = Len(Arrived) + 2 .. wrote
        BY <1>0, <1>4, <2>4, Shifted, HeadIsNext
      <4>2. Len(Arrived') + 1 = Len(Arrived) + 2 BY <1>0, <1>4, <2>4, <3>2, HeadIsNext
      <4>. QED BY <4>1, <4>2
    <3>6. handshake' # "ready" => pushed' = <<>> BY <1>0, <2>2 DEF HeldBack
    <3>7. \A i \in DOMAIN pushed' : pushed'[i] = i
      <4>1. CASE handshake' = "ready" BY <3>0, <3>4, <4>1
      <4>2. CASE handshake' # "ready" BY <3>6, <4>2
      <4>. QED BY <4>1, <4>2
    <3>. QED BY <1>0, <1>2, <2>4, <3>3, <3>4, <3>5, <3>6, <3>7 DEF HeldBack, RecordsInOrder
  <2>. QED BY <2>3, <2>4
<1>. QED BY <1>3, <1>4

\* The first records go to the events when the handshake has ended well.
LEMMA HandedOnInOrder ==
  ASSUME TypeOK, HeldBack, RecordsInOrder, HandshakeEnds
  PROVE  HeldBack' /\ RecordsInOrder'
<1>1. /\ handshake # "ready" /\ pushed = <<>> /\ handshake' \in {"ready", "failed"}
      /\ UNCHANGED <<pipe, wrote, stream, preReady>>
  BY DEF HandshakeEnds, HandshakeDecided, HeldBack, piVars
<1>2. <<>> \o preReady = preReady /\ preReady \o <<>> = preReady
      /\ <<>> \o <<>> = <<>> /\ DOMAIN <<>> = {}
  BY EmptySeq, ConcatEmptySeq DEF TypeOK
<1>3. Arrived = preReady BY <1>1, <1>2 DEF Arrived
<1>4. CASE call[Hello] = "ok" /\ stream = "open"
  <2>1. pushed' = preReady /\ handshake' = "ready" BY <1>1, <1>2, <1>4 DEF HandshakeEnds
  <2>2. Arrived' = Arrived BY <1>2, <1>3, <2>1 DEF Arrived
  <2>. QED BY <1>1, <1>3, <1>4, <2>1, <2>2 DEF HeldBack, RecordsInOrder, Records
<1>5. CASE call[Hello] # "ok"
  <2>1. UNCHANGED pushed /\ handshake' = "failed" BY <1>5 DEF HandshakeEnds
  <2>2. Arrived' = Arrived BY <1>1, <2>1 DEF Arrived
  <2>. QED BY <1>1, <2>1, <2>2, SameRecords
<1>6. CASE stream # "open"
  BY <1>1, <1>6 DEF HandshakeEnds, HeldBack, RecordsInOrder
<1>. QED BY <1>4, <1>5, <1>6

\* A line is written behind the others: a record with the next number, or a reply.
LEMMA WrittenInOrder ==
  ASSUME TypeOK, HeldBack, RecordsInOrder, NEW l \in Line, pipe' = Append(pipe, l),
         UNCHANGED <<handshake, preReady, pushed, stream>>,
         \/ l.is = "reply" /\ wrote' = wrote
         \/ l.is # "reply" /\ l.no = wrote + 1 /\ wrote' = wrote + 1
  PROVE  HeldBack' /\ RecordsInOrder'
<1>. DEFINE new == Len(pipe) + 1
<1>1. Arrived' = Arrived /\ wrote \in Nat /\ wrote' \in Nat
  BY RpcAssumption DEF Arrived, TypeOK, RpcAssumption
<1>2. HeldBack' BY <1>1 DEF HeldBack
<1>3. CASE stream # "open" BY <1>2, <1>3 DEF RecordsInOrder
<1>4. CASE stream = "open" /\ l.is = "reply"
  <2>1. Records' = Records BY <1>4, Appended DEF Records
  <2>2. \A i \in Records : pipe'[i] = pipe[i] BY Appended DEF Records
  <2>3. {pipe'[i].no : i \in Records'} = {pipe[i].no : i \in Records} BY <2>1, <2>2
  <2>. QED BY <1>1, <1>2, <1>4, <2>1, <2>2, <2>3 DEF RecordsInOrder
<1>5. CASE stream = "open" /\ l.is # "reply"
  <2>1. /\ Records' = Records \cup {new} /\ Records \subseteq 1..Len(pipe) /\ Len(pipe) \in Nat
        /\ pipe'[new] = l /\ \A i \in Records : pipe'[i] = pipe[i]
    BY <1>5, Appended DEF Records
  <2>2. {pipe'[i].no : i \in Records'} = {pipe[i].no : i \in Records} \cup {wrote + 1}
    BY <1>5, <2>1
  <2>3. {pipe'[i].no : i \in Records'} = Len(Arrived) + 1 .. wrote'
    <3>1. Len(Arrived) \in 0..wrote BY <1>5 DEF HeldBack
    <3>2. {pipe[i].no : i \in Records} = Len(Arrived) + 1 .. wrote BY <1>5 DEF RecordsInOrder
    <3>. HIDE DEF new
    <3>3. wrote' = wrote + 1 BY <1>5
    <3>4. (Len(Arrived) + 1 .. wrote) \cup {wrote + 1} = Len(Arrived) + 1 .. wrote + 1
      BY <1>1, <3>1
    <3>. QED BY <2>2, <3>2, <3>3, <3>4
  <2>4. \A i, j \in Records' : i < j => pipe'[i].no < pipe'[j].no
    <3>. SUFFICES ASSUME NEW i \in Records', NEW j \in Records', i < j PROVE pipe'[i].no < pipe'[j].no
      OBVIOUS
    <3>1. i \in Records /\ pipe'[i] = pipe[i] BY <2>1
    <3>2. pipe[i].no \in Len(Arrived) + 1 .. wrote BY <1>5, <3>1 DEF RecordsInOrder
    <3>3. CASE j \in Records BY <1>5, <2>1, <3>1, <3>3 DEF RecordsInOrder
    <3>4. CASE j = new
      <4>1. pipe'[j].no = wrote + 1 BY <1>5, <2>1, <3>4
      <4>2. Len(Arrived) \in Nat BY <1>1, <1>5 DEF HeldBack
      <4>. QED BY <1>1, <3>1, <3>2, <4>1, <4>2
    <3>. QED BY <2>1, <3>3, <3>4
  <2>. QED BY <1>1, <1>2, <2>3, <2>4 DEF RecordsInOrder
<1>. QED BY <1>3, <1>4, <1>5

\* Whatever happens, records reach the events in the order they were written.
LEMMA OrderNext ==
  ASSUME TypeOK, HeldBack, RecordsInOrder, [LooseNext]_vars
  PROVE  HeldBack' /\ RecordsInOrder'
<1>. USE DEF piVars, callVars, uiVars, streamVars, endVars
<1>1. ASSUME UNCHANGED <<pipe, wrote, preReady, pushed>>, stream' = "open" => stream = "open",
             \/ handshake' = handshake
             \/ handshake # "ready" /\ handshake' # "ready"
      PROVE  HeldBack' /\ RecordsInOrder'
  BY <1>1, SameRecords DEF Arrived
<1>2. ASSUME NEW r \in Calls, Ask(r) PROVE HeldBack' /\ RecordsInOrder'
  BY <1>1, <1>2 DEF Ask, Request, Refuse, Send
<1>3. CASE Transport
  <2>1. ASSUME NEW r \in Calls, RequestTimesOut(r) PROVE HeldBack' /\ RecordsInOrder'
    BY <1>1, <2>1 DEF RequestTimesOut, BeginTerminate, CloseStream
  <2>2. CASE WaitReady BY <1>1, <2>2 DEF WaitReady, Request, Refuse, Send
  <2>3. CASE HandshakeEnds BY <2>3, HandedOnInOrder
  <2>4. CASE HandshakeDeadline BY <1>1, <2>4 DEF HandshakeDeadline
  <2>5. CASE Terminate BY <1>1, <2>5 DEF Terminate, BeginTerminate, CloseStream
  <2>6. CASE TerminateEnds \/ HandleExit \/ HandleSpawnFailure
    BY <1>1, <2>6 DEF TerminateEnds, HandleExit, HandleSpawnFailure, Fail
  <2>7. CASE Close \/ CloseConfirmed \/ CloseEscalates
    BY <1>1, <2>7 DEF Close, CloseConfirmed, CloseEscalates, CloseStream
  <2>8. ASSUME NEW d \in Dialogs, DialogExpires(d) \/ RespondUi(d)
        PROVE  HeldBack' /\ RecordsInOrder'
    BY <1>1, <2>8 DEF DialogExpires, RespondUi, EndDialog
  <2>9. CASE HandleLine BY <2>9, ReadInOrder
  <2>. QED BY <1>3, <2>1, <2>2, <2>3, <2>4, <2>5, <2>6, <2>7, <2>8, <2>9 DEF Transport
<1>4. ASSUME NEW r \in Calls, PiReplies(r) PROVE HeldBack' /\ RecordsInOrder'
  <2>1. PICK ok \in BOOLEAN : pipe' = Append(pipe, Reply(r, ok)) BY <1>4 DEF PiReplies
  <2>2. Reply(r, ok) \in Line /\ Reply(r, ok).is = "reply" BY DEF Reply, Line
  <2>3. UNCHANGED <<handshake, preReady, pushed, stream, wrote>>
    BY <1>4 DEF PiReplies, PiUnchanged
  <2>. QED BY <2>1, <2>2, <2>3, WrittenInOrder
<1>5. ASSUME NEW line \in Line, line.is # "reply", line.no = wrote + 1, PiWrites(line)
      PROVE  HeldBack' /\ RecordsInOrder'
  BY <1>5, WrittenInOrder DEF PiWrites, PiUnchanged
<1>6. ASSUME wrote < MaxRecords PROVE wrote + 1 \in 1..MaxRecords
  BY <1>6, RpcAssumption DEF TypeOK, RpcAssumption
<1>7. ASSUME NEW d \in Dialogs, PiAsks(d) PROVE HeldBack' /\ RecordsInOrder'
  <2>1. PICK timeout \in BOOLEAN : PiWrites(Asking(d, wrote + 1, timeout)) BY <1>7 DEF PiAsks
  <2>2. /\ Asking(d, wrote + 1, timeout) \in Line /\ Asking(d, wrote + 1, timeout).is # "reply"
        /\ Asking(d, wrote + 1, timeout).no = wrote + 1
    BY <1>6, <2>1 DEF PiWrites, Asking, Line
  <2>. QED BY <2>1, <2>2, <1>5
<1>8. CASE PiSpeaks
  <2>1. Event(wrote + 1) \in Line /\ Event(wrote + 1).is # "reply" /\ Event(wrote + 1).no = wrote + 1
    BY <1>6, <1>8 DEF PiSpeaks, PiWrites, Event, Line
  <2>. QED BY <2>1, <1>5, <1>8 DEF PiSpeaks
<1>9. ASSUME NEW r \in Calls, PiSettles(r) PROVE HeldBack' /\ RecordsInOrder'
  <2>1. /\ Settled(wrote + 1) \in Line /\ Settled(wrote + 1).is # "reply"
        /\ Settled(wrote + 1).no = wrote + 1
    BY <1>6, <1>9 DEF PiSettles, PiWrites, Settled, Line
  <2>. QED BY <2>1, <1>5, <1>9 DEF PiSettles
<1>10. CASE Dies BY <1>1, <1>10 DEF Dies, PiUnchanged
<1>11. CASE Pi
  BY <1>4, <1>7, <1>8, <1>9, <1>10, <1>11 DEF Pi
<1>12. CASE UNCHANGED vars
  BY <1>1, <1>12 DEF vars
<1>. QED BY <1>2, <1>3, <1>11, <1>12 DEF LooseNext

(* What holds of every behaviour.                                           *)

\* Before anything is asked the invariant holds.
LEMMA InitInductive == Init => Inductive
<1>. SUFFICES ASSUME Init PROVE Inductive
  OBVIOUS
<1>1. TypeOK BY InitTyped
<1>2. Open = {} /\ Pending = {} /\ PendingPrompts = {} BY DEF Init, Open, Pending, PendingPrompts
<1>3. Records = {} /\ DOMAIN pipe = {} BY DEF Init, Records
<1>4. HeldBack /\ RecordsInOrder
  <2>1. Arrived = <<>> BY ConcatEmptySeq, EmptySeq DEF Arrived, Init
  <2>2. Len(Arrived) = 0 /\ DOMAIN Arrived = {} /\ DOMAIN pushed = {} BY <2>1, EmptySeq DEF Init
  <2>3. 1..0 = {} OBVIOUS
  <2>4. {pipe[i].no : i \in Records} = {} BY <1>3
  <2>. QED BY <1>3, <2>2, <2>3, <2>4 DEF Init, HeldBack, RecordsInOrder
<1>5. AskedOnce /\ AnsweredBeforeSettled /\ Ending
  BY <1>2, <1>3 DEF Init, AskedOnce, AnsweredBeforeSettled, Ending
<1>6. PromptClock /\ EndReleasesAll BY <1>2 DEF Init, PromptClock, EndReleasesAll
<1>. QED BY <1>4, <1>5, <1>6 DEF Inductive

\* Every step keeps the invariant.
LEMMA InductiveNext == TypeOK /\ Inductive /\ [Next]_vars => Inductive'
<1>. SUFFICES ASSUME TypeOK, Inductive, [Next]_vars PROVE Inductive'
  OBVIOUS
<1>1. [LooseNext]_vars BY DEF Next, LooseNext
<1>2. AskedOnce' /\ AnsweredBeforeSettled' BY <1>1, AskedOnceNext, AnsweredNext DEF Inductive
<1>3. Ending' /\ EndReleasesAll' BY <1>1, EndingNext, ReleaseNext DEF Inductive
<1>4. PromptClock' BY <1>1, ClockNext DEF Inductive
<1>5. HeldBack' /\ RecordsInOrder' BY <1>1, OrderNext DEF Inductive
<1>. QED BY <1>2, <1>3, <1>4, <1>5 DEF Inductive

\* The transport's state always has its types, whoever prompts when.
THEOREM Typed == LooseSpec => []TypeOK
<1>1. Init => TypeOK BY InitTyped
<1>2. TypeOK /\ [LooseNext]_vars => TypeOK' BY TypingNext
<1>. QED BY <1>1, <1>2, PTL DEF LooseSpec

\* The inductive invariant of undisturbed turns.
THEOREM Invariance == Spec => [](TypeOK /\ Inductive)
<1>1. Init => TypeOK /\ Inductive BY InitTyped, InitInductive
<1>2. TypeOK /\ Inductive /\ [Next]_vars => (TypeOK /\ Inductive)'
  <2>1. [Next]_vars => [LooseNext]_vars BY DEF Next, LooseNext
  <2>. QED BY <2>1, TypingNext, InductiveNext
<1>. QED BY <1>1, <1>2, PTL DEF Spec

\* A prompt's deadline runs exactly while nobody is being asked anything, and
\* every other pending request of a usable child has one (rpc.ts:493-540).
THEOREM PromptsAreTimed == Spec => []PromptClock
<1>1. TypeOK /\ Inductive => PromptClock BY DEF Inductive
<1>. QED BY <1>1, Invariance, PTL

\* What an end must not lose does not depend on who prompts when.
EndInductive == AskedOnce /\ HeldBack /\ Ending /\ EndReleasesAll /\ RecordsInOrder

\* A child that ends takes nothing with it that somebody waits for, nothing out
\* of its order, and does not survive a close that has returned, also when a
\* prompt is sent while pi still ends an aborted run (rpc.ts:216-236, 409-439,
\* 601-633).
THEOREM EndingLosesNothing == LooseSpec => []EndLosesNothing
<1>1. Init => TypeOK /\ EndInductive BY InitTyped, InitInductive DEF Inductive, EndInductive
<1>2. TypeOK /\ EndInductive /\ [LooseNext]_vars => (TypeOK /\ EndInductive)'
  <2>. SUFFICES ASSUME TypeOK, EndInductive, [LooseNext]_vars PROVE TypeOK' /\ EndInductive'
    OBVIOUS
  <2>1. TypeOK' BY TypingNext
  <2>2. AskedOnce' /\ Ending' /\ EndReleasesAll'
    BY AskedOnceNext, EndingNext, ReleaseNext DEF EndInductive
  <2>3. HeldBack' /\ RecordsInOrder' BY OrderNext DEF EndInductive
  <2>. QED BY <2>1, <2>2, <2>3 DEF EndInductive
<1>3. TypeOK /\ EndInductive => EndLosesNothing
  BY DEF EndInductive, EndLosesNothing, Ending, ClosedChildIsDoomed
<1>. QED BY <1>1, <1>2, <1>3, PTL DEF LooseSpec
==============================================================================
