-------------------------- MODULE AgentPoolProofs --------------------------
(* Proofs about AgentPool, for every value of its constants.                *)
EXTENDS AgentPool, FiniteSetTheorems, TLAPS

\* The pool starts empty, with nothing queued and every conversation idle.
LEMMA InitTyped == Init => TypeOK
<1>. SUFFICES ASSUME Init PROVE TypeOK
  OBVIOUS
<1>. USE PoolAssumption DEF Init, PoolAssumption, NoChild, Asked, NoOp, NoWant, Stages
<1>0. AnyPlace \in Place BY DEF AnyPlace
<1>1. ChildTypes BY <1>0 DEF ChildTypes
<1>2. PoolTypes BY DEF PoolTypes
<1>3. OpTypes BY DEF OpTypes
<1>4. CallerTypes BY <1>0 DEF CallerTypes
<1>. QED BY <1>1, <1>2, <1>3, <1>4 DEF TypeOK

\* Who asked for an operation tells what it is.
LEMMA Kinds ==
  ASSUME NEW o \in Op
  PROVE  /\ o.by \in {"turn", "model"} => o \in AcquireOp
         /\ o.by \in {"removal", "restore"} => o \in ReleaseOp
         /\ o.by = "warm" => o \in WarmOp
         /\ o.by \in {"sweep", "close"} => o \in PlainOp
         /\ o \in AcquireOp => o.by \in {"turn", "model"} /\ o.conv \in Conv /\ o.place \in Place
                               /\ o.persona \in Persona \cup {Keep} /\ o.native \in Child \cup {NoChild}
         /\ o \in ReleaseOp => o.by \in {"removal", "restore"} /\ o.conv \in Conv
         /\ o \in WarmOp => o.by = "warm" /\ o.place \in Place
         /\ o \in PlainOp => o.by \in {"sweep", "close"}
         /\ o.by \in {"turn", "model", "removal", "restore", "warm", "sweep", "close"}
  BY DEF Op, AcquireOp, ReleaseOp, WarmOp, PlainOp

\* Answers keep the types of the callers' variables.
LEMMA TurnOverTyped ==
  ASSUME CallerTypes, NEW k \in Conv, TurnOver(k)
  PROVE  /\ turn' \in [Conv -> {"idle", "claimed", "waiting", "acquired", "running", "restoring",
                                "stranded"}]
         /\ hands' \in [Conv -> Child \cup {NoChild}]
         /\ want' \in [Conv -> [place : Place, persona : Persona]]
  BY PoolAssumption DEF PoolAssumption, CallerTypes, TurnOver, NoWant, AnyPlace

\* A rejection (turn failed, query or removal given up) keeps the types.
LEMMA RejectedTyped ==
  ASSUME CallerTypes, OpTypes, Handed, Rejected, UNCHANGED storeVars
  PROVE  CallerTypes' /\ Handed'
<1>. USE DEF storeVars, Handed
<1>1. CASE op.by = "turn"
  <2>1. op \in Op BY <1>1 DEF OpTypes, NoOp
  <2>2. op.conv \in Conv BY <1>1, <2>1, Kinds
  <2>3. TurnOver(op.conv) BY <1>1 DEF Rejected
  <2>4. Handed' BY <2>2, <2>3 DEF TurnOver, CallerTypes
  <2>. QED BY <1>1, <2>2, <2>3, <2>4, TurnOverTyped DEF Rejected, CallerTypes
<1>2. CASE op.by # "turn"
  BY <1>2 DEF Rejected, CallerTypes, turnVars
<1>. QED BY <1>1, <1>2

\* The answer of acquire keeps the types of its caller.
LEMMA ReturnedTyped ==
  ASSUME CallerTypes, Handed, NEW c \in Child, Returned(c), UNCHANGED storeVars
  PROVE  CallerTypes' /\ Handed'
  BY DEF CallerTypes, Handed, Returned, storeVars

\* The answer of release keeps the types of its caller.
LEMMA ReleasedTyped ==
  ASSUME CallerTypes, Handed, Released, UNCHANGED storeVars
  PROVE  CallerTypes' /\ Handed'
  BY DEF CallerTypes, Handed, Released, storeVars

\* A step that leaves the callers and the store alone keeps their types.
LEMMA CallersKept ==
  ASSUME CallerTypes, Handed, UNCHANGED callerVars, UNCHANGED storeVars
  PROVE  CallerTypes' /\ Handed'
  BY DEF CallerTypes, Handed, callerVars, turnVars, storeVars

\* What the steps inside an operation have in common.
Frame == queue' = queue /\ used' = used /\ temp' = temp
Typing == TypeOK /\ Handed /\ Staged

\* Wherever an operation goes that fits it, its types and its stage stay right.
LEMMA GoTyped ==
  ASSUME OpTypes, Staged, Frame
  PROVE  /\ Over => OpTypes' /\ Staged'
         /\ \A s \in Stages \ (Awaits \cup {"idle"}) : Goto(s) /\ Fits(s) => OpTypes' /\ Staged'
         /\ \A s \in Awaits \ {"close"}, c \in Child : Await(s, c) /\ Fits(s) => OpTypes' /\ Staged'
         /\ \A s \in Stages \ (Awaits \cup {"idle"}), c \in Child :
                AwaitClose(c, s) /\ Fits(s) => OpTypes' /\ Staged'
<1>1. Over => OpTypes' /\ Staged'
  BY DEF OpTypes, Staged, Frame, Over, Stages, Awaits, Fits, NoOp
<1>2. ASSUME NEW s \in Stages \ (Awaits \cup {"idle"}), Goto(s), Fits(s) PROVE OpTypes' /\ Staged'
  BY <1>2 DEF OpTypes, Staged, Frame, Goto, Stages, Awaits, Fits
<1>3. ASSUME NEW s \in Awaits \ {"close"}, NEW c \in Child, Await(s, c), Fits(s)
      PROVE  OpTypes' /\ Staged'
  BY <1>3 DEF OpTypes, Staged, Frame, Await, Stages, Awaits, Fits
<1>4. ASSUME NEW s \in Stages \ (Awaits \cup {"idle"}), NEW c \in Child, AwaitClose(c, s), Fits(s)
      PROVE  OpTypes' /\ Staged'
  BY <1>4 DEF OpTypes, Staged, Frame, AwaitClose, Stages, Awaits, Fits
<1>. QED BY <1>1, <1>2, <1>3, <1>4

\* Asking for an operation keeps the queue one of operations.
LEMMA Queued ==
  ASSUME OpTypes, NEW o \in Op, Enqueue(o)
  PROVE  queue' \in Seq(Op) /\ used' \in [ops : Nat, asks : Nat, temps : Nat]
  BY DEF OpTypes, Enqueue

\* A step that leaves the running operation alone keeps its stage right.
LEMMA StayTyped ==
  ASSUME OpTypes, Staged, UNCHANGED opVars,
         queue' \in Seq(Op), used' \in [ops : Nat, asks : Nat, temps : Nat]
  PROVE  OpTypes' /\ Staged'
  BY DEF OpTypes, Staged, opVars, Fits

\* #mutate: the next operation begins at its own first stage.
LEMMA DequeueTyped ==
  ASSUME Typing, Dequeue PROVE Typing'
<1>. USE DEF Typing, TypeOK
<1>1. Head(queue) \in Op /\ Tail(queue) \in Seq(Op) BY DEF OpTypes, Dequeue
<1>2. ChildTypes' /\ PoolTypes' BY DEF Dequeue, ChildTypes, PoolTypes, childVars, poolVars, closeVars
<1>3. CallerTypes' /\ Handed' BY CallersKept DEF Dequeue
<1>4. FirstStage(Head(queue)) \in {"acquire", "release", "shut", "warm", "sweep"}
  BY <1>1, Kinds DEF FirstStage
<1>5. OpTypes' BY <1>1, <1>4 DEF OpTypes, Dequeue, Stages, Awaits
<1>6. op' = Head(queue) /\ at' = FirstStage(op')  BY DEF Dequeue
<1>7. (Fits(at))' BY <1>1, <1>4, <1>6, Kinds DEF Fits, FirstStage
<1>8. Staged' BY <1>4, <1>6, <1>7 DEF Staged, Awaits
<1>. QED BY <1>2, <1>3, <1>5, <1>8

\* An operation that rejects at once (PersonaFails, GiveUp) keeps the types.
LEMMA RejectTyped ==
  ASSUME Typing, Reject PROVE Typing'
<1>. USE DEF Typing, TypeOK, Reject
<1>2. ChildTypes' /\ PoolTypes' BY DEF ChildTypes, PoolTypes, childVars, poolVars, closeVars
<1>3. CallerTypes' /\ Handed' BY RejectedTyped
<1>4. OpTypes' /\ Staged' BY GoTyped DEF Frame
<1>. QED BY <1>2, <1>3, <1>4

\* acquire with a binding goes on with a stage of an acquire.
LEMMA AcquireBoundTyped ==
  ASSUME Typing, AcquireBound PROVE Typing'
<1>. USE DEF Typing, TypeOK
<1>. DEFINE c == bindings[op.conv]
<1>1. op \in AcquireOp /\ op \in Op /\ op.conv \in Conv
  BY Kinds DEF AcquireBound, Staged, Fits, OpTypes, AcquireOp, Op
<1>2. c \in Child BY <1>1 DEF AcquireBound, Bound, PoolTypes
<1>3. ChildTypes' /\ PoolTypes'
  BY <1>2 DEF AcquireBound, ChildTypes, PoolTypes, poolVars, closeVars
<1>4. Frame /\ UNCHANGED storeVars BY DEF AcquireBound, Frame
<1>5. Fits("room") /\ Fits("persona") BY <1>1 DEF Fits
<1>6. CASE closing
  BY <1>3, <1>4, <1>6, GoTyped, RejectedTyped DEF AcquireBound
<1>7. CASE ~closing /\ NeedsRespawn
  <2>1. Goto("room") \/ AwaitClose(c, "room") BY <1>7 DEF AcquireBound
  <2>2. OpTypes' /\ Staged' BY <1>2, <1>4, <1>5, <2>1, GoTyped DEF Stages, Awaits
  <2>3. UNCHANGED callerVars BY <1>7 DEF AcquireBound
  <2>. QED BY <1>3, <1>4, <2>2, <2>3, CallersKept
<1>8. CASE ~closing /\ ~NeedsRespawn /\ WantedPersona # persona[c]
  <2>1. Await("persona", c) /\ UNCHANGED callerVars BY <1>8 DEF AcquireBound
  <2>2. OpTypes' /\ Staged' BY <1>2, <1>4, <1>5, <2>1, GoTyped DEF Stages, Awaits
  <2>. QED BY <1>3, <1>4, <2>1, <2>2, CallersKept
<1>9. CASE ~closing /\ ~NeedsRespawn /\ ~(WantedPersona # persona[c])
  <2>1. Over /\ Returned(c) BY <1>9 DEF AcquireBound
  <2>. QED BY <1>2, <1>3, <1>4, <2>1, GoTyped, ReturnedTyped
<1>. QED BY <1>6, <1>7, <1>8, <1>9

\* #assertOpen and the answer keep the types.
LEMMA ReturnIfOpenTyped ==
  ASSUME Typing, NEW c \in Child, ReturnIfOpen(c), Frame, UNCHANGED storeVars
  PROVE  CallerTypes' /\ Handed' /\ OpTypes' /\ Staged'
  BY GoTyped, RejectedTyped, ReturnedTyped DEF Typing, TypeOK, ReturnIfOpen

\* The stages of acquire have an acquire to work on.
LEMMA Acquires ==
  ASSUME Typing, \/ at \in {"acquire", "persona", "adopt", "room", "start", "giveup"}
                 \/ at = "open" /\ op.by # "warm"
  PROVE  /\ op \in AcquireOp /\ op \in Op /\ op.conv \in Conv /\ op.place \in Place
         /\ op.persona \in Persona \cup {Keep} /\ op.native \in Child \cup {NoChild}
         /\ \A s \in {"acquire", "persona", "adopt", "room", "start", "giveup", "open"} : Fits(s)
<1>1. op \in AcquireOp BY Kinds DEF Typing, Staged, Fits, AcquireOp, WarmOp
<1>2. op \in Op BY <1>1 DEF Op
<1>3. ASSUME NEW s \in {"acquire", "persona", "adopt", "room", "start", "giveup", "open"} PROVE Fits(s)
  BY <1>1, <1>3 DEF Fits
<1>. QED BY <1>1, <1>2, <1>3, Kinds

\* setPersona leaves a persona, that of the binding when it was to be kept.
LEMMA PersonaSetTyped ==
  ASSUME Typing, Owned, PersonaSet PROVE Typing'
<1>. USE DEF Typing, TypeOK
<1>1. /\ op.conv \in Conv /\ op.persona \in Persona \cup {Keep}
      /\ target \in Child /\ target = bindings[op.conv]
  BY Acquires DEF PersonaSet, Owned, Staged, Awaits
<1>2. WantedPersona \in Persona BY <1>1 DEF WantedPersona, ChildTypes
<1>3. ChildTypes' /\ PoolTypes' BY <1>2 DEF PersonaSet, ChildTypes, PoolTypes, poolVars, closeVars
<1>. QED BY <1>1, <1>3, ReturnIfOpenTyped DEF PersonaSet, Frame

\* The child that cannot change its persona is closed by the same acquire.
LEMMA PersonaUnsupportedTyped ==
  ASSUME Typing, PersonaUnsupported PROVE Typing'
<1>. USE DEF Typing, TypeOK
<1>1. target \in Child /\ Fits("room") BY Acquires DEF PersonaUnsupported, Staged, Awaits
<1>2. OpTypes' /\ Staged' BY <1>1, GoTyped DEF PersonaUnsupported, Frame, Stages, Awaits
<1>3. ChildTypes' /\ PoolTypes'
  BY DEF PersonaUnsupported, ChildTypes, PoolTypes, childVars, poolVars, closeVars
<1>. QED BY <1>2, <1>3, CallersKept DEF PersonaUnsupported

\* acquire without a binding goes on with a stage of an acquire.
LEMMA AcquireFreshTyped ==
  ASSUME Typing, AcquireFresh PROVE Typing'
<1>. USE DEF Typing, TypeOK
<1>1. Fits("adopt") /\ Fits("room") BY Acquires DEF AcquireFresh
<1>2. ChildTypes' /\ PoolTypes' BY DEF AcquireFresh, ChildTypes, PoolTypes, childVars, poolVars, closeVars
<1>3. Frame /\ UNCHANGED storeVars BY DEF AcquireFresh, Frame
<1>4. CASE closing BY <1>2, <1>3, <1>4, GoTyped, RejectedTyped DEF AcquireFresh
<1>5. CASE ~closing
  <2>1. UNCHANGED callerVars BY <1>5 DEF AcquireFresh
  <2>2. spare # NoChild => spare \in Child BY DEF PoolTypes
  <2>3. OpTypes' /\ Staged'
    <3>1. CASE Adoptable
      BY <1>1, <1>3, <1>5, <2>2, <3>1, GoTyped DEF AcquireFresh, Adoptable, Stages, Awaits
    <3>2. CASE ~Adoptable /\ spare # NoChild
      BY <1>1, <1>3, <1>5, <2>2, <3>2, GoTyped DEF AcquireFresh, Stages, Awaits
    <3>3. CASE ~Adoptable /\ spare = NoChild
      BY <1>1, <1>3, <1>5, <3>3, GoTyped DEF AcquireFresh, Stages, Awaits
    <3>. QED BY <3>1, <3>2, <3>3
  <2>. QED BY <1>2, <1>3, <2>1, <2>3, CallersKept
<1>. QED BY <1>4, <1>5

\* Adoption binds a child.
LEMMA AdoptedTyped ==
  ASSUME Typing, Owned, Adopted PROVE Typing'
<1>. USE DEF Typing, TypeOK
<1>1. op.conv \in Conv /\ spare \in Child BY Acquires DEF Adopted, Owned, Staged, Awaits
<1>2. ChildTypes' /\ PoolTypes'
  BY <1>1 DEF Adopted, ChildTypes, PoolTypes, childVars, poolVars, closeVars
<1>. QED BY <1>1, <1>2, ReturnIfOpenTyped DEF Adopted, Frame

\* A failed adoption closes the spare before it gives up.
LEMMA AdoptFailsTyped ==
  ASSUME Typing, Owned, AdoptFails PROVE Typing'
<1>. USE DEF Typing, TypeOK
<1>1. spare \in Child /\ Fits("giveup") BY Acquires DEF AdoptFails, Owned, Staged, Awaits
<1>2. OpTypes' /\ Staged' BY <1>1, GoTyped DEF AdoptFails, Frame, Stages, Awaits
<1>3. ChildTypes' /\ PoolTypes' BY DEF AdoptFails, ChildTypes, PoolTypes, childVars, poolVars, closeVars
<1>. QED BY <1>2, <1>3, CallersKept DEF AdoptFails

\* #makeRoom awaits the close of a child, or goes on to open one.
LEMMA MakeRoomTyped ==
  ASSUME Typing, MakeRoom PROVE Typing'
<1>. USE DEF Typing, TypeOK
<1>1. Fits("start") /\ Fits("room") BY Acquires DEF MakeRoom
<1>2. ChildTypes' /\ PoolTypes' BY DEF MakeRoom, ChildTypes, PoolTypes, childVars, poolVars, closeVars
<1>3. Frame /\ UNCHANGED storeVars BY DEF MakeRoom, Frame
<1>4. CASE Goto("start") /\ UNCHANGED callerVars
  BY <1>1, <1>2, <1>3, <1>4, GoTyped, CallersKept DEF Stages, Awaits
<1>5. CASE spare # NoChild /\ AwaitClose(spare, "room") /\ UNCHANGED callerVars
  <2>1. spare \in Child BY <1>5 DEF PoolTypes
  <2>. QED BY <1>1, <1>2, <1>3, <1>5, <2>1, GoTyped, CallersKept DEF Stages, Awaits
<1>6. ASSUME NEW k \in Victims, AwaitClose(bindings[k], "start"), UNCHANGED callerVars PROVE Typing'
  <2>1. bindings[k] \in Child BY <1>6 DEF PoolTypes, Victims, Open, Bound
  <2>. QED BY <1>1, <1>2, <1>3, <1>6, <2>1, GoTyped, CallersKept DEF Stages, Awaits
<1>7. CASE Over /\ Rejected
  BY <1>2, <1>3, <1>7, GoTyped, RejectedTyped
<1>. QED BY <1>4, <1>5, <1>6, <1>7 DEF MakeRoom

\* backend.open keeps the types of what is known of the children.
LEMMA SpawnTyped ==
  ASSUME Typing, NEW c \in Child, NEW p \in Place, NEW m \in Persona,
         NEW n \in Child \cup {NoChild}, Spawn(c, p, m, n), temp' = temp
  PROVE  ChildTypes'
  BY DEF Typing, TypeOK, ChildTypes, Spawn

\* #open asks for a child in a place, with a persona.
LEMMA StartOpenTyped ==
  ASSUME Typing, StartOpen PROVE Typing'
<1>. USE DEF Typing, TypeOK
<1>1. /\ op.conv \in Conv /\ op.place \in Place /\ Fits("open")
      /\ op.persona \in Persona \cup {Keep} /\ op.native \in Child \cup {NoChild}
  BY Acquires DEF StartOpen
<1>2. PoolTypes' BY DEF StartOpen, PoolTypes, poolVars, closeVars
<1>3. Frame /\ UNCHANGED storeVars BY DEF StartOpen, Frame
<1>4. CASE closing
  <2>1. ChildTypes' BY <1>4 DEF StartOpen, ChildTypes, childVars
  <2>. QED BY <1>2, <1>3, <1>4, <2>1, GoTyped, RejectedTyped DEF StartOpen
<1>5. CASE ~closing
  <2>. DEFINE m == IF op.persona # Keep THEN op.persona
                   ELSE IF Bound(op.conv) THEN persona[bindings[op.conv]] ELSE NoPersona
  <2>1. PICK c \in Child : Spawn(c, op.place, m, Resume) BY <1>5 DEF StartOpen
  <2>2. Bound(op.conv) => bindings[op.conv] \in Child BY <1>1 DEF Bound, PoolTypes
  <2>3. m \in Persona BY <1>1, <2>2, PoolAssumption DEF ChildTypes, PoolAssumption
  <2>4. Resume \in Child \cup {NoChild} BY <1>1, <2>2 DEF Resume, ChildTypes
  <2>. HIDE DEF m
  <2>5. ChildTypes' BY <1>1, <1>3, <2>1, <2>3, <2>4, SpawnTyped DEF Frame
  <2>6. Await("open", c) BY <2>1 DEF Spawn
  <2>7. OpTypes' /\ Staged' BY <1>1, <1>3, <2>6, GoTyped DEF Awaits
  <2>8. UNCHANGED callerVars BY <1>5 DEF StartOpen
  <2>. QED BY <1>2, <1>3, <2>5, <2>7, <2>8, CallersKept
<1>. QED BY <1>4, <1>5

\* The new child is bound to a conversation.
LEMMA OpenedTyped ==
  ASSUME Typing, Opened PROVE Typing'
<1>. USE DEF Typing, TypeOK
<1>1. target \in Child /\ op.conv \in Conv BY Acquires DEF Opened, Staged, Awaits
<1>2. ChildTypes' /\ PoolTypes' BY <1>1 DEF Opened, ChildTypes, PoolTypes, closeVars
<1>. QED BY <1>1, <1>2, ReturnIfOpenTyped DEF Opened, Frame

\* An open that fails keeps the types.
LEMMA OpenFailsTyped ==
  ASSUME Typing, OpenFails PROVE Typing'
<1>. USE DEF Typing, TypeOK
<1>2. ChildTypes' /\ PoolTypes' BY DEF OpenFails, ChildTypes, PoolTypes, poolVars, closeVars
<1>. QED BY <1>2, GoTyped, RejectedTyped DEF OpenFails, Frame

\* A close that succeeds goes on with a stage of the same operation.
LEMMA CloseDoneTyped ==
  ASSUME Typing, CloseDone PROVE Typing'
<1>. USE DEF Typing, TypeOK
<1>1. target \in Child /\ Fits(after) /\ after \in Stages \ (Awaits \cup {"idle"})
  BY DEF CloseDone, Staged, Awaits, OpTypes
<1>2. ChildTypes' /\ PoolTypes' BY <1>1 DEF CloseDone, ChildTypes, PoolTypes, closeVars, Without
<1>3. OpTypes' /\ Staged' BY <1>1, GoTyped DEF CloseDone, Frame
<1>. QED BY <1>2, <1>3, CallersKept DEF CloseDone

\* A close that fails ends the operation, or goes on with shutdown.
LEMMA CloseFailsTyped ==
  ASSUME Typing, CloseFails PROVE Typing'
<1>. USE DEF Typing, TypeOK
<1>1. target \in Child /\ Fits(after) BY DEF CloseFails, Staged, Awaits
<1>2. ChildTypes' /\ PoolTypes' BY DEF CloseFails, ChildTypes, PoolTypes, childVars, poolVars, closeVars
<1>3. Frame /\ UNCHANGED storeVars BY DEF CloseFails, Frame
<1>4. CASE after = "shut"
  <2>1. OpTypes' /\ Staged'
    BY <1>1, <1>3, <1>4 DEF CloseFails, OpTypes, Staged, Frame, Stages, Awaits, Fits
  <2>. QED BY <1>2, <1>3, <1>4, <2>1, CallersKept DEF CloseFails
<1>5. CASE after # "shut"
  BY <1>2, <1>3, <1>5, GoTyped, RejectedTyped DEF CloseFails
<1>. QED BY <1>4, <1>5

\* release awaits the close of a binding, or answers.
LEMMA ReleaseTyped ==
  ASSUME Typing, Release PROVE Typing'
<1>. USE DEF Typing, TypeOK
<1>1. op.conv \in Conv /\ Fits("release")
  BY Kinds DEF Release, Staged, Fits, ReleaseOp, Op
<1>2. ChildTypes' /\ PoolTypes' BY <1>1 DEF Release, ChildTypes, PoolTypes, childVars, closeVars
<1>3. Frame /\ UNCHANGED storeVars BY DEF Release, Frame
<1>4. CASE Open(op.conv)
  <2>1. bindings[op.conv] \in Child BY <1>1, <1>4 DEF Open, Bound, PoolTypes
  <2>. QED BY <1>1, <1>2, <1>3, <1>4, <2>1, GoTyped, CallersKept DEF Release, Stages, Awaits
<1>5. CASE ~Open(op.conv)
  BY <1>2, <1>3, <1>5, GoTyped, ReleasedTyped DEF Release
<1>. QED BY <1>4, <1>5

\* sweepIdle stays at its own stage until it is over.
LEMMA SweepIdleTyped ==
  ASSUME Typing, SweepIdle PROVE Typing'
<1>. USE DEF Typing, TypeOK
<1>1. Fits("sweep") BY DEF SweepIdle, Staged
<1>2. ChildTypes' /\ PoolTypes' BY DEF SweepIdle, ChildTypes, PoolTypes, childVars, closeVars
<1>3. Frame /\ CallerTypes' /\ Handed' BY CallersKept DEF SweepIdle, Frame
<1>4. OpTypes' /\ Staged'
  <2>1. ASSUME NEW k \in Stale, Open(k), AwaitClose(bindings[k], "sweep") PROVE OpTypes' /\ Staged'
    <3>1. bindings[k] \in Child BY <2>1 DEF Stale, Bound, PoolTypes
    <3>. QED BY <1>1, <1>3, <2>1, <3>1, GoTyped DEF Stages, Awaits
  <2>2. CASE Goto("sweep") BY <1>1, <1>3, <2>2, GoTyped DEF Stages, Awaits
  <2>3. CASE spare # NoChild /\ AwaitClose(spare, "sweep")
    BY <1>1, <1>3, <2>3, GoTyped DEF PoolTypes, Stages, Awaits
  <2>4. CASE Over BY <1>3, <2>4, GoTyped
  <2>. QED BY <2>1, <2>2, <2>3, <2>4 DEF SweepIdle
<1>. QED BY <1>2, <1>3, <1>4

\* warmSpare keeps the types.
LEMMA WarmSpareTyped ==
  ASSUME Typing, WarmSpare PROVE Typing'
<1>. USE DEF Typing, TypeOK
<1>1. op.place \in Place /\ Fits("warm") /\ Fits("open")
  BY Kinds DEF WarmSpare, Staged, Fits, WarmOp, Op
<1>2. Frame /\ CallerTypes' /\ Handed' BY CallersKept DEF WarmSpare, Frame
<1>3. CASE Over /\ UNCHANGED <<childVars, spare>>
  <2>1. ChildTypes' /\ PoolTypes' BY <1>3 DEF WarmSpare, ChildTypes, PoolTypes, childVars, closeVars
  <2>. QED BY <1>2, <1>3, <2>1, GoTyped
<1>4. CASE spare # NoChild /\ AwaitClose(spare, "warm") /\ UNCHANGED <<childVars, spare>>
  <2>1. ChildTypes' /\ PoolTypes' BY <1>4 DEF WarmSpare, ChildTypes, PoolTypes, childVars, closeVars
  <2>. QED BY <1>1, <1>2, <1>4, <2>1, GoTyped DEF PoolTypes, Stages, Awaits
<1>5. ASSUME NEW c \in Child, Spawn(c, op.place, NoPersona, NoChild), spare' = c PROVE Typing'
  <2>1. ChildTypes' BY <1>1, <1>2, <1>5, SpawnTyped, PoolAssumption DEF PoolAssumption, Frame
  <2>2. PoolTypes' BY <1>5 DEF WarmSpare, PoolTypes, closeVars
  <2>3. Await("open", c) BY <1>5 DEF Spawn
  <2>. QED BY <1>1, <1>2, <2>1, <2>2, <2>3, GoTyped DEF Awaits
<1>. QED BY <1>3, <1>4, <1>5 DEF WarmSpare

\* The spare that opened, or did not, keeps the types.
LEMMA SpareAnswerTyped ==
  ASSUME Typing, SpareOpened \/ SpareFails PROVE Typing'
<1>. USE DEF Typing, TypeOK
<1>1. ChildTypes' /\ PoolTypes'
  BY DEF SpareOpened, SpareFails, ChildTypes, PoolTypes, poolVars, closeVars
<1>2. Frame /\ Over /\ UNCHANGED callerVars /\ UNCHANGED storeVars BY DEF SpareOpened, SpareFails, Frame
<1>. QED BY <1>1, <1>2, GoTyped, CallersKept

\* close() stays at its own stage until it is over.
LEMMA ShutTyped ==
  ASSUME Typing, Shut PROVE Typing'
<1>. USE DEF Typing, TypeOK
<1>1. Fits("shut") BY DEF Shut, Staged
<1>2. ChildTypes' /\ PoolTypes' BY DEF Shut, ChildTypes, PoolTypes, childVars, closeVars
<1>3. Frame /\ CallerTypes' /\ Handed' BY CallersKept DEF Shut, Frame
<1>4. OpTypes' /\ Staged'
  <2>1. ASSUME NEW k \in Untried, AwaitClose(bindings[k], "shut") PROVE OpTypes' /\ Staged'
    <3>1. bindings[k] \in Child BY <2>1 DEF Untried, Bound, PoolTypes
    <3>. QED BY <1>1, <1>3, <2>1, <3>1, GoTyped DEF Stages, Awaits
  <2>2. CASE Goto("shut") BY <1>1, <1>3, <2>2, GoTyped DEF Stages, Awaits
  <2>3. CASE spare # NoChild /\ AwaitClose(spare, "shut")
    BY <1>1, <1>3, <2>3, GoTyped DEF PoolTypes, Stages, Awaits
  <2>4. CASE Over BY <1>3, <2>4, GoTyped
  <2>. QED BY <2>1, <2>2, <2>3, <2>4 DEF Shut
<1>. QED BY <1>2, <1>3, <1>4

\* What happens outside the running operation.
Outside == childVars' = childVars /\ poolVars' = poolVars /\ opVars' = opVars /\ temp' = temp

\* A step outside the running operation keeps all types if it keeps its own.
LEMMA OutsideTyped ==
  ASSUME Typing, Outside, closing' \in BOOLEAN, closePromise' \in {"none", "pending", "resolved"},
         queue' \in Seq(Op), used' \in [ops : Nat, asks : Nat, temps : Nat], CallerTypes', Handed'
  PROVE  Typing'
<1>1. ChildTypes' /\ PoolTypes'
  BY DEF Typing, TypeOK, Outside, ChildTypes, PoolTypes, childVars, poolVars
<1>2. OpTypes' /\ Staged' BY StayTyped DEF Typing, TypeOK, Outside
<1>. QED BY <1>1, <1>2 DEF Typing, TypeOK

\* The conversation k asks for the operation o, or for none.
LEMMA TurnTyped ==
  ASSUME Typing, NEW k \in Conv, NEW p \in Place, NEW m \in Persona,
         \/ Claim(k, p, m) \/ TurnAcquires(k) \/ StartupFails(k) \/ Prompt(k)
         \/ TurnReleases(k) \/ TurnEnds(k)
  PROVE  Typing' /\ Outside /\ UNCHANGED closeVars
<1>. USE DEF Typing, TypeOK, Outside
<1>1. UNCHANGED closeVars /\ Outside
  BY DEF Claim, TurnAcquires, StartupFails, Prompt, TurnReleases, TurnEnds
<1>2. closing' \in BOOLEAN /\ closePromise' \in {"none", "pending", "resolved"}
  BY <1>1 DEF closeVars, PoolTypes
<1>3. queue \in Seq(Op) /\ used \in [ops : Nat, asks : Nat, temps : Nat] BY DEF OpTypes
<1>4. CASE Claim(k, p, m)
  <2>1. CallerTypes' /\ Handed' BY <1>4 DEF Claim, CallerTypes, Handed, storeVars
  <2>. QED BY <1>1, <1>2, <1>3, <1>4, <2>1, OutsideTyped DEF Claim
<1>5. CASE TurnAcquires(k)
  <2>. DEFINE o == [by |-> "turn", conv |-> k, place |-> want[k].place, persona |-> want[k].persona,
                    native |-> IF Session(k) # NoChild THEN native[Session(k)] ELSE recNative[k]]
  <2>1. CallerTypes' /\ Handed' BY <1>5 DEF TurnAcquires, CallerTypes, Handed, storeVars
  <2>2. Session(k) # NoChild => Session(k) \in Child BY DEF Session, Open, Bound, PoolTypes
  <2>3. o.native \in Child \cup {NoChild} BY <2>2 DEF ChildTypes, CallerTypes
  <2>4. want[k] \in [place : Place, persona : Persona] BY DEF CallerTypes
  <2>5. o \in AcquireOp BY <2>3, <2>4 DEF AcquireOp
  <2>. QED BY <1>1, <1>2, <1>3, <1>5, <2>1, <2>5, OutsideTyped, Queued DEF TurnAcquires, Op
<1>6. CASE StartupFails(k)
  <2>1. CallerTypes' /\ Handed'
    BY <1>6, TurnOverTyped DEF StartupFails, TurnOver, CallerTypes, Handed, storeVars
  <2>. QED BY <1>1, <1>2, <1>3, <1>6, <2>1, OutsideTyped DEF StartupFails
<1>7. CASE Prompt(k)
  <2>1. native[hands[k]] \in Child \cup {NoChild} BY <1>7 DEF Prompt, Handed, ChildTypes
  <2>2. CallerTypes' /\ Handed' BY <1>7, <2>1 DEF Prompt, CallerTypes, Handed
  <2>. QED BY <1>1, <1>2, <1>3, <1>7, <2>2, OutsideTyped DEF Prompt
<1>8. CASE TurnReleases(k)
  <2>1. CallerTypes' /\ Handed' BY <1>8 DEF TurnReleases, CallerTypes, Handed, storeVars
  <2>2. [by |-> "restore", conv |-> k] \in Op BY DEF Op, ReleaseOp
  <2>. QED BY <1>1, <1>2, <1>8, <2>1, <2>2, OutsideTyped, Queued DEF TurnReleases
<1>9. CASE TurnEnds(k)
  <2>1. CallerTypes' /\ Handed'
    BY <1>9, TurnOverTyped DEF TurnEnds, TurnOver, CallerTypes, Handed, storeVars
  <2>2. want[k] \in [place : Place, persona : Persona] BY DEF CallerTypes
  <2>3. [by |-> "warm", place |-> want[k].place] \in Op BY <2>2 DEF Op, WarmOp
  <2>. QED BY <1>1, <1>2, <1>3, <1>9, <2>1, <2>3, OutsideTyped, Queued DEF TurnEnds
<1>. QED BY <1>1, <1>4, <1>5, <1>6, <1>7, <1>8, <1>9

\* A model query keeps the types and touches nothing of the pool.
LEMMA AskTyped ==
  ASSUME Typing, NEW k \in Conv, NEW p \in Place, ModelAsks(k, p) \/ ModelSaves(k)
  PROVE  Typing' /\ Outside /\ UNCHANGED closeVars
<1>. USE DEF Typing, TypeOK, Outside
<1>1. UNCHANGED closeVars /\ Outside BY DEF ModelAsks, ModelSaves
<1>2. closing' \in BOOLEAN /\ closePromise' \in {"none", "pending", "resolved"}
  BY <1>1 DEF closeVars, PoolTypes
<1>3. queue \in Seq(Op) /\ used \in [ops : Nat, asks : Nat, temps : Nat] BY DEF OpTypes
<1>4. CASE ModelAsks(k, p)
  <2>. DEFINE o == [by |-> "model", conv |-> k, place |-> p, persona |-> Keep, native |-> recNative[k]]
  <2>1. CallerTypes' /\ Handed'
    BY <1>4 DEF ModelAsks, CallerTypes, Handed, storeVars, turnVars, Asked
  <2>2. o \in Op BY DEF Op, AcquireOp, CallerTypes
  <2>3. queue' \in Seq(Op) BY <1>3, <1>4, <2>2 DEF ModelAsks
  <2>4. used' \in [ops : Nat, asks : Nat, temps : Nat]
    <3>1. used' = [used EXCEPT !.ops = used.ops + 1, !.asks = used.asks + 1] BY <1>4 DEF ModelAsks
    <3>2. used.ops + 1 \in Nat /\ used.asks + 1 \in Nat BY ONLY <1>3
    <3>. DEFINE n == used.ops + 1  q == used.asks + 1
    <3>3. used' = [used EXCEPT !.ops = n, !.asks = q] /\ n \in Nat /\ q \in Nat BY <3>1, <3>2
    <3>. HIDE DEF n, q
    <3>. QED BY ONLY <1>3, <3>3
  <2>. QED BY <1>1, <1>2, <2>1, <2>3, <2>4, OutsideTyped
<1>5. CASE ModelSaves(k)
  <2>1. CallerTypes' /\ Handed'
    BY <1>5 DEF ModelSaves, CallerTypes, ChildTypes, Handed, turnVars, NoChild
  <2>. QED BY <1>1, <1>2, <1>3, <1>5, <2>1, OutsideTyped DEF ModelSaves
<1>. QED BY <1>1, <1>4, <1>5

\* conv.remove keeps the types and touches nothing of the pool.
LEMMA RemoveTyped ==
  ASSUME Typing, NEW k \in Conv, Remove(k) \/ RecordRemoved(k)
  PROVE  Typing' /\ Outside /\ UNCHANGED closeVars
<1>. USE DEF Typing, TypeOK, Outside
<1>1. UNCHANGED closeVars /\ Outside BY DEF Remove, RecordRemoved
<1>2. closing' \in BOOLEAN /\ closePromise' \in {"none", "pending", "resolved"}
  BY <1>1 DEF closeVars, PoolTypes
<1>3. queue \in Seq(Op) /\ used \in [ops : Nat, asks : Nat, temps : Nat] BY DEF OpTypes
<1>4. CallerTypes' /\ Handed'
  BY DEF Remove, RecordRemoved, CallerTypes, Handed, storeVars, turnVars
<1>5. [by |-> "removal", conv |-> k] \in Op BY DEF Op, ReleaseOp
<1>. QED BY <1>1, <1>2, <1>3, <1>4, <1>5, OutsideTyped, Queued DEF Remove, RecordRemoved

\* The tick keeps the types and touches nothing of the pool.
LEMMA SweepTyped ==
  ASSUME Typing, Sweep PROVE Typing' /\ Outside /\ UNCHANGED closeVars
<1>. USE DEF Typing, TypeOK, Outside
<1>1. [by |-> "sweep"] \in Op BY DEF Op, PlainOp
<1>2. CallerTypes' /\ Handed' BY CallersKept DEF Sweep
<1>. QED BY <1>1, <1>2, OutsideTyped, Queued DEF Sweep, closeVars, PoolTypes

\* Asking for shutdown keeps the types.
LEMMA CloseTyped ==
  ASSUME Typing, Close PROVE Typing' /\ Outside
<1>. USE DEF Typing, TypeOK, Outside
<1>1. [by |-> "close"] \in Op BY DEF Op, PlainOp
<1>2. CallerTypes' /\ Handed' BY CallersKept DEF Close
<1>. QED BY <1>1, <1>2, OutsideTyped, Queued DEF Close, PoolTypes

\* A process starts or ends of its own accord.
LEMMA ProcessTyped ==
  ASSUME Typing, NEW c \in Child, NEW p \in Place, Dies(c) \/ TempOpens(c, p) \/ TempCloses
  PROVE  Typing' /\ UNCHANGED <<poolVars, opVars, closeVars, callerVars, storeVars>>
<1>. USE DEF Typing, TypeOK
<1>1. UNCHANGED <<poolVars, opVars, closeVars, callerVars, storeVars, queue>>
  BY DEF Dies, TempOpens, TempCloses
<1>2. ChildTypes' BY DEF Dies, TempOpens, TempCloses, ChildTypes
<1>3. used' \in [ops : Nat, asks : Nat, temps : Nat]
  <2>1. used \in [ops : Nat, asks : Nat, temps : Nat] BY DEF OpTypes
  <2>2. used' = used \/ used' = [used EXCEPT !.temps = @ + 1] BY DEF Dies, TempOpens, TempCloses
  <2>. QED BY ONLY <2>1, <2>2
<1>4. PoolTypes' BY <1>1 DEF PoolTypes, poolVars, closeVars
<1>5. CallerTypes' /\ Handed' BY <1>1, CallersKept
<1>6. OpTypes' /\ Staged' BY <1>1, <1>3, StayTyped DEF OpTypes
<1>. QED BY <1>1, <1>2, <1>4, <1>5, <1>6

-----------------------------------------------------------------------------
(* Ownership.                                                              *)

Kept == child' = child /\ closed' = closed /\ bindings' = bindings /\ spare' = spare /\ temp' = temp

\* Nothing changes but where the operation is.
LEMMA MoveOwned ==
  ASSUME Typing, Owned, Kept, op' \in {op, NoOp} \/ at = "idle",
         at # "open", at' # "open",
         at' = "close" => /\ target' \notin closed
                          /\ target' = spare \/ \E k \in Conv : bindings[k] = target'
                          /\ after' \in {"room", "start"} /\ Open(op'.conv) => target' = bindings[op'.conv],
         at' = "adopt" => target' = spare /\ ~Bound(op'.conv),
         at' = "persona" => target' = bindings[op'.conv] /\ target' \notin closed,
         at' \in {"room", "start"} => ~Open(op'.conv)
  PROVE  Owned'
  BY DEF Owned, Kept, Processes, Bound, Open

\* What callers do changes no owner: they only ask.
LEMMA OutsideOwned == ASSUME Owned, Outside PROVE Owned'
  BY DEF Owned, Outside, childVars, poolVars, opVars, Processes, Bound, Open

\* A child that dies, and the child of a command list, change no owner.
LEMMA ProcessOwned ==
  ASSUME Typing, Owned, NEW c \in Child, NEW p \in Place, Dies(c) \/ TempOpens(c, p) \/ TempCloses
  PROVE  Owned'
<1>. USE DEF Typing, TypeOK, poolVars, opVars, Processes, Bound, Open, NoChild
<1>1. CASE Dies(c) BY <1>1 DEF Dies, Owned, ChildTypes
<1>2. CASE TempOpens(c, p) BY <1>2 DEF TempOpens, Owned, ChildTypes, PoolTypes, Child
<1>3. CASE TempCloses BY <1>3 DEF TempCloses, Owned, ChildTypes
<1>. QED BY <1>1, <1>2, <1>3

\* The operations that own nothing new: where each of them goes.
LEMMA QuietOwned ==
  ASSUME Typing, Owned,
         \/ Dequeue \/ PersonaFails \/ GiveUp \/ AcquireBound \/ AcquireFresh \/ PersonaSet
         \/ PersonaUnsupported \/ AdoptFails \/ MakeRoom \/ CloseFails
  PROVE  Owned'
<1>. USE DEF Typing, TypeOK
<1>1. Kept BY DEF Kept, Dequeue, PersonaFails, GiveUp, Reject, AcquireBound, AcquireFresh, PersonaSet,
                  PersonaUnsupported, AdoptFails, MakeRoom, CloseFails, childVars, poolVars
<1>2. CASE Dequeue
  <2>1. Head(queue) \in Op BY <1>2 DEF Dequeue, OpTypes
  <2>2. at' \in {"acquire", "release", "shut", "warm", "sweep"} /\ at = "idle"
    BY <1>2, <2>1, Kinds DEF Dequeue, FirstStage
  <2>. QED BY <1>1, <2>2, MoveOwned
<1>3. ASSUME Over, at # "open" PROVE Owned'
  BY <1>1, <1>3, MoveOwned DEF Over
<1>4. CASE PersonaFails \/ GiveUp BY <1>3, <1>4 DEF PersonaFails, GiveUp, Reject
<1>5. CASE PersonaSet BY <1>3, <1>5 DEF PersonaSet, ReturnIfOpen
<1>6. CASE AcquireBound
  <2>. DEFINE c == bindings[op.conv]
  <2>1. op.conv \in Conv /\ Bound(op.conv) /\ at = "acquire" BY <1>6, Acquires DEF AcquireBound
  <2>2. \/ Over \/ Await("persona", c)
        \/ c \in closed /\ Goto("room")
        \/ c \notin closed /\ AwaitClose(c, "room")
    BY <1>6 DEF AcquireBound
  <2>3. CASE Over BY <1>3, <2>1, <2>3
  <2>4. CASE Await("persona", c)
    <3>1. (~closing /\ ~NeedsRespawn) \/ Over
      BY <1>6, <2>4 DEF AcquireBound, Await, AwaitClose, Goto
    <3>2. c \notin closed \/ Over BY <3>1 DEF NeedsRespawn
    <3>. QED BY <1>1, <1>3, <2>1, <2>4, <3>2, MoveOwned DEF Await
  <2>5. CASE c \in closed /\ Goto("room") BY <1>1, <2>1, <2>5, MoveOwned DEF Goto, Open
  <2>6. CASE c \notin closed /\ AwaitClose(c, "room") BY <1>1, <2>1, <2>6, MoveOwned DEF AwaitClose
  <2>. QED BY <2>2, <2>3, <2>4, <2>5, <2>6
<1>7. CASE AcquireFresh
  <2>1. ~Bound(op.conv) /\ ~Open(op.conv) /\ at = "acquire" BY <1>7 DEF AcquireFresh, Open
  <2>2. Over \/ Await("adopt", spare) \/ (spare # NoChild /\ AwaitClose(spare, "room")) \/ Goto("room")
    BY <1>7 DEF AcquireFresh
  <2>3. CASE Over BY <1>3, <2>1, <2>3
  <2>4. CASE Await("adopt", spare) BY <1>1, <2>1, <2>4, MoveOwned DEF Await
  <2>5. CASE spare # NoChild /\ AwaitClose(spare, "room")
    BY <1>1, <2>1, <2>5, MoveOwned DEF AwaitClose, Owned
  <2>6. CASE Goto("room") BY <1>1, <2>1, <2>6, MoveOwned DEF Goto
  <2>. QED BY <2>2, <2>3, <2>4, <2>5, <2>6
<1>8. CASE PersonaUnsupported
  <2>1. op.conv \in Conv /\ target \in Child BY <1>8, Acquires DEF PersonaUnsupported, Staged, Awaits
  <2>2. target = bindings[op.conv] /\ at = "persona" BY <1>8 DEF PersonaUnsupported, Owned
  <2>3. AwaitClose(target, "room") BY <1>8 DEF PersonaUnsupported
  <2>4. target \notin closed BY <2>2 DEF Owned
  <2>. QED BY <1>1, <2>1, <2>2, <2>3, <2>4, MoveOwned DEF AwaitClose
<1>9. CASE AdoptFails
  <2>1. target = spare /\ spare \in Child /\ at = "adopt"
    BY <1>9 DEF AdoptFails, Owned, Staged, Awaits
  <2>. QED BY <1>1, <1>9, <2>1, MoveOwned DEF AdoptFails, AwaitClose, Owned, NoChild, Child
<1>10. CASE MakeRoom
  <2>1. at = "room" /\ ~Open(op.conv) BY <1>10 DEF MakeRoom, Owned
  <2>2. CASE Goto("start") BY <1>1, <2>1, <2>2, MoveOwned DEF Goto
  <2>3. CASE spare # NoChild /\ AwaitClose(spare, "room")
    BY <1>1, <2>1, <2>3, MoveOwned DEF AwaitClose, Owned
  <2>4. ASSUME NEW k \in Victims, AwaitClose(bindings[k], "start") PROVE Owned'
    BY <1>1, <2>1, <2>4, MoveOwned DEF AwaitClose, Victims, Open
  <2>5. CASE Over BY <1>3, <2>1, <2>5
  <2>. QED BY <1>10, <2>2, <2>3, <2>4, <2>5 DEF MakeRoom
<1>11. CASE CloseFails
  <2>1. at = "close" /\ (Over \/ (at' = "shut" /\ op' = op)) BY <1>11 DEF CloseFails
  <2>. QED BY <1>1, <1>3, <2>1, MoveOwned
<1>. QED BY <1>2, <1>4, <1>5, <1>6, <1>7, <1>8, <1>9, <1>10, <1>11

\* The adopted spare has one owner before and after.
LEMMA AdoptedOwned ==
  ASSUME Typing, Owned, Adopted PROVE Owned'
<1>. USE DEF Typing, TypeOK
<1>1. /\ op.conv \in Conv /\ spare \in Child /\ spare # NoChild /\ at = "adopt" /\ ~Bound(op.conv)
      /\ child' = child /\ closed' = closed /\ temp' = temp /\ at' = "idle"
  BY Acquires DEF Adopted, Owned, Staged, Awaits, ReturnIfOpen, Over, childVars, NoChild, Child
<1>2. CASE closing
  BY <1>1, <1>2, MoveOwned DEF Adopted, Kept, poolVars, ReturnIfOpen, Over
<1>3. CASE ~closing
  <2>1. bindings' = [bindings EXCEPT ![op.conv] = spare] /\ spare' = NoChild
    BY <1>3 DEF Adopted
  <2>. QED BY <1>1, <2>1 DEF Owned, Processes, Bound, Open, PoolTypes
<1>. QED BY <1>2, <1>3

\* A child being opened is owned by the operation that opens it.
LEMMA StartOpenOwned ==
  ASSUME Typing, Owned, StartOpen PROVE Owned'
<1>. USE DEF Typing, TypeOK
<1>1. at = "start" /\ op.by # "warm" /\ UNCHANGED <<bindings, spare, temp>> /\ ~Open(op.conv)
  BY Acquires, Kinds DEF StartOpen, poolVars, Owned
<1>2. CASE closing
  BY <1>1, <1>2, MoveOwned DEF StartOpen, Kept, childVars, Over
<1>3. CASE ~closing
  <2>1. PICK c \in Child : /\ child[c] = "unborn" /\ child' = [child EXCEPT ![c] = "opening"]
                           /\ at' = "open" /\ target' = c /\ op' = op /\ closed' = closed
    BY <1>3 DEF StartOpen, Spawn, Await
  <2>. QED BY <1>1, <2>1 DEF Owned, Processes, Bound, Open, ChildTypes, PoolTypes, NoChild, Child
<1>. QED BY <1>2, <1>3

\* The new child passes to a conversation whose old binding is closed.
LEMMA OpenedOwned ==
  ASSUME Typing, Owned, Opened PROVE Owned'
<1>. USE DEF Typing, TypeOK
<1>1. /\ op.conv \in Conv /\ target \in Child /\ at = "open" /\ child[target] = "opening"
      /\ target # spare /\ ~Open(op.conv) /\ at' = "idle"
      /\ child' = [child EXCEPT ![target] = "alive"]
      /\ bindings' = [bindings EXCEPT ![op.conv] = target]
      /\ spare' = spare /\ closed' = closed /\ temp' = temp
  BY Acquires DEF Opened, Owned, Staged, Awaits, ReturnIfOpen, Over
<1>. QED BY <1>1 DEF Owned, Processes, Bound, Open, ChildTypes, PoolTypes, NoChild, Child

\* A child that did not open is nobody's; a spare that did is the spare.
LEMMA OpenFailsOwned ==
  ASSUME Typing, Owned, OpenFails \/ SpareOpened \/ SpareFails PROVE Owned'
<1>. USE DEF Typing, TypeOK
<1>1. /\ target \in Child /\ at = "open" /\ child[target] = "opening" /\ at' = "idle"
      /\ closed' = closed /\ temp' = temp /\ bindings' = bindings
  BY DEF OpenFails, SpareOpened, SpareFails, Owned, Staged, Awaits, Over, poolVars
<1>. USE DEF Owned, Processes, Bound, Open, ChildTypes, PoolTypes, NoChild, Child
<1>2. CASE OpenFails BY <1>1, <1>2 DEF OpenFails, poolVars
<1>3. CASE SpareOpened BY <1>1, <1>3 DEF SpareOpened, poolVars
<1>4. CASE SpareFails BY <1>1, <1>4 DEF SpareFails
<1>. QED BY <1>2, <1>3, <1>4

\* A closed child leaves the spare's slot and, unless it is being replaced, the
\* bindings; nobody else loses a child.
LEMMA CloseDoneOwned ==
  ASSUME Typing, Owned, CloseDone PROVE Owned'
<1>. USE DEF Typing, TypeOK
<1>1. /\ target \in Child /\ at = "close" /\ at' = after /\ op' = op
      /\ after \notin Awaits \cup {"idle"} /\ target' = NoChild
      /\ child' = [child EXCEPT ![target] = "dead"] /\ closed' = closed \cup {target}
      /\ temp' = temp
  BY DEF CloseDone, Staged, Awaits, Goto
<1>2. bindings' = IF after = "room" THEN bindings ELSE Without(target)
  BY DEF CloseDone
<1>3. spare' = IF spare = target THEN NoChild ELSE spare
  BY DEF CloseDone
<1>4. \A k \in Conv : bindings'[k] # NoChild => bindings'[k] = bindings[k]
  BY <1>2 DEF Without, PoolTypes
<1>5. \A k \in Conv : bindings[k] # target => bindings'[k] = bindings[k]
  BY <1>2 DEF Without, PoolTypes
<1>6. spare' # NoChild => spare' = spare /\ spare # target BY <1>3
<1>. USE DEF Processes, Bound, Open
<1>7. ASSUME NEW c \in Processes', c # temp', c # spare' PROVE \E k \in Conv : bindings'[k] = c
  <2>1. c \in Processes /\ c # target BY <1>1, <1>7 DEF ChildTypes
  <2>2. c # temp /\ c # spare BY <1>1, <1>3, <1>7, <2>1
  <2>3. PICK k \in Conv : bindings[k] = c BY <1>1, <2>1, <2>2 DEF Owned, Awaits
  <2>. QED BY <1>5, <2>1, <2>3
<1>8. \A j, k \in Conv : bindings'[j] = bindings'[k] /\ bindings'[j] # NoChild => j = k
  BY <1>4 DEF Owned
<1>9. ASSUME NEW k \in Conv, bindings'[k] # NoChild
      PROVE  bindings'[k] # spare' /\ bindings'[k] # temp' /\ child'[bindings'[k]] \in {"alive", "dead"}
  <2>1. /\ bindings[k] # NoChild /\ bindings'[k] = bindings[k] /\ bindings[k] \in Child
        /\ bindings[k] # spare /\ bindings[k] # temp /\ child[bindings[k]] \in {"alive", "dead"}
    BY <1>4, <1>9 DEF Owned, PoolTypes
  <2>. QED BY <1>1, <1>6, <1>9, <2>1 DEF ChildTypes
<1>10. spare' # NoChild => /\ spare' # temp' /\ spare' \notin closed'
                           /\ child'[spare'] \in {"alive", "dead"}
  BY <1>1, <1>6 DEF Owned, ChildTypes, PoolTypes
<1>11. temp' # NoChild => child'[temp'] \in {"alive", "dead"}
  BY <1>1 DEF Owned, ChildTypes
<1>12. \A c \in closed' : child'[c] = "dead" BY <1>1 DEF Owned, ChildTypes
<1>13. at' \notin Awaits BY <1>1
<1>14. ASSUME after \in {"room", "start"} PROVE ~(Open(op.conv))'
  <2>1. op.conv \in Conv BY <1>1, <1>14, Kinds DEF Staged, Fits, AcquireOp
  <2>2. CASE Open(op.conv)
    <3>1. target = bindings[op.conv] BY <1>1, <1>14, <2>2 DEF Owned
    <3>. QED BY <1>1, <1>4, <2>1, <3>1
  <2>3. CASE ~Open(op.conv) BY <1>1, <1>4, <2>1, <2>3
  <2>. QED BY <2>2, <2>3
<1>. HIDE DEF Processes, Open
<1>. QED BY <1>1, <1>7, <1>8, <1>9, <1>10, <1>11, <1>12, <1>13, <1>14 DEF Owned, Awaits

\* release forgets a binding only when its child is closed.
LEMMA ReleaseOwned ==
  ASSUME Typing, Owned, Release PROVE Owned'
<1>. USE DEF Typing, TypeOK
<1>1. /\ op.conv \in Conv /\ at = "release" /\ op' \in {op, NoOp}
      /\ child' = child /\ closed' = closed /\ temp' = temp /\ spare' = spare
  BY Kinds DEF Release, Staged, Fits, ReleaseOp, Op, childVars, AwaitClose, Over
<1>2. CASE Open(op.conv)
  BY <1>1, <1>2, MoveOwned DEF Release, AwaitClose, Kept, Open
<1>3. CASE ~Open(op.conv)
  BY <1>1, <1>3 DEF Release, Over, Owned, Processes, Bound, Open, ChildTypes, PoolTypes
<1>. QED BY <1>2, <1>3

\* sweepIdle forgets a binding only when its child is closed.
LEMMA SweepIdleOwned ==
  ASSUME Typing, Owned, SweepIdle PROVE Owned'
<1>. USE DEF Typing, TypeOK
<1>1. /\ at = "sweep" /\ op' \in {op, NoOp}
      /\ child' = child /\ closed' = closed /\ temp' = temp /\ spare' = spare
  BY DEF SweepIdle, childVars, AwaitClose, Goto, Over
<1>2. ASSUME NEW k \in Stale, Open(k), AwaitClose(bindings[k], "sweep"), UNCHANGED bindings PROVE Owned'
  BY <1>1, <1>2, MoveOwned DEF AwaitClose, Kept, Open, Stale
<1>3. ASSUME NEW k \in Stale, ~Open(k), Goto("sweep"), bindings' = [bindings EXCEPT ![k] = NoChild]
      PROVE  Owned'
  BY <1>1, <1>3 DEF Goto, Owned, Processes, Bound, Open, ChildTypes, PoolTypes, Stale
<1>4. CASE spare # NoChild /\ AwaitClose(spare, "sweep") /\ UNCHANGED bindings
  BY <1>1, <1>4, MoveOwned DEF AwaitClose, Kept, Owned
<1>5. CASE Over /\ UNCHANGED bindings BY <1>1, <1>5, MoveOwned DEF Over, Kept
<1>. QED BY <1>2, <1>3, <1>4, <1>5 DEF SweepIdle

\* The new spare is the child being opened.
LEMMA WarmSpareOwned ==
  ASSUME Typing, Owned, WarmSpare PROVE Owned'
<1>. USE DEF Typing, TypeOK
<1>1. at = "warm" /\ op' \in {op, NoOp} /\ temp' = temp /\ bindings' = bindings /\ op.by = "warm"
  BY Kinds DEF WarmSpare, AwaitClose, Over, Spawn, Await, Staged, Fits, WarmOp
<1>2. CASE Over /\ UNCHANGED <<childVars, spare>> BY <1>1, <1>2, MoveOwned DEF Over, Kept, childVars
<1>3. CASE spare # NoChild /\ AwaitClose(spare, "warm") /\ UNCHANGED <<childVars, spare>>
  BY <1>1, <1>3, MoveOwned DEF AwaitClose, Kept, childVars, Owned
<1>4. CASE spare = NoChild /\ \E c \in Child : Spawn(c, op.place, NoPersona, NoChild) /\ spare' = c
  <2>1. PICK c \in Child : /\ child[c] = "unborn" /\ child' = [child EXCEPT ![c] = "opening"]
                           /\ at' = "open" /\ target' = c /\ op' = op /\ closed' = closed
                           /\ spare' = c
    BY <1>4 DEF Spawn, Await
  <2>. QED BY <1>1, <1>4, <2>1 DEF Owned, Processes, Bound, Open, ChildTypes, PoolTypes, NoChild, Child
<1>. QED BY <1>2, <1>3, <1>4 DEF WarmSpare

\* close() forgets a binding only when its child is closed.
LEMMA ShutOwned ==
  ASSUME Typing, Owned, Shut PROVE Owned'
<1>. USE DEF Typing, TypeOK
<1>1. /\ at = "shut" /\ op' \in {op, NoOp}
      /\ child' = child /\ closed' = closed /\ temp' = temp /\ spare' = spare
  BY DEF Shut, childVars, AwaitClose, Goto, Over
<1>2. ASSUME NEW k \in Untried, Open(k), AwaitClose(bindings[k], "shut"), UNCHANGED bindings PROVE Owned'
  BY <1>1, <1>2, MoveOwned DEF AwaitClose, Kept, Open, Untried
<1>3. ASSUME NEW k \in Untried, ~Open(k), Goto("shut"), bindings' = [bindings EXCEPT ![k] = NoChild]
      PROVE  Owned'
  BY <1>1, <1>3 DEF Goto, Owned, Processes, Bound, Open, ChildTypes, PoolTypes, Untried
<1>4. CASE spare # NoChild /\ AwaitClose(spare, "shut") /\ UNCHANGED bindings
  BY <1>1, <1>4, MoveOwned DEF AwaitClose, Kept, Owned
<1>5. CASE Over /\ UNCHANGED bindings BY <1>1, <1>5, MoveOwned DEF Over, Kept
<1>. QED BY <1>2, <1>3, <1>4, <1>5 DEF Shut

-----------------------------------------------------------------------------
(* Capacity.                                                               *)

\* A union has at most as many elements as its parts together.
LEMMA AtMostTheSum ==
  ASSUME NEW A, NEW B, IsFiniteSet(A), IsFiniteSet(B)
  PROVE  IsFiniteSet(A \cup B) /\ Cardinality(A \cup B) <= Cardinality(A) + Cardinality(B)
<1>1. Cardinality(A) \in Nat /\ Cardinality(B) \in Nat /\ Cardinality(A \cap B) \in Nat
  BY FS_CardinalityType, FS_Intersection
<1>2. IsFiniteSet(A \cup B)
      /\ Cardinality(A \cup B) = Cardinality(A) + Cardinality(B) - Cardinality(A \cap B)
  BY FS_Union
<1>. QED BY <1>1, <1>2

\* How the number of open bindings follows from which of them are open.
LEMMA FewerChildren ==
  ASSUME OpenOnes' \subseteq OpenOnes
  PROVE  Children \in Nat /\ Children' \in Nat /\ Children' <= Children
<1>1. IsFiniteSet(OpenOnes)
  <2>1. IsFiniteSet(Conv) BY PoolAssumption DEF PoolAssumption
  <2>. QED BY <2>1, FS_Subset DEF OpenOnes
<1>2. IsFiniteSet(OpenOnes') /\ Cardinality(OpenOnes') <= Cardinality(OpenOnes) BY <1>1, FS_Subset
<1>. QED BY <1>1, <1>2, FS_CardinalityType DEF Children

\* Binding one conversation adds at most one open binding.
LEMMA OneMoreChild ==
  ASSUME NEW k \in Conv, OpenOnes' \subseteq OpenOnes \cup {k}
  PROVE  Children \in Nat /\ Children' \in Nat /\ Children' <= Children + 1
<1>1. IsFiniteSet(OpenOnes)
  <2>1. IsFiniteSet(Conv) BY PoolAssumption DEF PoolAssumption
  <2>. QED BY <2>1, FS_Subset DEF OpenOnes
<1>. DEFINE more == OpenOnes \cup {k}
<1>2. IsFiniteSet(more) /\ Cardinality(more) <= Cardinality(OpenOnes) + 1
  BY <1>1, FS_AddElement, FS_CardinalityType
<1>3. IsFiniteSet(OpenOnes') /\ Cardinality(OpenOnes') <= Cardinality(more) BY <1>2, FS_Subset
<1>4. Cardinality(OpenOnes) \in Nat /\ Cardinality(OpenOnes') \in Nat /\ Cardinality(more) \in Nat
  BY <1>1, <1>2, <1>3, FS_CardinalityType
<1>. HIDE DEF more
<1>. QED BY <1>2, <1>3, <1>4 DEF Children

\* Closing the child of an open binding takes one away.
LEMMA OneChildLess ==
  ASSUME NEW k \in OpenOnes, OpenOnes' \subseteq OpenOnes \ {k}
  PROVE  Children \in Nat /\ Children' \in Nat /\ Children' < Children
<1>1. IsFiniteSet(OpenOnes)
  <2>1. IsFiniteSet(Conv) BY PoolAssumption DEF PoolAssumption
  <2>. QED BY <2>1, FS_Subset DEF OpenOnes
<1>. DEFINE less == OpenOnes \ {k}
<1>2. IsFiniteSet(less) /\ Cardinality(less) = Cardinality(OpenOnes) - 1
  BY <1>1, FS_RemoveElement
<1>3. IsFiniteSet(OpenOnes') /\ Cardinality(OpenOnes') <= Cardinality(less) BY <1>2, FS_Subset
<1>4. Cardinality(OpenOnes) \in Nat /\ Cardinality(OpenOnes') \in Nat /\ Cardinality(less) \in Nat
  BY <1>1, <1>2, <1>3, FS_CardinalityType
<1>. HIDE DEF less
<1>. QED BY <1>2, <1>3, <1>4 DEF Children

\* The slots of the spare and of a child being opened for a conversation.
Spared == IF spare = NoChild THEN 0 ELSE 1
Coming == IF at = "open" /\ op.by # "warm" THEN 1 ELSE 0

\* The slots taken are those of the bindings, the spare and a child being opened.
LEMMA SlotsSplit ==
  /\ Slots = Children + Spared + Coming
  /\ Spared \in Nat /\ Coming \in Nat
  BY DEF Slots, Spared, Coming

\* The same after a step.
LEMMA SlotsSplitNext ==
  /\ Slots' = Children' + Spared' + Coming'
  /\ Spared' \in Nat /\ Coming' \in Nat
  BY DEF Slots, Spared, Coming

\* The pool is never over its limit.
LEMMA CountedSlots == Counted => Slots <= Max
  BY DEF Counted

\* The slots after a step, when it is known what becomes of their three parts.
LEMMA SlotsNext ==
  ASSUME NEW c \in Nat, NEW s \in Nat, NEW d \in Nat,
         Children' = c, Spared' = s, Coming' = d
  PROVE  Slots' = c + s + d
  BY SlotsSplitNext

\* A step that takes no slot.
LEMMA ShrinkCounted ==
  ASSUME Counted, OpenOnes' \subseteq OpenOnes, spare' \in {spare, NoChild},
         at' \notin {"open", "start"}, ~(at' = "close" /\ after' = "start")
  PROVE  Counted'
<1>1. Children \in Nat /\ Children' \in Nat /\ Children' <= Children BY FewerChildren
<1>2. Max \in Nat BY PoolAssumption DEF PoolAssumption
<1>3. Spared' <= Spared /\ Coming' = 0 BY DEF Spared, Coming, NoChild
<1>. DEFINE c == Children'  s == Spared'
<1>4. c \in Nat /\ s \in Nat /\ c <= Children /\ s <= Spared BY <1>1, <1>3, SlotsSplitNext
<1>5. Slots' = c + s + 0 BY <1>3, <1>4, SlotsNext
<1>. HIDE DEF c, s
<1>6. c + s + 0 <= Max BY <1>1, <1>2, <1>4, SlotsSplit, CountedSlots
<1>. QED BY <1>5, <1>6 DEF Counted

\* The operations that open, bind and close nothing take no slot.
LEMMA QuietCounted ==
  ASSUME Typing, Owned, Counted,
         \/ Dequeue \/ PersonaFails \/ GiveUp \/ AcquireBound \/ AcquireFresh \/ PersonaSet
         \/ PersonaUnsupported \/ AdoptFails \/ CloseFails
  PROVE  Counted'
<1>. USE DEF Typing, TypeOK
<1>1. OpenOnes' = OpenOnes /\ spare' = spare
  BY DEF Dequeue, PersonaFails, GiveUp, Reject, AcquireBound, AcquireFresh, PersonaSet,
         PersonaUnsupported, AdoptFails, CloseFails, childVars, poolVars, OpenOnes, Open, Bound
<1>2. CASE Dequeue
  <2>1. Head(queue) \in Op BY <1>2 DEF Dequeue, OpTypes
  <2>2. at' \in {"acquire", "release", "shut", "warm", "sweep"}
    BY <1>2, <2>1, Kinds DEF Dequeue, FirstStage
  <2>. QED BY <1>1, <2>2, ShrinkCounted
<1>3. CASE ~Dequeue
  <2>1. at' \in {"idle", "room", "close", "persona", "adopt", "shut"} /\ after' # "start"
    BY <1>3 DEF PersonaFails, GiveUp, Reject, AcquireBound, AcquireFresh, PersonaSet, ReturnIfOpen,
         PersonaUnsupported, AdoptFails, CloseFails, Over, Goto, Await, AwaitClose
  <2>. QED BY <1>1, <2>1, ShrinkCounted
<1>. QED BY <1>2, <1>3

\* #makeRoom goes on to open a child only with a slot free, or after an eviction.
LEMMA MakeRoomCounted ==
  ASSUME Typing, Owned, Counted, MakeRoom PROVE Counted'
<1>1. Children' = Children /\ OpenOnes' = OpenOnes /\ spare' = spare /\ at = "room"
  BY DEF MakeRoom, childVars, poolVars, Children, OpenOnes, Open, Bound
<1>2. CASE HasRoom /\ Goto("start")
  <2>1. Children \in Nat /\ Max \in Nat
    BY <1>1, FewerChildren, PoolAssumption DEF PoolAssumption
  <2>2. Children + Spared < Max /\ Spared' = Spared /\ Coming' = 0 /\ at' = "start"
    BY <1>1, <1>2 DEF HasRoom, Spared, Coming, Goto
  <2>3. Slots' < Max BY <1>1, <2>1, <2>2, SlotsSplit, SlotsSplitNext
  <2>4. Slots' <= Max BY <1>1, <2>1, <2>2, SlotsSplit, SlotsSplitNext
  <2>. QED BY <2>2, <2>3, <2>4 DEF Counted
<1>3. CASE spare # NoChild /\ AwaitClose(spare, "room") BY <1>1, <1>3, ShrinkCounted DEF AwaitClose
<1>4. ASSUME NEW k \in Victims, AwaitClose(bindings[k], "start"), spare = NoChild PROVE Counted'
  BY <1>1, <1>4 DEF AwaitClose, Counted, Slots
<1>5. CASE Over BY <1>1, <1>5, ShrinkCounted DEF Over
<1>. QED BY <1>2, <1>3, <1>4, <1>5 DEF MakeRoom

\* Adoption gives the slot of the spare to a binding.
LEMMA AdoptedCounted ==
  ASSUME Typing, Owned, Counted, Adopted PROVE Counted'
<1>. USE DEF Typing, TypeOK
<1>1. /\ op.conv \in Conv /\ spare # NoChild /\ at = "adopt" /\ at' = "idle" /\ closed' = closed
  BY Acquires DEF Adopted, Owned, Staged, Awaits, ReturnIfOpen, Over, childVars, NoChild, Child
<1>2. CASE closing
  BY <1>1, <1>2, ShrinkCounted DEF Adopted, poolVars, OpenOnes, Open, Bound
<1>3. CASE ~closing
  <2>1. bindings' = [bindings EXCEPT ![op.conv] = spare] /\ spare' = NoChild BY <1>3 DEF Adopted
  <2>2. OpenOnes' \subseteq OpenOnes \cup {op.conv}
    BY <1>1, <2>1 DEF OpenOnes, Open, Bound, PoolTypes
  <2>3. Children \in Nat /\ Children' \in Nat /\ Children' <= Children + 1
    BY <1>1, <2>2, OneMoreChild
  <2>4. Max \in Nat BY PoolAssumption DEF PoolAssumption
  <2>5. Spared = 1 /\ Spared' = 0 /\ Coming = 0 /\ Coming' = 0
    BY <1>1, <2>1 DEF Spared, Coming
  <2>. DEFINE c == Children'
  <2>6. c \in Nat /\ c <= Children + 1 BY <2>3
  <2>7. Slots' = c + 0 + 0 BY <2>5, <2>6, SlotsNext
  <2>. HIDE DEF c
  <2>8. c + 0 + 0 <= Max BY <2>3, <2>4, <2>5, <2>6, SlotsSplit, CountedSlots
  <2>. QED BY <1>1, <2>7, <2>8 DEF Counted
<1>. QED BY <1>2, <1>3

\* The child being opened takes the free slot.
LEMMA StartOpenCounted ==
  ASSUME Typing, Counted, StartOpen PROVE Counted'
<1>. USE DEF Typing, TypeOK
<1>1. at = "start" /\ UNCHANGED <<bindings, spare>> BY DEF StartOpen, poolVars
<1>2. closed' = closed /\ (Over \/ (at' = "open" /\ op' = op))
  BY DEF StartOpen, Spawn, Await, childVars
<1>3. OpenOnes' = OpenOnes /\ Children' = Children
  BY <1>1, <1>2 DEF Children, OpenOnes, Open, Bound
<1>4. CASE Over BY <1>1, <1>3, <1>4, ShrinkCounted DEF Over
<1>5. CASE at' = "open" /\ op' = op
  <2>1. Children \in Nat BY <1>3, FewerChildren
  <2>2. Max \in Nat BY PoolAssumption DEF PoolAssumption
  <2>. QED BY <1>1, <1>3, <1>5, <2>1, <2>2 DEF Counted, Slots
<1>. QED BY <1>2, <1>4, <1>5

\* The new binding has the slot the opening child had.
LEMMA OpenedCounted ==
  ASSUME Typing, Counted, Opened PROVE Counted'
<1>. USE DEF Typing, TypeOK
<1>1. /\ op.conv \in Conv /\ at = "open" /\ op.by # "warm" /\ at' = "idle"
      /\ bindings' = [bindings EXCEPT ![op.conv] = target]
      /\ spare' = spare /\ closed' = closed
  BY Acquires DEF Opened, ReturnIfOpen, Over
<1>2. OpenOnes' \subseteq OpenOnes \cup {op.conv}
  BY <1>1 DEF OpenOnes, Open, Bound, PoolTypes
<1>3. Children \in Nat /\ Children' \in Nat /\ Children' <= Children + 1
  BY <1>1, <1>2, OneMoreChild
<1>4. Max \in Nat BY PoolAssumption DEF PoolAssumption
<1>5. Spared' = Spared /\ Coming = 1 /\ Coming' = 0 BY <1>1 DEF Spared, Coming
<1>. DEFINE c == Children'  s == Spared'
<1>6. c \in Nat /\ c <= Children + 1 /\ s = Spared /\ s \in Nat BY <1>3, <1>5, SlotsSplitNext
<1>7. Slots' = c + s + 0 BY <1>5, <1>6, SlotsNext
<1>. HIDE DEF c, s
<1>8. c + s + 0 <= Max BY <1>3, <1>4, <1>5, <1>6, SlotsSplit, CountedSlots
<1>. QED BY <1>1, <1>7, <1>8 DEF Counted

\* An open that fails frees a slot.
LEMMA NotOpenedCounted ==
  ASSUME Counted, OpenFails \/ SpareOpened \/ SpareFails PROVE Counted'
<1>1. at' = "idle" /\ bindings' = bindings /\ closed' = closed /\ spare' \in {spare, NoChild}
  BY DEF OpenFails, SpareOpened, SpareFails, Over, poolVars
<1>. QED BY <1>1, ShrinkCounted DEF OpenOnes, Open, Bound

\* Evicting a child frees its slot for the one that is opened next.
LEMMA CloseDoneCounted ==
  ASSUME Typing, Owned, Counted, CloseDone PROVE Counted'
<1>. USE DEF Typing, TypeOK
<1>1. /\ target \in Child /\ at = "close" /\ at' = after /\ after \notin Awaits
      /\ closed' = closed \cup {target} /\ spare' \in {spare, NoChild}
  BY DEF CloseDone, Staged, Awaits, Goto
<1>2. \A k \in Conv : bindings'[k] # NoChild => bindings'[k] = bindings[k]
  BY DEF CloseDone, Without, PoolTypes
<1>3. OpenOnes' \subseteq OpenOnes BY <1>1, <1>2 DEF OpenOnes, Open, Bound
<1>4. CASE after # "start" BY <1>1, <1>3, <1>4, ShrinkCounted DEF Awaits
<1>5. CASE after = "start"
  <2>1. spare = NoChild BY <1>1, <1>5 DEF Counted
  <2>2. target \notin closed /\ \E k \in Conv : bindings[k] = target
    BY <1>1, <2>1 DEF Owned, NoChild, Child
  <2>3. PICK k \in OpenOnes : bindings[k] = target
    BY <1>1, <2>2 DEF OpenOnes, Open, Bound, NoChild, Child
  <2>4. OpenOnes' \subseteq OpenOnes \ {k}
    BY <1>1, <1>2, <1>3, <2>3 DEF OpenOnes, Open, Bound
  <2>5. Children \in Nat /\ Children' \in Nat /\ Children' < Children BY <2>4, OneChildLess
  <2>6. Max \in Nat BY PoolAssumption DEF PoolAssumption
  <2>7. Spared = 0 /\ Spared' = 0 /\ Coming = 0 /\ Coming' = 0 BY <1>1, <1>5, <2>1 DEF Spared, Coming
  <2>. DEFINE c == Children'
  <2>8. c \in Nat /\ c < Children BY <2>5
  <2>9. Slots' = c + 0 + 0 BY <2>7, <2>8, SlotsNext
  <2>. HIDE DEF c
  <2>10. c + 0 + 0 < Max BY <2>5, <2>6, <2>7, <2>8, SlotsSplit, CountedSlots
  <2>11. c + 0 + 0 <= Max BY <2>5, <2>6, <2>7, <2>8, SlotsSplit, CountedSlots
  <2>. QED BY <1>1, <1>5, <2>9, <2>10, <2>11 DEF Counted
<1>. QED BY <1>4, <1>5

\* release, sweepIdle and close() take no slot.
LEMMA SmallOpsCounted ==
  ASSUME Typing, Counted, Release \/ SweepIdle \/ Shut PROVE Counted'
<1>. USE DEF Typing, TypeOK
<1>1. /\ at' \in {"close", "sweep", "shut", "idle"} /\ after' # "start"
      /\ closed' = closed /\ spare' = spare
  BY DEF Release, SweepIdle, Shut, AwaitClose, Goto, Over, childVars
<1>2. bindings' = bindings \/ \E k \in Conv : bindings' = [bindings EXCEPT ![k] = NoChild]
  <2>1. CASE Release
    <3>1. op.conv \in Conv BY <2>1, Kinds DEF Release, Staged, Fits, ReleaseOp, Op
    <3>. QED BY <2>1, <3>1 DEF Release
  <2>2. CASE SweepIdle BY <2>2 DEF SweepIdle, Stale
  <2>3. CASE Shut BY <2>3 DEF Shut, Untried
  <2>. QED BY <2>1, <2>2, <2>3
<1>3. OpenOnes' \subseteq OpenOnes BY <1>1, <1>2 DEF OpenOnes, Open, Bound, PoolTypes
<1>. QED BY <1>1, <1>3, ShrinkCounted

\* warmSpare takes a slot only when one is free.
LEMMA WarmSpareCounted ==
  ASSUME Typing, Counted, WarmSpare PROVE Counted'
<1>. USE DEF Typing, TypeOK
<1>1. at = "warm" /\ bindings' = bindings /\ op.by = "warm"
  BY Kinds DEF WarmSpare, Staged, Fits, WarmOp
<1>2. closed' = closed BY DEF WarmSpare, Spawn, childVars
<1>3. OpenOnes' = OpenOnes /\ Children' = Children
  BY <1>1, <1>2 DEF Children, OpenOnes, Open, Bound
<1>4. CASE Over /\ spare' = spare BY <1>3, <1>4, ShrinkCounted DEF Over
<1>5. CASE AwaitClose(spare, "warm") /\ spare' = spare BY <1>3, <1>5, ShrinkCounted DEF AwaitClose
<1>6. CASE spare = NoChild /\ ~(Children >= Max) /\ at' = "open" /\ op' = op
  <2>1. Children \in Nat BY <1>3, FewerChildren
  <2>2. Max \in Nat BY PoolAssumption DEF PoolAssumption
  <2>. QED BY <1>1, <1>3, <1>6, <2>1, <2>2 DEF Counted, Slots
<1>. QED BY <1>4, <1>5, <1>6 DEF WarmSpare, Spawn, Await

-----------------------------------------------------------------------------
(* All steps together.                                                     *)

\* What callers ask for: nothing, or one operation; close() says so first.
Asks == /\ queue' = queue \/ \E o \in Op : queue' = Append(queue, o) /\ (o.by = "close" => closing')
        /\ closing => closing'
        /\ closePromise' = "resolved" => closePromise = "resolved"

\* A step is one of the running operation, of the callers, or of a process.
LEMMA StepKinds ==
  ASSUME Typing, [Next]_vars
  PROVE  \/ OpStep \/ Answer
         \/ Typing' /\ Outside /\ Asks
         \/ \E c \in Child, p \in Place : Dies(c) \/ TempOpens(c, p) \/ TempCloses
<1>1. CASE UNCHANGED vars
  <2>1. CallerTypes' /\ Handed' BY <1>1, CallersKept DEF Typing, TypeOK, vars
  <2>2. Outside /\ Asks BY <1>1 DEF vars, Outside, Asks, closeVars
  <2>3. closing' \in BOOLEAN /\ closePromise' \in {"none", "pending", "resolved"}
        /\ queue' \in Seq(Op) /\ used' \in [ops : Nat, asks : Nat, temps : Nat]
    BY <1>1 DEF vars, closeVars, Typing, TypeOK, PoolTypes, OpTypes
  <2>. QED BY <2>1, <2>2, <2>3, OutsideTyped
<1>2. ASSUME NEW k \in Conv, NEW p \in Place, NEW m \in Persona,
             \/ Claim(k, p, m) \/ TurnAcquires(k) \/ StartupFails(k) \/ Prompt(k)
             \/ TurnReleases(k) \/ TurnEnds(k)
      PROVE  Typing' /\ Outside /\ Asks
  <2>1. Typing' /\ Outside /\ UNCHANGED closeVars BY <1>2, TurnTyped
  <2>2. queue' = queue \/ \E o \in Op : queue' = Append(queue, o) /\ (o.by = "close" => closing')
    <3>1. CASE Claim(k, p, m) \/ StartupFails(k) \/ Prompt(k)
      BY <3>1 DEF Claim, StartupFails, Prompt
    <3>2. CASE TurnAcquires(k)
      <4>. DEFINE o == [by |-> "turn", conv |-> k, place |-> want[k].place,
                        persona |-> want[k].persona,
                        native |-> IF Session(k) # NoChild THEN native[Session(k)] ELSE recNative[k]]
      <4>1. Session(k) # NoChild => Session(k) \in Child
        BY DEF Session, Open, Bound, Typing, TypeOK, PoolTypes
      <4>2. o.native \in Child \cup {NoChild} BY <4>1 DEF Typing, TypeOK, ChildTypes, CallerTypes
      <4>3. want[k] \in [place : Place, persona : Persona] BY DEF Typing, TypeOK, CallerTypes
      <4>4. o \in Op BY <4>2, <4>3 DEF Op, AcquireOp
      <4>. QED BY <3>2, <4>4 DEF TurnAcquires, Enqueue
    <3>3. CASE TurnReleases(k)
      BY <3>3 DEF TurnReleases, Enqueue, Op, ReleaseOp
    <3>4. CASE TurnEnds(k)
      <4>1. want[k] \in [place : Place, persona : Persona] BY DEF Typing, TypeOK, CallerTypes
      <4>2. [by |-> "warm", place |-> want[k].place] \in Op BY <4>1 DEF Op, WarmOp
      <4>. QED BY <3>4, <4>2 DEF TurnEnds, Enqueue
    <3>. QED BY <1>2, <3>1, <3>2, <3>3, <3>4
  <2>. QED BY <2>1, <2>2 DEF Asks, closeVars
<1>3. ASSUME NEW k \in Conv, NEW p \in Place, ModelAsks(k, p) \/ ModelSaves(k)
      PROVE  Typing' /\ Outside /\ Asks
  <2>1. Typing' /\ Outside /\ UNCHANGED closeVars BY <1>3, AskTyped
  <2>2. [by |-> "model", conv |-> k, place |-> p, persona |-> Keep, native |-> recNative[k]] \in Op
    BY DEF Op, AcquireOp, Typing, TypeOK, CallerTypes
  <2>. QED BY <1>3, <2>1, <2>2 DEF ModelAsks, ModelSaves, Asks, closeVars
<1>4. ASSUME NEW k \in Conv, Remove(k) \/ RecordRemoved(k) PROVE Typing' /\ Outside /\ Asks
  <2>1. Typing' /\ Outside /\ UNCHANGED closeVars BY <1>4, RemoveTyped
  <2>2. [by |-> "removal", conv |-> k] \in Op BY DEF Op, ReleaseOp
  <2>. QED BY <1>4, <2>1, <2>2 DEF Remove, RecordRemoved, Enqueue, Asks, closeVars
<1>5. ASSUME Sweep PROVE Typing' /\ Outside /\ Asks
  <2>1. [by |-> "sweep"] \in Op BY DEF Op, PlainOp
  <2>. QED BY <1>5, <2>1, SweepTyped DEF Sweep, Enqueue, Asks, closeVars
<1>6. ASSUME Close PROVE Typing' /\ Outside /\ Asks
  <2>1. [by |-> "close"] \in Op BY DEF Op, PlainOp
  <2>. QED BY <1>6, <2>1, CloseTyped DEF Close, Enqueue, Asks
<1>7. TempCloses => temp \in Child BY DEF TempCloses, Typing, TypeOK, ChildTypes
<1>8. PICK anywhere \in Place : TRUE BY PoolAssumption DEF PoolAssumption
<1>9. PICK anyone \in Persona : TRUE BY PoolAssumption DEF PoolAssumption
<1>. QED BY <1>1, <1>2, <1>3, <1>4, <1>5, <1>6, <1>7, <1>8, <1>9 DEF Next, TurnNext, OthersNext

\* Every step keeps the types and the stage of the running operation.
LEMMA TypingNext ==
  ASSUME Typing, Owned, [Next]_vars PROVE Typing'
<1>1. CASE OpStep
  BY <1>1, DequeueTyped, AcquireBoundTyped, AcquireFreshTyped, RejectTyped, MakeRoomTyped,
     StartOpenTyped, ReleaseTyped, SweepIdleTyped, WarmSpareTyped, ShutTyped DEF OpStep, GiveUp
<1>2. CASE Answer
  BY <1>2, PersonaSetTyped, PersonaUnsupportedTyped, RejectTyped, AdoptedTyped, AdoptFailsTyped,
     OpenedTyped, OpenFailsTyped, SpareAnswerTyped, CloseDoneTyped, CloseFailsTyped
  DEF Answer, PersonaFails
<1>. QED BY <1>1, <1>2, StepKinds, ProcessTyped

\* Every step keeps one owner for each process.
LEMMA OwnedNext ==
  ASSUME Typing, Owned, [Next]_vars PROVE Owned'
<1>1. CASE OpStep
  BY <1>1, QuietOwned, StartOpenOwned, ReleaseOwned, SweepIdleOwned, WarmSpareOwned, ShutOwned
  DEF OpStep
<1>2. CASE Answer
  BY <1>2, QuietOwned, AdoptedOwned, OpenedOwned, OpenFailsOwned, CloseDoneOwned DEF Answer
<1>. QED BY <1>1, <1>2, StepKinds, ProcessOwned, OutsideOwned

\* Every step keeps the pool within its limit.
LEMMA CountedNext ==
  ASSUME Typing, Owned, Counted, [Next]_vars PROVE Counted'
<1>1. CASE OpStep
  BY <1>1, QuietCounted, MakeRoomCounted, StartOpenCounted, SmallOpsCounted, WarmSpareCounted
  DEF OpStep
<1>2. CASE Answer
  BY <1>2, QuietCounted, AdoptedCounted, OpenedCounted, NotOpenedCounted, CloseDoneCounted
  DEF Answer
<1>3. ASSUME UNCHANGED <<poolVars, opVars, closed>> PROVE Counted'
  BY <1>3 DEF Counted, Slots, Children, OpenOnes, Open, Bound, poolVars, opVars
<1>4. ASSUME Outside PROVE Counted' BY <1>3, <1>4 DEF Outside, childVars
<1>5. ASSUME NEW c \in Child, NEW p \in Place, Dies(c) \/ TempOpens(c, p) \/ TempCloses
      PROVE  Counted'
  BY <1>3, <1>5 DEF Dies, TempOpens, TempCloses
<1>. QED BY <1>1, <1>2, <1>4, <1>5, StepKinds

\* Only after close() has announced itself does the pool shut.
LEMMA AnnouncedNext ==
  ASSUME Typing, Announced, [Next]_vars PROVE Announced'
<1>. USE DEF Typing, TypeOK
<1>1. queue \in Seq(Op) BY DEF OpTypes
<1>2. CASE Dequeue
  <2>1. queue' = Tail(queue) /\ queue # <<>> /\ closing' = closing BY <1>2 DEF Dequeue, closeVars
  <2>2. \A i \in 1..Len(queue') : i + 1 \in 1..Len(queue) /\ queue'[i] = queue[i + 1]
    BY <1>1, <2>1
  <2>3. Head(queue) \in Op /\ Head(queue) = queue[1] /\ 1 \in 1..Len(queue) BY <1>1, <2>1
  <2>4. at' = FirstStage(queue[1]) BY <1>2, <2>3 DEF Dequeue
  <2>5. at' = "shut" => queue[1].by = "close" BY <2>3, <2>4, Kinds DEF FirstStage
  <2>6. at' # "close" BY <2>3, <2>4, Kinds DEF FirstStage
  <2>. QED BY <2>1, <2>2, <2>3, <2>5, <2>6 DEF Announced
<1>3. ASSUME OpStep \/ Answer, ~Dequeue PROVE Announced'
  <2>1. queue' = queue /\ closing' = closing
    BY <1>3 DEF OpStep, Answer, AcquireBound, AcquireFresh, GiveUp, Reject, MakeRoom, StartOpen, Release,
         SweepIdle, WarmSpare, Shut, PersonaSet, PersonaUnsupported, PersonaFails, Adopted, AdoptFails,
         Opened, OpenFails, SpareOpened, SpareFails, CloseDone, CloseFails, closeVars
  <2>2. at' = "shut" \/ (at' = "close" /\ after' = "shut") =>
            at = "shut" \/ (at = "close" /\ after = "shut")
    <3>1. CASE OpStep
      BY <1>3, <3>1 DEF OpStep, AcquireBound, AcquireFresh, GiveUp, Reject, MakeRoom, StartOpen, Spawn,
         Release, SweepIdle, WarmSpare, Shut, Over, Goto, Await, AwaitClose
    <3>2. CASE Answer
      BY <3>2 DEF Answer, PersonaSet, PersonaUnsupported, PersonaFails, Reject, Adopted, AdoptFails,
         Opened, OpenFails, SpareOpened, SpareFails, CloseDone, CloseFails, ReturnIfOpen, Over, Goto,
         AwaitClose
    <3>. QED BY <1>3, <3>1, <3>2
  <2>. QED BY <2>1, <2>2 DEF Announced
<1>4. ASSUME Outside, Asks PROVE Announced'
  <2>1. UNCHANGED <<at, after>> BY <1>4 DEF Outside, opVars
  <2>2. ASSUME NEW i \in 1..Len(queue'), queue'[i].by = "close" PROVE closing'
    <3>1. CASE queue' = queue BY <1>4, <2>2, <3>1 DEF Asks, Announced
    <3>2. ASSUME NEW o \in Op, queue' = Append(queue, o), o.by = "close" => closing' PROVE closing'
      <4>1. CASE i \in 1..Len(queue) BY <1>1, <1>4, <2>2, <3>2, <4>1 DEF Asks, Announced
      <4>2. CASE i = Len(queue) + 1 BY <1>1, <2>2, <3>2, <4>2
      <4>. QED BY <1>1, <2>2, <3>2, <4>1, <4>2
    <3>. QED BY <1>4, <3>1, <3>2 DEF Asks
  <2>. QED BY <1>4, <2>1, <2>2 DEF Announced, Asks
<1>5. ASSUME NEW c \in Child, NEW p \in Place, Dies(c) \/ TempOpens(c, p) \/ TempCloses
      PROVE  Announced'
  BY <1>5 DEF Dies, TempOpens, TempCloses, opVars, closeVars, Announced
<1>. QED BY <1>2, <1>3, <1>4, <1>5, StepKinds

\* After a shutdown that closed everything, no operation opens anything.
LEMMA EmptiedNext ==
  ASSUME Typing, Announced, Emptied, [Next]_vars PROVE Emptied'
<1>. USE DEF Typing, TypeOK
<1>1. CASE Outside /\ Asks
  BY <1>1 DEF Emptied, Outside, Asks, poolVars, opVars, Bound
<1>2. ASSUME NEW c \in Child, NEW p \in Place, Dies(c) \/ TempOpens(c, p) \/ TempCloses
      PROVE  Emptied'
  BY <1>2 DEF Dies, TempOpens, TempCloses, opVars, closeVars, poolVars, Bound, Emptied
<1>3. CASE Answer
  <2>1. at \in Awaits /\ closePromise' = closePromise
    BY <1>3 DEF Answer, PersonaSet, PersonaUnsupported, PersonaFails, Reject, Adopted, AdoptFails,
       Opened, OpenFails, SpareOpened, SpareFails, CloseDone, CloseFails, closeVars, Awaits
  <2>. QED BY <2>1 DEF Emptied, Awaits
<1>4. CASE AcquireBound \/ GiveUp \/ MakeRoom \/ StartOpen
  BY <1>4, Acquires DEF AcquireBound, GiveUp, Reject, MakeRoom, StartOpen, closeVars, Emptied
<1>5. CASE Dequeue
  <2>1. Head(queue) \in Op BY <1>5 DEF Dequeue, OpTypes
  <2>2. at' \in {"acquire", "release", "shut", "warm", "sweep"}
    BY <1>5, <2>1, Kinds DEF Dequeue, FirstStage
  <2>. QED BY <1>5, <2>2 DEF Dequeue, closeVars, poolVars, Bound, Emptied
<1>6. CASE AcquireFresh
  BY <1>6 DEF AcquireFresh, closeVars, poolVars, Over, Bound, Emptied
<1>7. CASE Release
  <2>1. op.conv \in Conv BY <1>7, Kinds DEF Release, Staged, Fits, ReleaseOp, Op
  <2>. QED BY <1>7, <2>1 DEF Release, closeVars, Over, Open, Bound, Emptied, PoolTypes
<1>8. CASE SweepIdle
  BY <1>8 DEF SweepIdle, closeVars, Over, Stale, Bound, Emptied
<1>9. CASE WarmSpare
  BY <1>9 DEF WarmSpare, closeVars, Over, Bound, Emptied
<1>10. CASE Shut
  <2>1. closing' = closing /\ spare' = spare /\ (at = "shut" => closing)
    BY <1>10 DEF Shut, Announced
  <2>3. CASE closePromise' = "resolved" /\ closePromise # "resolved"
    <3>1. Untried = {} /\ failed = {} /\ spare = NoChild /\ at' = "idle" /\ bindings' = bindings
      BY <1>10, <2>3 DEF Shut, Over
    <3>2. \A k \in Conv : ~Bound(k) BY <3>1 DEF Untried
    <3>. QED BY <1>10, <2>1, <3>1, <3>2 DEF Shut, Bound, Emptied
  <2>4. CASE closePromise = "resolved"
    <3>1. spare = NoChild /\ \A k \in Conv : ~Bound(k) BY <2>4 DEF Emptied
    <3>2. Untried = {} BY <3>1 DEF Untried
    <3>3. at' = "idle" /\ bindings' = bindings BY <1>10, <3>1, <3>2 DEF Shut, Over
    <3>4. closing BY <2>4 DEF Emptied
    <3>. QED BY <2>1, <3>1, <3>3, <3>4 DEF Bound, Emptied
  <2>. QED BY <2>3, <2>4 DEF Emptied
<1>. QED BY <1>1, <1>2, <1>3, <1>4, <1>5, <1>6, <1>7, <1>8, <1>9, <1>10, StepKinds DEF OpStep

-----------------------------------------------------------------------------
(* The invariant, and what it implies.                                     *)

\* An empty pool satisfies the invariant.
LEMMA InductiveInit == Init => Inductive
<1>. SUFFICES ASSUME Init PROVE Inductive
  OBVIOUS
<1>1. at = "idle" /\ queue = <<>> /\ closePromise = "none" BY DEF Init
<1>2. Handed BY DEF Init, Handed
<1>3. Staged BY <1>1 DEF Staged, Fits, Awaits
<1>4. Owned BY <1>1 DEF Init, Owned, Processes, Bound, Open
<1>5. Counted
  <2>1. \A k \in Conv : bindings[k] = NoChild BY DEF Init
  <2>2. OpenOnes = {} BY <2>1 DEF OpenOnes, Open, Bound
  <2>3. Children = 0 BY <2>2, FS_EmptySet DEF Children
  <2>4. Spared = 0 /\ Coming = 0 BY <1>1 DEF Init, Spared, Coming
  <2>5. Slots = 0 BY <2>3, <2>4, SlotsSplit
  <2>. QED BY <1>1, <2>5, PoolAssumption DEF Counted, PoolAssumption
<1>6. Announced BY <1>1 DEF Announced
<1>7. Emptied BY <1>1 DEF Emptied
<1>. QED BY <1>2, <1>3, <1>4, <1>5, <1>6, <1>7 DEF Inductive

\* The inductive invariant that the runs of MCAgentPool check, for every
\* instance.
THEOREM Invariance == Spec => [](TypeOK /\ Inductive)
<1>1. Init => TypeOK /\ Inductive BY InitTyped, InductiveInit
<1>2. TypeOK /\ Inductive /\ [Next]_vars => (TypeOK /\ Inductive)'
  <2>. SUFFICES ASSUME TypeOK, Inductive, [Next]_vars PROVE TypeOK' /\ Inductive'
    OBVIOUS
  <2>1. Typing /\ Owned /\ Counted /\ Announced /\ Emptied BY DEF Typing, Inductive
  <2>2. Typing' BY <2>1, TypingNext
  <2>3. Owned' BY <2>1, OwnedNext
  <2>4. Counted' BY <2>1, CountedNext
  <2>5. Announced' BY <2>1, AnnouncedNext
  <2>6. Emptied' BY <2>1, EmptiedNext
  <2>. QED BY <2>2, <2>3, <2>4, <2>5, <2>6 DEF Typing, Inductive
<1>. QED BY <1>1, <1>2, PTL DEF Spec

\* The variables of the pool and of its callers keep their types.
THEOREM Typed == Spec => []TypeOK
  BY Invariance, PTL

\* No child is lost and none has two owners: every process but that of a
\* command list is the spare, being opened, or bound to one conversation.
THEOREM Ownership == Spec => []EveryProcessHasOneOwner
<1>1. TypeOK /\ Inductive => EveryProcessHasOneOwner
  <2>. SUFFICES ASSUME TypeOK, Owned, Staged, NEW c \in Processes, c # temp
                PROVE  \/ c = spare /\ ~\E k \in Conv : bindings[k] = c
                       \/ at = "open" /\ target = c /\ c # spare /\ ~\E k \in Conv : bindings[k] = c
                       \/ c # spare /\ \E k \in Conv : bindings[k] = c /\ c \notin closed
                                                         /\ \A j \in Conv : bindings[j] = c => j = k
    BY DEF EveryProcessHasOneOwner, Inductive
  <2>1. c \in Child /\ c # NoChild /\ child[c] \in {"opening", "alive"} /\ c \notin closed
    BY DEF Processes, Owned, Child, NoChild
  <2>2. CASE c = spare BY <2>1, <2>2 DEF Owned, Bound
  <2>3. CASE c # spare /\ \E k \in Conv : bindings[k] = c
    BY <2>1, <2>3 DEF Owned, Bound
  <2>4. CASE c # spare /\ at = "open" /\ target = c /\ ~\E k \in Conv : bindings[k] = c
    BY <2>4
  <2>. QED BY <2>2, <2>3, <2>4 DEF Owned
<1>. QED BY <1>1, Invariance, PTL

\* There are never more agent processes than pool.max_children, but for those
\* of command lists.
THEOREM NeverTooMany == Spec => []Capacity
<1>1. TypeOK /\ Inductive => Capacity
  <2>. SUFFICES ASSUME TypeOK, Owned, Counted PROVE Capacity
    BY DEF Inductive
  <2>. DEFINE bound == {bindings[k] : k \in OpenOnes}
              others == (IF spare = NoChild THEN {} ELSE {spare})
              coming == (IF at = "open" /\ op.by # "warm" THEN {target} ELSE {})
              all == (bound \cup others) \cup coming
  <2>1. Processes \ {temp} \subseteq all
    <3>. SUFFICES ASSUME NEW c \in Processes, c # temp PROVE c \in all
      OBVIOUS
    <3>1. c \in Child /\ c # NoChild /\ c \notin closed BY DEF Processes, Owned, Child, NoChild
    <3>2. CASE c = spare BY <3>1, <3>2
    <3>3. ASSUME NEW k \in Conv, bindings[k] = c PROVE c \in all
      BY <3>1, <3>3 DEF OpenOnes, Open, Bound
    <3>4. CASE at = "open" /\ target = c /\ c # spare BY <3>4 DEF Owned
    <3>. QED BY <3>2, <3>3, <3>4 DEF Owned
  <2>2. IsFiniteSet(OpenOnes) /\ Children \in Nat
    <3>1. IsFiniteSet(Conv) BY PoolAssumption DEF PoolAssumption
    <3>2. IsFiniteSet(OpenOnes) BY <3>1, FS_Subset DEF OpenOnes
    <3>. QED BY <3>2, FS_CardinalityType DEF Children
  <2>3. IsFiniteSet(bound) /\ Cardinality(bound) <= Children
    <3>. DEFINE f == [k \in OpenOnes |-> bindings[k]]
    <3>1. f \in Surjection(OpenOnes, bound) BY DEF Surjection
    <3>. HIDE DEF f, bound
    <3>. QED BY <2>2, <3>1, FS_Surjection DEF Children
  <2>4. IsFiniteSet(others) /\ Cardinality(others) = Spared
    BY FS_EmptySet, FS_Singleton DEF Spared
  <2>5. IsFiniteSet(coming) /\ Cardinality(coming) = Coming
    BY FS_EmptySet, FS_Singleton DEF Coming
  <2>. HIDE DEF bound, others, coming
  <2>6. /\ IsFiniteSet(bound \cup others)
        /\ Cardinality(bound \cup others) <= Cardinality(bound) + Cardinality(others)
    BY <2>3, <2>4, AtMostTheSum
  <2>7. /\ IsFiniteSet(all)
        /\ Cardinality(all) <= Cardinality(bound \cup others) + Cardinality(coming)
    BY <2>5, <2>6, AtMostTheSum
  <2>8. Cardinality(Processes \ {temp}) <= Cardinality(all) /\ Cardinality(Processes \ {temp}) \in Nat
    BY <2>1, <2>7, FS_Subset, FS_CardinalityType
  <2>9. /\ Cardinality(bound) \in Nat /\ Cardinality(others) \in Nat /\ Cardinality(coming) \in Nat
        /\ Cardinality(bound \cup others) \in Nat /\ Cardinality(all) \in Nat
    BY <2>3, <2>4, <2>5, <2>6, <2>7, FS_CardinalityType
  <2>. HIDE DEF all
  <2>10. Max \in Nat BY PoolAssumption DEF PoolAssumption
  <2>. QED BY <2>2, <2>3, <2>4, <2>5, <2>6, <2>7, <2>8, <2>9, <2>10, SlotsSplit, CountedSlots DEF Capacity
<1>. QED BY <1>1, Invariance, PTL

\* When close() has resolved no process of the pool is left, and none comes
\* back.
THEOREM NothingSurvivesClose == Spec => []ClosedPoolIsEmpty
<1>1. TypeOK /\ Inductive => ClosedPoolIsEmpty
  BY DEF Inductive, Owned, Emptied, ClosedPoolIsEmpty, Processes, Bound, Child, NoChild
<1>. QED BY <1>1, Invariance, PTL

\* No process of the pool is without an owner, and none outlives the pool.
THEOREM NobodyIsAnOrphan == Spec => []NoOrphans
<1>1. EveryProcessHasOneOwner /\ ClosedPoolIsEmpty => NoOrphans BY DEF NoOrphans
<1>. QED BY <1>1, Ownership, NothingSurvivesClose, PTL

-----------------------------------------------------------------------------
(* What callers asked for.                                                  *)

\* The running operation goes on, or a process starts or ends.
Stays == UNCHANGED <<queue, op, callerVars, storeVars>> /\ used'.asks = used.asks

\* acquire returns c: the child the binding has, the spare, or a new one.
Gives(c) ==
    /\ Over /\ Returned(c)
    /\ \/ AcquireBound /\ c = bindings[op.conv] /\ ~NeedsRespawn /\ WantedPersona = persona[c]
       \/ PersonaSet /\ c = target
       \/ Adopted /\ c = spare /\ ~closing
       \/ Opened /\ c = target

\* The running operation ends with an answer to its caller.
Answers ==
    /\ Over /\ UNCHANGED <<queue, used, storeVars>>
    /\ \/ UNCHANGED callerVars
       \/ Rejected
       \/ op \in ReleaseOp /\ Released
       \/ op \in AcquireOp /\ \E c \in Child : Gives(c)

\* The steps of the callers.
Calls ==
    \/ \E k \in Conv, p \in Place, m \in Persona : Claim(k, p, m)
    \/ \E k \in Conv : TurnAcquires(k) \/ StartupFails(k) \/ Prompt(k) \/ TurnReleases(k) \/ TurnEnds(k)
    \/ \E k \in Conv, p \in Place : ModelAsks(k, p)
    \/ \E k \in Conv : ModelSaves(k) \/ Remove(k) \/ RecordRemoved(k)
    \/ Sweep \/ Close

\* For whom a step is one.
LEMMA CallerKinds ==
  ASSUME Typing, Owned, [Next]_vars
  PROVE  Dequeue \/ Stays \/ Answers \/ (Calls /\ Outside)
<1>. USE DEF callerVars, turnVars
<1>1. ASSUME NEW c \in Child, ReturnIfOpen(c), op \in AcquireOp, UNCHANGED <<queue, used, storeVars>>,
             Over /\ Returned(c) /\ ~closing => Gives(c)
      PROVE  Answers
  BY <1>1 DEF ReturnIfOpen, Answers
<1>2. ASSUME op' = op, UNCHANGED <<queue, used, callerVars, storeVars>> PROVE Stays
  BY <1>2 DEF Stays
<1>3. CASE OpStep
  <2>1. CASE AcquireBound
    <3>1. op \in AcquireOp /\ bindings[op.conv] \in Child
      BY <2>1, Acquires DEF AcquireBound, Bound, Typing, TypeOK, PoolTypes
    <3>2. CASE Over /\ Returned(bindings[op.conv]) /\ ~NeedsRespawn /\ WantedPersona = persona[bindings[op.conv]]
      <4>1. Gives(bindings[op.conv]) BY <2>1, <3>2 DEF Gives
      <4>. QED BY <2>1, <3>1, <3>2, <4>1 DEF AcquireBound, Answers
    <3>. QED BY <1>2, <2>1, <3>1, <3>2 DEF AcquireBound, Answers, Goto, Await, AwaitClose
  <2>2. CASE AcquireFresh
    BY <1>2, <2>2 DEF AcquireFresh, Answers, Over, Goto, Await, AwaitClose
  <2>3. CASE GiveUp BY <2>3 DEF GiveUp, Reject, Answers
  <2>4. CASE MakeRoom BY <1>2, <2>4 DEF MakeRoom, Answers, Over, Goto, AwaitClose
  <2>5. CASE StartOpen BY <1>2, <2>5 DEF StartOpen, Spawn, Answers, Over, Await
  <2>6. CASE Release
    <3>1. op \in ReleaseOp BY <2>6 DEF Release, Typing, Staged, Fits
    <3>. QED BY <1>2, <2>6, <3>1 DEF Release, Answers, AwaitClose
  <2>7. CASE SweepIdle BY <1>2, <2>7 DEF SweepIdle, Answers, Over, Goto, AwaitClose
  <2>8. CASE WarmSpare BY <1>2, <2>8 DEF WarmSpare, Spawn, Answers, Over, Await, AwaitClose
  <2>9. CASE Shut BY <1>2, <2>9 DEF Shut, Answers, Over, Goto, AwaitClose
  <2>. QED BY <1>3, <2>1, <2>2, <2>3, <2>4, <2>5, <2>6, <2>7, <2>8, <2>9 DEF OpStep
<1>4. CASE Answer
  <2>1. CASE PersonaSet
    <3>1. op \in AcquireOp /\ target \in Child BY <2>1, Acquires DEF PersonaSet, Typing, Staged, Awaits
    <3>. QED BY <1>1, <2>1, <3>1 DEF PersonaSet, Gives
  <2>2. CASE PersonaUnsupported BY <1>2, <2>2 DEF PersonaUnsupported, AwaitClose
  <2>3. CASE PersonaFails BY <2>3 DEF PersonaFails, Reject, Answers
  <2>4. CASE Adopted
    <3>1. op \in AcquireOp /\ spare \in Child
      BY <2>4, Acquires DEF Adopted, Owned, Typing, Staged, Awaits
    <3>. QED BY <1>1, <2>4, <3>1 DEF Adopted, Gives
  <2>5. CASE AdoptFails BY <1>2, <2>5 DEF AdoptFails, AwaitClose
  <2>6. CASE Opened
    <3>1. op \in AcquireOp /\ target \in Child BY <2>6, Acquires DEF Opened, Typing, Staged, Awaits
    <3>. QED BY <1>1, <2>6, <3>1 DEF Opened, Gives
  <2>7. CASE OpenFails BY <2>7 DEF OpenFails, Answers
  <2>8. CASE SpareOpened \/ SpareFails BY <2>8 DEF SpareOpened, SpareFails, Answers
  <2>9. CASE CloseDone BY <1>2, <2>9 DEF CloseDone, Goto
  <2>10. CASE CloseFails BY <1>2, <2>10 DEF CloseFails, Answers
  <2>. QED BY <1>4, <2>1, <2>2, <2>3, <2>4, <2>5, <2>6, <2>7, <2>8, <2>9, <2>10 DEF Answer
<1>5. CASE TurnNext \/ OthersNext
  <2>1. ASSUME NEW c \in Child, NEW p \in Place, Dies(c) \/ TempOpens(c, p) \/ TempCloses PROVE Stays
    <3>1. used \in [ops : Nat, asks : Nat, temps : Nat] BY DEF Typing, TypeOK, OpTypes
    <3>. QED BY <2>1, <3>1 DEF Dies, TempOpens, TempCloses, Stays, opVars
  <2>2. TempCloses => temp \in Child BY DEF TempCloses, Typing, TypeOK, ChildTypes
  <2>3. PICK anywhere \in Place : TRUE BY PoolAssumption DEF PoolAssumption
  <2>4. Calls => Outside
    BY DEF Calls, Claim, TurnAcquires, StartupFails, Prompt, TurnReleases, TurnEnds, ModelAsks,
           ModelSaves, Remove, RecordRemoved, Sweep, Close, Outside, turnVars
  <2>. QED BY <1>5, <2>1, <2>2, <2>3, <2>4 DEF TurnNext, OthersNext, Calls
<1>6. CASE UNCHANGED vars
  BY <1>6 DEF vars, Stays, opVars
<1>. QED BY <1>3, <1>4, <1>5, <1>6 DEF Next

\* An answer changes only the turn that waited for it.
LEMMA AnswerChanges ==
  ASSUME Typing, Answers
  PROVE  /\ op' = NoOp
         /\ \A k \in Conv : ~TurnWaits(k, op) =>
                turn'[k] = turn[k] /\ hands'[k] = hands[k] /\ want'[k] = want[k]
         /\ \A k \in Conv : TurnWaits(k, op) => want'[k] = want[k] \/ turn'[k] = "idle"
<1>. USE DEF callerVars, turnVars
<1>0. CallerTypes /\ op \in Op \cup {NoOp} BY DEF Typing, TypeOK, OpTypes
<1>1. op' = NoOp BY DEF Answers, Over
<1>2. CASE UNCHANGED callerVars BY <1>1, <1>2
<1>3. CASE Rejected
  <2>1. CASE op.by = "turn"
    BY <1>0, <1>1, <1>3, <2>1 DEF Rejected, TurnOver, TurnWaits, CallerTypes
  <2>2. CASE op.by = "restore"
    BY <1>0, <1>1, <1>3, <2>2 DEF Rejected, TurnWaits, CallerTypes
  <2>3. CASE op.by \notin {"turn", "restore"}
    BY <1>0, <1>1, <1>3, <2>3 DEF Rejected, TurnWaits, CallerTypes
  <2>. QED BY <2>1, <2>2, <2>3
<1>4. CASE Released
  BY <1>0, <1>1, <1>4 DEF Released, TurnWaits, CallerTypes
<1>5. ASSUME NEW c \in Child, Returned(c)
      PROVE  /\ \A k \in Conv : ~TurnWaits(k, op) =>
                    turn'[k] = turn[k] /\ hands'[k] = hands[k] /\ want'[k] = want[k]
             /\ want' = want
  BY <1>0, <1>5 DEF Returned, TurnWaits, CallerTypes
<1>. QED BY <1>1, <1>2, <1>3, <1>4, <1>5 DEF Answers, Gives

\* The operations that run or wait.
Wanted == {op} \cup {queue[i] : i \in 1..Len(queue)}

\* What was asked stands when the turns that change wait for nothing.
LEMMA StillStands ==
  ASSUME Typing, used.asks > 0 => used'.asks > 0, NEW o \in Op \cup {NoOp}, Stands(o),
         \A k \in Conv : TurnWaits(k, o) => turn'[k] = turn[k] /\ want'[k] = want[k]
  PROVE  Stands(o)'
<1>1. o.by \in {"turn", "restore"} => o.conv \in Conv /\ TurnWaits(o.conv, o)
  BY Kinds DEF TurnWaits, NoOp
<1>. QED BY <1>1 DEF Stands

\* The queue of operations.
LEMMA InQueue ==
  ASSUME Typing
  PROVE  /\ queue \in Seq(Op) /\ Len(queue) \in Nat /\ op \in Op \cup {NoOp}
         /\ \A i \in 1..Len(queue) : queue[i] \in Op
         /\ \A o \in Op : queue' = Append(queue, o) =>
                /\ Len(queue') = Len(queue) + 1 /\ queue'[Len(queue) + 1] = o
                /\ \A i \in 1..Len(queue) : queue'[i] = queue[i]
         /\ queue # <<>> /\ queue' = Tail(queue) =>
                /\ Head(queue) = queue[1] /\ 1 \in 1..Len(queue) /\ Len(queue') = Len(queue) - 1
                /\ \A i \in 1..Len(queue') : queue'[i] = queue[i + 1] /\ i + 1 \in 1..Len(queue)
<1>1. queue \in Seq(Op) /\ op \in Op \cup {NoOp} BY DEF Typing, TypeOK, OpTypes
<1>. QED BY <1>1

\* One more operation is asked for.
LEMMA OneMoreRequest ==
  ASSUME Typing, Requested, op' = op, NEW o \in Op, queue' = Append(queue, o),
         Stands(o)', \A q \in Wanted : Stands(q)',
         \A k \in Conv : TurnWaits(k, o) => turn[k] \notin {"waiting", "restoring"}
  PROVE  Requested'
<1>1. /\ Len(queue) \in Nat /\ Len(queue') = Len(queue) + 1 /\ queue'[Len(queue) + 1] = o
      /\ \A i \in 1..Len(queue) : queue'[i] = queue[i]
  BY InQueue
<1>2. \A k \in Conv : TurnWaits(k, o) => ~TurnWaits(k, op) /\ \A i \in 1..Len(queue) : ~TurnWaits(k, queue[i])
  BY DEF Requested, Stands, TurnWaits
<1>3. \A i \in 1..Len(queue') : \/ i \in 1..Len(queue) /\ queue'[i] = queue[i]
                                \/ i = Len(queue) + 1 /\ queue'[i] = o
  BY <1>1
<1>4. \A i \in 1..Len(queue') : Stands(queue[i])'
  <2>. SUFFICES ASSUME NEW i \in 1..Len(queue') PROVE Stands(queue[i])'
    OBVIOUS
  <2>1. queue'[i] \in Wanted \cup {o} BY <1>3 DEF Wanted
  <2>2. PICK q \in Wanted \cup {o} : queue'[i] = q BY <2>1
  <2>3. Stands(q)' OBVIOUS
  <2>. QED BY <2>2, <2>3
<1>5. Stands(op)'
  <2>1. op \in Wanted BY DEF Wanted
  <2>2. PICK q \in Wanted : op = q BY <2>1
  <2>3. Stands(q)' OBVIOUS
  <2>. QED BY <2>2, <2>3 DEF Stands
<1>6. ASSUME NEW i \in 1..Len(queue'), NEW k \in Conv, TurnWaits(k, queue'[i])
      PROVE  ~TurnWaits(k, op') /\ \A j \in 1..Len(queue') : TurnWaits(k, queue'[j]) => i = j
  BY <1>1, <1>2, <1>3, <1>6 DEF Requested
<1>. QED BY <1>4, <1>5, <1>6 DEF Requested, TurnWaits

\* What a caller does to its own turn and to the queue.
LEMMA CallEffects ==
  ASSUME Typing, Calls
  PROVE  /\ op' = op /\ (used.asks > 0 => used'.asks > 0)
         /\ \A k \in Conv : turn[k] \in {"waiting", "restoring"} =>
                turn'[k] = turn[k] /\ want'[k] = want[k]
         /\ Working' \subseteq Working
         /\ \/ queue' = queue
            \/ \E o \in Op : /\ queue' = Append(queue, o) /\ Stands(o)'
                             /\ \A k \in Conv : TurnWaits(k, o) => turn[k] \notin {"waiting", "restoring"}
                             /\ o.by = "removal" => turn[o.conv] = "idle"
<1>. USE DEF opVars, turnVars
<1>0. CallerTypes /\ ChildTypes /\ PoolTypes /\ used \in [ops : Nat, asks : Nat, temps : Nat]
  BY DEF Typing, TypeOK, OpTypes
<1>1. ASSUME NEW k \in Conv, NEW p \in Place, NEW m \in Persona,
             Claim(k, p, m) \/ StartupFails(k) \/ Prompt(k)
      PROVE  /\ op' = op /\ used' = used /\ queue' = queue /\ Working' \subseteq Working
             /\ \A j \in Conv : turn[j] \in {"waiting", "restoring"} =>
                    turn'[j] = turn[j] /\ want'[j] = want[j]
  <2>1. op' = op /\ used' = used /\ queue' = queue BY <1>1 DEF Claim, StartupFails, Prompt
  <2>2. /\ turn[k] \notin {"waiting", "restoring"}
        /\ turn'[k] \in {"acquired", "running", "restoring"} => turn[k] \in {"acquired", "running", "restoring"}
        /\ \A j \in Conv : j # k => turn'[j] = turn[j] /\ want'[j] = want[j]
    BY <1>0, <1>1 DEF Claim, StartupFails, Prompt, TurnOver, Busy, CallerTypes
  <2>3. Working' \subseteq Working BY <2>2 DEF Working
  <2>. QED BY <2>1, <2>2, <2>3
<1>2. ASSUME NEW k \in Conv, TurnAcquires(k)
      PROVE  /\ op' = op /\ (used.asks > 0 => used'.asks > 0) /\ Working' \subseteq Working
             /\ \A j \in Conv : turn[j] \in {"waiting", "restoring"} =>
                    turn'[j] = turn[j] /\ want'[j] = want[j]
             /\ \E o \in Op : /\ queue' = Append(queue, o) /\ Stands(o)'
                              /\ \A j \in Conv : TurnWaits(j, o) => turn[j] \notin {"waiting", "restoring"}
                              /\ o.by # "removal"
  <2>. DEFINE o == [by |-> "turn", conv |-> k, place |-> want[k].place, persona |-> want[k].persona,
                    native |-> IF Session(k) # NoChild THEN native[Session(k)] ELSE recNative[k]]
  <2>1. o \in Op /\ queue' = Append(queue, o)
    <3>1. Session(k) # NoChild => Session(k) \in Child BY <1>0 DEF Session, Open, Bound, PoolTypes
    <3>2. o.native \in Child \cup {NoChild} BY <1>0, <3>1 DEF ChildTypes, CallerTypes
    <3>3. want[k] \in [place : Place, persona : Persona] BY <1>0 DEF CallerTypes
    <3>. QED BY <1>2, <3>2, <3>3 DEF TurnAcquires, Enqueue, Op, AcquireOp
  <2>2. \E q \in Op : q = o BY <2>1
  <2>3. PICK q \in Op : q = o BY <2>2
  <2>4. turn' = [turn EXCEPT ![k] = "waiting"] /\ want' = want /\ op' = op /\ turn[k] = "claimed"
    BY <1>2 DEF TurnAcquires
  <2>5. q.by = "turn" /\ q.conv = k /\ q.place = want[k].place /\ q.persona = want[k].persona
    BY <2>3
  <2>6. Stands(q)' BY <1>0, <2>4, <2>5 DEF Stands, CallerTypes
  <2>7. used'.asks = used.asks BY <1>0, <1>2 DEF TurnAcquires, Enqueue
  <2>8. Working' \subseteq Working BY <1>0, <2>4 DEF Working, CallerTypes
  <2>9. \A j \in Conv : TurnWaits(j, q) => turn[j] \notin {"waiting", "restoring"}
    BY <2>4, <2>5 DEF TurnWaits
  <2>. HIDE DEF o
  <2>10. queue' = Append(queue, q) BY <2>1, <2>3
  <2>. QED BY <1>0, <2>4, <2>5, <2>6, <2>7, <2>8, <2>9, <2>10 DEF CallerTypes
<1>3. ASSUME NEW k \in Conv, TurnReleases(k)
      PROVE  /\ op' = op /\ used'.asks = used.asks /\ Working' \subseteq Working
             /\ \A j \in Conv : turn[j] \in {"waiting", "restoring"} =>
                    turn'[j] = turn[j] /\ want'[j] = want[j]
             /\ \E o \in Op : /\ queue' = Append(queue, o) /\ Stands(o)'
                              /\ \A j \in Conv : TurnWaits(j, o) => turn[j] \notin {"waiting", "restoring"}
                              /\ o.by # "removal"
  <2>1. [by |-> "restore", conv |-> k] \in Op BY DEF Op, ReleaseOp
  <2>2. PICK q \in Op : q = [by |-> "restore", conv |-> k] BY <2>1
  <2>3. queue' = Append(queue, q) /\ q.by = "restore" /\ q.conv = k
    BY <1>3, <2>2 DEF TurnReleases, Enqueue
  <2>4. turn' = [turn EXCEPT ![k] = "restoring"] /\ want' = want /\ op' = op /\ turn[k] = "running"
        /\ used'.asks = used.asks
    BY <1>0, <1>3 DEF TurnReleases, Enqueue
  <2>5. Stands(q)' BY <1>0, <2>3, <2>4 DEF Stands, CallerTypes
  <2>6. Working' \subseteq Working BY <1>0, <2>4 DEF Working, CallerTypes
  <2>7. \A j \in Conv : TurnWaits(j, q) => turn[j] \notin {"waiting", "restoring"}
    BY <2>3, <2>4 DEF TurnWaits
  <2>. QED BY <1>0, <2>3, <2>4, <2>5, <2>6, <2>7 DEF CallerTypes
<1>4. ASSUME NEW k \in Conv, TurnEnds(k)
      PROVE  /\ op' = op /\ used'.asks = used.asks /\ Working' \subseteq Working
             /\ \A j \in Conv : turn[j] \in {"waiting", "restoring"} =>
                    turn'[j] = turn[j] /\ want'[j] = want[j]
             /\ \/ queue' = queue
                \/ \E o \in Op : /\ queue' = Append(queue, o) /\ Stands(o)'
                                 /\ o.by \notin {"turn", "restore", "removal"}
  <2>1. turn[k] = "running" /\ TurnOver(k) /\ op' = op /\ used'.asks = used.asks
    BY <1>0, <1>4 DEF TurnEnds, Enqueue
  <2>2. Working' \subseteq Working BY <1>0, <2>1 DEF Working, TurnOver, CallerTypes
  <2>3. want[k] \in [place : Place, persona : Persona] BY <1>0 DEF CallerTypes
  <2>4. [by |-> "warm", place |-> want[k].place] \in Op BY <2>3 DEF Op, WarmOp
  <2>5. PICK q \in Op : q = [by |-> "warm", place |-> want[k].place] BY <2>4
  <2>6. q.by = "warm" BY <2>5
  <2>7. Stands(q)' BY <2>6 DEF Stands
  <2>8. queue' = queue \/ queue' = Append(queue, q) BY <1>4, <2>5 DEF TurnEnds, Enqueue
  <2>. QED BY <1>0, <2>1, <2>2, <2>6, <2>7, <2>8 DEF TurnOver, CallerTypes
<1>5. ASSUME UNCHANGED <<turn, want>> PROVE Working' \subseteq Working
  BY <1>5 DEF Working
<1>6. ASSUME NEW k \in Conv, NEW p \in Place, ModelAsks(k, p)
      PROVE  /\ op' = op /\ used'.asks > 0 /\ UNCHANGED <<turn, want>>
             /\ \E o \in Op : queue' = Append(queue, o) /\ Stands(o)' /\ o.by = "model"
  <2>1. [by |-> "model", conv |-> k, place |-> p, persona |-> Keep, native |-> recNative[k]] \in Op
    BY <1>0 DEF Op, AcquireOp, CallerTypes
  <2>2. PICK q \in Op : q = [by |-> "model", conv |-> k, place |-> p, persona |-> Keep,
                            native |-> recNative[k]]
    BY <2>1
  <2>3. used'.asks > 0
    <3>1. used' = [used EXCEPT !.ops = used.ops + 1, !.asks = used.asks + 1] BY <1>6 DEF ModelAsks
    <3>2. used'.asks = used.asks + 1 BY ONLY <1>0, <3>1
    <3>. QED BY <1>0, <3>2
  <2>4. q.by = "model" /\ q.persona = Keep BY <2>2
  <2>5. Stands(q)' BY <2>3, <2>4 DEF Stands
  <2>. QED BY <1>6, <2>2, <2>3, <2>4, <2>5 DEF ModelAsks
<1>7. ASSUME NEW k \in Conv, ModelSaves(k) \/ RecordRemoved(k)
      PROVE  op' = op /\ used' = used /\ UNCHANGED <<queue, turn, want>>
  BY <1>7 DEF ModelSaves, RecordRemoved
<1>8. ASSUME NEW k \in Conv, Remove(k)
      PROVE  /\ op' = op /\ used'.asks = used.asks /\ UNCHANGED <<turn, want>>
             /\ \E o \in Op : /\ queue' = Append(queue, o) /\ Stands(o)' /\ o.by = "removal"
                              /\ turn[o.conv] = "idle"
  <2>1. [by |-> "removal", conv |-> k] \in Op BY DEF Op, ReleaseOp
  <2>2. PICK q \in Op : q = [by |-> "removal", conv |-> k] BY <2>1
  <2>3. q.by = "removal" /\ q.conv = k BY <2>2
  <2>4. Stands(q)' BY <2>3 DEF Stands
  <2>. QED BY <1>0, <1>8, <2>2, <2>3, <2>4 DEF Remove, Enqueue, Busy
<1>9. ASSUME Sweep \/ Close
      PROVE  /\ op' = op /\ used'.asks = used.asks /\ UNCHANGED <<turn, want>>
             /\ \E o \in Op : queue' = Append(queue, o) /\ Stands(o)' /\ o.by \in {"sweep", "close"}
  <2>1. [by |-> "sweep"] \in Op /\ [by |-> "close"] \in Op BY DEF Op, PlainOp
  <2>2. PICK q \in Op : q = [by |-> "sweep"] BY <2>1
  <2>3. PICK r \in Op : r = [by |-> "close"] BY <2>1
  <2>4. q.by = "sweep" /\ r.by = "close" BY <2>2, <2>3
  <2>5. Stands(q)' /\ Stands(r)' BY <2>4 DEF Stands
  <2>. QED BY <1>0, <1>9, <2>2, <2>3, <2>4, <2>5 DEF Sweep, Close, Enqueue, callerVars
<1>10. \A o : o.by \notin {"turn", "restore"} => \A k \in Conv : ~TurnWaits(k, o)
  BY DEF TurnWaits
<1>11. CASE \E k \in Conv, p \in Place, m \in Persona : Claim(k, p, m) BY <1>1, <1>11
<1>12. ASSUME NEW k \in Conv, StartupFails(k) \/ Prompt(k)
       PROVE  /\ op' = op /\ used' = used /\ queue' = queue /\ Working' \subseteq Working
              /\ \A j \in Conv : turn[j] \in {"waiting", "restoring"} =>
                     turn'[j] = turn[j] /\ want'[j] = want[j]
  <2>1. PICK p \in Place : TRUE BY PoolAssumption DEF PoolAssumption
  <2>2. PICK m \in Persona : TRUE BY PoolAssumption DEF PoolAssumption
  <2>. QED BY <1>1, <1>12, <2>1, <2>2
<1>13. CASE \E k \in Conv : StartupFails(k) \/ Prompt(k) BY <1>12, <1>13
<1>14. CASE \E k \in Conv : TurnAcquires(k) BY <1>2, <1>14
<1>15. CASE \E k \in Conv : TurnReleases(k) BY <1>3, <1>15
<1>16. CASE \E k \in Conv : TurnEnds(k) BY <1>4, <1>10, <1>16
<1>17. CASE \E k \in Conv, p \in Place : ModelAsks(k, p) BY <1>5, <1>6, <1>10, <1>17
<1>18. CASE \E k \in Conv : ModelSaves(k) \/ RecordRemoved(k) BY <1>5, <1>7, <1>18
<1>19. CASE \E k \in Conv : Remove(k) BY <1>5, <1>8, <1>10, <1>19
<1>20. CASE Sweep \/ Close BY <1>5, <1>9, <1>10, <1>20
<1>. QED BY <1>11, <1>13, <1>14, <1>15, <1>16, <1>17, <1>18, <1>19, <1>20 DEF Calls

\* Every step keeps what was asked, and one operation for each turn.
LEMMA RequestedNext == ASSUME Typing, Owned, Requested, [Next]_vars PROVE Requested'
<1>0. \A q \in Wanted : q \in Op \cup {NoOp} /\ Stands(q) BY InQueue DEF Wanted, Requested
<1>1. CASE Dequeue
  <2>1. /\ queue # <<>> /\ queue' = Tail(queue) /\ op' = Head(queue)
        /\ UNCHANGED <<turn, want, used>>
    BY <1>1 DEF Dequeue, callerVars, turnVars
  <2>2. op' = queue[1] /\ Len(queue) \in Nat /\ 1 \in 1..Len(queue) /\ Len(queue') = Len(queue) - 1
        /\ \A i \in 1..Len(queue') : queue'[i] = queue[i + 1] /\ i + 1 \in 1..Len(queue)
    BY <2>1, InQueue
  <2>3. Stands(op)' BY <2>1, <2>2 DEF Requested, Stands
  <2>4. \A i \in 1..Len(queue') : Stands(queue[i])' BY <2>1, <2>2 DEF Requested, Stands
  <2>5. ASSUME NEW i \in 1..Len(queue'), NEW k \in Conv, TurnWaits(k, queue'[i])
        PROVE  ~TurnWaits(k, op') /\ \A j \in 1..Len(queue') : TurnWaits(k, queue'[j]) => i = j
    <3>1. TurnWaits(k, queue[i + 1]) /\ i + 1 # 1 BY <2>2, <2>5
    <3>2. \A j \in 1..Len(queue) : TurnWaits(k, queue[j]) => i + 1 = j
      BY <2>2, <3>1 DEF Requested
    <3>3. ~TurnWaits(k, op')
      <4>1. 1 \in 1..Len(queue) /\ op' = queue[1] BY <2>2
      <4>. QED BY <3>1, <3>2, <4>1
    <3>4. ASSUME NEW j \in 1..Len(queue'), TurnWaits(k, queue'[j]) PROVE i = j
      <4>1. j + 1 \in 1..Len(queue) /\ queue'[j] = queue[j + 1] BY <2>2
      <4>2. i + 1 = j + 1 BY <3>2, <3>4, <4>1
      <4>. QED BY <2>2, <4>2
    <3>. QED BY <3>3, <3>4
  <2>. QED BY <2>3, <2>4, <2>5 DEF Requested, TurnWaits
<1>2. CASE Stays
  <2>1. UNCHANGED <<queue, op, turn, want>> /\ used'.asks = used.asks
    BY <1>2 DEF Stays, callerVars, turnVars
  <2>. QED BY <2>1 DEF Requested, Stands, TurnWaits
<1>3. CASE Answers
  <2>1. UNCHANGED <<queue, used>> BY <1>3 DEF Answers
  <2>2. op' = NoOp BY <1>3, AnswerChanges
  <2>3. \A k \in Conv : ~TurnWaits(k, NoOp) BY DEF TurnWaits, NoOp
  <2>4. Stands(op)' BY <2>2 DEF Stands, NoOp
  <2>5. \A i \in 1..Len(queue) : Stands(queue[i])'
    <3>. SUFFICES ASSUME NEW i \in 1..Len(queue) PROVE Stands(queue[i])'
      OBVIOUS
    <3>1. PICK q \in Wanted : queue[i] = q BY DEF Wanted
    <3>2. \A k \in Conv : TurnWaits(k, q) => ~TurnWaits(k, op) BY <3>1 DEF Requested
    <3>3. \A k \in Conv : TurnWaits(k, q) => turn'[k] = turn[k] /\ want'[k] = want[k]
      BY <1>3, <3>2, AnswerChanges
    <3>4. Stands(q)' BY <1>0, <2>1, <3>3, StillStands
    <3>. QED BY <2>1, <3>1, <3>4
  <2>. QED BY <2>1, <2>2, <2>3, <2>4, <2>5 DEF Requested, TurnWaits
<1>4. CASE Calls
  <2>1. /\ op' = op /\ (used.asks > 0 => used'.asks > 0)
        /\ \A k \in Conv : turn[k] \in {"waiting", "restoring"} =>
               turn'[k] = turn[k] /\ want'[k] = want[k]
    BY <1>4, CallEffects
  <2>2. \A q \in Wanted : Stands(q)'
    <3>. SUFFICES ASSUME NEW q \in Wanted PROVE Stands(q)'
      OBVIOUS
    <3>1. \A k \in Conv : TurnWaits(k, q) => turn[k] \in {"waiting", "restoring"}
      BY <1>0 DEF Stands, TurnWaits
    <3>. QED BY <1>0, <2>1, <3>1, StillStands
  <2>3. CASE queue' = queue
    <3>1. ASSUME NEW i \in 1..Len(queue) PROVE Stands(queue[i])'
      <4>1. PICK q \in Wanted : queue[i] = q BY DEF Wanted
      <4>. QED BY <2>2, <2>3, <4>1
    <3>2. Stands(op)'
      <4>1. PICK q \in Wanted : op = q BY DEF Wanted
      <4>. QED BY <2>1, <2>2, <4>1 DEF Stands
    <3>. QED BY <2>1, <2>3, <3>1, <3>2 DEF Requested, TurnWaits
  <2>4. CASE queue' # queue
    BY <1>4, <2>1, <2>2, <2>4, CallEffects, OneMoreRequest
  <2>. QED BY <2>3, <2>4
<1>. QED BY <1>1, <1>2, <1>3, <1>4, CallerKinds

\* Every step keeps removals before what turns ask.
LEMMA RemovalsNext == ASSUME Typing, Owned, Requested, Removals, [Next]_vars PROVE Removals'
<1>1. CASE Dequeue
  <2>1. /\ queue # <<>> /\ queue' = Tail(queue) /\ op' = Head(queue) /\ UNCHANGED turn
    BY <1>1 DEF Dequeue, callerVars, turnVars
  <2>2. op' = queue[1] /\ Len(queue) \in Nat /\ 1 \in 1..Len(queue) /\ Len(queue') = Len(queue) - 1
        /\ \A i \in 1..Len(queue') : queue'[i] = queue[i + 1] /\ i + 1 \in 1..Len(queue)
    BY <2>1, InQueue
  <2>3. Working' = Working BY <2>1 DEF Working
  <2>4. ASSUME NEW i \in 1..Len(queue'), queue'[i].by = "removal"
        PROVE  /\ queue'[i].conv \notin Working /\ ~TurnWaits(queue'[i].conv, op')
               /\ \A j \in 1..(i - 1) : ~TurnWaits(queue'[i].conv, queue'[j])
    <3>1. /\ queue[i + 1].conv \notin Working
          /\ \A j \in 1..i : ~TurnWaits(queue[i + 1].conv, queue[j])
      BY <2>2, <2>4 DEF Removals
    <3>2. ASSUME NEW j \in 1..(i - 1) PROVE ~TurnWaits(queue'[i].conv, queue'[j])
      <4>1. j + 1 \in 1..i /\ j \in 1..Len(queue') BY <2>2
      <4>. QED BY <2>2, <3>1, <4>1
    <3>3. 1 \in 1..i BY <2>2
    <3>. QED BY <2>2, <3>1, <3>2, <3>3
  <2>. QED BY <2>2, <2>3, <2>4 DEF Removals, TurnWaits
<1>2. CASE Stays
  <2>1. UNCHANGED <<queue, op, turn>> BY <1>2 DEF Stays, callerVars, turnVars
  <2>. QED BY <2>1 DEF Removals, Working, TurnWaits
<1>3. CASE Answers
  <2>1. UNCHANGED queue /\ op' = NoOp BY <1>3, AnswerChanges DEF Answers
  <2>2. \A k \in Working' : k \in Working \/ TurnWaits(k, op)
    BY <1>3, AnswerChanges DEF Working
  <2>3. \A k : ~TurnWaits(k, NoOp) BY DEF TurnWaits, NoOp
  <2>. QED BY <2>1, <2>2, <2>3 DEF Removals, TurnWaits, NoOp
<1>4. CASE Calls
  <2>1. op' = op /\ Working' \subseteq Working BY <1>4, CallEffects
  <2>2. CASE queue' = queue BY <2>1, <2>2 DEF Removals, TurnWaits
  <2>3. ASSUME NEW o \in Op, queue' = Append(queue, o), o.by = "removal" => turn[o.conv] = "idle"
        PROVE  Removals'
    <3>1. /\ Len(queue) \in Nat /\ Len(queue') = Len(queue) + 1 /\ queue'[Len(queue) + 1] = o
          /\ \A i \in 1..Len(queue) : queue'[i] = queue[i]
      BY <2>3, InQueue
    <3>2. o.by = "removal" => /\ o.conv \notin Working /\ ~TurnWaits(o.conv, op)
                              /\ \A j \in 1..Len(queue) : ~TurnWaits(o.conv, queue[j])
      BY <2>3 DEF Working, Requested, Stands, TurnWaits
    <3>3. ASSUME NEW i \in 1..Len(queue'), queue'[i].by = "removal"
          PROVE  /\ queue'[i].conv \notin Working /\ ~TurnWaits(queue'[i].conv, op)
                 /\ \A j \in 1..(i - 1) : ~TurnWaits(queue'[i].conv, queue'[j])
      <4>1. CASE i \in 1..Len(queue) BY <3>1, <3>3, <4>1 DEF Removals
      <4>2. CASE i = Len(queue) + 1 BY <3>1, <3>2, <3>3, <4>2
      <4>. QED BY <3>1, <4>1, <4>2
    <3>. QED BY <2>1, <3>3 DEF Removals, TurnWaits
  <2>. QED BY <1>4, <2>2, <2>3, CallEffects
<1>. QED BY <1>1, <1>2, <1>3, <1>4, CallerKinds

\* What a step does to the children, to the bindings and to the spare.
LEMMA ChildrenChange ==
  ASSUME Typing, Owned, [Next]_vars
  PROVE  /\ \A c \in Child : child[c] # "unborn" => /\ child'[c] # "unborn"
                                                    /\ native'[c] = native[c] /\ place'[c] = place[c]
         /\ \A c \in Child : child[c] \in {"alive", "dead"} => child'[c] \in {"alive", "dead"}
         /\ \A c \in Child : child[c] = "dead" => child'[c] = "dead"
         /\ \A c \in Child : child[c] # "unborn" => persona'[c] = persona[c] \/ (PersonaSet /\ c = target)
<1>. USE DEF Typing, TypeOK
<1>0. ChildTypes /\ PoolTypes /\ Child \cap {NoChild} = {}
  BY DEF Child, NoChild
<1>1. ASSUME UNCHANGED <<native, place, persona>>,
             \/ child' = child
             \/ \E c \in Child, s \in {"alive", "dead"} :
                    child' = [child EXCEPT ![c] = s] /\ (s = "alive" => child[c] # "dead")
      PROVE  /\ \A c \in Child : child[c] # "unborn" => /\ child'[c] # "unborn"
                                                        /\ native'[c] = native[c] /\ place'[c] = place[c]
             /\ \A c \in Child : child[c] \in {"alive", "dead"} => child'[c] \in {"alive", "dead"}
             /\ \A c \in Child : child[c] = "dead" => child'[c] = "dead"
             /\ \A c \in Child : child[c] # "unborn" => persona'[c] = persona[c] \/ (PersonaSet /\ c = target)
  BY <1>0, <1>1 DEF ChildTypes
<1>2. ASSUME NEW c \in Child, NEW p, NEW m, NEW n, NEW s \in {"alive", "opening"},
             child[c] = "unborn", child' = [child EXCEPT ![c] = s],
             native' = [native EXCEPT ![c] = n], place' = [place EXCEPT ![c] = p],
             persona' = persona \/ persona' = [persona EXCEPT ![c] = m]
      PROVE  /\ \A d \in Child : child[d] # "unborn" => /\ child'[d] # "unborn"
                                                        /\ native'[d] = native[d] /\ place'[d] = place[d]
             /\ \A d \in Child : child[d] \in {"alive", "dead"} => child'[d] \in {"alive", "dead"}
             /\ \A d \in Child : child[d] = "dead" => child'[d] = "dead"
             /\ \A d \in Child : child[d] # "unborn" => persona'[d] = persona[d] \/ (PersonaSet /\ d = target)
  BY <1>0, <1>2 DEF ChildTypes
<1>3. CASE UNCHANGED <<child, native, place, persona>> BY <1>1, <1>3
<1>4. CASE OpStep
  <2>0. ASSUME NEW c \in Child, NEW m, NEW n, Spawn(c, op.place, m, n)
        PROVE  /\ child[c] = "unborn" /\ child' = [child EXCEPT ![c] = "opening"]
               /\ \E r : native' = [native EXCEPT ![c] = r]
               /\ place' = [place EXCEPT ![c] = op.place] /\ persona' = [persona EXCEPT ![c] = m]
    BY <2>0 DEF Spawn
  <2>1. CASE StartOpen
    <3>1. CASE UNCHANGED childVars BY <1>3, <3>1 DEF childVars
    <3>2. CASE ~UNCHANGED childVars
      <4>1. PICK c \in Child : \E m, n : Spawn(c, op.place, m, n) BY <2>1, <3>2 DEF StartOpen
      <4>2. PICK m, n : Spawn(c, op.place, m, n) BY <4>1
      <4>. QED BY <1>2, <2>0, <4>2
    <3>. QED BY <3>1, <3>2
  <2>2. CASE WarmSpare
    <3>1. CASE UNCHANGED childVars BY <1>3, <3>1 DEF childVars
    <3>2. CASE ~UNCHANGED childVars
      <4>1. PICK c \in Child : \E m, n : Spawn(c, op.place, m, n) BY <2>2, <3>2 DEF WarmSpare
      <4>2. PICK m, n : Spawn(c, op.place, m, n) BY <4>1
      <4>. QED BY <1>2, <2>0, <4>2
    <3>. QED BY <3>1, <3>2
  <2>. QED BY <1>3, <1>4, <2>1, <2>2 DEF OpStep, Dequeue, AcquireBound, AcquireFresh, GiveUp, Reject,
           MakeRoom, Release, SweepIdle, Shut, childVars
<1>5. CASE Answer
  <2>1. CASE PersonaSet
    <3>1. UNCHANGED <<child, native, place>> /\ persona' = [persona EXCEPT ![target] = WantedPersona]
      BY <2>1 DEF PersonaSet
    <3>. QED BY <1>0, <2>1, <3>1 DEF ChildTypes
  <2>2. CASE Opened \/ OpenFails \/ SpareOpened \/ SpareFails
    <3>1. target \in Child /\ child[target] = "opening"
      BY <2>2 DEF Opened, OpenFails, SpareOpened, SpareFails, Owned, Staged, Awaits
    <3>. QED BY <1>1, <2>2, <3>1 DEF Opened, OpenFails, SpareOpened, SpareFails
  <2>3. CASE CloseDone
    <3>1. target \in Child BY <2>3 DEF CloseDone, Staged, Awaits
    <3>. QED BY <1>1, <2>3, <3>1 DEF CloseDone
  <2>. QED BY <1>3, <1>5, <2>1, <2>2, <2>3 DEF Answer, PersonaUnsupported, PersonaFails, Reject, Adopted,
           AdoptFails, CloseFails, childVars
<1>6. ASSUME NEW c \in Child, NEW p \in Place, Dies(c) \/ TempOpens(c, p) \/ TempCloses
      PROVE  /\ \A d \in Child : child[d] # "unborn" => /\ child'[d] # "unborn"
                                                        /\ native'[d] = native[d] /\ place'[d] = place[d]
             /\ \A d \in Child : child[d] \in {"alive", "dead"} => child'[d] \in {"alive", "dead"}
             /\ \A d \in Child : child[d] = "dead" => child'[d] = "dead"
             /\ \A d \in Child : child[d] # "unborn" => persona'[d] = persona[d] \/ (PersonaSet /\ d = target)
  <2>1. CASE Dies(c) BY <1>1, <2>1 DEF Dies
  <2>2. CASE TempOpens(c, p) BY <1>2, <2>2 DEF TempOpens
  <2>3. CASE TempCloses
    <3>1. temp \in Child BY <1>0, <2>3 DEF TempCloses, ChildTypes
    <3>. QED BY <1>1, <2>3, <3>1 DEF TempCloses
  <2>. QED BY <1>6, <2>1, <2>2, <2>3
<1>. QED BY <1>3, <1>4, <1>5, <1>6, StepKinds DEF Outside, childVars

\* Who becomes whose: spares and command lists get new children, a conversation
\* the spare or the child that has been opened for it.
LEMMA OwnersChange ==
  ASSUME Typing, Owned, [Next]_vars
  PROVE  /\ \/ spare' \in {spare, NoChild}
            \/ spare' \in Child /\ child[spare'] = "unborn" /\ persona'[spare'] = NoPersona
               /\ native'[spare'] = spare'
         /\ \/ temp' \in {temp, NoChild}
            \/ temp' \in Child /\ child[temp'] = "unborn" /\ native'[temp'] = temp'
         /\ \A k \in Conv : \/ bindings'[k] \in {bindings[k], NoChild}
                            \/ /\ k = op.conv /\ op \in AcquireOp
                               /\ \/ Adopted /\ spare \in Child /\ bindings'[k] = spare /\ spare' = NoChild
                                  \/ Opened /\ target \in Child /\ bindings'[k] = target
<1>. USE DEF Typing, TypeOK
<1>0. ChildTypes /\ PoolTypes /\ op \in Op \cup {NoOp} BY DEF OpTypes
<1>1. CASE UNCHANGED <<poolVars, temp>> BY <1>1 DEF poolVars
<1>2. CASE OpStep
  <2>1. CASE Release \/ SweepIdle \/ Shut
    BY <1>0, <2>1 DEF Release, SweepIdle, Shut, PoolTypes
  <2>2. CASE WarmSpare
    <3>1. bindings' = bindings /\ temp' = temp BY <2>2 DEF WarmSpare
    <3>2. CASE spare' = spare BY <3>1, <3>2
    <3>3. ASSUME NEW c \in Child, Spawn(c, op.place, NoPersona, NoChild), spare' = c
          PROVE  child[c] = "unborn" /\ persona'[c] = NoPersona /\ native'[c] = c
      BY <1>0, <3>3 DEF Spawn, ChildTypes
    <3>. QED BY <2>2, <3>1, <3>2, <3>3 DEF WarmSpare
  <2>. QED BY <1>1, <1>2, <2>1, <2>2 DEF OpStep, Dequeue, AcquireBound, AcquireFresh, GiveUp, Reject,
           MakeRoom, StartOpen
<1>3. CASE Answer
  <2>1. CASE Adopted
    <3>1. op \in AcquireOp /\ spare \in Child /\ temp' = temp
      BY <2>1, Acquires DEF Adopted, Owned, Staged, Awaits
    <3>. QED BY <1>0, <2>1, <3>1 DEF Adopted, poolVars, PoolTypes
  <2>2. CASE Opened
    <3>1. op \in AcquireOp /\ target \in Child /\ temp' = temp /\ spare' = spare
      BY <2>2, Acquires DEF Opened, Staged, Awaits
    <3>. QED BY <1>0, <2>2, <3>1 DEF Opened, PoolTypes
  <2>3. CASE CloseDone
    BY <1>0, <2>3 DEF CloseDone, Without
  <2>4. CASE SpareFails BY <2>4 DEF SpareFails
  <2>. QED BY <1>1, <1>3, <2>1, <2>2, <2>3, <2>4 DEF Answer, PersonaSet, PersonaUnsupported, PersonaFails,
           Reject, AdoptFails, OpenFails, SpareOpened, CloseFails
<1>4. ASSUME NEW c \in Child, NEW p \in Place, TempOpens(c, p)
      PROVE  temp' \in Child /\ child[temp'] = "unborn" /\ native'[temp'] = temp' /\ UNCHANGED poolVars
  BY <1>0, <1>4 DEF TempOpens, ChildTypes
<1>5. ASSUME NEW c \in Child, Dies(c) \/ TempCloses PROVE temp' \in {temp, NoChild} /\ UNCHANGED poolVars
  BY <1>5 DEF Dies, TempCloses
<1>6. ASSUME NEW c \in Child, NEW p \in Place, Dies(c) \/ TempOpens(c, p) \/ TempCloses
      PROVE  /\ \/ temp' \in {temp, NoChild}
                \/ temp' \in Child /\ child[temp'] = "unborn" /\ native'[temp'] = temp'
             /\ UNCHANGED poolVars
  BY <1>4, <1>5, <1>6
<1>. QED BY <1>1, <1>2, <1>3, <1>6, StepKinds DEF Outside, poolVars

\* What a step does to the turns that have a child, and to the children turns
\* and queries have.
LEMMA HandsChange ==
  ASSUME Typing, Owned, Handed, Requested, [Next]_vars
  PROVE  /\ \A k \in Working' :
               \/ k \in Working /\ hands'[k] = hands[k] /\ want'[k] = want[k]
               \/ /\ op \in AcquireOp /\ op.by = "turn" /\ k = op.conv /\ want'[k] = want[k]
                  /\ \E c \in Child : Gives(c) /\ hands'[k] = c
         /\ \A k \in Conv : \/ hands'[k] \in {hands[k], NoChild}
                            \/ \E c \in Child : Gives(c) /\ op \in AcquireOp /\ k = op.conv /\ hands'[k] = c
         /\ \A k \in Conv : \/ asking'[k] \in {asking[k], NoChild, Asked}
                            \/ \E c \in Child : Gives(c) /\ op \in AcquireOp /\ k = op.conv /\ asking'[k] = c
<1>. USE DEF callerVars, turnVars
<1>0. CallerTypes /\ op \in Op \cup {NoOp} BY DEF Typing, TypeOK, OpTypes
<1>1. CASE UNCHANGED <<turn, hands, want, asking>> BY <1>1 DEF Working
<1>2. CASE Dequeue \/ Stays BY <1>1, <1>2 DEF Dequeue, Stays
<1>3. CASE Answers
  <2>1. CASE UNCHANGED callerVars BY <1>1, <2>1
  <2>2. CASE Rejected
    <3>1. \A k \in Conv : asking'[k] \in {asking[k], NoChild} BY <1>0, <2>2 DEF Rejected, CallerTypes
    <3>2. CASE op.by = "turn"
      <4>1. TurnOver(op.conv) BY <2>2, <3>2 DEF Rejected
      <4>. QED BY <1>0, <3>1, <4>1 DEF TurnOver, CallerTypes, Working
    <3>3. CASE op.by = "restore" BY <1>0, <2>2, <3>1, <3>3 DEF Rejected, CallerTypes, Working
    <3>4. CASE op.by \notin {"turn", "restore"}
      BY <2>2, <3>1, <3>4 DEF Rejected, Working
    <3>. QED BY <3>2, <3>3, <3>4
  <2>3. CASE op \in ReleaseOp /\ Released
    <3>1. op.by = "restore" => turn[op.conv] = "restoring" BY DEF Requested, Stands
    <3>2. op.conv \in Conv /\ op \in Op BY <2>3, Kinds DEF Op
    <3>3. UNCHANGED <<hands, want, asking>> BY <2>3 DEF Released
    <3>4. Working' \subseteq Working BY <1>0, <2>3, <3>1, <3>2 DEF Released, Working, CallerTypes
    <3>. QED BY <3>3, <3>4 DEF Working
  <2>4. ASSUME op \in AcquireOp, NEW c \in Child, Gives(c)
        PROVE  /\ \A k \in Working' :
                     \/ k \in Working /\ hands'[k] = hands[k] /\ want'[k] = want[k]
                     \/ /\ op \in AcquireOp /\ op.by = "turn" /\ k = op.conv /\ want'[k] = want[k]
                        /\ Gives(c) /\ hands'[k] = c
               /\ \A k \in Conv : hands'[k] = hands[k] \/ (k = op.conv /\ hands'[k] = c)
               /\ \A k \in Conv : asking'[k] = asking[k] \/ (k = op.conv /\ asking'[k] = c)
    BY <1>0, <2>4 DEF Gives, Returned, CallerTypes, Working
  <2>. QED BY <1>3, <2>1, <2>2, <2>3, <2>4 DEF Answers
<1>4. CASE Calls
  <2>1. ASSUME NEW k \in Conv, NEW p \in Place, NEW m \in Persona,
               \/ Claim(k, p, m) \/ TurnAcquires(k) \/ StartupFails(k) \/ Prompt(k)
               \/ TurnReleases(k) \/ TurnEnds(k)
        PROVE  /\ \A j \in Working' : j \in Working /\ hands'[j] = hands[j] /\ want'[j] = want[j]
               /\ \A j \in Conv : hands'[j] \in {hands[j], NoChild} /\ asking' = asking
    <3>1. CASE StartupFails(k) \/ TurnEnds(k)
      BY <1>0, <3>1 DEF StartupFails, TurnEnds, TurnOver, CallerTypes, Working
    <3>2. CASE Claim(k, p, m) BY <1>0, <3>2 DEF Claim, CallerTypes, Working, Busy
    <3>3. CASE TurnAcquires(k) \/ Prompt(k) \/ TurnReleases(k)
      BY <1>0, <3>3 DEF TurnAcquires, Prompt, TurnReleases, CallerTypes, Working
    <3>. QED BY <2>1, <3>1, <3>2, <3>3
  <2>2. ASSUME NEW k \in Conv, NEW p \in Place,
               ModelAsks(k, p) \/ ModelSaves(k) \/ Remove(k) \/ RecordRemoved(k) \/ Sweep \/ Close
        PROVE  UNCHANGED turnVars /\ \A j \in Conv : asking'[j] \in {asking[j], NoChild, Asked}
    BY <1>0, <2>2 DEF ModelAsks, ModelSaves, Remove, RecordRemoved, Sweep, Close, CallerTypes
  <2>3. PICK p \in Place : TRUE BY PoolAssumption DEF PoolAssumption
  <2>4. PICK m \in Persona : TRUE BY PoolAssumption DEF PoolAssumption
  <2>5. CASE \E k \in Conv : \E q \in Place, n \in Persona :
               \/ Claim(k, q, n) \/ TurnAcquires(k) \/ StartupFails(k) \/ Prompt(k)
               \/ TurnReleases(k) \/ TurnEnds(k)
    BY <2>1, <2>5
  <2>6. CASE \E k \in Conv, q \in Place :
               ModelAsks(k, q) \/ ModelSaves(k) \/ Remove(k) \/ RecordRemoved(k)
    <3>1. UNCHANGED turnVars /\ \A j \in Conv : asking'[j] \in {asking[j], NoChild, Asked}
      BY <2>2, <2>6
    <3>. QED BY <3>1 DEF Working
  <2>7. CASE Sweep \/ Close
    <3>1. UNCHANGED turnVars /\ asking' = asking BY <2>7 DEF Sweep, Close
    <3>. QED BY <3>1 DEF Working
  <2>. QED BY <1>4, <2>3, <2>4, <2>5, <2>6, <2>7 DEF Calls
<1>. QED BY <1>2, <1>3, <1>4, CallerKinds

\* The child acquire returns is there, nobody else's, and as the turn asked.
LEMMA GivesFit ==
  ASSUME Typing, Owned, Requested, Fitting, op \in AcquireOp, NEW c \in Child, Gives(c)
  PROVE  /\ child'[c] \in {"alive", "dead"} /\ c # spare' /\ bindings'[op.conv] = c
         /\ \A j \in Conv : bindings'[j] = c => j = op.conv
         /\ op.by = "turn" => place'[c] = want[op.conv].place /\ persona'[c] = want[op.conv].persona
<1>. USE DEF Typing, TypeOK
<1>0. ChildTypes /\ PoolTypes /\ op \in Op /\ op.conv \in Conv /\ c # NoChild
      /\ op.persona \in Persona \cup {Keep}
  BY Kinds DEF Op, Child, NoChild
<1>1. op.by = "turn" => /\ op.place = want[op.conv].place /\ op.persona = want[op.conv].persona
                        /\ op.persona \in Persona /\ op.persona # Keep
  BY <1>0, PoolAssumption DEF Requested, Stands, CallerTypes, PoolAssumption
<1>2. CASE AcquireBound /\ c = bindings[op.conv] /\ ~NeedsRespawn /\ WantedPersona = persona[c]
  <2>1. UNCHANGED <<child, place, persona, bindings, spare>> BY <1>2 DEF AcquireBound, poolVars
  <2>2. place[c] = op.place BY <1>2 DEF NeedsRespawn
  <2>3. op.by = "turn" => op.persona = persona[c] BY <1>1, <1>2 DEF WantedPersona
  <2>4. child[c] \in {"alive", "dead"} /\ c # spare /\ \A j \in Conv : bindings[j] = c => j = op.conv
    BY <1>0, <1>2 DEF Owned, Bound
  <2>. QED BY <1>1, <1>2, <2>1, <2>2, <2>3, <2>4
<1>3. CASE PersonaSet /\ c = target
  <2>1. /\ UNCHANGED <<child, place, bindings, spare>>
        /\ persona' = [persona EXCEPT ![target] = WantedPersona] /\ at = "persona"
    BY <1>3 DEF PersonaSet, poolVars
  <2>2. target = bindings[op.conv] /\ place[target] = op.place BY <2>1 DEF Owned, Fitting
  <2>3. op.by = "turn" => WantedPersona = op.persona BY <1>1 DEF WantedPersona
  <2>4. child[c] \in {"alive", "dead"} /\ c # spare /\ \A j \in Conv : bindings[j] = c => j = op.conv
    BY <1>0, <1>3, <2>2 DEF Owned, Bound
  <2>. QED BY <1>0, <1>1, <1>3, <2>1, <2>2, <2>3, <2>4 DEF ChildTypes
<1>4. CASE Adopted /\ c = spare /\ ~closing
  <2>1. /\ UNCHANGED <<child, place, persona>> /\ spare' = NoChild /\ at = "adopt"
        /\ bindings' = [bindings EXCEPT ![op.conv] = spare]
    BY <1>4 DEF Adopted, childVars
  <2>2. place[spare] = op.place /\ op.persona \in {Keep, NoPersona} /\ persona[spare] = NoPersona
    BY <1>0, <1>4, <2>1 DEF Fitting
  <2>3. child[spare] \in {"alive", "dead"} /\ \A j \in Conv : Bound(j) => bindings[j] # spare
    BY <1>0, <1>4, <2>1 DEF Owned
  <2>. QED BY <1>0, <1>1, <1>4, <2>1, <2>2, <2>3 DEF Bound, PoolTypes
<1>5. CASE Opened /\ c = target
  <2>1. /\ UNCHANGED <<place, persona, spare>> /\ at = "open" /\ op.by # "warm"
        /\ child' = [child EXCEPT ![target] = "alive"]
        /\ bindings' = [bindings EXCEPT ![op.conv] = target]
    BY <1>5 DEF Opened
  <2>2. child[target] = "opening" /\ target # spare BY <2>1 DEF Owned
  <2>3. \A j \in Conv : bindings[j] # target BY <1>0, <1>5, <2>2 DEF Owned, Bound
  <2>4. op.by = "turn" => place[target] = op.place /\ persona[target] = op.persona
    BY <2>1 DEF Fitting
  <2>. QED BY <1>0, <1>1, <1>5, <2>1, <2>2, <2>3, <2>4 DEF ChildTypes, PoolTypes
<1>. QED BY <1>2, <1>3, <1>4, <1>5 DEF Gives

\* What is prepared for the running operation is as its caller asked.
Prepared ==
    /\ spare # NoChild => persona[spare] = NoPersona
    /\ at = "persona" => place[target] = op.place
    /\ at = "adopt" => /\ place[spare] = op.place /\ op.native = NoChild
                       /\ op.persona \in {Keep, NoPersona}
    /\ at = "open" /\ op.by = "turn" => place[target] = op.place /\ persona[target] = op.persona

LEMMA PreparedNext == ASSUME Typing, Owned, Requested, Fitting, [Next]_vars PROVE Prepared'
<1>. USE DEF Typing, TypeOK
<1>0. ChildTypes /\ PoolTypes /\ op \in Op \cup {NoOp} /\ NoChild \notin Child
  BY DEF OpTypes, NoChild, Child
<1>1. spare' # NoChild => persona'[spare'] = NoPersona
  <2>1. CASE spare' = spare /\ spare # NoChild
    <3>1. spare \in Child /\ child[spare] # "unborn" BY <1>0, <2>1 DEF Owned, PoolTypes
    <3>2. PersonaSet => target # spare
      <4>1. PersonaSet => op.conv \in Conv /\ target = bindings[op.conv] /\ target \in Child
        BY Acquires DEF PersonaSet, Owned, Staged, Awaits
      <4>. QED BY <1>0, <4>1 DEF Owned, Bound
    <3>3. persona'[spare] = persona[spare] BY <3>1, <3>2, ChildrenChange
    <3>. QED BY <2>1, <3>3 DEF Fitting
  <2>. QED BY <2>1, OwnersChange
<1>2. CASE at' \notin {"persona", "adopt", "open"} BY <1>1, <1>2 DEF Prepared
<1>3. ASSUME UNCHANGED <<opVars, spare>>, ~PersonaSet PROVE Prepared'
  <2>1. at = "persona" => target \in Child /\ child[target] # "unborn"
    <3>1. at = "persona" => target \in Child /\ op.conv \in Conv
      BY Acquires DEF Staged, Awaits
    <3>. QED BY <1>0, <3>1 DEF Owned, Bound
  <2>2. at = "open" => target \in Child /\ child[target] # "unborn" BY DEF Owned, Staged, Awaits
  <2>3. at = "adopt" => spare \in Child /\ child[spare] # "unborn"
    BY <1>0 DEF Owned, Staged, Awaits
  <2>4. \A c \in Child : child[c] # "unborn" => place'[c] = place[c] /\ persona'[c] = persona[c]
    BY <1>3, ChildrenChange
  <2>. QED BY <1>1, <1>3, <2>1, <2>2, <2>3, <2>4 DEF Prepared, Fitting, opVars
<1>4. CASE AcquireBound
  <2>1. at' = "persona" => ~NeedsRespawn /\ target' = bindings[op.conv] /\ op' = op /\ place' = place
    BY <1>4 DEF AcquireBound, Over, Goto, Await, AwaitClose
  <2>2. at' \notin {"adopt", "open"} BY <1>4 DEF AcquireBound, Over, Goto, Await, AwaitClose
  <2>. QED BY <1>1, <2>1, <2>2 DEF Prepared, NeedsRespawn
<1>5. CASE AcquireFresh
  <2>1. at' = "adopt" => Adoptable /\ op' = op /\ spare' = spare /\ place' = place
    BY <1>5 DEF AcquireFresh, Over, Goto, Await, AwaitClose, childVars, poolVars
  <2>2. at' \notin {"persona", "open"} BY <1>5 DEF AcquireFresh, Over, Goto, Await, AwaitClose
  <2>. QED BY <1>1, <2>1, <2>2 DEF Prepared, Adoptable
<1>6. CASE StartOpen
  <2>1. op \in AcquireOp /\ op \in Op BY <1>6, Acquires DEF StartOpen, Op
  <2>2. op.by = "turn" => op.persona # Keep
    BY <2>1, Kinds, PoolAssumption DEF Requested, Stands, CallerTypes, PoolAssumption
  <2>3. ASSUME NEW c \in Child, NEW n,
               Spawn(c, op.place, IF op.persona # Keep THEN op.persona
                                  ELSE IF Bound(op.conv) THEN persona[bindings[op.conv]] ELSE NoPersona, n)
        PROVE  /\ at' = "open" /\ op' = op /\ target' = c /\ place'[c] = op.place
               /\ op.by = "turn" => persona'[c] = op.persona
    BY <1>0, <2>2, <2>3 DEF Spawn, Await, ChildTypes
  <2>4. CASE Over BY <1>2, <2>4 DEF Over
  <2>. QED BY <1>1, <1>6, <2>3, <2>4 DEF StartOpen, Prepared
<1>7. CASE WarmSpare
  <2>1. op.by = "warm" BY <1>7 DEF WarmSpare, Staged, Fits, WarmOp
  <2>2. at' \notin {"persona", "adopt"} /\ (at' = "open" => op' = op)
    BY <1>7 DEF WarmSpare, Spawn, Over, Await, AwaitClose
  <2>. QED BY <1>1, <2>1, <2>2 DEF Prepared
<1>8. CASE OpStep
  <2>1. ASSUME Dequeue PROVE at' \notin {"persona", "adopt", "open"}
    <3>1. Head(queue) \in Op BY <2>1 DEF Dequeue, OpTypes
    <3>. QED BY <2>1, <3>1, Kinds DEF Dequeue, FirstStage
  <2>2. ASSUME GiveUp \/ MakeRoom \/ Release \/ SweepIdle \/ Shut PROVE at' \notin {"persona", "adopt", "open"}
    BY <2>2 DEF GiveUp, Reject, MakeRoom, Release, SweepIdle, Shut, Over, Goto, AwaitClose
  <2>. QED BY <1>2, <1>4, <1>5, <1>6, <1>7, <1>8, <2>1, <2>2 DEF OpStep
<1>9. CASE Answer
  <2>1. after \notin Awaits \/ at # "close" BY DEF Staged
  <2>2. at' \notin {"persona", "adopt", "open"}
    BY <1>9, <2>1 DEF Answer, PersonaSet, PersonaUnsupported, PersonaFails, Reject, Adopted, AdoptFails,
       Opened, OpenFails, SpareOpened, SpareFails, CloseDone, CloseFails, ReturnIfOpen, Over, Goto,
       AwaitClose, Awaits
  <2>. QED BY <1>2, <2>2
<1>10. CASE Outside
  <2>1. UNCHANGED <<opVars, spare>> BY <1>10 DEF Outside, poolVars
  <2>2. CASE PersonaSet BY <1>2, <2>2 DEF PersonaSet, ReturnIfOpen, Over
  <2>. QED BY <1>3, <2>1, <2>2
<1>11. ASSUME NEW c \in Child, NEW p \in Place, Dies(c) \/ TempOpens(c, p) \/ TempCloses PROVE Prepared'
  <2>1. UNCHANGED <<opVars, spare>> BY <1>11 DEF Dies, TempOpens, TempCloses, poolVars
  <2>2. CASE PersonaSet BY <1>2, <2>2 DEF PersonaSet, ReturnIfOpen, Over
  <2>. QED BY <1>3, <2>1, <2>2
<1>. QED BY <1>8, <1>9, <1>10, <1>11, StepKinds

\* Every step keeps the children of turns theirs, and as they asked.
LEMMA FittingNext == ASSUME Typing, Owned, Requested, Fitting, [Next]_vars PROVE Fitting'
<1>. USE DEF Typing, TypeOK
<1>0. ChildTypes /\ PoolTypes /\ CallerTypes /\ NoChild \notin Child /\ Asked \notin Child
  BY DEF NoChild, Asked, Child
<1>1. \A k \in Conv : \A c \in {hands'[k], asking'[k]} \cap Child : child'[c] \in {"alive", "dead"}
  <2>. SUFFICES ASSUME NEW k \in Conv, NEW c \in {hands'[k], asking'[k]} \cap Child
                PROVE  child'[c] \in {"alive", "dead"}
    OBVIOUS
  <2>1. CASE c \in {hands[k], asking[k]}
    <3>1. child[c] \in {"alive", "dead"} BY <2>1 DEF Fitting
    <3>. QED BY <3>1, ChildrenChange
  <2>2. CASE op \in AcquireOp /\ Gives(c) BY <2>2, GivesFit
  <2>. QED BY <1>0, <2>1, <2>2, HandsChange
<1>2. ASSUME NEW k \in Working, hands'[k] = hands[k], want'[k] = want[k]
      PROVE  /\ hands'[k] \in Child /\ hands'[k] # spare' /\ \A j \in Conv : bindings'[j] = hands'[k] => j = k
             /\ place'[hands'[k]] = want'[k].place /\ persona'[hands'[k]] = want'[k].persona
  <2>. DEFINE h == hands[k]
  <2>1. /\ h \in Child /\ child[h] \in {"alive", "dead"} /\ h # spare
        /\ \A j \in Conv : bindings[j] = h => j = k
        /\ place[h] = want[k].place /\ persona[h] = want[k].persona /\ k \in Conv
    BY DEF Fitting, Working
  <2>. HIDE DEF h
  <2>2. h # spare' BY <1>0, <2>1, OwnersChange
  <2>3. ASSUME NEW j \in Conv, bindings'[j] = h PROVE j = k
    <3>1. CASE bindings[j] = h BY <2>1, <3>1
    <3>2. Opened => child[target] = "opening" BY DEF Opened, Owned
    <3>. QED BY <1>0, <2>1, <2>3, <3>1, <3>2, OwnersChange
  <2>4. place'[h] = place[h] BY <2>1, ChildrenChange
  <2>5. persona'[h] = persona[h]
    <3>1. CASE PersonaSet /\ h = target
      <4>1. op \in AcquireOp /\ op \in Op /\ op.conv \in Conv /\ at = "persona"
        BY <3>1, Acquires DEF PersonaSet, Op
      <4>2. target = bindings[op.conv] BY <4>1 DEF Owned
      <4>3. op.conv = k BY <2>1, <3>1, <4>1, <4>2
      <4>4. op.by # "turn" BY <4>3 DEF Requested, Stands, Working
      <4>5. op.persona = Keep BY <4>1, <4>4, Kinds DEF Requested, Stands
      <4>6. WantedPersona = persona[h] BY <3>1, <4>2, <4>5 DEF WantedPersona
      <4>. QED BY <1>0, <2>1, <3>1, <4>6 DEF PersonaSet, ChildTypes
    <3>. QED BY <2>1, <3>1, ChildrenChange
  <2>6. h = hands[k] BY DEF h
  <2>. QED BY <1>2, <2>1, <2>2, <2>3, <2>4, <2>5, <2>6
<1>3. ASSUME op \in AcquireOp, op.by = "turn", NEW c \in Child, Gives(c), NEW k \in Conv, k = op.conv,
             hands'[k] = c, want'[k] = want[k]
      PROVE  /\ hands'[k] \in Child /\ hands'[k] # spare' /\ \A j \in Conv : bindings'[j] = hands'[k] => j = k
             /\ place'[hands'[k]] = want'[k].place /\ persona'[hands'[k]] = want'[k].persona
  BY <1>3, GivesFit
<1>4. ASSUME NEW k \in Working'
      PROVE  /\ hands'[k] \in Child /\ hands'[k] # spare' /\ \A j \in Conv : bindings'[j] = hands'[k] => j = k
             /\ place'[hands'[k]] = want'[k].place /\ persona'[hands'[k]] = want'[k].persona
  <2>1. k \in Conv BY DEF Working
  <2>2. CASE k \in Working /\ hands'[k] = hands[k] /\ want'[k] = want[k] BY <1>2, <2>2
  <2>3. CASE ~(k \in Working /\ hands'[k] = hands[k] /\ want'[k] = want[k])
    <3>1. /\ op \in AcquireOp /\ op.by = "turn" /\ k = op.conv /\ want'[k] = want[k]
          /\ \E c \in Child : Gives(c) /\ hands'[k] = c
      BY <2>3, HandsChange
    <3>. QED BY <1>3, <2>1, <3>1
  <2>. QED BY <2>2, <2>3
<1>. QED BY <1>1, <1>4, PreparedNext DEF Prepared, Fitting

-----------------------------------------------------------------------------
(* Transcripts.                                                            *)

\* An operation comes to open a child, or the next one begins.
LEMMA OpeningChange ==
  ASSUME Typing, Owned, [Next]_vars
  PROVE  /\ at' = "open" => UNCHANGED opVars \/ (op' = op /\ (StartOpen \/ WarmSpare))
         /\ op' \in {op, NoOp} \/ Dequeue
<1>. USE DEF Typing, TypeOK
<1>1. op' \in {op, NoOp} \/ Dequeue
  BY CallerKinds, AnswerChanges, CallEffects DEF Stays
<1>2. ASSUME OpStep, at' = "open" PROVE op' = op /\ (StartOpen \/ WarmSpare)
  <2>1. ~Dequeue
    <3>1. Dequeue => Head(queue) \in Op BY DEF Dequeue, OpTypes
    <3>. QED BY <1>2, <3>1, Kinds DEF Dequeue, FirstStage
  <2>2. ~(AcquireBound \/ AcquireFresh \/ GiveUp \/ MakeRoom \/ Release \/ SweepIdle \/ Shut)
    BY <1>2 DEF AcquireBound, AcquireFresh, GiveUp, Reject, MakeRoom, Release, SweepIdle, Shut, Over, Goto,
       Await, AwaitClose
  <2>3. StartOpen \/ WarmSpare BY <1>2, <2>1, <2>2 DEF OpStep
  <2>. QED BY <1>2, <2>3 DEF StartOpen, WarmSpare, Spawn, Over, Await, AwaitClose
<1>3. ASSUME Answer PROVE at' # "open"
  <2>1. after \notin Awaits \/ at # "close" BY DEF Staged
  <2>. QED
    BY <1>3, <2>1 DEF Answer, PersonaSet, PersonaUnsupported, PersonaFails, Reject, Adopted, AdoptFails,
       Opened, OpenFails, SpareOpened, SpareFails, CloseDone, CloseFails, ReturnIfOpen, Over, Goto,
       AwaitClose, Awaits
<1>4. ASSUME NEW c \in Child, NEW p \in Place, Dies(c) \/ TempOpens(c, p) \/ TempCloses PROVE UNCHANGED opVars
  BY <1>4 DEF Dies, TempOpens, TempCloses
<1>. QED BY <1>1, <1>2, <1>3, <1>4, StepKinds DEF Outside

\* The transcript of a child that is opened for a conversation.
LEMMA OpensOn ==
  ASSUME Typing, Owned, StartOpen, at' = "open"
  PROVE  \E c \in Child : /\ child[c] = "unborn" /\ child' = [child EXCEPT ![c] = "opening"]
                          /\ target' = c /\ native' = [native EXCEPT ![c] = IF Resume = NoChild THEN c ELSE Resume]
                          /\ UNCHANGED <<spare, temp>> /\ op' = op
<1>1. ~Over BY DEF Over
<1>2. PICK c \in Child : \E p, m : Spawn(c, p, m, Resume) BY <1>1 DEF StartOpen
<1>. QED BY <1>2 DEF StartOpen, Spawn, Await, poolVars

\* A child is born with a transcript of its own, or resumes one.
LEMMA Births ==
  ASSUME Typing, Owned, [Next]_vars, NEW c \in Child, child[c] = "unborn", child'[c] # "unborn"
  PROVE  \/ native'[c] = c
         \/ StartOpen /\ at' = "open" /\ native'[c] = Resume /\ Resume # NoChild
<1>. USE DEF Typing, TypeOK
<1>0. ChildTypes OBVIOUS
<1>1. CASE child' = child BY <1>1
<1>2. ASSUME NEW d, NEW s, d # c, child' = [child EXCEPT ![d] = s] PROVE FALSE
  BY <1>0, <1>2 DEF ChildTypes
<1>3. CASE StartOpen
  <2>1. at' = "open" BY <1>1, <1>3 DEF StartOpen, childVars, Spawn, Await
  <2>. QED BY <1>0, <1>2, <1>3, <2>1, OpensOn DEF ChildTypes
<1>4. CASE WarmSpare
  <2>1. PICK d \in Child : Spawn(d, op.place, NoPersona, NoChild) BY <1>1, <1>4 DEF WarmSpare, childVars
  <2>. QED BY <1>0, <1>2, <2>1 DEF Spawn, ChildTypes
<1>5. CASE Opened \/ OpenFails \/ SpareOpened \/ SpareFails \/ CloseDone
  <2>1. target \in Child /\ child[target] # "unborn"
    <3>1. CASE CloseDone
      <4>1. at = "close" /\ target \in Child BY <3>1 DEF CloseDone, Staged, Awaits
      <4>. QED BY <4>1 DEF Owned, Bound, Child, NoChild
    <3>. QED BY <1>5, <3>1 DEF Opened, OpenFails, SpareOpened, SpareFails, Owned, Staged, Awaits
  <2>. QED BY <1>2, <1>5, <2>1 DEF Opened, OpenFails, SpareOpened, SpareFails, CloseDone
<1>6. CASE OpStep
  BY <1>1, <1>3, <1>4, <1>6 DEF OpStep, Dequeue, AcquireBound, AcquireFresh, GiveUp, Reject, MakeRoom,
     Release, SweepIdle, Shut, childVars
<1>7. CASE Answer
  BY <1>1, <1>5, <1>7 DEF Answer, PersonaSet, PersonaUnsupported, PersonaFails, Reject, Adopted,
     AdoptFails, CloseFails, childVars
<1>8. ASSUME NEW d \in Child, NEW p \in Place, Dies(d) \/ TempOpens(d, p) \/ TempCloses PROVE native'[c] = c
  <2>1. CASE Dies(d) BY <1>2, <2>1 DEF Dies
  <2>2. CASE TempOpens(d, p) BY <1>0, <1>2, <2>2 DEF TempOpens, ChildTypes
  <2>3. CASE TempCloses BY <1>2, <2>3 DEF TempCloses, Owned, Child, NoChild
  <2>. QED BY <1>8, <2>1, <2>2, <2>3
<1>. QED BY <1>1, <1>6, <1>7, <1>8, StepKinds DEF Outside, childVars

\* The conversation k gets the transcript n: that of the spare it adopts, or a
\* new one.
Gets(k, n) ==
    /\ k = op.conv /\ op \in AcquireOp
    /\ \/ Adopted /\ n = spare /\ spare' = NoChild
       \/ StartOpen /\ child[n] = "unborn" /\ child'[n] = "opening" /\ UNCHANGED <<spare, temp>>

\* Whoever asks for a child asks for the one that goes on with the transcript of
\* the conversation's child, or of its record.
LEMMA AskedFor ==
  ASSUME Typing, Calls
  PROVE  \/ queue' = queue
         \/ \E o \in Op : /\ queue' = Append(queue, o)
                          /\ o \in AcquireOp =>
                                 \/ o.native = recNative[o.conv]
                                 \/ bindings[o.conv] \in Child /\ o.native = native[bindings[o.conv]]
<1>. USE DEF Typing, TypeOK
<1>0. CallerTypes /\ PoolTypes /\ ChildTypes OBVIOUS
<1>1. CASE \E j \in Conv : TurnAcquires(j)
  <2>1. PICK j \in Conv : TurnAcquires(j) BY <1>1
  <2>. DEFINE o == [by |-> "turn", conv |-> j, place |-> want[j].place, persona |-> want[j].persona,
                    native |-> IF Session(j) # NoChild THEN native[Session(j)] ELSE recNative[j]]
  <2>2. Session(j) # NoChild => Session(j) = bindings[j] /\ bindings[j] \in Child
    BY <1>0 DEF Session, Open, Bound, PoolTypes
  <2>3. o.native \in Child \cup {NoChild} BY <1>0, <2>2 DEF ChildTypes, CallerTypes
  <2>4. want[j] \in [place : Place, persona : Persona] BY <1>0 DEF CallerTypes
  <2>5. o \in Op BY <2>3, <2>4 DEF Op, AcquireOp
  <2>6. PICK q \in Op : q = o BY <2>5
  <2>7. q.conv = j /\ q.native = (IF Session(j) # NoChild THEN native[Session(j)] ELSE recNative[j])
    BY <2>6
  <2>8. queue' = Append(queue, q) BY <2>1, <2>6 DEF TurnAcquires, Enqueue
  <2>. HIDE DEF o
  <2>. QED BY <2>2, <2>7, <2>8
<1>2. CASE \E j \in Conv, p \in Place : ModelAsks(j, p)
  <2>1. PICK j \in Conv, p \in Place : ModelAsks(j, p) BY <1>2
  <2>2. [by |-> "model", conv |-> j, place |-> p, persona |-> Keep, native |-> recNative[j]] \in Op
    BY <1>0 DEF Op, AcquireOp, CallerTypes
  <2>3. PICK q \in Op : q = [by |-> "model", conv |-> j, place |-> p, persona |-> Keep,
                             native |-> recNative[j]]
    BY <2>2
  <2>4. q.conv = j /\ q.native = recNative[j] BY <2>3
  <2>5. queue' = Append(queue, q) BY <2>1, <2>3 DEF ModelAsks
  <2>. QED BY <2>4, <2>5
<1>3. CASE ~((\E j \in Conv : TurnAcquires(j)) \/ \E j \in Conv, p \in Place : ModelAsks(j, p))
  <2>1. queue' = queue \/ \E o \in Op : queue' = Append(queue, o) /\ o \notin AcquireOp
    <3>1. CASE \E j \in Conv : TurnReleases(j) \/ Remove(j)
      <4>1. PICK j \in Conv : TurnReleases(j) \/ Remove(j) BY <3>1
      <4>2. [by |-> "restore", conv |-> j] \in Op /\ [by |-> "removal", conv |-> j] \in Op BY DEF Op, ReleaseOp
      <4>3. PICK q \in Op : q = [by |-> "restore", conv |-> j] BY <4>2
      <4>4. PICK r \in Op : r = [by |-> "removal", conv |-> j] BY <4>2
      <4>5. q \notin AcquireOp /\ r \notin AcquireOp
        <5>1. q.by = "restore" /\ r.by = "removal" BY <4>3, <4>4
        <5>. QED BY <5>1, Kinds
      <4>. QED BY <4>1, <4>3, <4>4, <4>5 DEF TurnReleases, Remove, Enqueue
    <3>2. CASE \E j \in Conv : TurnEnds(j)
      <4>1. PICK j \in Conv : TurnEnds(j) BY <3>2
      <4>2. want[j] \in [place : Place, persona : Persona] BY <1>0 DEF CallerTypes
      <4>3. [by |-> "warm", place |-> want[j].place] \in Op BY <4>2 DEF Op, WarmOp
      <4>4. PICK q \in Op : q = [by |-> "warm", place |-> want[j].place] BY <4>3
      <4>5. q.by = "warm" BY <4>4
      <4>6. q \notin AcquireOp BY <4>5, Kinds
      <4>. QED BY <4>1, <4>4, <4>6 DEF TurnEnds, Enqueue
    <3>3. CASE Sweep \/ Close
      <4>1. [by |-> "sweep"] \in Op /\ [by |-> "close"] \in Op BY DEF Op, PlainOp
      <4>2. PICK q \in Op : q = [by |-> "sweep"] BY <4>1
      <4>3. PICK r \in Op : r = [by |-> "close"] BY <4>1
      <4>4. q \notin AcquireOp /\ r \notin AcquireOp
        <5>1. q.by = "sweep" /\ r.by = "close" BY <4>2, <4>3
        <5>. QED BY <5>1, Kinds
      <4>. QED BY <3>3, <4>2, <4>3, <4>4 DEF Sweep, Close, Enqueue
    <3>4. CASE \E j \in Conv : StartupFails(j) \/ Prompt(j) \/ ModelSaves(j) \/ RecordRemoved(j)
                             \/ \E p \in Place, m \in Persona : Claim(j, p, m)
      BY <3>4 DEF StartupFails, Prompt, ModelSaves, RecordRemoved, Claim
    <3>. QED BY <1>3, <3>1, <3>2, <3>3, <3>4 DEF Calls
  <2>. QED BY <2>1
<1>. QED BY <1>1, <1>2, <1>3

\* What callers write and ask for names transcripts of the conversation.
LEMMA CallersName ==
  ASSUME Typing, Owned, Fitting, Calls, NEW k \in Conv, NEW n \in Child
  PROVE  /\ recNative'[k] = n => Has(k, n)
         /\ n \in story'[k] => Has(k, n)
         /\ \A i \in 1..Len(queue') :
                queue'[i] \in AcquireOp /\ queue'[i].conv = k /\ queue'[i].native = n => Has(k, n)
<1>. USE DEF Typing, TypeOK
<1>0. CallerTypes /\ PoolTypes /\ NoChild \notin Child BY DEF NoChild, Child
<1>1. recNative[k] = n => Has(k, n) BY DEF Has
<1>2. n \in story[k] => Has(k, n) BY DEF Has
<1>3. \A i \in 1..Len(queue) :
          queue[i] \in AcquireOp /\ queue[i].conv = k /\ queue[i].native = n => Has(k, n)
  BY DEF Has
<1>4. CASE \E j \in Conv : Prompt(j)
  <2>1. PICK j \in Conv : Prompt(j) BY <1>4
  <2>2. hands[j] \in Child /\ UNCHANGED queue BY <2>1 DEF Prompt, Handed
  <2>3. CASE j = k
    <3>1. native[hands[k]] = n => Has(k, n) BY <2>2, <2>3 DEF Has
    <3>2. recNative'[k] \in {recNative[k], native[hands[k]]} /\ story'[k] = story[k] \cup {native[hands[k]]}
      BY <1>0, <2>1, <2>3 DEF Prompt, CallerTypes
    <3>. QED BY <1>1, <1>2, <1>3, <2>2, <3>1, <3>2
  <2>4. CASE j # k
    <3>1. recNative'[k] = recNative[k] /\ story'[k] = story[k]
      BY <1>0, <2>1, <2>4 DEF Prompt, CallerTypes
    <3>. QED BY <1>1, <1>2, <1>3, <2>2, <3>1
  <2>. QED BY <2>3, <2>4
<1>5. CASE \E j \in Conv : ModelSaves(j)
  <2>1. PICK j \in Conv : ModelSaves(j) BY <1>5
  <2>2. asking[j] \in Child /\ UNCHANGED <<queue, story>> BY <2>1 DEF ModelSaves
  <2>3. j = k /\ native[asking[k]] = n => Has(k, n) BY <2>2 DEF Has
  <2>4. recNative'[k] = recNative[k] \/ (j = k /\ recNative'[k] = native[asking[k]])
    BY <1>0, <2>1 DEF ModelSaves, CallerTypes
  <2>. QED BY <1>1, <1>2, <1>3, <2>2, <2>3, <2>4
<1>6. CASE ~(\E j \in Conv : Prompt(j) \/ ModelSaves(j))
  <2>1. UNCHANGED <<recNative, story>>
    BY <1>6 DEF Calls, Claim, TurnAcquires, StartupFails, TurnReleases, TurnEnds, ModelAsks, Remove,
       RecordRemoved, Sweep, Close, storeVars
  <2>2. ASSUME NEW o \in Op, queue' = Append(queue, o),
               o \in AcquireOp /\ o.conv = k /\ o.native = n => Has(k, n)
        PROVE  \A i \in 1..Len(queue') :
                   queue'[i] \in AcquireOp /\ queue'[i].conv = k /\ queue'[i].native = n => Has(k, n)
    <3>1. \A i \in 1..Len(queue') : \/ i \in 1..Len(queue) /\ queue'[i] = queue[i]
                                    \/ queue'[i] = o
      BY <2>2, InQueue
    <3>. QED BY <1>3, <2>2, <3>1
  <2>3. CASE queue' = queue BY <1>1, <1>2, <1>3, <2>1, <2>3
  <2>4. CASE queue' # queue
    <3>1. PICK o \in Op : /\ queue' = Append(queue, o)
                          /\ o \in AcquireOp =>
                                 \/ o.native = recNative[o.conv]
                                 \/ bindings[o.conv] \in Child /\ o.native = native[bindings[o.conv]]
      BY <1>6, <2>4, AskedFor
    <3>2. o \in AcquireOp /\ o.conv = k /\ o.native = n => Has(k, n) BY <3>1 DEF Has
    <3>. QED BY <1>1, <1>2, <2>1, <2>2, <3>1, <3>2
  <2>. QED BY <2>3, <2>4
<1>. QED BY <1>4, <1>5, <1>6

\* A conversation has no transcript it did not have, or just got.
LEMMA HasNext ==
  ASSUME Typing, Owned, Requested, Fitting, [Next]_vars, NEW k \in Conv, NEW n \in Child,
         \A c \in {spare, temp} \cap Child : native[c] = c,
         Has(k, n)'
  PROVE  Has(k, n) \/ Gets(k, n)
<1>. USE DEF Typing, TypeOK
<1>0. ChildTypes /\ PoolTypes /\ CallerTypes /\ NoChild \notin Child /\ Asked \notin Child
  BY DEF NoChild, Asked, Child
<1>1. ASSUME recNative'[k] = n \/ n \in story'[k] PROVE Has(k, n)
  <2>1. CASE Calls BY <1>1, <2>1, CallersName
  <2>2. CASE Dequeue \/ Stays \/ Answers
    <3>1. UNCHANGED storeVars BY <2>2 DEF Dequeue, Stays, Answers
    <3>. QED BY <1>1, <3>1 DEF storeVars, Has
  <2>. QED BY <2>1, <2>2, CallerKinds
<1>2. ASSUME bindings'[k] \in Child, native'[bindings'[k]] = n PROVE Has(k, n) \/ Gets(k, n)
  <2>1. CASE bindings'[k] = bindings[k]
    <3>1. child[bindings[k]] # "unborn" BY <1>0, <1>2, <2>1 DEF Owned, Bound
    <3>2. native[bindings[k]] = n BY <1>2, <2>1, <3>1, ChildrenChange
    <3>. QED BY <1>2, <2>1, <3>2 DEF Has
  <2>2. CASE /\ k = op.conv /\ op \in AcquireOp
             /\ Adopted /\ spare \in Child /\ bindings'[k] = spare /\ spare' = NoChild
    <3>1. native' = native BY <2>2 DEF Adopted, childVars
    <3>. QED BY <1>2, <2>2, <3>1 DEF Gets
  <2>3. CASE k = op.conv /\ op \in AcquireOp /\ Opened /\ target \in Child /\ bindings'[k] = target
    <3>1. native' = native /\ at = "open" BY <2>3 DEF Opened
    <3>. QED BY <1>2, <2>3, <3>1 DEF Has
  <2>. QED BY <1>0, <1>2, <2>1, <2>2, <2>3, OwnersChange
<1>3. ASSUME NEW c \in Child, c = hands'[k] \/ c = asking'[k], native'[c] = n
      PROVE  Has(k, n) \/ Gets(k, n)
  <2>1. CASE c = hands[k] \/ c = asking[k]
    <3>1. child[c] # "unborn" BY <2>1 DEF Fitting
    <3>2. native[c] = n BY <1>3, <3>1, ChildrenChange
    <3>. QED BY <2>1, <3>2 DEF Has
  <2>2. CASE op \in AcquireOp /\ k = op.conv /\ Gives(c)
    <3>1. bindings'[k] = c BY <2>2, GivesFit
    <3>. QED BY <1>2, <1>3, <3>1
  <2>. QED BY <1>0, <1>3, <2>1, <2>2, HandsChange
<1>4. ASSUME op' \in AcquireOp, op'.conv = k, op'.native = n PROVE Has(k, n)
  <2>1. CASE op' = op BY <1>4, <2>1 DEF Has
  <2>2. CASE Dequeue
    <3>1. op' = queue[1] /\ 1 \in 1..Len(queue) BY <2>2, InQueue DEF Dequeue
    <3>. QED BY <1>4, <3>1 DEF Has
  <2>3. op' # NoOp
    <3>1. op' \in Op BY <1>4 DEF Op
    <3>2. op'.by # "nobody" BY <3>1, Kinds
    <3>. QED BY <3>2 DEF NoOp
  <2>. QED BY <2>1, <2>2, <2>3, OpeningChange
<1>5. ASSUME op' \in AcquireOp, op'.conv = k, at' = "open", native'[target'] = n
      PROVE  Has(k, n) \/ Gets(k, n)
  <2>1. CASE UNCHANGED opVars
    <3>1. op' = op /\ at' = at /\ target' = target BY <2>1 DEF opVars
    <3>2. target \in Child /\ child[target] # "unborn" BY <1>5, <3>1 DEF Owned, Staged, Awaits
    <3>3. native[target] = n BY <1>5, <3>1, <3>2, ChildrenChange
    <3>. QED BY <1>5, <3>1, <3>3 DEF Has
  <2>2. CASE op' = op /\ StartOpen
    <3>1. PICK c \in Child : /\ child[c] = "unborn" /\ child' = [child EXCEPT ![c] = "opening"]
                             /\ target' = c /\ native' = [native EXCEPT ![c] = IF Resume = NoChild THEN c ELSE Resume]
                             /\ UNCHANGED <<spare, temp>>
      BY <1>5, <2>2, OpensOn
    <3>2. n = IF Resume = NoChild THEN c ELSE Resume BY <1>0, <1>5, <3>1 DEF ChildTypes
    <3>3. CASE Resume = NoChild
      <4>1. child[n] = "unborn" /\ child'[n] = "opening" BY <1>0, <3>1, <3>2, <3>3 DEF ChildTypes
      <4>. QED BY <1>5, <2>2, <3>1, <4>1 DEF Gets
    <3>4. CASE Resume # NoChild
      <4>1. CASE Bound(k)
        <5>1. bindings[k] \in Child /\ native[bindings[k]] = n
          BY <1>0, <1>5, <2>2, <3>2, <3>4, <4>1 DEF Resume, Bound, PoolTypes
        <5>. QED BY <5>1 DEF Has
      <4>2. CASE ~Bound(k)
        <5>1. op.native = n BY <1>5, <2>2, <3>2, <3>4, <4>2 DEF Resume
        <5>. QED BY <1>5, <2>2, <5>1 DEF Has
      <4>. QED BY <4>1, <4>2
    <3>. QED BY <3>3, <3>4
  <2>3. CASE op' = op /\ WarmSpare
    <3>1. op \in WarmOp /\ op \in AcquireOp BY <1>5, <2>3 DEF WarmSpare, Staged, Fits
    <3>. QED BY <3>1, Kinds DEF Op
  <2>. QED BY <1>5, <2>1, <2>2, <2>3, OpeningChange
<1>6. ASSUME NEW i \in 1..Len(queue'), queue'[i] \in AcquireOp, queue'[i].conv = k, queue'[i].native = n
      PROVE  Has(k, n)
  <2>1. CASE Calls BY <1>6, <2>1, CallersName
  <2>2. CASE Dequeue
    <3>1. i + 1 \in 1..Len(queue) /\ queue'[i] = queue[i + 1] BY <1>6, <2>2, InQueue DEF Dequeue
    <3>. QED BY <1>6, <3>1 DEF Has
  <2>3. CASE Stays \/ Answers
    <3>1. queue' = queue BY <2>3 DEF Stays, Answers
    <3>. QED BY <1>6, <3>1 DEF Has
  <2>. QED BY <2>1, <2>2, <2>3, CallerKinds
<1>. QED BY <1>1, <1>2, <1>3, <1>4, <1>5, <1>6 DEF Has

\* Every step keeps transcripts apart.
LEMMA PrivateNext ==
  ASSUME Typing, Owned, Requested, Fitting, Private, [Next]_vars PROVE Private'
<1>. USE DEF Typing, TypeOK
<1>0. ChildTypes /\ PoolTypes /\ NoChild \notin Child /\ \A c \in {spare, temp} \cap Child : native[c] = c
  BY DEF NoChild, Child, Private
<1>1. ASSUME NEW c \in Child, child'[c] # "unborn" PROVE native'[c] \in Child
  <2>1. CASE child[c] # "unborn" BY <2>1, ChildrenChange DEF Private
  <2>2. CASE child[c] = "unborn"
    <3>1. CASE native'[c] = c BY <3>1
    <3>2. CASE StartOpen /\ native'[c] = Resume /\ Resume # NoChild
      <4>1. op \in AcquireOp /\ op \in Op /\ op.conv \in Conv BY <3>2, Acquires DEF StartOpen, Op
      <4>2. Bound(op.conv) => bindings[op.conv] \in Child /\ child[bindings[op.conv]] # "unborn"
        BY <4>1 DEF Owned, Bound, PoolTypes
      <4>3. op.native \in Child \cup {NoChild} BY <4>1, Kinds
      <4>. QED BY <3>2, <4>2, <4>3 DEF Resume, Private
    <3>. QED BY <1>1, <2>2, <3>1, <3>2, Births
  <2>. QED BY <2>1, <2>2
<1>2. ASSUME NEW c \in {spare', temp'} \cap Child PROVE native'[c] = c
  <2>1. CASE c \in {spare, temp}
    <3>1. child[c] # "unborn" BY <1>0, <2>1 DEF Owned
    <3>. QED BY <1>0, <2>1, <3>1, ChildrenChange
  <2>. QED BY <1>0, <2>1, OwnersChange
<1>3. ASSUME NEW n \in Child, NEW k \in Conv, Has(k, n)
      PROVE  /\ child'[n] # "unborn" /\ n \notin {spare', temp'}
             /\ \A j \in Conv : ~Gets(j, n)
  <2>1. child[n] # "unborn" /\ n \notin {spare, temp} BY <1>3 DEF Private
  <2>. QED BY <1>0, <2>1, ChildrenChange, OwnersChange DEF Gets
<1>4. ASSUME NEW n \in Child, NEW k \in Conv, Gets(k, n)
      PROVE  /\ child'[n] # "unborn" /\ n \notin {spare', temp'}
             /\ \A j \in Conv : ~Has(j, n)
  <2>1. CASE Adopted /\ n = spare /\ spare' = NoChild
    <3>1. child[spare] # "unborn" /\ spare # temp BY <1>0, <2>1 DEF Owned
    <3>2. n # temp' BY <1>0, <2>1, <3>1, OwnersChange
    <3>. QED BY <1>0, <2>1, <3>1, <3>2, ChildrenChange DEF Private
  <2>2. CASE StartOpen /\ child[n] = "unborn" /\ child'[n] = "opening" /\ UNCHANGED <<spare, temp>>
    <3>1. spare = n => at = "open" BY <1>0, <2>2 DEF Owned
    <3>2. temp # n BY <1>0, <2>2 DEF Owned
    <3>. QED BY <2>2, <3>1, <3>2 DEF StartOpen, Private
  <2>. QED BY <1>4, <2>1, <2>2 DEF Gets
<1>5. ASSUME NEW n \in Child, NEW k \in Conv, Has(k, n)'
      PROVE  Has(k, n) \/ Gets(k, n)
  BY <1>0, <1>5, HasNext
<1>6. ASSUME NEW n \in Child, NEW k \in Conv, Has(k, n)', NEW j \in Conv, Has(j, n)' PROVE j = k
  <2>1. (Has(k, n) \/ Gets(k, n)) /\ (Has(j, n) \/ Gets(j, n)) BY <1>5, <1>6
  <2>2. Has(k, n) /\ Has(j, n) => j = k BY DEF Private
  <2>3. Gets(k, n) /\ Gets(j, n) => j = k BY DEF Gets
  <2>. QED BY <1>3, <1>4, <2>1, <2>2, <2>3
<1>7. ASSUME NEW n \in Child, NEW k \in Conv, Has(k, n)'
      PROVE  /\ child'[n] # "unborn" /\ n \notin {spare', temp'}
             /\ \A j \in Conv : Has(j, n)' => j = k
  <2>1. Has(k, n) \/ Gets(k, n) BY <1>5, <1>7
  <2>. QED BY <1>3, <1>4, <1>6, <1>7, <2>1
<1>. QED BY <1>1, <1>2, <1>7 DEF Private

-----------------------------------------------------------------------------
(* Until a model query is made.                                            *)

\* Who unbinds a child: release for its operation, the sweep an idle one,
\* shutdown, or the end of its process.
LEMMA Unbinds ==
  ASSUME Typing, Owned, Announced, [Next]_vars, NEW k \in Conv, Bound(k), bindings'[k] = NoChild
  PROVE  \/ child'[bindings[k]] = "dead"
         \/ ~Busy(k)
         \/ closing
<1>. USE DEF Typing, TypeOK
<1>0. ChildTypes /\ PoolTypes /\ bindings[k] \in Child
  BY DEF Bound, PoolTypes
<1>1. CASE UNCHANGED bindings BY <1>1 DEF Bound
<1>2. CASE OpStep
  <2>1. CASE Release
    <3>1. bindings[k] \in closed
      BY <1>0, <2>1 DEF Release, Bound, Open, PoolTypes
    <3>2. child' = child BY <2>1 DEF Release, childVars
    <3>. QED BY <3>1, <3>2 DEF Owned
  <2>2. CASE SweepIdle
    <3>1. CASE k \in Stale BY <3>1 DEF Stale
    <3>2. CASE k \notin Stale BY <1>0, <2>2, <3>2 DEF SweepIdle, Bound, PoolTypes
    <3>. QED BY <3>1, <3>2
  <2>3. CASE Shut BY <2>3 DEF Shut, Announced
  <2>. QED BY <1>1, <1>2, <2>1, <2>2, <2>3 DEF OpStep, Dequeue, AcquireBound, AcquireFresh, GiveUp, Reject,
           MakeRoom, StartOpen, WarmSpare, poolVars
<1>3. CASE Answer
  <2>1. CASE Adopted \/ Opened
    <3>1. op.conv \in Conv /\ (Adopted => spare \in Child) /\ (Opened => target \in Child)
      BY <2>1, Acquires DEF Adopted, Opened, Owned, Staged, Awaits
    <3>. QED BY <1>0, <2>1, <3>1 DEF Adopted, Opened, poolVars, PoolTypes, Bound, NoChild, Child
  <2>2. CASE CloseDone
    <3>1. bindings[k] = target \/ bindings'[k] = bindings[k] BY <1>0, <2>2 DEF CloseDone, Without
    <3>2. child' = [child EXCEPT ![target] = "dead"] BY <2>2 DEF CloseDone
    <3>. QED BY <1>0, <3>1, <3>2 DEF ChildTypes, Bound
  <2>. QED BY <1>1, <1>3, <2>1, <2>2 DEF Answer, PersonaSet, PersonaUnsupported, PersonaFails, Reject,
           AdoptFails, OpenFails, SpareOpened, SpareFails, CloseFails, poolVars
<1>4. ASSUME NEW c \in Child, NEW p \in Place, Dies(c) \/ TempOpens(c, p) \/ TempCloses PROVE UNCHANGED bindings
  BY <1>4 DEF Dies, TempOpens, TempCloses, poolVars
<1>. QED BY <1>1, <1>2, <1>3, <1>4, StepKinds DEF Outside, poolVars

\* Whom an operation begins to close: the child of its own conversation, one
\* that is not busy, the spare, or anyone when the pool shuts.
LEMMA Closes ==
  ASSUME Typing, Owned, Announced, [Next]_vars, at' = "close"
  PROVE  \/ UNCHANGED opVars
         \/ /\ op' = op
            /\ \/ spare # NoChild /\ target' = spare
               \/ op \in AcquireOp \cup ReleaseOp /\ target' = bindings[op.conv]
               \/ \E k \in Conv : ~Busy(k) /\ target' = bindings[k]
               \/ closing
<1>. USE DEF Typing, TypeOK
<1>1. ~Over BY DEF Over
<1>2. \A s : ~Goto(s) \/ s = "close" BY DEF Goto
<1>3. CASE OpStep
  <2>1. ~Dequeue
    <3>1. Dequeue => Head(queue) \in Op BY DEF Dequeue, OpTypes
    <3>. QED BY <3>1, Kinds DEF Dequeue, FirstStage
  <2>2. ~GiveUp /\ ~StartOpen BY <1>1 DEF GiveUp, Reject, StartOpen, Spawn, Await
  <2>3. CASE AcquireBound
    <3>1. AwaitClose(bindings[op.conv], "room") /\ op \in AcquireOp
      BY <1>1, <1>2, <2>3, Acquires DEF AcquireBound, Await
    <3>. QED BY <3>1 DEF AwaitClose
  <2>4. CASE AcquireFresh
    BY <1>1, <1>2, <2>4 DEF AcquireFresh, AwaitClose, Await
  <2>5. CASE MakeRoom
    BY <1>1, <1>2, <2>5 DEF MakeRoom, AwaitClose, Victims
  <2>6. CASE Release
    <3>1. op \in ReleaseOp BY <2>6 DEF Release, Staged, Fits
    <3>. QED BY <1>1, <2>6, <3>1 DEF Release, AwaitClose
  <2>7. CASE SweepIdle BY <1>1, <1>2, <2>7 DEF SweepIdle, AwaitClose, Stale
  <2>8. CASE WarmSpare BY <1>1, <2>8 DEF WarmSpare, Spawn, Await, AwaitClose
  <2>9. CASE Shut
    <3>1. closing BY <2>9 DEF Shut, Announced
    <3>2. op' = op BY <1>1, <2>9 DEF Shut, AwaitClose, Goto
    <3>. QED BY <3>1, <3>2
  <2>. QED BY <1>3, <2>1, <2>2, <2>3, <2>4, <2>5, <2>6, <2>7, <2>8, <2>9 DEF OpStep
<1>4. CASE Answer
  <2>1. CASE PersonaUnsupported
    <3>1. op \in AcquireOp /\ target = bindings[op.conv]
      BY <2>1, Acquires DEF PersonaUnsupported, Owned
    <3>. QED BY <2>1, <3>1 DEF PersonaUnsupported, AwaitClose
  <2>2. CASE AdoptFails
    <3>1. spare # NoChild BY <2>2 DEF AdoptFails, Owned, Staged, Awaits, NoChild, Child
    <3>. QED BY <2>2, <3>1 DEF AdoptFails, AwaitClose
  <2>3. ~CloseDone BY DEF CloseDone, Goto, Staged, Awaits
  <2>. QED BY <1>1, <1>4, <2>1, <2>2, <2>3 DEF Answer, PersonaSet, PersonaFails, Reject, Adopted,
           Opened, OpenFails, SpareOpened, SpareFails, CloseFails, ReturnIfOpen
<1>5. ASSUME NEW c \in Child, NEW p \in Place, Dies(c) \/ TempOpens(c, p) \/ TempCloses PROVE UNCHANGED opVars
  BY <1>5 DEF Dies, TempOpens, TempCloses
<1>. QED BY <1>3, <1>4, <1>5, StepKinds DEF Outside

\* Queries are counted, and shutdown is not taken back.
LEMMA Onward ==
  ASSUME Typing, Owned, [Next]_vars
  PROVE  (used'.asks = 0 => used.asks = 0) /\ (closing => closing')
<1>1. used \in [ops : Nat, asks : Nat, temps : Nat] BY DEF Typing, TypeOK, OpTypes
<1>2. used'.asks = 0 => used.asks = 0
  BY <1>1, CallerKinds, CallEffects DEF Stays, Answers, Dequeue
<1>3. closing => closing'
  <2>1. CASE OpStep
    BY <2>1 DEF OpStep, Dequeue, AcquireBound, AcquireFresh, GiveUp, Reject, MakeRoom, StartOpen, Release,
       SweepIdle, WarmSpare, Shut, closeVars
  <2>2. CASE Answer
    BY <2>2 DEF Answer, PersonaSet, PersonaUnsupported, PersonaFails, Reject, Adopted, AdoptFails, Opened,
       OpenFails, SpareOpened, SpareFails, CloseDone, CloseFails, closeVars
  <2>3. ASSUME NEW c \in Child, NEW p \in Place, Dies(c) \/ TempOpens(c, p) \/ TempCloses PROVE closing' = closing
    BY <2>3 DEF Dies, TempOpens, TempCloses, closeVars
  <2>. QED BY <2>1, <2>2, <2>3, StepKinds DEF Asks
<1>. QED BY <1>2, <1>3

\* Without model queries every step leaves a turn its child.
LEMMA UndisturbedNext ==
  ASSUME Typing, Owned, Announced, Requested, Removals, Fitting, Undisturbed, [Next]_vars
  PROVE  Undisturbed'
<1>. SUFFICES ASSUME used'.asks = 0
              PROVE  /\ \A k \in Conv : asking'[k] = NoChild
                     /\ \A k \in Working' :
                           /\ bindings'[k] \in {hands'[k], NoChild}
                           /\ bindings'[k] = NoChild => closing' \/ child'[hands'[k]] = "dead"
                           /\ at' = "close" /\ target' = hands'[k] => closing' \/ TurnWaits(k, op')
  BY DEF Undisturbed, Working, TurnWaits
<1>. USE DEF Typing, TypeOK
<1>0. ChildTypes /\ PoolTypes /\ CallerTypes /\ NoChild \notin Child /\ used.asks = 0
      /\ op \in Op \cup {NoOp}
  BY Onward DEF NoChild, Child, OpTypes
<1>1. op.by # "model" BY <1>0 DEF Requested, Stands
<1>2. ASSUME NEW k \in Conv PROVE asking'[k] = NoChild
  <2>1. ASSUME NEW c \in Child, Gives(c), op \in AcquireOp PROVE asking' = asking
    <3>1. op.by = "turn" BY <1>1, <2>1, Kinds DEF Op
    <3>. QED BY <2>1, <3>1 DEF Gives, Returned
  <2>2. asking[k] = NoChild BY <1>0 DEF Undisturbed
  <2>3. ASSUME NEW j \in Conv, NEW p \in Place, ModelAsks(j, p) PROVE FALSE
    <3>1. used' = [used EXCEPT !.ops = used.ops + 1, !.asks = used.asks + 1] BY <2>3 DEF ModelAsks
    <3>2. used \in [ops : Nat, asks : Nat, temps : Nat] BY DEF OpTypes
    <3>3. used'.asks = used.asks + 1 BY ONLY <3>1, <3>2
    <3>. QED BY <1>0, <3>3
  <2>4. CASE Calls
    BY <1>0, <2>2, <2>3, <2>4 DEF Calls, Claim, TurnAcquires, StartupFails, Prompt, TurnReleases, TurnEnds,
       ModelSaves, Remove, RecordRemoved, Sweep, Close, callerVars, CallerTypes
  <2>5. CASE Answers
    BY <1>1, <2>1, <2>2, <2>5 DEF Answers, Rejected, Released, callerVars
  <2>6. CASE Stays \/ Dequeue BY <2>2, <2>6 DEF Stays, Dequeue, callerVars
  <2>. QED BY <2>4, <2>5, <2>6, CallerKinds
<1>3. ASSUME NEW k \in Working'
      PROVE  /\ bindings'[k] \in {hands'[k], NoChild}
             /\ bindings'[k] = NoChild => closing' \/ child'[hands'[k]] = "dead"
             /\ at' = "close" /\ target' = hands'[k] => closing' \/ TurnWaits(k, op')
  <2>0. k \in Conv BY DEF Working
  <2>1. CASE k \in Working /\ hands'[k] = hands[k]
    <3>1. /\ hands[k] \in Child /\ bindings[k] \in {hands[k], NoChild} /\ hands[k] # spare
          /\ bindings[k] = NoChild => closing \/ child[hands[k]] = "dead"
          /\ at = "close" /\ target = hands[k] => closing \/ TurnWaits(k, op)
          /\ \A j \in Conv : bindings[j] = hands[k] => j = k
      BY <1>0, <2>1 DEF Undisturbed, Fitting
    <3>2. op \in AcquireOp => op.conv # k
      <4>1. op \in AcquireOp => op.by = "turn" BY <1>1, Kinds DEF Op
      <4>. QED BY <2>1, <4>1 DEF Requested, Stands, Working
    <3>3. bindings'[k] \in {bindings[k], NoChild} BY <2>0, <3>2, OwnersChange
    <3>4. ASSUME bindings'[k] = NoChild PROVE closing' \/ child'[hands'[k]] = "dead"
      <4>1. CASE bindings[k] = NoChild BY <2>1, <3>1, <4>1, Onward, ChildrenChange
      <4>2. CASE bindings[k] # NoChild
        <5>1. Bound(k) /\ Busy(k) /\ bindings[k] = hands[k] BY <2>1, <3>1, <4>2 DEF Bound, Busy, Working
        <5>. QED BY <2>0, <2>1, <3>4, <5>1, Unbinds, Onward
      <4>. QED BY <4>1, <4>2
    <3>5. ASSUME at' = "close", target' = hands[k] PROVE closing' \/ TurnWaits(k, op')
      <4>1. CASE UNCHANGED opVars BY <3>1, <3>5, <4>1, Onward DEF opVars
      <4>2. CASE op' = op /\ op \in AcquireOp \cup ReleaseOp /\ target' = bindings[op.conv]
        <5>1. op \in Op /\ op.conv \in Conv BY <4>2, Kinds DEF Op
        <5>2. op.conv = k BY <3>1, <3>5, <4>2, <5>1
        <5>3. op \in ReleaseOp /\ op.by # "removal" BY <2>1, <3>2, <4>2, <5>2 DEF Removals
        <5>. QED BY <4>2, <5>1, <5>2, <5>3, Kinds DEF TurnWaits
      <4>3. ASSUME NEW j \in Conv, ~Busy(j), target' = bindings[j] PROVE FALSE
        <5>1. j = k BY <3>1, <3>5, <4>3
        <5>. QED BY <2>1, <4>3, <5>1 DEF Busy, Working
      <4>. QED BY <3>1, <3>5, <4>1, <4>2, <4>3, Closes, Onward
    <3>. QED BY <2>1, <3>1, <3>3, <3>4, <3>5
  <2>2. CASE ~(k \in Working /\ hands'[k] = hands[k])
    <3>1. PICK c \in Child : Gives(c) /\ hands'[k] = c /\ op \in AcquireOp /\ k = op.conv
      BY <2>2, HandsChange
    <3>2. bindings'[k] = c BY <3>1, GivesFit
    <3>3. at' = "idle" BY <3>1 DEF Gives, Over
    <3>. QED BY <1>0, <3>1, <3>2, <3>3
  <2>. QED BY <2>1, <2>2
<1>. QED BY <1>2, <1>3

\* A conversation's record and history change when it prompts, and when a query
\* saves.
LEMMA RecordsChange ==
  ASSUME Typing, Owned, [Next]_vars, ~(\E k \in Conv : Prompt(k) \/ ModelSaves(k))
  PROVE  recNative' = recNative /\ story' = story
<1>1. CASE Calls
  BY <1>1 DEF Calls, Claim, TurnAcquires, StartupFails, TurnReleases, TurnEnds, ModelAsks, Remove,
     RecordRemoved, Sweep, Close, storeVars
<1>2. CASE Dequeue \/ Stays \/ Answers BY <1>2 DEF Dequeue, Stays, Answers, storeVars
<1>. QED BY <1>1, <1>2, CallerKinds

\* The transcript its record names is that of the child, of the turn, and of
\* what has been asked for the conversation.
Follows(k, n) ==
    /\ Bound(k) => native[bindings[k]] = n
    /\ k \in Working => native[hands[k]] = n
    /\ op \in AcquireOp /\ op.conv = k => op.native = n /\ (at = "open" => native[target] = n)
    /\ \A i \in 1..Len(queue) : queue[i] \in AcquireOp /\ queue[i].conv = k => queue[i].native = n

LEMMA FollowsNext ==
  ASSUME Typing, Owned, Requested, Fitting, Undisturbed, [Next]_vars, used'.asks = 0,
         NEW k \in Conv, NEW n \in Child, Follows(k, n), recNative[k] = n
  PROVE  Follows(k, n)'
<1>. USE DEF Typing, TypeOK
<1>0. ChildTypes /\ PoolTypes /\ CallerTypes /\ NoChild \notin Child /\ used.asks = 0
  BY Onward DEF NoChild, Child
<1>1. bindings'[k] # NoChild => native'[bindings'[k]] = n
  <2>1. CASE bindings'[k] = bindings[k] /\ Bound(k)
    <3>1. bindings[k] \in Child /\ child[bindings[k]] # "unborn" /\ native[bindings[k]] = n
      BY <1>0, <2>1 DEF Owned, Bound, PoolTypes, Follows
    <3>. QED BY <2>1, <3>1, ChildrenChange
  <2>2. CASE k = op.conv /\ op \in AcquireOp /\ Adopted
    <3>1. op.native = NoChild BY <2>2 DEF Adopted, Fitting
    <3>. QED BY <1>0, <2>2, <3>1 DEF Follows
  <2>3. CASE k = op.conv /\ op \in AcquireOp /\ Opened /\ target \in Child /\ bindings'[k] = target
    BY <2>3 DEF Opened, Follows
  <2>. QED BY <2>1, <2>2, <2>3, OwnersChange DEF Bound
<1>2. k \in Working' => native'[hands'[k]] = n
  <2>1. CASE k \in Working /\ hands'[k] = hands[k]
    <3>1. hands[k] \in Child /\ child[hands[k]] # "unborn" /\ native[hands[k]] = n
      BY <2>1 DEF Fitting, Follows
    <3>. QED BY <2>1, <3>1, ChildrenChange
  <2>2. ASSUME NEW c \in Child, Gives(c), op \in AcquireOp, k = op.conv, hands'[k] = c
        PROVE  native'[hands'[k]] = n
    BY <1>0, <1>1, <2>2, GivesFit
  <2>. QED BY <2>1, <2>2, HandsChange
<1>3. op' \in AcquireOp /\ op'.conv = k => op'.native = n
  <2>1. Dequeue => op' = queue[1] /\ 1 \in 1..Len(queue) BY InQueue DEF Dequeue
  <2>2. NoOp \notin AcquireOp
    <3>1. NoOp.by = "nobody" BY DEF NoOp
    <3>2. \A o \in AcquireOp : o.by # "nobody" BY Kinds DEF Op
    <3>. QED BY <3>1, <3>2
  <2>. QED BY <2>1, <2>2, OpeningChange DEF Follows
<1>4. ASSUME op' \in AcquireOp, op'.conv = k, at' = "open" PROVE native'[target'] = n
  <2>1. CASE UNCHANGED opVars
    <3>1. op' = op /\ at' = at /\ target' = target BY <2>1 DEF opVars
    <3>2. target \in Child /\ child[target] # "unborn" BY <1>4, <3>1 DEF Owned, Staged, Awaits
    <3>3. native[target] = n BY <1>4, <3>1 DEF Follows
    <3>. QED BY <3>1, <3>2, <3>3, ChildrenChange
  <2>2. CASE op' = op /\ StartOpen
    <3>1. Resume = n BY <1>4, <2>2 DEF Resume, Follows
    <3>2. PICK c \in Child : target' = c /\ native' = [native EXCEPT ![c] = IF Resume = NoChild THEN c ELSE Resume]
      BY <1>4, <2>2, OpensOn
    <3>. QED BY <1>0, <3>1, <3>2 DEF ChildTypes
  <2>3. CASE op' = op /\ WarmSpare
    <3>1. op \in WarmOp /\ op \in AcquireOp BY <1>4, <2>3 DEF WarmSpare, Staged, Fits
    <3>. QED BY <3>1, Kinds DEF Op
  <2>. QED BY <1>4, <2>1, <2>2, <2>3, OpeningChange
<1>5. ASSUME NEW i \in 1..Len(queue'), queue'[i] \in AcquireOp, queue'[i].conv = k PROVE queue'[i].native = n
  <2>1. CASE Dequeue
    <3>1. i + 1 \in 1..Len(queue) /\ queue'[i] = queue[i + 1] BY <1>5, <2>1, InQueue DEF Dequeue
    <3>. QED BY <1>5, <3>1 DEF Follows
  <2>2. CASE queue' = queue BY <1>5, <2>2 DEF Follows
  <2>3. CASE Calls /\ queue' # queue
    <3>1. PICK o \in Op : /\ queue' = Append(queue, o)
                          /\ o \in AcquireOp =>
                                 \/ o.native = recNative[o.conv]
                                 \/ bindings[o.conv] \in Child /\ o.native = native[bindings[o.conv]]
      BY <2>3, AskedFor
    <3>2. (i \in 1..Len(queue) /\ queue'[i] = queue[i]) \/ queue'[i] = o BY <1>5, <3>1, InQueue
    <3>3. CASE queue'[i] = o BY <1>0, <1>5, <3>1, <3>3 DEF Follows, Bound
    <3>. QED BY <1>5, <3>2, <3>3 DEF Follows
  <2>. QED BY <2>1, <2>2, <2>3, CallerKinds DEF Stays, Answers
<1>. QED BY <1>1, <1>2, <1>3, <1>4, <1>5 DEF Follows, Bound

\* Without model queries every step keeps a conversation to one transcript.
LEMMA OneStoryNext ==
  ASSUME Typing, Owned, Announced, Requested, Fitting, Private, Undisturbed, OneStory, [Next]_vars
  PROVE  OneStory'
<1>. SUFFICES ASSUME used'.asks = 0, NEW k \in Conv
              PROVE  /\ story'[k] \subseteq {recNative'[k]} \ {NoChild}
                     /\ recNative'[k] # NoChild => Follows(k, recNative[k])'
  BY DEF OneStory, Follows, Working
<1>. USE DEF Typing, TypeOK
<1>0. /\ ChildTypes /\ PoolTypes /\ CallerTypes /\ NoChild \notin Child /\ used.asks = 0
      /\ \A j \in Conv : asking[j] = NoChild
  BY Onward DEF NoChild, Child, Undisturbed
<1>1. /\ story[k] \subseteq {recNative[k]} \ {NoChild}
      /\ recNative[k] # NoChild => Follows(k, recNative[k])
  BY <1>0 DEF OneStory, Follows
<1>2. CASE recNative'[k] = recNative[k] /\ story'[k] = story[k]
  <2>1. recNative[k] \in Child \cup {NoChild} BY <1>0 DEF CallerTypes
  <2>2. ASSUME recNative[k] # NoChild PROVE Follows(k, recNative[k])'
    <3>1. PICK n \in Child : recNative[k] = n BY <2>1, <2>2
    <3>2. Follows(k, n)' BY <1>1, <2>2, <3>1, FollowsNext
    <3>. QED BY <1>2, <3>1, <3>2 DEF Follows
  <2>. QED BY <1>1, <1>2, <2>2
<1>3. CASE Prompt(k)
  <2>. DEFINE n == native[hands[k]]
  <2>1. k \in Working /\ turn[k] = "acquired" BY <1>3 DEF Prompt, Working
  <2>2. hands[k] \in Child /\ n \in Child /\ bindings[k] \in {hands[k], NoChild}
    BY <1>0, <2>1 DEF Fitting, Private, Undisturbed
  <2>3. UNCHANGED <<native, bindings, queue, hands, at, op, target>> BY <1>3 DEF Prompt, childVars, poolVars, opVars
  <2>4. recNative[k] # NoChild => recNative[k] = n BY <1>1, <2>1 DEF Follows
  <2>5. recNative'[k] = n /\ story'[k] = story[k] \cup {n}
    BY <1>0, <1>3 DEF Prompt, CallerTypes
  <2>6. story'[k] \subseteq {n} \ {NoChild} BY <1>0, <1>1, <2>2, <2>4, <2>5
  <2>7. op \in AcquireOp => op.conv # k
    <3>1. op \in AcquireOp => op.by = "turn" BY <1>0, Kinds DEF Requested, Stands, Op
    <3>. QED BY <2>1, <3>1 DEF Requested, Stands
  <2>8. ASSUME NEW i \in 1..Len(queue), queue[i] \in AcquireOp PROVE queue[i].conv # k
    <3>1. Stands(queue[i]) BY DEF Requested
    <3>2. queue[i].by = "turn" BY <1>0, <2>8, <3>1, Kinds DEF Stands, Op
    <3>. QED BY <2>1, <3>1, <3>2 DEF Stands
  <2>9. Follows(k, recNative[k])' BY <2>2, <2>3, <2>5, <2>7, <2>8 DEF Follows, Bound
  <2>. QED BY <2>5, <2>6, <2>9
<1>4. CASE \E j \in Conv : j # k /\ Prompt(j)
  <2>1. recNative'[k] = recNative[k] /\ story'[k] = story[k]
    BY <1>0, <1>4 DEF Prompt, CallerTypes
  <2>. QED BY <1>2, <2>1
<1>5. ASSUME NEW j \in Conv, ModelSaves(j) PROVE FALSE
  BY <1>0, <1>5 DEF ModelSaves
<1>. QED BY <1>2, <1>3, <1>4, <1>5, RecordsChange

\* It holds when the pool starts.
LEMMA ServingInit == Init => Serving
<1>. SUFFICES ASSUME Init PROVE Serving
  OBVIOUS
<1>. USE DEF Init, NoOp
<1>0. NoChild \notin Child /\ Asked \notin Child /\ Len(queue) = 0 BY DEF NoChild, Asked, Child
<1>1. Working = {} BY DEF Working
<1>2. Requested BY <1>0 DEF Requested, Stands, TurnWaits
<1>3. Removals BY <1>0 DEF Removals
<1>4. Fitting BY <1>0, <1>1 DEF Fitting
<1>5. Private
  <2>1. op \notin AcquireOp
    <3>1. op.by = "nobody" OBVIOUS
    <3>2. \A o \in AcquireOp : o.by # "nobody" BY Kinds DEF Op
    <3>. QED BY <3>1, <3>2
  <2>. QED BY <1>0, <2>1 DEF Private, Has
<1>6. Undisturbed BY <1>1 DEF Undisturbed
<1>7. OneStory BY <1>0 DEF OneStory
<1>. QED BY <1>2, <1>3, <1>4, <1>5, <1>6, <1>7 DEF Serving

\* What callers asked, what is prepared for them, and whose transcript is whose,
\* with the invariant of ownership.
THEOREM Service == Spec => [](TypeOK /\ Inductive /\ Serving)
<1>1. Init => TypeOK /\ Inductive /\ Serving
  BY InitTyped, InductiveInit, ServingInit
<1>2. TypeOK /\ Inductive /\ Serving /\ [Next]_vars => (TypeOK /\ Inductive /\ Serving)'
  <2>. SUFFICES ASSUME TypeOK, Inductive, Serving, [Next]_vars
                PROVE  (TypeOK /\ Inductive /\ Serving)'
    OBVIOUS
  <2>1. Typing /\ Owned /\ Counted /\ Announced /\ Emptied BY DEF Inductive, Typing
  <2>2. (TypeOK /\ Inductive)'
    BY <2>1, TypingNext, OwnedNext, CountedNext, AnnouncedNext, EmptiedNext DEF Inductive, Typing
  <2>3. Serving'
    BY <2>1, RequestedNext, RemovalsNext, FittingNext, PrivateNext, UndisturbedNext, OneStoryNext DEF Serving
  <2>. QED BY <2>2, <2>3
<1>. QED BY <1>1, <1>2, PTL DEF Spec

\* TurnGetsWhatItAsked for any number of conversations, children and requests:
\* the child of a turn runs where the turn asked and enforces its persona.
THEOREM TurnsGetWhatTheyAsk == Spec => []TurnGetsWhatItAsked
<1>1. Serving => TurnGetsWhatItAsked
  BY DEF Serving, Fitting, Working, TurnGetsWhatItAsked
<1>. QED BY <1>1, Service, PTL

\* OneWriter: a transcript has one process that writes it, whoever asks for
\* children, and whatever fails.
THEOREM TranscriptsHaveOneWriter == Spec => []OneWriter
<1>1. TypeOK /\ Inductive /\ Serving => OneWriter
  <2>. SUFFICES ASSUME TypeOK, Owned, Staged, Private,
                       NEW c \in Processes, NEW d \in Processes, native[c] = native[d]
                PROVE  c = d
    BY DEF Inductive, Serving, OneWriter
  <2>0. NoChild \notin Child /\ PoolTypes BY DEF TypeOK, NoChild, Child
  <2>1. ASSUME NEW e \in Processes
        PROVE  \/ e \in {spare, temp} /\ native[e] = e
               \/ at = "open" /\ target = e /\ op \in AcquireOp /\ op.conv \in Conv /\ Has(op.conv, native[e])
               \/ \E k \in Conv : bindings[k] = e /\ Has(k, native[e])
    <3>1. e \in Child /\ e \notin closed BY DEF Processes, Owned
    <3>2. CASE e \in {spare, temp} BY <3>1, <3>2 DEF Private
    <3>3. CASE at = "open" /\ target = e
      <4>1. CASE op.by = "warm" BY <3>2, <3>3, <4>1 DEF Owned
      <4>2. CASE op.by # "warm"
        <5>1. op \in AcquireOp BY <3>3, <4>2, Kinds DEF Staged, Fits, Op
        <5>2. op.conv \in Conv BY <5>1, Kinds DEF Op
        <5>. QED BY <3>3, <5>1, <5>2 DEF Has
      <4>. QED BY <4>1, <4>2
    <3>4. ASSUME NEW k \in Conv, bindings[k] = e PROVE Has(k, native[e])
      BY <3>1, <3>4 DEF Has
    <3>. QED BY <3>2, <3>3, <3>4 DEF Owned
  <2>2. \A e \in Processes : e \in Child /\ native[e] \in Child /\ e \notin closed
    BY DEF Private, Processes, Owned
  <2>3. \A j, k \in Conv : Has(j, native[c]) /\ Has(k, native[c]) => j = k
    BY <2>2 DEF Private
  <2>4. \A k \in Conv : Has(k, native[c]) => native[c] \notin {spare, temp}
    BY <2>2 DEF Private
  <2>5. ASSUME NEW e \in Processes, NEW k \in Conv, bindings[k] = e, at = "open", op \in AcquireOp
        PROVE  op.conv # k
    <3>1. op.by # "warm" BY <2>5, Kinds DEF Op
    <3>. QED BY <2>0, <2>2, <2>5, <3>1 DEF Owned, Open, Bound
  <2>. QED BY <2>0, <2>1, <2>2, <2>3, <2>4, <2>5
<1>. QED BY <1>1, Service, PTL

\* As long as no model query is made, ChildrenServeTheirTurns: besides, a turn
\* keeps its child until it ends, and a conversation its transcript.  A query
\* may take the child of a turn away (PoolGaps), hence the condition.
THEOREM ServiceWithoutQueries == Spec => [](used.asks = 0 => ChildrenServeTheirTurns)
<1>1. TypeOK /\ Inductive /\ Serving => (used.asks = 0 => RunningTurnKeepsItsChild)
  <2>. SUFFICES ASSUME TypeOK, Serving, used.asks = 0, NEW k \in Conv,
                       turn[k] \in {"acquired", "running"}, ~closing, child[hands[k]] = "alive"
                PROVE  bindings[k] = hands[k] /\ ~(at = "close" /\ target = hands[k])
    BY DEF RunningTurnKeepsItsChild
  <2>1. k \in Working BY DEF Working
  <2>2. ~TurnWaits(k, op) BY DEF Serving, Requested, Stands, TurnWaits
  <2>. QED BY <2>1, <2>2 DEF Serving, Undisturbed
<1>2. TypeOK /\ Inductive /\ Serving => (used.asks = 0 => OneTranscript)
  <2>. SUFFICES ASSUME TypeOK, Serving, used.asks = 0, NEW k \in Conv PROVE Cardinality(story[k]) <= 1
    BY DEF OneTranscript
  <2>1. story[k] \subseteq {recNative[k]} BY DEF Serving, OneStory
  <2>2. IsFiniteSet({recNative[k]}) /\ Cardinality({recNative[k]}) = 1 BY FS_Singleton
  <2>3. Cardinality(story[k]) <= Cardinality({recNative[k]}) BY <2>1, <2>2, FS_Subset
  <2>. QED BY <2>2, <2>3
<1>. QED BY <1>1, <1>2, Service, TranscriptsHaveOneWriter, PTL DEF ChildrenServeTheirTurns

\* The same for a pool of which no model query is made.
THEOREM ChildrenServe == Spec => [](MaxAsks = 0 => ChildrenServeTheirTurns)
<1>1. Init => used.asks <= MaxAsks BY PoolAssumption DEF Init, PoolAssumption
<1>2. TypeOK /\ Inductive /\ used.asks <= MaxAsks /\ [Next]_vars => (used.asks <= MaxAsks)'
  <2>. SUFFICES ASSUME Typing, Owned, used.asks <= MaxAsks, [Next]_vars PROVE used'.asks <= MaxAsks
    BY DEF Typing, Inductive
  <2>0. used \in [ops : Nat, asks : Nat, temps : Nat] BY DEF Typing, TypeOK, OpTypes
  <2>1. CASE Dequeue \/ Stays \/ Answers BY <2>1 DEF Dequeue, Stays, Answers
  <2>2. ASSUME NEW k \in Conv, NEW p \in Place, ModelAsks(k, p) PROVE used'.asks <= MaxAsks
    <3>1. used' = [used EXCEPT !.ops = used.ops + 1, !.asks = used.asks + 1] /\ used.asks < MaxAsks
      BY <2>2 DEF ModelAsks
    <3>2. used'.asks = used.asks + 1 BY ONLY <2>0, <3>1
    <3>. QED BY <2>0, <3>1, <3>2, PoolAssumption DEF PoolAssumption
  <2>3. ASSUME NEW o, Enqueue(o) PROVE used'.asks = used.asks
    BY <2>0, <2>3 DEF Enqueue
  <2>4. CASE Calls /\ used' # used
    BY <2>2, <2>3, <2>4 DEF Calls, Claim, TurnAcquires, StartupFails, Prompt, TurnReleases, TurnEnds,
       ModelSaves, Remove, RecordRemoved, Sweep, Close
  <2>. QED BY <2>1, <2>4, CallerKinds
<1>3. TypeOK /\ used.asks <= MaxAsks => (MaxAsks = 0 => used.asks = 0)
  BY DEF TypeOK, OpTypes
<1>. QED BY <1>1, <1>2, <1>3, Invariance, ServiceWithoutQueries, PTL DEF Spec
=============================================================================
