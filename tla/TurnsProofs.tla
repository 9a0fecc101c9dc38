---------------------------- MODULE TurnsProofs ----------------------------
(* Proofs about Turns, for every value of its constants.                    *)
EXTENDS Turns, FiniteSetTheorems, TLAPS

\* The daemon starts without turns, requests or followers.
LEMMA InitTyped == Init => TypeOK
<1>. SUFFICES ASSUME Init PROVE TypeOK
  OBVIOUS
<1>. USE DEF Init, Turn, NoTurn
<1>1. ConnTypes BY DEF ConnTypes
<1>2. HandleTypes BY DEF HandleTypes, Phases, Live, Begun
<1>3. MapTypes BY DEF MapTypes
<1>4. StatusTypes BY DEF StatusTypes
<1>5. SentTypes BY DEF SentTypes
<1>. QED BY <1>1, <1>2, <1>3, <1>4, <1>5 DEF TypeOK

\* The dialogs of a turn are finitely many.
LEMMA Counted == ASSUME TypeOK, NEW t \in Turn PROVE Cardinality(dialogs[t]) \in Nat
<1>1. IsFiniteSet(Dialog) BY TurnsAssumption DEF TurnsAssumption
<1>2. dialogs[t] \subseteq Dialog BY DEF TypeOK, HandleTypes
<1>. QED BY <1>1, <1>2, FS_Subset, FS_CardinalityType

\* Counting up, one place of a function at a time.
LEMMA Bumped ==
  ASSUME NEW S, NEW f \in [S -> Nat], NEW x \in S
  PROVE  [f EXCEPT ![x] = @ + 1] \in [S -> Nat]
  OBVIOUS

\* Every begun turn has the request it was claimed for.
LEMMA BegunInfo ==
  ASSUME TypeOK, NEW t \in Turn, phase[t] # "unused"
  PROVE  info[t] \in Request /\ info[t].conv \in Conv /\ info[t].client \in Conn
         /\ info[t].keep \in BOOLEAN /\ info[t].edit \in BOOLEAN
  BY DEF TypeOK, HandleTypes, Begun, Request

\* publish advances the ring and at most the live reader.
LEMMA PublishTyped ==
  ASSUME TypeOK, NEW t \in Turn, NEW n \in Nat, Publish(t, n)
  PROVE  seq' \in [Turn -> Nat] /\ got' \in [Conn -> [Turn -> Nat]]
  BY DEF TypeOK, HandleTypes, SentTypes, Publish, GotUpTo

\* turn.end is sent to connections that wait for one.
LEMMA SendEndTyped ==
  ASSUME TypeOK, NEW t \in Turn, NEW R
  PROVE  SendEnd(t, R) \in [Conn -> [Turn -> {"none", "due", "sent", "twice"}]]
  BY DEF TypeOK, SentTypes, SendEnd, EndSent

\* The pump goes on to a phase of the same turn.
LEMMA PumpNextTyped ==
  ASSUME TypeOK, NEW t \in Turn, NEW next \in Live, PumpNext(t, next)
  PROVE  /\ phase' \in [Turn -> Phases] /\ waiter' \in [Turn -> Conn \cup {NoConn}]
         /\ phase[t] # "unused" => \A u \in Turn : phase'[u] # "unused" => phase[u] # "unused"
  BY DEF TypeOK, HandleTypes, MapTypes, PumpNext, Phases, Live

\* finish leaves turn ids in the maps of the TurnManager.
LEMMA FinishMapsTyped ==
  ASSUME TypeOK, NEW t \in Turn, phase[t] # "unused", FinishMaps(t)
  PROVE  /\ inTurns' \subseteq Turn
         /\ byConv' \in [Conv -> Turn \cup {NoTurn}] /\ last' \in [Conv -> Turn \cup {NoTurn}]
  BY BegunInfo DEF TypeOK, MapTypes, FinishMaps, Newest

\* #detached keeps the types of turns, dialogs and the status queue.
LEMMA UnattendedTyped ==
  ASSUME TypeOK, NEW T \in SUBSET Turn, NEW E \in SUBSET Turn, Unattended(T, E)
  PROVE  /\ aborted' \subseteq Turn /\ seq' \in [Turn -> Nat]
         /\ dialogs' \in [Turn -> SUBSET Dialog] /\ answered' \in [Turn -> SUBSET Dialog]
         /\ detachQueued' \in [Turn -> Nat]
<1>. USE DEF TypeOK, HandleTypes, StatusTypes, Unattended
<1>1. aborted' \subseteq Turn
  OBVIOUS
<1>2. seq' \in [Turn -> Nat]
  <2>1. \A t \in Turn : Cardinality(dialogs[t]) \in Nat
    BY Counted
  <2>2. seq \in [Turn -> Nat] /\ CancelDialogs(T)
    OBVIOUS
  <2>. QED BY ONLY <2>1, <2>2 DEF CancelDialogs
<1>3. dialogs' \in [Turn -> SUBSET Dialog] /\ answered' \in [Turn -> SUBSET Dialog]
  BY DEF CancelDialogs
<1>4. detachQueued' \in [Turn -> Nat]
  <2>1. detachQueued \in [Turn -> Nat] /\ QueueDetachStatus(T)
    OBVIOUS
  <2>. QED BY ONLY <2>1 DEF QueueDetachStatus
<1>. QED BY <1>1, <1>2, <1>3, <1>4

\* releaseConnection keeps the types of what it changes.
LEMMA ReleaseTyped ==
  ASSUME TypeOK, NEW c \in Conn, Release(c)
  PROVE  /\ aborted' \subseteq Turn /\ seq' \in [Turn -> Nat]
         /\ dialogs' \in [Turn -> SUBSET Dialog] /\ answered' \in [Turn -> SUBSET Dialog]
         /\ detachQueued' \in [Turn -> Nat]
         /\ owned' \in [Turn -> Conn \cup {NoConn}]
         /\ detached' \subseteq Turn /\ inTurns' \subseteq Turn
<1>1. PICK T \in SUBSET Turn, E \in SUBSET Turn : Unattended(T, E)
  BY DEF Release, TypeOK, MapTypes
<1>. QED BY <1>1, UnattendedTyped DEF TypeOK, HandleTypes, MapTypes, Release

\* Every handler and every step of the pump keeps the types.
THEOREM TypeNext == TypeOK /\ [Next]_vars => TypeOK'
<1>. SUFFICES ASSUME TypeOK, [Next]_vars PROVE TypeOK'
  OBVIOUS
<1>. USE DEF TypeOK, ConnTypes, HandleTypes, MapTypes, StatusTypes, SentTypes, Begun,
     vars, connVars, handleVars, ctlVars, mapVars, statusVars, sentVars
<1>1. ASSUME NEW c \in Conn, Block(c) \/ Drain(c) PROVE TypeOK'
  BY <1>1 DEF Block, Drain
<1>2. ASSUME NEW c \in Conn, Close(c) PROVE TypeOK'
  BY <1>2, ReleaseTyped DEF Close
<1>3. ASSUME NEW r \in Request, StartRequest(r.client, r) PROVE TypeOK'
  <2>1. r.client \in Conn BY DEF Request
  <2>2. uses' \in [Conn -> Nat] BY <1>3, <2>1, Bumped DEF StartRequest
  <2>. QED BY <1>3, <2>1, <2>2 DEF StartRequest
<1>4. ASSUME NEW c \in Conn, NEW t \in Turn, Follow(c, t) PROVE TypeOK'
  <2>1. ShellOf[c] \in Shell BY TurnsAssumption DEF TurnsAssumption
  <2>2. ConnTypes' BY <1>4, Bumped DEF Follow
  <2>3. HandleTypes' BY <1>4 DEF Follow
  <2>4. MapTypes' BY <1>4 DEF Follow
  <2>5. StatusTypes' BY <1>4, <2>1 DEF Follow
  <2>6. SentTypes' BY <1>4 DEF Follow
  <2>. QED BY <2>2, <2>3, <2>4, <2>5, <2>6
<1>5. ASSUME NEW c \in Conn, NEW t \in Turn, Detach(c, t) PROVE TypeOK'
  <2>1. PICK E \in SUBSET Turn : Unattended({t}, E)
    BY <1>5 DEF Detach
  <2>. QED BY <1>5, <2>1, UnattendedTyped DEF Detach
<1>6. ASSUME NEW c \in Conn, NEW t \in Turn, Abort(c, t) PROVE TypeOK'
  BY <1>6 DEF Abort
<1>7. ASSUME NEW t \in Turn, NEW d \in Dialog, NEW warm \in BOOLEAN, UiRespond(t, d, warm)
      PROVE TypeOK'
  BY <1>7 DEF UiRespond
<1>8. ASSUME NEW t \in Turn, AgentEvent(t) PROVE TypeOK'
  BY <1>8, PublishTyped, PumpNextTyped DEF AgentEvent, Live
<1>9. ASSUME NEW t \in Turn, NEW d \in Dialog, AgentAsks(t, d) PROVE TypeOK'
  BY <1>9, PublishTyped, PumpNextTyped DEF AgentAsks, Live
<1>10. ASSUME NEW t \in Turn, NEW d \in Dialog, NEW stuck \in BOOLEAN, AgentAsksNobody(t, d, stuck)
       PROVE TypeOK'
  BY <1>10, PublishTyped DEF AgentAsksNobody
<1>11. ASSUME NEW r \in req, Refuse(r) PROVE TypeOK'
  BY <1>11 DEF Refuse
<1>12. ASSUME NEW r \in req, NEW t \in Turn, Claim(r, t) PROVE TypeOK'
  <2>1. r \in Request /\ r.client \in Conn /\ r.conv \in Conv /\ ShellOf[r.client] \in Shell
    BY TurnsAssumption DEF Request, TurnsAssumption
  <2>2. ConnTypes' BY <1>12 DEF Claim
  <2>3. HandleTypes' BY <1>12, <2>1 DEF Claim, Phases, Live
  <2>4. MapTypes' BY <1>12, <2>1 DEF Claim
  <2>5. StatusTypes' BY <1>12, <2>1 DEF Claim
  <2>6. SentTypes' BY <1>12, <2>1 DEF Claim
  <2>. QED BY <2>2, <2>3, <2>4, <2>5, <2>6
<1>13. ASSUME NEW t \in Turn, StartupDone(t) PROVE TypeOK'
  BY <1>13 DEF StartupDone, Phases, Live
<1>14. ASSUME NEW t \in Turn, StartupFailed(t) PROVE TypeOK'
  BY <1>14, BegunInfo, FinishMapsTyped DEF StartupFailed, Phases, Live
<1>15. ASSUME NEW t \in Turn, NEW s \in Outcomes, Settle(t, s) PROVE TypeOK'
  BY <1>15, PublishTyped, PumpNextTyped, TurnsAssumption DEF Settle, Live, TurnsAssumption
<1>16. ASSUME NEW t \in Turn, StreamThrows(t) PROVE TypeOK'
  BY <1>16, PublishTyped DEF StreamThrows, Phases, Live
<1>17. ASSUME NEW t \in Turn, Writable(t) PROVE TypeOK'
  BY <1>17 DEF Writable, Phases, Live
<1>18. ASSUME NEW t \in Turn, Record(t) PROVE TypeOK'
  BY <1>18, PublishTyped DEF Record, Recorded, RecordFailed, Phases, Live
<1>19. ASSUME NEW t \in Turn, OnDetachStep(t) PROVE TypeOK'
  <2>1. CASE OnDetachBegin(t)
    <3>1. /\ detachQueued \in [Turn -> Nat] /\ detachQueued[t] > 0
          /\ detachQueued' = [detachQueued EXCEPT ![t] = @ - 1]
      BY <2>1 DEF OnDetachBegin, NextDetach
    <3>2. detachQueued' \in [Turn -> Nat] BY ONLY <3>1
    <3>. QED BY <2>1, <3>2 DEF OnDetachBegin
  <2>2. CASE OnDetachEnd(t) BY <2>2 DEF OnDetachEnd
  <2>3. ASSUME NEW s \in Shell, OnDetachWrite(t, s) PROVE TypeOK' BY <2>3 DEF OnDetachWrite
  <2>. QED BY <1>19, <2>1, <2>2, <2>3 DEF OnDetachStep
<1>20. ASSUME NEW t \in Turn, OnEndBegin(t) PROVE TypeOK'
  BY <1>20 DEF OnEndBegin, Phases, Live
<1>21. ASSUME NEW t \in Turn, NEW s \in Shell, OnEndWrite(t, s) PROVE TypeOK'
  BY <1>21 DEF OnEndWrite
<1>22. ASSUME NEW t \in Turn, Finish(t) PROVE TypeOK'
  BY <1>22, PublishTyped, SendEndTyped, FinishMapsTyped DEF Finish, Phases, Live
<1>23. ASSUME NEW t \in Turn, ReplaySend(t) PROVE TypeOK'
  <2>1. cursor' \in [Turn -> Nat] BY <1>23, Bumped DEF ReplaySend
  <2>2. got' \in [Conn -> [Turn -> Nat]] BY <1>23 DEF ReplaySend
  <2>. QED BY <1>23, <2>1, <2>2 DEF ReplaySend
<1>24. ASSUME NEW t \in Turn, ReplayEnd(t) PROVE TypeOK'
  BY <1>24, SendEndTyped DEF ReplayEnd
<1>25. ASSUME NEW t \in Turn, ReplayClosed(t) PROVE TypeOK'
  BY <1>25, ReleaseTyped DEF ReplayClosed
<1>26. CASE Stop
  BY <1>26 DEF Stop, RunningTurns
<1>27. CASE StopStep
  <2>1. CASE Drained BY <2>1 DEF Drained
  <2>2. CASE LockReleased BY <2>2 DEF LockReleased
  <2>3. ASSUME NEW ok \in BOOLEAN, PoolClosed(ok) PROVE TypeOK' BY <2>3 DEF PoolClosed
  <2>. QED BY <1>27, <2>1, <2>2, <2>3 DEF StopStep
<1>28. CASE UNCHANGED vars
  BY <1>28
<1>. HIDE DEF TypeOK, ConnTypes, HandleTypes, MapTypes, StatusTypes, SentTypes, Begun
<1>29. CASE ClientNext
  <2>1. Slow \subseteq Conn BY TurnsAssumption DEF TurnsAssumption
  <2>. QED BY <1>29, <2>1, <1>1, <1>2, <1>3, <1>4, <1>5, <1>6, <1>7 DEF ClientNext
<1>30. CASE AgentNext
  BY <1>30, <1>8, <1>9, <1>10 DEF AgentNext
<1>31. ASSUME NEW r \in req, Resolve(r) PROVE TypeOK'
  BY <1>31, <1>11, <1>12 DEF Resolve
<1>32. ASSUME NEW t \in Turn, Startup(t) \/ StreamEnds(t) \/ Finalize(t) \/ Replay(t)
       PROVE TypeOK'
  BY <1>32, <1>13, <1>14, <1>15, <1>16, <1>20, <1>21, <1>22, <1>23, <1>24, <1>25
  DEF Startup, StreamEnds, Finalize, Replay
<1>. QED
  BY <1>17, <1>18, <1>19, <1>26, <1>27, <1>28, <1>29, <1>30, <1>31, <1>32 DEF Next

\* Every state the daemon can be in is typed.
THEOREM Typed == Spec => []TypeOK
  BY InitTyped, TypeNext, PTL DEF Spec

-----------------------------------------------------------------------------
(* Twelve kinds of step.  Most actions move one turn from a phase to the next *)
(* or publish; what the others do to ownership and delivery is their own.     *)

SameStages ==
    \A t \in Turn :
        /\ phase'[t] \in Live <=> phase[t] \in Live
        /\ phase'[t] = "unused" <=> phase[t] = "unused"
        /\ phase'[t] = "finished" <=> phase[t] = "finished"
        /\ phase'[t] = "failed" <=> phase[t] = "failed"

Calm ==
    /\ SameStages /\ aborted \subseteq aborted'
    /\ UNCHANGED <<open, info, inTurns, byConv, last, owned, detached, replaying, cursor, end>>
    /\ \A t \in Turn : t \in detached \/ phase[t] = "unused" => dialogs'[t] \subseteq dialogs[t]

Quiet == Calm /\ UNCHANGED <<seq, got>>
Publishes(t) == Calm /\ Unfinished(t) /\ \E n \in Nat : Publish(t, n)

\* A step that changes no phase changes no stage of a turn.
LEMMA SamePhase == phase' = phase => SameStages
  BY DEF SameStages

\* Going from one phase of an unfinished turn to another changes no stage.
LEMMA NextPhase ==
  ASSUME TypeOK, NEW t \in Turn, phase[t] \in Live,
         NEW next \in Live, phase' = [phase EXCEPT ![t] = next]
  PROVE  SameStages
<1>1. \A u \in Turn : phase'[u] = IF u = t THEN next ELSE phase[u]
  BY DEF TypeOK, HandleTypes
<1>. QED BY <1>1 DEF SameStages, Live

\* Steps that publish nothing and change no owner.
LEMMA QuietSteps ==
  ASSUME TypeOK, NEW t \in Turn,
         \/ StartupDone(t) \/ Writable(t) \/ Recorded(t) \/ OnDetachStep(t) \/ OnEndBegin(t)
         \/ \E s \in Shell : OnEndWrite(t, s)
         \/ \E d \in Dialog, warm \in BOOLEAN : UiRespond(t, d, warm)
         \/ \E c \in Conn : Abort(c, t)
  PROVE  Quiet
<1>. USE DEF Quiet, Calm, connVars, handleVars, ctlVars, mapVars, statusVars, sentVars
<1>1. CASE StartupDone(t) BY <1>1, NextPhase DEF StartupDone, Live
<1>2. CASE Writable(t) BY <1>2, NextPhase DEF Writable, Live
<1>3. CASE Recorded(t) BY <1>3, NextPhase DEF Recorded, Live
<1>4. CASE OnDetachStep(t)
  BY <1>4, SamePhase DEF OnDetachStep, OnDetachBegin, OnDetachWrite, OnDetachEnd
<1>5. CASE OnEndBegin(t) BY <1>5, NextPhase DEF OnEndBegin, Live
<1>6. ASSUME NEW s \in Shell, OnEndWrite(t, s) PROVE Quiet BY <1>6, SamePhase DEF OnEndWrite
<1>7. ASSUME NEW d \in Dialog, NEW warm \in BOOLEAN, UiRespond(t, d, warm) PROVE Quiet
  BY <1>7, SamePhase DEF UiRespond, TypeOK, HandleTypes
<1>8. ASSUME NEW c \in Conn, Abort(c, t) PROVE Quiet BY <1>8, SamePhase DEF Abort
<1>. QED BY <1>1, <1>2, <1>3, <1>4, <1>5, <1>6, <1>7, <1>8

\* Steps of the agent stream publish to the ring of one turn, or nothing.
LEMMA PublishingSteps ==
  ASSUME TypeOK, NEW t \in Turn,
         \/ AgentEvent(t) \/ StreamThrows(t) \/ RecordFailed(t)
         \/ \E s \in Outcomes : Settle(t, s)
         \/ \E d \in Dialog : AgentAsks(t, d)
         \/ \E d \in Dialog, stuck \in BOOLEAN : AgentAsksNobody(t, d, stuck)
  PROVE  Publishes(t) \/ Quiet
<1>. USE DEF Publishes, Quiet, Calm, connVars, handleVars, ctlVars, mapVars, statusVars, sentVars
<1>1. CASE AgentEvent(t) BY <1>1, NextPhase DEF AgentEvent, PumpNext, Unfinished, Live
<1>2. CASE StreamThrows(t) BY <1>2, NextPhase DEF StreamThrows, Unfinished, Live
<1>3. CASE RecordFailed(t) BY <1>3, NextPhase DEF RecordFailed, Unfinished, Live
<1>4. ASSUME NEW s \in Outcomes, Settle(t, s) PROVE Publishes(t) \/ Quiet
  BY <1>4, NextPhase DEF Settle, PumpNext, Unfinished, Live
<1>5. ASSUME NEW d \in Dialog, AgentAsks(t, d) PROVE Publishes(t)
  <2>1. \A u \in Turn : u \in detached \/ phase[u] = "unused" => dialogs'[u] \subseteq dialogs[u]
    BY <1>5 DEF AgentAsks, TypeOK, HandleTypes
  <2>. QED BY <1>5, <2>1, NextPhase DEF AgentAsks, PumpNext, Unfinished, Live
<1>6. ASSUME NEW d \in Dialog, NEW stuck \in BOOLEAN, AgentAsksNobody(t, d, stuck)
      PROVE Publishes(t)
  BY <1>6, SamePhase DEF AgentAsksNobody, Unfinished, Live
<1>. QED BY <1>1, <1>2, <1>3, <1>4, <1>5, <1>6

\* Every step is of one of these kinds.
LEMMA StepKinds ==
  ASSUME TypeOK, [Next]_vars
  PROVE  \/ Quiet \/ Drained
         \/ \E t \in Turn : Publishes(t) \/ StartupFailed(t) \/ Finish(t)
         \/ \E t \in Turn : ReplaySend(t) \/ ReplayEnd(t) \/ ReplayClosed(t)
         \/ \E c \in Conn : Close(c)
         \/ \E c \in Conn, t \in Turn : Follow(c, t) \/ Detach(c, t)
         \/ \E r \in req, t \in Turn : Claim(r, t)
<1>1. ASSUME \/ UNCHANGED vars \/ Stop \/ LockReleased \/ \E ok \in BOOLEAN : PoolClosed(ok)
             \/ \E c \in Slow : Block(c) \/ Drain(c)
             \/ \E r \in Request : StartRequest(r.client, r)
             \/ \E r \in req : Refuse(r)
      PROVE  Quiet
  BY <1>1, SamePhase DEF Quiet, Calm, vars, connVars, handleVars, ctlVars,
     mapVars, statusVars, sentVars, Stop, LockReleased, PoolClosed, Block, Drain, StartRequest,
     Refuse
<1>2. CASE ClientNext BY <1>1, <1>2, QuietSteps DEF ClientNext
<1>3. CASE AgentNext BY <1>3, PublishingSteps DEF AgentNext
<1>4. ASSUME NEW r \in req, Resolve(r)
      PROVE  Quiet \/ \E t \in Turn : Claim(r, t)
  BY <1>1, <1>4 DEF Resolve
<1>5. ASSUME NEW t \in Turn,
             Startup(t) \/ StreamEnds(t) \/ Writable(t) \/ Record(t) \/ OnDetachStep(t) \/ Finalize(t)
      PROVE  Quiet \/ Publishes(t) \/ StartupFailed(t) \/ Finish(t)
  BY <1>5, QuietSteps, PublishingSteps DEF Startup, StreamEnds, Record, Finalize
<1>6. CASE StopStep BY <1>1, <1>6 DEF StopStep
<1>. QED BY <1>1, <1>2, <1>3, <1>4, <1>5, <1>6 DEF Next, Replay

-----------------------------------------------------------------------------
(* One turn per conversation.                                               *)

\* No conversation is busy at first.
LEMMA BusyInit == Init => BusyIsExact
<1>1. \A t \in Turn : t # NoTurn
  BY DEF Turn, NoTurn
<1>2. ASSUME Init PROVE /\ \A t \in Turn : ~Unfinished(t)
                        /\ \A k \in Conv : byConv[k] = NoTurn
  BY <1>2 DEF Init, Unfinished, Live
<1>. QED BY <1>1, <1>2 DEF BusyIsExact

\* start marks the conversation busy, finish and a failed startup free it.
LEMMA BusyNext == TypeOK /\ BusyIsExact /\ [Next]_vars => BusyIsExact'
<1>. SUFFICES ASSUME TypeOK, BusyIsExact, [Next]_vars PROVE BusyIsExact'
  OBVIOUS
<1>1. ASSUME SameStages, byConv' = byConv, info' = info PROVE BusyIsExact'
  BY <1>1 DEF BusyIsExact, SameStages, Unfinished
<1>2. ASSUME \/ Quiet \/ Drained \/ \E t \in Turn : Publishes(t)
             \/ \E t \in Turn : ReplaySend(t) \/ ReplayEnd(t) \/ ReplayClosed(t)
             \/ \E c \in Conn : Close(c)
             \/ \E c \in Conn, t \in Turn : Follow(c, t) \/ Detach(c, t)
      PROVE  BusyIsExact'
  <2>1. CASE Quiet \/ \E t \in Turn : Publishes(t)
    BY <1>1, <2>1 DEF Quiet, Publishes, Calm
  <2>2. CASE ~(Quiet \/ \E t \in Turn : Publishes(t))
    <3>1. phase' = phase /\ byConv' = byConv /\ info' = info
      <4>1. CASE Drained
        BY <4>1 DEF Drained, handleVars, mapVars
      <4>2. CASE \E t \in Turn : ReplaySend(t) \/ ReplayEnd(t) \/ ReplayClosed(t)
        BY <4>2 DEF ReplaySend, ReplayEnd, ReplayClosed, handleVars, mapVars
      <4>3. CASE \E c \in Conn : Close(c)
        BY <4>3 DEF Close, handleVars, mapVars
      <4>4. CASE \E c \in Conn, t \in Turn : Follow(c, t) \/ Detach(c, t)
        BY <4>4 DEF Follow, Detach, handleVars, mapVars
      <4>. QED BY <1>2, <2>2, <4>1, <4>2, <4>3, <4>4
    <3>. QED BY <1>1, <3>1, SamePhase
  <2>. QED BY <2>1, <2>2
<1>3. ASSUME NEW r \in req, NEW t \in Turn, Claim(r, t) PROVE BusyIsExact'
  <2>1. r \in Request /\ r.conv \in Conv
    BY DEF TypeOK, ConnTypes, Request
  <2>2. byConv[r.conv] = NoTurn
    BY <1>3, <2>1 DEF Claim, Busy, BusyIsExact, Unfinished, TypeOK, MapTypes
  <2>3. phase[t] = "unused" /\ byConv' = [byConv EXCEPT ![r.conv] = t]
        /\ \A u \in Turn : /\ phase'[u] = IF u = t THEN "startup" ELSE phase[u]
                           /\ info'[u] = IF u = t THEN r ELSE info[u]
    BY <1>3 DEF Claim, TypeOK, HandleTypes
  <2>4. \A u \in Turn : u # NoTurn
    BY DEF Turn, NoTurn
  <2>. QED
    BY <2>1, <2>2, <2>3, <2>4 DEF BusyIsExact, Unfinished, Live, TypeOK, MapTypes
<1>4. ASSUME NEW t \in Turn, StartupFailed(t) \/ Finish(t) PROVE BusyIsExact'
  <2>1. phase[t] \in Live /\ phase[t] # "unused" /\ info' = info
    BY <1>4 DEF StartupFailed, Finish, connVars, Live
  <2>2. info[t].conv \in Conv /\ byConv[info[t].conv] = t
    BY <2>1, BegunInfo DEF BusyIsExact, Unfinished
  <2>3. byConv' = [byConv EXCEPT ![info[t].conv] = NoTurn]
        /\ phase' \in {[phase EXCEPT ![t] = "failed"], [phase EXCEPT ![t] = "finished"]}
    BY <1>4, <2>2 DEF StartupFailed, Finish, FinishMaps
  <2>4. \A u \in Turn : u # NoTurn
    BY DEF Turn, NoTurn
  <2>. QED
    BY <2>1, <2>2, <2>3, <2>4
    DEF BusyIsExact, Unfinished, Live, TypeOK, MapTypes, HandleTypes
<1>. QED BY <1>2, <1>3, <1>4, StepKinds

\* No conversation ever has two unfinished turns, and the busy map names
\* exactly the unfinished ones.
THEOREM Busyness == Spec => []BusyIsExact
  BY InitTyped, TypeNext, BusyInit, BusyNext, PTL DEF Spec

-----------------------------------------------------------------------------
(* Nobody's turn runs on unwatched, and a detached one asks nobody.         *)

\* No turn, so none without an owner.
LEMMA AttendedInit == Init => Attended
<1>. SUFFICES ASSUME Init, NEW t \in Turn PROVE AttendedTurn(t)
  BY DEF Attended
<1>. QED BY DEF Init, AttendedTurn, Live

\* What the strengthened invariant says of unowned turns.
LEMMA AttendedImplies ==
  TypeOK /\ Attended => UnownedIsDetachedOrAborted /\ DetachedTurnAsksNobody
  BY DEF Attended, AttendedTurn, UnownedIsDetachedOrAborted, DetachedTurnAsksNobody, Unfinished,
     TypeOK, HandleTypes

\* What releasing a connection leaves of the turns it owned.
LEMMA ReleaseEffect ==
  ASSUME TypeOK, NEW c \in Conn, Release(c)
  PROVE  /\ aborted \subseteq aborted'
         /\ \A t \in Turn : seq'[t] \in Nat /\ seq'[t] >= seq[t]
         /\ \A t \in Turn : owned[t] # c =>
                /\ owned'[t] = owned[t] /\ dialogs'[t] = dialogs[t] /\ seq'[t] = seq[t]
                /\ t \in detached' <=> t \in detached
                /\ t \in inTurns' <=> t \in inTurns
         /\ \A t \in Turn : owned[t] = c => owned'[t] = NoConn
         /\ \A t \in Turn : owned[t] = c /\ t \in inTurns =>
                \/ t \in detached' /\ t \in inTurns' /\ dialogs'[t] = {}
                \/ t \in aborted' /\ dialogs'[t] = dialogs[t] /\ (t \in detached' => t \in detached)
         /\ \A t \in Turn : owned[t] = c /\ t \notin inTurns =>
                dialogs'[t] = dialogs[t] /\ (t \in detached' => t \in detached)
<1>. DEFINE mine == {t \in Turn : owned[t] = c}
            kept == {t \in mine \cap inTurns : info[t].keep}
            stopped == (mine \cap inTurns) \ kept
<1>1. PICK E \in SUBSET Turn : stopped \subseteq E /\ Unattended(kept, E)
  BY DEF Release, TypeOK, MapTypes
<1>2. /\ owned' = [t \in Turn |-> IF t \in mine THEN NoConn ELSE owned[t]]
      /\ detached' = detached \cup kept /\ inTurns' = inTurns \ stopped
  BY DEF Release
<1>3. /\ aborted' = aborted \cup E
      /\ dialogs' = [t \in Turn |-> IF t \in kept THEN {} ELSE dialogs[t]]
      /\ seq' = [t \in Turn |-> IF t \in kept THEN seq[t] + Cardinality(dialogs[t]) ELSE seq[t]]
  BY <1>1 DEF Unattended, CancelDialogs
<1>4. \A t \in Turn : seq'[t] \in Nat /\ seq'[t] >= seq[t]
  <2>1. \A t \in Turn : seq[t] \in Nat /\ Cardinality(dialogs[t]) \in Nat
    BY Counted DEF TypeOK, HandleTypes
  <2>. QED BY ONLY <1>3, <2>1
<1>. QED BY <1>1, <1>2, <1>3, <1>4

\* A turn loses its owner only by being detached or aborted, with its dialogs.
LEMMA AttendedNext == TypeOK /\ Attended /\ [Next]_vars => Attended'
<1>. SUFFICES ASSUME TypeOK, Attended, [Next]_vars, NEW u \in Turn PROVE AttendedTurn(u)'
  BY DEF Attended
<1>. USE DEF AttendedTurn
<1>0. AttendedTurn(u)
  BY DEF Attended
<1>1. CASE Quiet \/ \E t \in Turn : Publishes(t)
  <2>1. Calm BY <1>1 DEF Quiet, Publishes
  <2>. QED BY <1>0, <2>1 DEF Calm, SameStages, Live
<1>2. ASSUME NEW t \in Turn, StartupFailed(t) \/ Finish(t) PROVE AttendedTurn(u)'
  <2>1. /\ u # t => phase'[u] = phase[u] /\ owned'[u] = owned[u] /\ (u \in inTurns' <=> u \in inTurns)
        /\ phase'[t] \in {"finished", "failed"}
        /\ detached' = detached /\ aborted' = aborted /\ dialogs' = dialogs
    BY <1>2 DEF StartupFailed, Finish, FinishMaps, ctlVars, TypeOK, HandleTypes, MapTypes
  <2>. QED BY <1>0, <2>1 DEF Live
<1>3. ASSUME NEW t \in Turn, ReplaySend(t) \/ ReplayEnd(t) PROVE AttendedTurn(u)'
  BY <1>0, <1>3 DEF ReplaySend, ReplayEnd, ctlVars, mapVars, handleVars
<1>4. ASSUME NEW c \in Conn, Release(c), phase' = phase PROVE AttendedTurn(u)'
  <2>1. CASE owned[u] # c
    BY <1>0, <1>4, <2>1, ReleaseEffect
  <2>2. CASE owned[u] = c
    BY <1>0, <1>4, <2>2, ReleaseEffect, TurnsAssumption DEF TurnsAssumption, Live
  <2>. QED BY <2>1, <2>2
<1>5. ASSUME NEW c \in Conn, NEW t \in Turn, Follow(c, t) PROVE AttendedTurn(u)'
  <2>1. /\ phase' = phase /\ inTurns' = inTurns /\ aborted' = aborted /\ dialogs' = dialogs
        /\ detached' = IF phase[t] \in Live THEN detached \ {t} ELSE detached
        /\ owned' = IF phase[t] \in Live THEN [owned EXCEPT ![t] = c] ELSE owned
    BY <1>5 DEF Follow, Unfinished, handleVars, mapVars
  <2>2. owned'[u] = IF phase[t] \in Live /\ u = t THEN c ELSE owned[u]
    BY <2>1 DEF TypeOK, MapTypes
  <2>. QED BY <1>0, <2>1, <2>2, TurnsAssumption DEF TurnsAssumption, Live
<1>6. ASSUME NEW c \in Conn, NEW t \in Turn, Detach(c, t) PROVE AttendedTurn(u)'
  <2>1. /\ phase' = phase /\ inTurns' = inTurns /\ aborted \subseteq aborted'
        /\ dialogs'[u] = IF u = t THEN {} ELSE dialogs[u]
        /\ owned'[u] = IF u = t THEN NoConn ELSE owned[u]
        /\ detached' = detached \cup {t} /\ owned[t] = c
    BY <1>6 DEF Detach, Unattended, CancelDialogs, handleVars, mapVars, TypeOK, MapTypes
  <2>. QED BY <1>0, <2>1, TurnsAssumption DEF TurnsAssumption, Live
<1>7. ASSUME NEW r \in req, NEW t \in Turn, Claim(r, t) PROVE AttendedTurn(u)'
  <2>1. /\ phase[t] = "unused" /\ detached' = detached /\ aborted' = aborted /\ dialogs' = dialogs
        /\ phase'[u] = IF u = t THEN "startup" ELSE phase[u]
        /\ owned'[u] = IF u = t THEN r.client ELSE owned[u]
        /\ inTurns' = inTurns \cup {t}
    BY <1>7 DEF Claim, ctlVars, TypeOK, MapTypes, HandleTypes
  <2>2. r.client # NoConn
    BY TurnsAssumption DEF TurnsAssumption, TypeOK, ConnTypes, Request
  <2>. QED BY <1>0, <2>1, <2>2 DEF Live
<1>8. CASE Drained
  BY <1>0, <1>8 DEF Drained, ctlVars, mapVars, handleVars
<1>9. ASSUME NEW c \in Conn, Close(c) PROVE AttendedTurn(u)'
  BY <1>4, <1>9 DEF Close, handleVars
<1>10. ASSUME NEW t \in Turn, ReplayClosed(t) PROVE AttendedTurn(u)'
  BY <1>4, <1>10 DEF ReplayClosed, handleVars
<1>. QED BY <1>1, <1>2, <1>3, <1>5, <1>6, <1>7, <1>8, <1>9, <1>10, StepKinds

\* An unfinished turn that nobody owns is detached or on its way to an abort.
THEOREM NobodysTurnIsDetachedOrAborted == Spec => []UnownedIsDetachedOrAborted
  BY InitTyped, TypeNext, AttendedInit, AttendedNext, AttendedImplies, PTL DEF Spec

\* A detached turn has no dialog open.
THEOREM DetachedAsksNobody == Spec => []DetachedTurnAsksNobody
  BY InitTyped, TypeNext, AttendedInit, AttendedNext, AttendedImplies, PTL DEF Spec

\* A step never takes an unfinished turn from one connected client and gives
\* it to another.
THEOREM NobodyIsRobbed == Spec => NoTheft
<1>. DEFINE Kept == \A t \in Turn : Unfinished(t) /\ owned[t] \in Conn /\ owned'[t] # owned[t]
                                    /\ owned'[t] \in Conn => ~open[owned[t]]
<1>1. TypeOK /\ [Next]_vars => Kept
  <2>. SUFFICES ASSUME TypeOK, [Next]_vars,
                       NEW u \in Turn, Unfinished(u), owned[u] \in Conn,
                       owned'[u] # owned[u], owned'[u] \in Conn
                PROVE  ~open[owned[u]]
    OBVIOUS
  <2>1. NoConn \notin Conn
    BY TurnsAssumption DEF TurnsAssumption
  <2>2. CASE Quiet \/ Drained \/ \E t \in Turn : Publishes(t) \/ ReplaySend(t) \/ ReplayEnd(t)
    BY <2>2 DEF Quiet, Publishes, Calm, Drained, ReplaySend, ReplayEnd
  <2>3. ASSUME NEW t \in Turn, StartupFailed(t) \/ Finish(t) PROVE FALSE
    BY <2>1, <2>3 DEF StartupFailed, Finish, TypeOK, MapTypes
  <2>4. ASSUME NEW c \in Conn, Release(c) PROVE FALSE
    BY <2>1, <2>4, ReleaseEffect
  <2>5. ASSUME NEW c \in Conn, NEW t \in Turn, Detach(c, t) PROVE FALSE
    BY <2>1, <2>5 DEF Detach, TypeOK, MapTypes
  <2>6. ASSUME NEW r \in req, NEW t \in Turn, Claim(r, t) PROVE FALSE
    <3>1. phase[t] = "unused" /\ owned' = [owned EXCEPT ![t] = r.client]
      BY <2>6 DEF Claim
    <3>. QED BY <3>1 DEF Unfinished, Live, TypeOK, MapTypes
  <2>7. ASSUME NEW c \in Conn, NEW t \in Turn, Follow(c, t) PROVE ~open[owned[u]]
    <3>1. Unfinished(t) /\ u = t /\ owned'[u] = c
      BY <2>7 DEF Follow, TypeOK, MapTypes
    <3>. QED BY <2>7, <3>1 DEF Follow, MayFollow
  <2>. QED
    BY <2>2, <2>3, <2>4, <2>5, <2>6, <2>7, StepKinds DEF Close, ReplayClosed
<1>2. Kept => [Kept]_vars
  OBVIOUS
<1>. QED BY <1>1, InitTyped, TypeNext, PTL DEF Spec, NoTheft

-----------------------------------------------------------------------------
(* Shutdown.                                                                *)

\* Once the turns have drained, requests are only answered, never accepted.
LEMMA DaemonSteps ==
  ASSUME TypeOK, [Next]_vars, daemon' \in {"closed", "released"}
  PROVE  Drained \/ (daemon \in {"closed", "released"} /\ req' \subseteq req)
<1>. USE DEF connVars
<1>1. CASE ClientNext
  <2>1. ASSUME NEW c \in Conn, Block(c) \/ Drain(c) \/ Close(c)
        PROVE  daemon' = daemon /\ req' = req
    BY <2>1 DEF Block, Drain, Close
  <2>2. ASSUME NEW c \in Conn, NEW t \in Turn, Follow(c, t) \/ Detach(c, t) \/ Abort(c, t)
        PROVE  daemon' = daemon /\ req' = req
    BY <2>2 DEF Follow, Detach, Abort
  <2>3. ASSUME NEW t \in Turn, NEW d \in Dialog, NEW warm \in BOOLEAN, UiRespond(t, d, warm)
        PROVE  daemon' = daemon /\ req' = req
    BY <2>3 DEF UiRespond
  <2>4. ASSUME NEW r \in Request, StartRequest(r.client, r) PROVE FALSE
    BY <2>4 DEF StartRequest
  <2>5. Slow \subseteq Conn
    BY TurnsAssumption DEF TurnsAssumption
  <2>. QED BY <1>1, <2>1, <2>2, <2>3, <2>4, <2>5 DEF ClientNext
<1>2. CASE AgentNext
  BY <1>2 DEF AgentNext, AgentEvent, AgentAsks, AgentAsksNobody
<1>3. ASSUME NEW t \in Turn, Startup(t) \/ StreamEnds(t) \/ Writable(t) \/ Record(t)
      PROVE  daemon' = daemon /\ req' = req
  BY <1>3 DEF Startup, StartupDone, StartupFailed, StreamEnds, StreamThrows, Settle, Writable,
     Record, Recorded, RecordFailed
<1>4. ASSUME NEW t \in Turn, OnDetachStep(t) \/ Finalize(t) \/ Replay(t)
      PROVE  daemon' = daemon /\ req' = req
  BY <1>4 DEF OnDetachStep, OnDetachBegin, OnDetachEnd, OnDetachWrite, Finalize, OnEndBegin,
     Finish, OnEndWrite, Replay, ReplaySend, ReplayEnd, ReplayClosed
<1>5. ASSUME NEW r \in req, Resolve(r) PROVE daemon' = daemon /\ req' \subseteq req
  BY <1>5 DEF Resolve, Refuse, Claim
<1>6. CASE Stop \/ StopStep
  <2>1. CASE Stop BY <2>1 DEF Stop
  <2>2. CASE LockReleased BY <2>2 DEF LockReleased
  <2>3. ASSUME NEW ok \in BOOLEAN, PoolClosed(ok) PROVE FALSE BY <2>3 DEF PoolClosed
  <2>. QED BY <1>6, <2>1, <2>2, <2>3 DEF StopStep
<1>7. CASE UNCHANGED vars
  BY <1>7 DEF vars
<1>. QED BY <1>1, <1>2, <1>3, <1>4, <1>5, <1>6, <1>7 DEF Next

\* The lock is released only after every turn's promise has settled.
LEMMA DrainedNext == TypeOK /\ DrainedBeforeUnlock /\ [Next]_vars => DrainedBeforeUnlock'
<1>. SUFFICES ASSUME TypeOK, DrainedBeforeUnlock, [Next]_vars, daemon' \in {"closed", "released"}
              PROVE  PendingDone'
  BY DEF DrainedBeforeUnlock, PendingDone
<1>1. CASE Drained
  BY <1>1 DEF Drained, PendingDone, Unfinished, handleVars
<1>2. CASE ~Drained
  <2>1. daemon \in {"closed", "released"} /\ req = {} /\ req' = {} /\ \A t \in Turn : phase[t] \notin Live
    BY <1>2, DaemonSteps DEF DrainedBeforeUnlock, Unfinished
  <2>2. CASE Quiet
    BY <2>1, <2>2 DEF Quiet, Calm, SameStages, PendingDone, Unfinished
  <2>3. ASSUME NEW t \in Turn, Publishes(t) \/ StartupFailed(t) \/ Finish(t) PROVE FALSE
    BY <2>1, <2>3 DEF Publishes, StartupFailed, Finish, Unfinished, Live
  <2>4. CASE phase' = phase
    BY <2>1, <2>4 DEF PendingDone, Unfinished
  <2>5. ASSUME NEW c \in Conn, Close(c) PROVE phase' = phase
    BY <2>5 DEF Close, handleVars
  <2>7. ASSUME NEW c \in Conn, NEW t \in Turn, Follow(c, t) \/ Detach(c, t) PROVE phase' = phase
    BY <2>7 DEF Follow, Detach, handleVars
  <2>8. ASSUME NEW t \in Turn, ReplaySend(t) \/ ReplayEnd(t) \/ ReplayClosed(t)
        PROVE  phase' = phase
    BY <2>8 DEF ReplaySend, ReplayEnd, ReplayClosed, handleVars
  <2>6. ASSUME NEW r \in req, NEW t \in Turn, Claim(r, t) PROVE FALSE
    BY <2>1, <2>6
  <2>. QED BY <1>2, <2>2, <2>3, <2>4, <2>5, <2>6, <2>7, <2>8, StepKinds
<1>. QED BY <1>1, <1>2

\* The lock is released only when no turn has an outcome to write.
THEOREM LockOutlivesTurns == Spec => []DrainedBeforeUnlock
<1>1. Init => DrainedBeforeUnlock
  BY DEF Init, DrainedBeforeUnlock
<1>. QED BY <1>1, InitTyped, TypeNext, DrainedNext, PTL DEF Spec

-----------------------------------------------------------------------------
(* Delivery: what one connection has been sent, and is owed, of one turn.   *)

\* Nobody follows anything at first.
LEMMA ServedInit == Init => AllServed /\ LastEnded
<1>. SUFFICES ASSUME Init PROVE AllServed /\ LastEnded
  OBVIOUS
<1>1. ASSUME NEW t \in Turn, NEW c \in Conn PROVE Served(t, c)
  BY TurnsAssumption DEF Init, Served, Live, TurnsAssumption
<1>2. LastEnded
  BY DEF Init, LastEnded
<1>. QED BY <1>1, <1>2 DEF AllServed

\* What the strengthened invariant says of followers and their turn.end.
LEMMA ServedImplies ==
  TypeOK /\ AllServed => FollowerIsUpToDate /\ EndComesLastAndOnce /\ EndIsNotLost
<1>. SUFFICES ASSUME TypeOK, AllServed PROVE FollowerIsUpToDate /\ EndComesLastAndOnce /\ EndIsNotLost
  OBVIOUS
<1>. USE DEF AllServed, Served
<1>1. FollowerIsUpToDate
  BY DEF FollowerIsUpToDate, LiveReader, Unfinished
<1>2. EndComesLastAndOnce
  BY DEF EndComesLastAndOnce
<1>3. EndIsNotLost
  BY DEF EndIsNotLost
<1>. QED BY <1>1, <1>2, <1>3

\* Publishing moves the turn's live reader along, and nobody else.
LEMMA PublishEffect ==
  ASSUME TypeOK, NEW t \in Turn, NEW n \in Nat, Publish(t, n), NEW u \in Turn, NEW c \in Conn
  PROVE  /\ seq'[u] = IF u = t THEN seq[t] + n ELSE seq[u]
         /\ got'[c][u] = IF u = t /\ owned[t] = c /\ replaying[t] = NoConn /\ open[c]
                            /\ got[c][t] = seq[t]
                         THEN seq[t] + n ELSE got[c][u]
  BY DEF TypeOK, HandleTypes, SentTypes, MapTypes, Publish, GotUpTo, LiveReader

\* turn.end goes to exactly the connections it is for.
LEMMA SendEndEffect ==
  ASSUME TypeOK, NEW t \in Turn, NEW R, NEW u \in Turn, NEW c \in Conn
  PROVE  SendEnd(t, R)[c][u] = IF u = t /\ c \in R THEN EndSent(end[c][t]) ELSE end[c][u]
  BY DEF TypeOK, SentTypes, SendEnd

\* Replay, takeover and the live stream hand a follower every event once.
LEMMA ServedNext == TypeOK /\ BusyIsExact /\ AllServed /\ LastEnded /\ [Next]_vars => AllServed'
<1>. SUFFICES ASSUME TypeOK, BusyIsExact, AllServed, LastEnded, [Next]_vars,
                     NEW u \in Turn, NEW d \in Conn
              PROVE  Served(u, d)'
  BY DEF AllServed
<1>0. Served(u, d) /\ NoConn \notin Conn
  BY TurnsAssumption DEF AllServed, TurnsAssumption
<1>1. CASE Quiet
  BY <1>0, <1>1 DEF Quiet, Calm, SameStages, Served
<1>2. ASSUME NEW t \in Turn, Publishes(t) PROVE Served(u, d)'
  <2>1. PICK n \in Nat : Publish(t, n)
    BY <1>2 DEF Publishes
  <2>2. /\ seq'[u] = IF u = t THEN seq[t] + n ELSE seq[u]
        /\ got'[d][u] = IF u = t /\ owned[t] = d /\ replaying[t] = NoConn /\ open[d]
                           /\ got[d][t] = seq[t]
                        THEN seq[t] + n ELSE got[d][u]
    BY <2>1, PublishEffect
  <2>3. phase[t] \in Live /\ Calm
    BY <1>2 DEF Publishes, Unfinished
  <2>4. seq[u] \in Nat /\ cursor[u] \in Nat
    BY DEF TypeOK, HandleTypes, MapTypes
  <2>. QED BY <1>0, <2>2, <2>3, <2>4 DEF Calm, SameStages, Served, Live
<1>3. ASSUME NEW t \in Turn, StartupFailed(t) PROVE Served(u, d)'
  <2>1. /\ phase[t] \in Live
        /\ phase'[u] = IF u = t THEN "failed" ELSE phase[u]
        /\ owned'[u] = IF u = t THEN NoConn ELSE owned[u]
        /\ end'[d][u] \in {end[d][u], "none"} /\ (u # t => end'[d][u] = end[d][u])
        /\ replaying[u] = d => end'[d][u] = end[d][u]
        /\ UNCHANGED <<open, seq, replaying, cursor, got>>
    BY <1>3, BegunInfo DEF StartupFailed, connVars, Live, TypeOK, HandleTypes, MapTypes, SentTypes
  <2>. QED BY <1>0, <2>1 DEF Served, Live
<1>4. ASSUME NEW t \in Turn, Finish(t) PROVE Served(u, d)'
  <2>1. /\ phase[t] \in Live
        /\ phase'[u] = IF u = t THEN "finished" ELSE phase[u]
        /\ owned'[u] = IF u = t THEN NoConn ELSE owned[u]
        /\ UNCHANGED <<open, replaying, cursor>>
    BY <1>4 DEF Finish, connVars, Live, TypeOK, HandleTypes, MapTypes
  <2>2. PICK n \in Nat : Publish(t, n)
    BY <1>4 DEF Finish
  <2>3. /\ seq'[u] = IF u = t THEN seq[t] + n ELSE seq[u]
        /\ got'[d][u] = IF u = t /\ owned[t] = d /\ replaying[t] = NoConn /\ open[d]
                           /\ got[d][t] = seq[t]
                        THEN seq[t] + n ELSE got[d][u]
    BY <2>2, PublishEffect
  <2>4. end'[d][u] = IF u = t /\ d \in LiveReader(t) THEN EndSent(end[d][t]) ELSE end[d][u]
    BY <1>4, SendEndEffect DEF Finish
  <2>5. d \in LiveReader(t) <=> owned[t] = d /\ replaying[t] = NoConn /\ open[d]
    BY DEF LiveReader, TypeOK, MapTypes, ConnTypes
  <2>6. seq[u] \in Nat /\ cursor[u] \in Nat /\ replaying[u] \in Conn \cup {NoConn}
    BY DEF TypeOK, HandleTypes, MapTypes
  <2>. QED BY <1>0, <2>1, <2>3, <2>4, <2>5, <2>6 DEF Served, Live, EndSent
<1>5. ASSUME NEW t \in Turn, ReplaySend(t) PROVE Served(u, d)'
  <2>1. /\ replaying[t] \in Conn /\ open[replaying[t]] /\ cursor[t] <= seq[t]
        /\ cursor'[u] = IF u = t THEN cursor[t] + 1 ELSE cursor[u]
        /\ got'[d][u] = IF u = t /\ d = replaying[t] /\ got[d][t] = cursor[t] - 1
                        THEN cursor[t] ELSE got[d][u]
        /\ UNCHANGED <<open, phase, seq, owned, replaying, end>>
    BY <1>5 DEF ReplaySend, connVars, handleVars, TypeOK, MapTypes, SentTypes
  <2>2. seq[t] \in Nat /\ cursor[t] \in Nat /\ got[d][t] \in Nat
    BY DEF TypeOK, HandleTypes, MapTypes, SentTypes
  <2>. QED BY <1>0, <2>1, <2>2 DEF Served, Live
<1>6. ASSUME NEW t \in Turn, ReplayEnd(t) PROVE Served(u, d)'
  <2>1. /\ replaying[t] \in Conn /\ open[replaying[t]] /\ cursor[t] > seq[t]
        /\ cursor'[u] = IF u = t THEN 0 ELSE cursor[u]
        /\ replaying'[u] = IF u = t THEN NoConn ELSE replaying[u]
        /\ UNCHANGED <<open, phase, seq, owned, got>>
    BY <1>6 DEF ReplayEnd, CaughtUp, connVars, handleVars, TypeOK, MapTypes
  <2>2. end'[d][u] = IF u # t \/ d # replaying[t] THEN end[d][u]
                     ELSE IF phase[t] \notin Live THEN EndSent(end[d][t])
                     ELSE IF owned[t] # d THEN "none" ELSE end[d][u]
    BY <1>6, SendEndEffect DEF ReplayEnd, Unfinished, TypeOK, SentTypes
  <2>3. seq[t] \in Nat /\ cursor[t] \in Nat /\ got[d][t] \in Nat /\ phase[t] \in Phases
    BY DEF TypeOK, HandleTypes, MapTypes, SentTypes
  <2>. QED BY <1>0, <2>1, <2>2, <2>3 DEF Served, Live, EndSent, Phases
<1>7. ASSUME NEW t \in Turn, ReplayClosed(t) PROVE Served(u, d)'
  <2>1. /\ replaying[t] \in Conn /\ ~open[replaying[t]] /\ Release(replaying[t])
        /\ cursor'[u] = IF u = t THEN 0 ELSE cursor[u]
        /\ replaying'[u] = IF u = t THEN NoConn ELSE replaying[u]
        /\ UNCHANGED <<open, phase, got, end>>
    BY <1>7 DEF ReplayClosed, connVars, handleVars, sentVars, TypeOK, MapTypes
  <2>2. /\ owned'[u] = IF owned[u] = replaying[t] THEN NoConn ELSE owned[u]
        /\ owned[u] # replaying[t] => seq'[u] = seq[u]
        /\ seq'[u] \in Nat /\ seq'[u] >= seq[u]
    BY <2>1, ReleaseEffect
  <2>3. seq[u] \in Nat /\ cursor[u] \in Nat /\ phase[u] \in Phases
    BY DEF TypeOK, HandleTypes, MapTypes
  <2>. QED BY <1>0, <2>1, <2>2, <2>3 DEF Served, Phases
<1>8. ASSUME NEW c \in Conn, Close(c) PROVE Served(u, d)'
  <2>1. /\ Release(c)
        /\ open'[d] = IF d = c THEN FALSE ELSE open[d]
        /\ got'[d][u] = IF d = c THEN 0 ELSE got[d][u]
        /\ end'[d][u] = IF d = c THEN "none" ELSE end[d][u]
        /\ UNCHANGED <<phase, replaying, cursor>>
    BY <1>8 DEF Close, handleVars, TypeOK, ConnTypes, SentTypes
  <2>2. /\ owned'[u] = IF owned[u] = c THEN NoConn ELSE owned[u]
        /\ owned[u] # c => seq'[u] = seq[u]
        /\ seq'[u] \in Nat /\ seq'[u] >= seq[u]
    BY <2>1, ReleaseEffect
  <2>3. seq[u] \in Nat /\ cursor[u] \in Nat /\ phase[u] \in Phases
    BY DEF TypeOK, HandleTypes, MapTypes
  <2>. QED BY <1>0, <2>1, <2>2, <2>3 DEF Served, Phases
<1>9. ASSUME NEW c \in Conn, NEW t \in Turn, Detach(c, t) PROVE Served(u, d)'
  <2>1. /\ owned[t] = c
        /\ owned'[u] = IF u = t THEN NoConn ELSE owned[u]
        /\ end'[d][u] = IF u = t /\ d = c /\ replaying[t] # c THEN "none" ELSE end[d][u]
        /\ u # t => seq'[u] = seq[u]
        /\ UNCHANGED <<open, phase, replaying, cursor, got>>
    BY <1>9
    DEF Detach, Unattended, CancelDialogs, connVars, handleVars, TypeOK, HandleTypes, MapTypes,
        SentTypes
  <2>2. seq'[u] \in Nat /\ seq'[u] >= seq[u]
    <3>1. /\ seq' = [v \in Turn |-> IF v \in {t} THEN seq[v] + Cardinality(dialogs[v]) ELSE seq[v]]
          /\ seq[u] \in Nat /\ Cardinality(dialogs[u]) \in Nat
      BY <1>9, Counted DEF Detach, Unattended, CancelDialogs, TypeOK, HandleTypes
    <3>. QED BY ONLY <3>1
  <2>3. seq[u] \in Nat /\ cursor[u] \in Nat /\ phase[u] \in Phases
    BY DEF TypeOK, HandleTypes, MapTypes
  <2>. QED BY <1>0, <2>1, <2>2, <2>3 DEF Served, Phases
<1>10. ASSUME NEW c \in Conn, NEW t \in Turn, Follow(c, t) PROVE Served(u, d)'
  <2>1. /\ replaying[t] = NoConn
        /\ phase[t] \in Live => (owned[t] \in Conn => ~open[owned[t]] \/ owned[t] = c)
        /\ open[c]
        /\ owned'[u] = IF u = t /\ phase[t] \in Live THEN c ELSE owned[u]
        /\ replaying'[u] = IF u = t THEN c ELSE replaying[u]
        /\ cursor'[u] = IF u = t THEN 1 ELSE cursor[u]
        /\ got'[d][u] = IF u = t /\ d = c THEN 0 ELSE got[d][u]
        /\ end'[d][u] = IF u = t /\ d = c THEN "due" ELSE end[d][u]
        /\ UNCHANGED <<open, phase, seq>>
    BY <1>10 DEF Follow, MayFollow, Unfinished, handleVars, TypeOK, MapTypes, SentTypes
  <2>2. phase[t] # "unused"
    <3>1. PICK k \in Conv : t = LastFor(k)
      BY <1>10 DEF Follow
    <3>2. t # NoTurn
      BY DEF Turn, NoTurn
    <3>. QED BY <3>1, <3>2 DEF LastFor, BusyIsExact, LastEnded, Unfinished, Live
  <2>3. seq[u] \in Nat /\ phase[u] \in Phases /\ owned[u] \in Conn \cup {NoConn}
    BY DEF TypeOK, HandleTypes, MapTypes
  <2>4. CASE u # t
    BY <1>0, <2>1, <2>4 DEF Served
  <2>5. CASE u = t /\ d = c
    BY <1>0, <2>1, <2>2, <2>3, <2>5 DEF Served, Phases, Live
  <2>6. CASE u = t /\ d # c
    BY <1>0, <2>1, <2>2, <2>3, <2>6 DEF Served, Phases, Live
  <2>. QED BY <2>4, <2>5, <2>6
<1>11. ASSUME NEW r \in req, NEW t \in Turn, Claim(r, t) PROVE Served(u, d)'
  <2>1. r.client \in Conn
    BY DEF TypeOK, ConnTypes, Request
  <2>2. /\ phase[t] = "unused"
        /\ phase'[u] = IF u = t THEN "startup" ELSE phase[u]
        /\ owned'[u] = IF u = t THEN r.client ELSE owned[u]
        /\ end'[d][u] = IF u = t /\ d = r.client /\ open[d] THEN "due" ELSE end[d][u]
        /\ UNCHANGED <<open, seq, replaying, cursor, got>>
    BY <1>11, <2>1 DEF Claim, TypeOK, HandleTypes, MapTypes, SentTypes
  <2>. QED BY <1>0, <2>1, <2>2 DEF Served, Live
<1>12. CASE Drained
  <2>1. /\ ~open'[d] /\ got'[d][u] = 0 /\ end'[d][u] = "none"
        /\ UNCHANGED <<phase, seq, replaying, cursor, owned>>
    BY <1>12 DEF Drained, handleVars
  <2>. QED BY <1>0, <2>1 DEF Served, Live
<1>. QED
  BY <1>1, <1>2, <1>3, <1>4, <1>5, <1>6, <1>7, <1>8, <1>9, <1>10, <1>11, <1>12, StepKinds

\* lastFor holds finished turns only.
LEMMA LastEndedNext == TypeOK /\ LastEnded /\ [Next]_vars => LastEnded'
<1>. SUFFICES ASSUME TypeOK, LastEnded, [Next]_vars, NEW k \in Conv, last'[k] # NoTurn
              PROVE  phase'[last'[k]] \in {"finished", "failed"}
  BY DEF LastEnded
<1>0. /\ last[k] # NoTurn => last[k] \in Turn /\ phase[last[k]] \in {"finished", "failed"}
      /\ \A t \in Turn : t # NoTurn
  BY DEF LastEnded, TypeOK, MapTypes, Turn, NoTurn
<1>1. CASE Quiet \/ \E t \in Turn : Publishes(t)
  BY <1>0, <1>1 DEF Quiet, Publishes, Calm, SameStages
<1>2. ASSUME NEW t \in Turn, StartupFailed(t) \/ Finish(t)
      PROVE  phase'[last'[k]] \in {"finished", "failed"}
  <2>1. last'[k] \in {last[k], t} /\ phase'[t] \in {"finished", "failed"}
        /\ \A u \in Turn : u # t => phase'[u] = phase[u]
    BY <1>2 DEF StartupFailed, Finish, FinishMaps, Newest, TypeOK, HandleTypes, MapTypes
  <2>. QED BY <1>0, <2>1
<1>3. ASSUME NEW r \in req, NEW t \in Turn, Claim(r, t)
      PROVE  phase'[last'[k]] \in {"finished", "failed"}
  BY <1>0, <1>3 DEF Claim, TypeOK, HandleTypes
<1>4. CASE phase' = phase /\ last' = last
  BY <1>0, <1>4
<1>5. ASSUME NEW t \in Turn, ReplaySend(t) \/ ReplayEnd(t) \/ ReplayClosed(t)
      PROVE  phase' = phase /\ last' = last
  BY <1>5 DEF ReplaySend, ReplayEnd, ReplayClosed, handleVars, mapVars
<1>6. ASSUME NEW c \in Conn, NEW t \in Turn, Follow(c, t) \/ Detach(c, t)
      PROVE  phase' = phase /\ last' = last
  BY <1>6 DEF Follow, Detach, handleVars, mapVars
<1>7. ASSUME NEW c \in Conn, Close(c) PROVE phase' = phase /\ last' = last
  BY <1>7 DEF Close, handleVars
<1>8. ASSUME Drained PROVE phase' = phase /\ last' = last
  BY <1>8 DEF Drained, handleVars, mapVars
<1>. QED BY <1>1, <1>2, <1>3, <1>4, <1>5, <1>6, <1>7, <1>8, StepKinds

\* Ownership and delivery, together, for every instance.
THEOREM Invariance == Spec => [](TypeOK /\ BusyIsExact /\ Inductive)
<1>1. Init => Inductive
  BY AttendedInit, ServedInit DEF Inductive
<1>2. TypeOK /\ BusyIsExact /\ Inductive /\ [Next]_vars => Inductive'
  BY AttendedNext, ServedNext, LastEndedNext DEF Inductive
<1>. QED BY <1>1, <1>2, InitTyped, TypeNext, BusyInit, BusyNext, PTL DEF Spec

\* The inductive invariant implies the properties of delivery.
LEMMA InductiveImplies ==
  TypeOK /\ Inductive => FollowerIsUpToDate /\ EndComesLastAndOnce /\ EndIsNotLost
  BY ServedImplies DEF Inductive

\* The live reader of a turn has every event there is, in order.
THEOREM FollowersMissNothing == Spec => []FollowerIsUpToDate
  BY Invariance, InductiveImplies, PTL

\* turn.end is sent once, after every event.
THEOREM EndIsLast == Spec => []EndComesLastAndOnce
  BY Invariance, InductiveImplies, PTL

\* Whoever waits for the turn.end of a turn that ran to its end is sent it.
THEOREM EndIsSent == Spec => []EndIsNotLost
  BY Invariance, InductiveImplies, PTL

\* A client that waits for the end of a turn is told it: once, last, in any case.
THEOREM EndIsTold == Spec => []TurnEndIsTold
<1>1. EndComesLastAndOnce /\ EndIsNotLost => TurnEndIsTold BY DEF TurnEndIsTold
<1>. QED BY <1>1, EndIsLast, EndIsSent, PTL

\* A turn nobody watches is detached or stopped, and asks nobody anything.
THEOREM UnattendedIsCaredFor == Spec => []UnattendedTurnIsCaredFor
<1>1. UnownedIsDetachedOrAborted /\ DetachedTurnAsksNobody => UnattendedTurnIsCaredFor
  BY DEF UnattendedTurnIsCaredFor
<1>. QED BY <1>1, NobodysTurnIsDetachedOrAborted, DetachedAsksNobody, PTL


-----------------------------------------------------------------------------
(* What the shells show.                                                    *)

\* A shell shows nothing of a turn before any is detached.
LEMMA ShownInit == Init => AllShown
<1>. SUFFICES ASSUME Init, NEW t \in Turn PROVE Published(t) /\ \A s \in Shell : Shows(t, s)
  BY DEF AllShown
<1>1. t # NoTurn BY DEF Turn, NoTurn
<1>. QED BY <1>1 DEF Init, Published, Shows, DetachStatusSettled

\* Where a turn stands, as far as status writes go: nowhere new.
SameShown ==
    \A t \in Turn :
        /\ phase'[t] \in {"unused", "ending", "finished"} => phase'[t] = phase[t]
        /\ phase'[t] \in Live => phase[t] \in Live
        /\ phase[t] # "unused" => phase'[t] # "unused"
        /\ phase[t] = "ending" => phase'[t] = "ending"

LEMMA SamePhaseShown == phase' = phase => SameShown
  BY DEF SameShown

\* From one phase before the last status write to another.
LEMMA NextPhaseShown ==
  ASSUME TypeOK, NEW t \in Turn, phase[t] \in Live \ {"ending"},
         NEW next \in (Live \cup {"failed"}) \ {"ending"}, phase' = [phase EXCEPT ![t] = next]
  PROVE  SameShown
<1>1. \A u \in Turn : phase'[u] = IF u = t THEN next ELSE phase[u]
  BY DEF TypeOK, HandleTypes
<1>2. next \notin {"unused", "ending", "finished"} /\ phase[t] \notin {"unused", "ending"}
  BY DEF Live
<1>. QED BY <1>1, <1>2 DEF SameShown

\* Steps that write no status and begin no wait for one.
LEMMA UnshownSteps ==
  ASSUME TypeOK, [Next]_vars
  PROVE  \/ SameShown /\ UNCHANGED statusVars
         \/ \E t \in Turn : OnDetachStep(t) \/ Finalize(t) \/ ReplayClosed(t)
         \/ \E c \in Conn : Close(c)
         \/ \E c \in Conn, t \in Turn : Follow(c, t) \/ Detach(c, t)
         \/ \E r \in req, t \in Turn : Claim(r, t)
<1>. DEFINE Goal == SameShown /\ UNCHANGED statusVars
<1>1. CASE UNCHANGED vars BY <1>1, SamePhaseShown DEF vars, handleVars
<1>2. ASSUME NEW c \in Conn, Block(c) \/ Drain(c) PROVE Goal
  BY <1>2, SamePhaseShown DEF Block, Drain, handleVars
<1>3. ASSUME NEW r \in Request, StartRequest(r.client, r) PROVE Goal
  BY <1>3, SamePhaseShown DEF StartRequest, handleVars
<1>4. ASSUME NEW c \in Conn, NEW t \in Turn, Abort(c, t) PROVE Goal
  BY <1>4, SamePhaseShown DEF Abort, handleVars
<1>5. ASSUME NEW t \in Turn, NEW d \in Dialog, NEW warm \in BOOLEAN, UiRespond(t, d, warm) PROVE Goal
  BY <1>5, SamePhaseShown DEF UiRespond, handleVars
<1>6. ASSUME NEW t \in Turn, AgentEvent(t) PROVE Goal
  <2>1. PICK next \in {"waiting", "streaming"} : phase' = [phase EXCEPT ![t] = next]
    BY <1>6 DEF AgentEvent, PumpNext
  <2>. QED BY <1>6, <2>1, NextPhaseShown DEF AgentEvent, Live
<1>7. ASSUME NEW t \in Turn, NEW d \in Dialog, AgentAsks(t, d) PROVE Goal
  <2>1. PICK next \in {"waiting", "streaming"} : phase' = [phase EXCEPT ![t] = next]
    BY <1>7 DEF AgentAsks, PumpNext
  <2>. QED BY <1>7, <2>1, NextPhaseShown DEF AgentAsks, Live
<1>8. ASSUME NEW t \in Turn, NEW d \in Dialog, NEW stuck \in BOOLEAN, AgentAsksNobody(t, d, stuck) PROVE Goal
  BY <1>8, SamePhaseShown DEF AgentAsksNobody, handleVars
<1>9. ASSUME NEW r \in req, Refuse(r) PROVE Goal
  BY <1>9, SamePhaseShown DEF Refuse, handleVars
<1>10. ASSUME NEW t \in Turn, Startup(t) PROVE Goal
  BY <1>10, NextPhaseShown DEF Startup, StartupDone, StartupFailed, Live
<1>11. ASSUME NEW t \in Turn, StreamEnds(t) PROVE Goal
  <2>1. CASE StreamThrows(t) BY <2>1, NextPhaseShown DEF StreamThrows, Live
  <2>2. ASSUME NEW s \in Outcomes, Settle(t, s) PROVE Goal
    <3>1. PICK next \in {"waiting", "recording"} : phase' = [phase EXCEPT ![t] = next]
      BY <2>2 DEF Settle, PumpNext
    <3>. QED BY <2>2, <3>1, NextPhaseShown DEF Settle, Live
  <2>. QED BY <1>11, <2>1, <2>2 DEF StreamEnds
<1>12. ASSUME NEW t \in Turn, Writable(t) PROVE Goal
  BY <1>12, NextPhaseShown DEF Writable, Live
<1>13. ASSUME NEW t \in Turn, Record(t) PROVE Goal
  BY <1>13, NextPhaseShown DEF Record, Recorded, RecordFailed, Live
<1>14. ASSUME NEW t \in Turn, ReplaySend(t) \/ ReplayEnd(t) PROVE Goal
  BY <1>14, SamePhaseShown DEF ReplaySend, ReplayEnd, handleVars
<1>15. CASE Stop \/ StopStep
  BY <1>15, SamePhaseShown DEF Stop, StopStep, Drained, LockReleased, PoolClosed, handleVars
<1>. HIDE DEF Goal
<1>16. CASE ClientNext
  <2>1. Slow \subseteq Conn BY TurnsAssumption DEF TurnsAssumption
  <2>. QED BY <1>16, <2>1, <1>2, <1>3, <1>4, <1>5 DEF ClientNext, Goal
<1>17. CASE AgentNext BY <1>17, <1>6, <1>7, <1>8 DEF AgentNext, Goal
<1>18. ASSUME NEW r \in req, Resolve(r) PROVE Goal \/ \E t \in Turn : Claim(r, t)
  BY <1>18, <1>9 DEF Resolve
<1>. QED
  BY <1>1, <1>10, <1>11, <1>12, <1>13, <1>14, <1>15, <1>16, <1>17, <1>18 DEF Next, Replay, Goal

\* Releasing a turn queues a status write only while one can still be told.
LEMMA QueueOnly ==
  ASSUME TypeOK, Attended, NEW c \in Conn, NEW T \in SUBSET {t \in Turn : owned[t] = c},
         QueueDetachStatus(T)
  PROVE  \A t \in Turn : phase[t] \in {"unused", "ending", "finished"} => detachQueued'[t] = detachQueued[t]
<1>. SUFFICES ASSUME NEW t \in Turn, phase[t] \in {"unused", "ending", "finished"}
              PROVE  detachQueued'[t] = detachQueued[t]
  OBVIOUS
<1>1. detachQueued' = [u \in Turn |-> IF u \in T /\ ~Finishing(u) THEN detachQueued[u] + 1 ELSE detachQueued[u]]
  BY DEF QueueDetachStatus
<1>2. CASE phase[t] = "unused"
  <2>1. t \notin T BY <1>2, TurnsAssumption DEF Attended, AttendedTurn, TurnsAssumption
  <2>. QED BY <1>1, <2>1
<1>3. CASE phase[t] \in {"ending", "finished"} BY <1>1, <1>3 DEF Finishing
<1>. QED BY <1>2, <1>3

\* What is shown stays true when nothing but the queue of status writes changes.
LEMMA ShownKept ==
  ASSUME AllShown, SameShown,
         UNCHANGED <<statusShells, detachRunning, detachTodo, endTodo, background, status>>,
         \A t \in Turn : phase[t] \in {"unused", "ending", "finished"} => detachQueued'[t] = detachQueued[t]
  PROVE  AllShown'
<1>. SUFFICES ASSUME NEW t \in Turn PROVE Published(t)' /\ \A s \in Shell : Shows(t, s)'
  BY DEF AllShown
<1>1. Published(t) /\ \A s \in Shell : Shows(t, s) BY DEF AllShown
<1>2. Published(t)' BY <1>1 DEF Published, DetachStatusSettled, SameShown
<1>3. ASSUME NEW s \in Shell PROVE Shows(t, s)'
  BY <1>1 DEF Shows, SameShown, Live
<1>. QED BY <1>2, <1>3

\* Every step keeps what is shown true.
LEMMA ShownNext ==
  TypeOK /\ BusyIsExact /\ Inductive /\ AllShown /\ [Next]_vars => AllShown'
<1>. SUFFICES ASSUME TypeOK, BusyIsExact, Inductive, AllShown, [Next]_vars PROVE AllShown'
  OBVIOUS
<1>0. Attended /\ \A v \in Turn : v # NoTurn BY DEF Inductive, Turn, NoTurn
<1>1. CASE SameShown /\ UNCHANGED statusVars BY <1>1, ShownKept DEF statusVars
<1>2. ASSUME NEW c \in Conn,
             Release(c), phase' = phase,
             UNCHANGED <<statusShells, detachRunning, detachTodo, endTodo, background, status>>
      PROVE  AllShown'
  <2>1. PICK T \in SUBSET {t \in Turn : owned[t] = c} : QueueDetachStatus(T)
    BY <1>2 DEF Release, Unattended
  <2>. QED BY <1>0, <1>2, <2>1, QueueOnly, SamePhaseShown, ShownKept
<1>3. ASSUME NEW c \in Conn, Close(c) PROVE AllShown'
  BY <1>2, <1>3 DEF Close, handleVars
<1>4. ASSUME NEW t \in Turn, ReplayClosed(t) PROVE AllShown'
  BY <1>2, <1>4 DEF ReplayClosed, handleVars
<1>5. ASSUME NEW c \in Conn, NEW t \in Turn, Detach(c, t) PROVE AllShown'
  <2>1. QueueDetachStatus({t}) /\ phase' = phase
        /\ UNCHANGED <<statusShells, detachRunning, detachTodo, endTodo, background, status>>
    BY <1>5 DEF Detach, Unattended, handleVars
  <2>2. {t} \in SUBSET {u \in Turn : owned[u] = c} BY <1>5 DEF Detach
  <2>. QED BY <1>0, <2>1, <2>2, QueueOnly, SamePhaseShown, ShownKept
<1>. SUFFICES ASSUME NEW u \in Turn,
                     \/ OnDetachStep(u) \/ Finalize(u) \/ \E c \in Conn : Follow(c, u)
                     \/ \E r \in req : Claim(r, u),
                     NEW t \in Turn
              PROVE  Published(t)' /\ \A s \in Shell : Shows(t, s)'
  BY <1>1, <1>3, <1>4, <1>5, UnshownSteps DEF AllShown
<1>. USE DEF TypeOK, HandleTypes, StatusTypes
<1>6. Published(t) /\ (\A s \in Shell : Shows(t, s)) /\ Published(u) /\ (\A s \in Shell : Shows(u, s))
  BY DEF AllShown
<1>7. ASSUME NEW r \in req, Claim(r, u) PROVE Published(t)' /\ \A s \in Shell : Shows(t, s)'
  <2>1. phase[u] = "unused" /\ phase' = [phase EXCEPT ![u] = "startup"]
        /\ (\A v \in Turn : v # u => statusShells'[v] = statusShells[v])
        /\ UNCHANGED <<detachQueued, detachRunning, detachTodo, endTodo, background, status>>
    BY <1>7 DEF Claim
  <2>2. detachTodo[u] = {} /\ endTodo[u] = {} /\ \A s \in Shell : background[s] # u
    BY <1>6, <2>1 DEF Published, Shows, DetachStatusSettled
  <2>3. Published(t)' BY <1>6, <2>1, <2>2 DEF Published, DetachStatusSettled
  <2>4. ASSUME NEW s \in Shell PROVE Shows(t, s)' BY <1>6, <2>1, <2>2 DEF Shows
  <2>. QED BY <2>3, <2>4
<1>8. ASSUME NEW c \in Conn, Follow(c, u) PROVE Published(t)' /\ \A s \in Shell : Shows(t, s)'
  <2>. DEFINE added == {ShellOf[c]} \ statusShells[u]
  <2>1. ShellOf[c] \in Shell BY TurnsAssumption DEF TurnsAssumption
  <2>2. UNCHANGED <<phase, detachQueued, detachRunning, background, status>>
    BY <1>8 DEF Follow, handleVars
  <2>3. statusShells' = [statusShells EXCEPT ![u] = @ \cup {ShellOf[c]}] BY <1>8 DEF Follow
  <2>4. detachTodo' = IF u \in detachRunning THEN [detachTodo EXCEPT ![u] = @ \cup added] ELSE detachTodo
    BY <1>8 DEF Follow
  <2>5. endTodo' = IF phase[u] = "ending" THEN [endTodo EXCEPT ![u] = @ \cup added] ELSE endTodo
    BY <1>8 DEF Follow
  <2>. HIDE DEF added
  <2>6. added \subseteq {ShellOf[c]} /\ added \cap statusShells[u] = {} BY DEF added
  <2>7. CASE t # u
    <3>1. statusShells'[t] = statusShells[t] /\ detachTodo'[t] = detachTodo[t] /\ endTodo'[t] = endTodo[t]
      BY <2>3, <2>4, <2>5, <2>7
    <3>. QED BY <1>6, <2>2, <3>1 DEF Published, Shows, DetachStatusSettled
  <2>8. CASE t = u
    <3>1. statusShells'[t] = statusShells[t] \cup {ShellOf[c]} BY <2>3, <2>8
    <3>2. detachTodo'[t] = IF t \in detachRunning THEN detachTodo[t] \cup added ELSE detachTodo[t]
      BY <2>4, <2>8
    <3>3. endTodo'[t] = IF phase[t] = "ending" THEN endTodo[t] \cup added ELSE endTodo[t]
      BY <2>5, <2>8
    <3>4. Published(t)' BY <1>6, <2>2, <2>6, <3>1, <3>2, <3>3 DEF Published, DetachStatusSettled
    <3>5. ASSUME NEW s \in Shell, background[s] = t PROVE s \in endTodo'[t] <=> s \in endTodo[t]
      BY <1>6, <2>6, <2>8, <3>3, <3>5 DEF Shows
    <3>6. ASSUME NEW s \in Shell PROVE Shows(t, s)'
      BY <1>6, <2>2, <3>1, <3>5 DEF Shows
    <3>. QED BY <3>4, <3>6
  <2>. QED BY <2>7, <2>8
<1>9. CASE OnDetachBegin(u)
  <2>1. UNCHANGED <<phase, statusShells, endTodo, background, status>> /\ NextDetach(u)
        /\ detachRunning' = detachRunning \cup {u}
        /\ detachQueued' = [detachQueued EXCEPT ![u] = @ - 1]
        /\ detachTodo' = [detachTodo EXCEPT ![u] = statusShells[u]]
    BY <1>9 DEF OnDetachBegin, handleVars
  <2>2. phase[u] \notin {"unused", "ending", "finished"}
    <3>1. detachQueued[u] > 0 /\ detachQueued[u] \in Nat BY <2>1 DEF NextDetach
    <3>2. detachQueued[u] # 0 BY ONLY <3>1
    <3>. QED BY <1>6, <3>2 DEF Published, DetachStatusSettled
  <2>3. t # u => detachQueued'[t] = detachQueued[t] /\ detachTodo'[t] = detachTodo[t]
                 /\ (t \in detachRunning' <=> t \in detachRunning)
    BY <2>1
  <2>4. t = u => detachTodo'[t] = statusShells[t] /\ t \in detachRunning' BY <2>1
  <2>5. Published(t)' BY <1>6, <2>1, <2>2, <2>3, <2>4 DEF Published, DetachStatusSettled
  <2>6. ASSUME NEW s \in Shell PROVE Shows(t, s)' BY <1>6, <2>1 DEF Shows
  <2>. QED BY <2>5, <2>6
<1>10. CASE OnDetachEnd(u)
  <2>1. UNCHANGED <<phase, statusShells, endTodo, background, status, detachQueued, detachTodo>>
        /\ detachRunning' = detachRunning \ {u} /\ detachTodo[u] = {}
    BY <1>10 DEF OnDetachEnd, handleVars
  <2>2. Published(t)' BY <1>6, <2>1 DEF Published, DetachStatusSettled
  <2>3. ASSUME NEW s \in Shell PROVE Shows(t, s)' BY <1>6, <2>1 DEF Shows
  <2>. QED BY <2>2, <2>3
<1>11. ASSUME NEW x \in Shell, OnDetachWrite(u, x) PROVE Published(t)' /\ \A s \in Shell : Shows(t, s)'
  <2>1. UNCHANGED <<phase, statusShells, endTodo, detachQueued, detachRunning>> /\ x \in detachTodo[u]
        /\ detachTodo' = [detachTodo EXCEPT ![u] = @ \ {x}]
        /\ background' = [background EXCEPT ![x] = u] /\ status' = [status EXCEPT ![x] = "running"]
    BY <1>11 DEF OnDetachWrite, handleVars
  <2>2. phase[u] \notin {"unused", "ending", "finished"} /\ x \in statusShells[u]
    BY <1>6, <2>1 DEF Published, DetachStatusSettled
  <2>3. detachTodo'[t] \subseteq detachTodo[t] BY <2>1
  <2>4. Published(t)' BY <1>6, <2>1, <2>3 DEF Published, DetachStatusSettled
  <2>5. ASSUME NEW s \in Shell PROVE Shows(t, s)'
    <3>1. CASE s # x
      <4>1. background'[s] = background[s] /\ status'[s] = status[s] BY <2>1, <3>1
      <4>. QED BY <1>6, <2>1, <4>1 DEF Shows
    <3>2. CASE s = x
      <4>1. background'[s] = u /\ status'[s] = "running" BY <2>1, <3>2
      <4>. QED BY <2>1, <2>2, <3>2, <4>1 DEF Shows
    <3>. QED BY <3>1, <3>2
  <2>. QED BY <2>4, <2>5
<1>12. CASE OnEndBegin(u)
  <2>1. UNCHANGED <<statusShells, detachQueued, detachRunning, detachTodo, background, status>>
        /\ phase[u] = "finishing" /\ DetachStatusSettled(u)
        /\ phase' = [phase EXCEPT ![u] = "ending"] /\ endTodo' = [endTodo EXCEPT ![u] = statusShells[u]]
    BY <1>12 DEF OnEndBegin
  <2>2. CASE t # u
    <3>1. phase'[t] = phase[t] /\ endTodo'[t] = endTodo[t] BY <2>1, <2>2
    <3>. QED BY <1>6, <2>1, <3>1 DEF Published, Shows, DetachStatusSettled
  <2>3. CASE t = u
    <3>1. phase'[t] = "ending" /\ endTodo'[t] = statusShells[t] BY <2>1, <2>3
    <3>2. Published(t)' BY <1>6, <2>1, <2>3, <3>1 DEF Published, DetachStatusSettled
    <3>3. ASSUME NEW s \in Shell PROVE Shows(t, s)' BY <1>6, <2>1, <2>3, <3>1 DEF Shows, Live
    <3>. QED BY <3>2, <3>3
  <2>. QED BY <2>2, <2>3
<1>13. ASSUME NEW x \in Shell, OnEndWrite(u, x) PROVE Published(t)' /\ \A s \in Shell : Shows(t, s)'
  <2>1. UNCHANGED <<phase, statusShells, detachQueued, detachRunning, detachTodo, background>>
        /\ x \in endTodo[u] /\ endTodo' = [endTodo EXCEPT ![u] = @ \ {x}]
    BY <1>13 DEF OnEndWrite, handleVars
  <2>2. phase[u] = "ending" BY <1>6, <2>1 DEF Published
  <2>3. endTodo'[t] \subseteq endTodo[t] /\ (t # u => endTodo'[t] = endTodo[t]) BY <2>1
  <2>4. Published(t)' BY <1>6, <2>1, <2>3 DEF Published, DetachStatusSettled
  <2>5. \A s \in Shell : s # x => status'[s] = status[s] BY <1>13 DEF OnEndWrite
  <2>6. background[x] \notin {NoTurn, u} => status' = status BY <1>13 DEF OnEndWrite, StatusIsOurs
  <2>7. background[x] = u => status'[x] # "running" BY <1>13 DEF OnEndWrite, StatusIsOurs
  <2>8. t # NoTurn BY <1>0
  <2>9. ASSUME NEW s \in Shell PROVE Shows(t, s)'
    <3>1. CASE s # x
      <4>1. s \in endTodo'[t] <=> s \in endTodo[t] BY <2>1, <3>1
      <4>. QED BY <1>6, <2>1, <2>5, <3>1, <4>1 DEF Shows
    <3>2. CASE s = x /\ t # u
      <4>1. background[s] = t => status' = status BY <2>6, <2>8, <3>2
      <4>. QED BY <1>6, <2>1, <2>3, <3>2, <4>1 DEF Shows
    <3>3. CASE s = x /\ t = u
      <4>1. s \notin endTodo'[t] BY <2>1, <3>3
      <4>. QED BY <1>6, <2>1, <2>2, <2>7, <3>3, <4>1 DEF Shows
    <3>. QED BY <3>1, <3>2, <3>3
  <2>. QED BY <2>4, <2>9
<1>14. CASE Finish(u)
  <2>1. UNCHANGED statusVars /\ phase[u] = "ending" /\ endTodo[u] = {}
        /\ phase' = [phase EXCEPT ![u] = "finished"]
    BY <1>14 DEF Finish
  <2>2. CASE t # u
    <3>1. phase'[t] = phase[t] BY <2>1, <2>2
    <3>. QED BY <1>6, <2>1, <3>1 DEF Published, Shows, DetachStatusSettled, statusVars
  <2>3. CASE t = u
    <3>1. phase'[t] = "finished" BY <2>1, <2>3
    <3>2. Published(t)' BY <1>6, <2>1, <2>3, <3>1 DEF Published, DetachStatusSettled, statusVars
    <3>3. ASSUME NEW s \in Shell PROVE Shows(t, s)'
      BY <1>6, <2>1, <2>3, <3>1 DEF Shows, statusVars, Live
    <3>. QED BY <3>2, <3>3
  <2>. QED BY <2>2, <2>3
<1>. QED
  BY <1>7, <1>8, <1>9, <1>10, <1>11, <1>12, <1>13, <1>14 DEF OnDetachStep, Finalize

\* What is shown of turns, for every instance.
THEOREM ShellsAreTold == Spec => []AllShown
  BY Invariance, ShownInit, ShownNext, PTL DEF Spec

\* The prompt of a shell is true of its newest background turn: "running" while it
\* runs, however many older ones end meanwhile, and not when it has finished.
THEOREM StatusIsTheTurns == Spec => []StatusIsTrue
<1>1. AllShown => StatusIsTrue
  <2>. SUFFICES ASSUME AllShown, NEW t \in Turn, NEW s \in Shell, background[s] = t
                PROVE  /\ phase[t] = "finished" => status[s] # "running"
                       /\ Unfinished(t) /\ (phase[t] = "ending" => s \in endTodo[t]) => status[s] = "running"
    BY DEF StatusIsTrue, FinishedTurnIsNotRunning, NewestBackgroundTurnShows
  <2>1. Published(t) /\ Shows(t, s) BY DEF AllShown
  <2>. QED BY <2>1 DEF Published, Shows, Unfinished
<1>. QED BY <1>1, ShellsAreTold, PTL
=============================================================================
