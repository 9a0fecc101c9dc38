---------------------------- MODULE PiTurnProofs ----------------------------
(* Proofs about PiTurn: whatever the number of turns and of text records.   *)
EXTENDS PiTurn, TLAPS

\* The steps of either specification.
Step ==
    \/ Session \/ Generator \/ Pi \/ RespondUi \/ DialogExpires \/ Signal \/ Abort \/ PiAsks
    \/ \E edit \in BOOLEAN : Begin(edit)

Fresh == [proposing |-> FALSE, previous |-> {}, applied |-> "go"]

\* The types, with what they rest on: a turn that runs has a number, and the
\* extension always knows the tools it is to give back.
Typing ==
    /\ TypeOK
    /\ busy => turn > 0
    /\ phase = "closed" => ~bridgeLive /\ bridge = Fresh
    /\ bridgeLive => Base = ToolsOf[bridge.applied]

LEMMA SeqMono == \A S, T : S \subseteq T => Seq(S) \subseteq Seq(T)
OBVIOUS

Bridges == [proposing : BOOLEAN, previous : {{}, All, {"read"}}, applied : {"go", "read"}]

LEMMA InitTyped == Init => Typing
<1>. SUFFICES ASSUME Init PROVE Typing
  OBVIOUS
<1>. USE TurnAssumption DEF TurnAssumption
<1>1. kinds \in Seq({"go", "read", "edit"}) /\ Len(kinds) = 0 /\ out \in Seq(Shown)
  BY DEF Init
<1>2. turn \in 0..MaxTurn /\ turn = 0 BY DEF Init
<1>3. bridgeLive \in BOOLEAN /\ aborted \in BOOLEAN /\ started \in BOOLEAN BY DEF Init
<1>4. /\ persona \in {"go", "read"} /\ method \in {"no", "clearing"}
      /\ phase \in {"closed", "idle", "startup", "compose", "reading", "settled", "drop"}
  BY DEF Init
<1>5. preReady \in 0..1 /\ skip \in 0..1 BY DEF Init
<1>6. AdapterTypes BY <1>1, <1>2, <1>3, <1>4, <1>5 DEF AdapterTypes
<1>7. events \in Seq(Said) /\ inbox \in Seq(1..turn) BY DEF Init
<1>8. life \in {"up", "closing", "down"} /\ verdict \in {"none", "refused"} /\ ready \in BOOLEAN
  BY DEF Init
<1>9. held \subseteq 0..turn /\ context \in 0..turn /\ run \in 0..turn BY DEF Init
<1>10. stage \in {"none", "preflight", "hooked", "started"} /\ (stage = "none" <=> run = 0)
  BY DEF Init
<1>11. asked \subseteq 0..turn /\ texts \in 0..MaxText /\ unswitched \subseteq 0..turn BY DEF Init
<1>12. tools \in {All, {"read"}, {"propose"}} BY DEF Init
<1>13. bridge \in [proposing : BOOLEAN, previous : {{}, All, {"read"}}, applied : {"go", "read"}]
  BY DEF Init
<1>14. got \in [1..MaxTurn -> 0..MaxTurn] BY DEF Init
<1>15. ChildTypes
  BY <1>7, <1>8, <1>9, <1>10, <1>11, <1>12, <1>13, <1>14 DEF ChildTypes
<1>16. ~bridgeLive /\ ~busy /\ bridge = Fresh BY DEF Init, Fresh, busy
<1>. QED BY <1>6, <1>15, <1>16 DEF Typing, TypeOK

\* A record more, and a record less.
LEMMA WriteTyped ==
  ASSUME TypeOK, NEW r \in Said, Write(r)
  PROVE  /\ events' \in Seq(Said) /\ Len(events) \in Nat /\ Len(events') = Len(events) + 1
         /\ events'[Len(events) + 1] = r /\ \A i \in Index : events'[i] = events[i]
         /\ \A i \in Index' : i \in Index \/ i = Len(events) + 1
<1>1. events \in Seq(Said) BY DEF TypeOK, ChildTypes
<1>. QED BY <1>1 DEF Write, Index

LEMMA TakeTyped ==
  ASSUME TypeOK, events # <<>>
  PROVE  /\ Head(events) = events[1] /\ events[1] \in Said /\ Tail(events) \in Seq(Said) /\ 1 \in Index
         /\ Len(events) \in Nat /\ Len(Tail(events)) = Len(events) - 1
         /\ \A i \in 1..Len(Tail(events)) : Tail(events)[i] = events[i + 1] /\ i + 1 \in Index
<1>1. events \in Seq(Said) BY DEF TypeOK, ChildTypes
<1>. QED BY <1>1 DEF Index

\* What happens to the tools at the end of a run and before its start.
LEMMA EditOver ==
  ASSUME Typing, bridgeLive, NEW ok \in BOOLEAN, RestoreEdit(ok)
  PROVE  /\ tools' \in {All, {"read"}, {"propose"}} /\ bridge' \in Bridges
         /\ bridge'.applied = bridge.applied /\ Base' = Base
<1>1. bridge \in Bridges /\ tools \in {All, {"read"}, {"propose"}}
  BY DEF Typing, TypeOK, ChildTypes, Bridges
<1>2. CASE bridge.previous = {}
  <2>1. tools' = tools /\ bridge' = [bridge EXCEPT !.proposing = FALSE, !.previous = {}]
    BY <1>2 DEF RestoreEdit, Restored
  <2>2. bridge' = [bridge EXCEPT !.proposing = FALSE] BY <1>1, <1>2, <2>1 DEF Bridges
  <2>. QED BY <1>1, <1>2, <2>1 DEF Bridges, Base
<1>3. CASE bridge.previous # {}
  <2>1. ok => tools' = bridge.previous /\ bridge' = [bridge EXCEPT !.proposing = FALSE, !.previous = {}]
    BY <1>3 DEF RestoreEdit, Restored
  <2>2. ~ok => tools' = tools /\ bridge' = [bridge EXCEPT !.proposing = FALSE, !.previous = bridge.previous]
    BY <1>3 DEF RestoreEdit, Restored
  <2>. QED BY <1>1, <1>3, <2>1, <2>2 DEF Bridges, Base
<1>. QED BY <1>2, <1>3

LEMMA Applied ==
  ASSUME Typing, bridgeLive, NEW k \in {"go", "read", "edit"}, NEW restored \in BOOLEAN, NEW switched \in BOOLEAN,
         Apply(k, restored, switched)
  PROVE  /\ tools' \in {All, {"read"}, {"propose"}} /\ bridge' \in Bridges
         /\ Base' = ToolsOf[bridge'.applied]
         /\ bridge'.proposing = (k = "edit")
         /\ restored /\ switched => tools' = ToolsOf[k]
<1>. USE DEF Bridges, ToolsOf, All
<1>. DEFINE back == Restored(restored)
            failed == bridge.previous # {} /\ ~restored
<1>1. /\ bridge \in Bridges /\ tools \in {All, {"read"}, {"propose"}}
      /\ Base = ToolsOf[bridge.applied] /\ bridge.applied \in {"go", "read"}
  BY DEF Typing, TypeOK, ChildTypes
<1>2. ~failed => back.set = Base BY DEF Restored, Base
<1>3. Base \in {All, {"read"}} BY <1>1
<1>4. CASE failed
  <2>1. tools' = tools /\ bridge' = [bridge EXCEPT !.proposing = (k = "edit")]
    BY <1>4 DEF Apply, Arm, Restored
  <2>. QED BY <1>1, <1>4, <2>1 DEF Base
<1>5. CASE ~failed /\ k = "edit"
  <2>1. /\ tools' = IF switched THEN {"propose"} ELSE Base
        /\ bridge' = [bridge EXCEPT !.proposing = TRUE, !.previous = Base]
    BY <1>2, <1>5 DEF Apply, Arm
  <2>. QED BY <1>1, <1>3, <1>5, <2>1 DEF Base
<1>6. CASE ~failed /\ k # "edit" /\ Switch(k)
  <2>1. /\ tools' = IF switched THEN ToolsOf[k] ELSE Base
        /\ bridge' = [proposing |-> FALSE, previous |-> {}, applied |-> IF switched THEN k ELSE bridge.applied]
    BY <1>2, <1>6 DEF Apply, Arm
  <2>2. bridge'.previous = {} /\ Base' = tools' /\ bridge'.proposing = FALSE
        /\ bridge'.applied = IF switched THEN k ELSE bridge.applied
    BY <2>1 DEF Base
  <2>3. k \in {"go", "read"} BY <1>6
  <2>4. bridge' \in Bridges BY <1>1, <2>1, <2>3
  <2>5. ToolsOf[k] \in {All, {"read"}} BY <2>3
  <2>. QED BY <1>1, <1>3, <1>6, <2>1, <2>2, <2>3, <2>4, <2>5
<1>7. CASE ~failed /\ k # "edit" /\ ~Switch(k)
  <2>1. tools' = Base /\ bridge' = [bridge EXCEPT !.proposing = FALSE, !.previous = {}]
    BY <1>2, <1>7 DEF Apply, Arm
  <2>2. bridge.applied = k BY <1>1, <1>7 DEF Switch
  <2>. QED BY <1>1, <1>3, <1>7, <2>1, <2>2 DEF Base
<1>. QED BY <1>4, <1>5, <1>6, <1>7

-----------------------------------------------------------------------------
(* Types.                                                                  *)

\* The child ends, or goes on.
LEMMA EndTyped ==
  ASSUME TypeOK, NEW condition \in BOOLEAN, EndChildIf(condition)
  PROVE  /\ life' \in {"up", "closing", "down"} /\ held' \subseteq 0..turn /\ ready' \in BOOLEAN
         /\ inbox' \in Seq(1..turn) /\ run' \in 0..turn
         /\ stage' \in {"none", "preflight", "hooked", "started"} /\ (stage' = "none" <=> run' = 0)
         /\ UNCHANGED <<asked, texts, extension>>
<1>1. 0 \in 0..turn BY DEF TypeOK, AdapterTypes
<1>2. << >> \in Seq(1..turn) OBVIOUS
<1>3. CASE condition BY <1>1, <1>2, <1>3 DEF EndChildIf, Gone
<1>4. CASE ~condition BY <1>4 DEF EndChildIf, TypeOK, ChildTypes, pi
<1>. QED BY <1>3, <1>4

\* The turn ends with its event.
LEMMA SettleTyped ==
  ASSUME TypeOK, NEW how \in {"settled", "aborted", "error"}, Settle(how)
  PROVE  out' \in Seq(Shown) /\ phase' \in {"settled", "drop"}
<1>1. out \in Seq(Shown) /\ Record(turn, how) \in Shown
  BY DEF TypeOK, AdapterTypes, Shown, Record
<1>. QED BY <1>1 DEF Settle

\* What an action leaves alone keeps its type.
LEMMA AdapterKept == ASSUME TypeOK, UNCHANGED adapter PROVE AdapterTypes'
BY DEF TypeOK, AdapterTypes, adapter, Shown

LEMMA PiKept ==
  ASSUME TypeOK, turn' = turn, UNCHANGED pi
  PROVE  /\ inbox' \in Seq(1..turn') /\ run' \in 0..turn'
         /\ stage' \in {"none", "preflight", "hooked", "started"} /\ (stage' = "none" <=> run' = 0)
         /\ asked' \subseteq 0..turn' /\ texts' \in 0..MaxText
BY DEF TypeOK, ChildTypes, pi

LEMMA ExtensionKept ==
  ASSUME Typing, turn' = turn, bridgeLive' = bridgeLive, UNCHANGED extension
  PROVE  /\ tools' \in {All, {"read"}, {"propose"}} /\ bridge' \in Bridges
         /\ got' \in [1..MaxTurn -> 0..MaxTurn] /\ unswitched' \subseteq 0..turn'
         /\ bridgeLive' => Base' = ToolsOf[bridge'.applied]
BY DEF Typing, TypeOK, ChildTypes, extension, Bridges, Base

\* The parts of the types of the child.
Files == /\ events \in Seq(Said) /\ held \subseteq 0..turn /\ context \in 0..turn /\ ready \in BOOLEAN
         /\ life \in {"up", "closing", "down"} /\ verdict \in {"none", "refused"}
Working == /\ inbox \in Seq(1..turn) /\ run \in 0..turn
           /\ stage \in {"none", "preflight", "hooked", "started"} /\ (stage = "none" <=> run = 0)
           /\ asked \subseteq 0..turn /\ texts \in 0..MaxText
Extended == /\ tools \in {All, {"read"}, {"propose"}} /\ bridge \in Bridges
            /\ got \in [1..MaxTurn -> 0..MaxTurn] /\ unswitched \subseteq 0..turn
            /\ bridgeLive => Base = ToolsOf[bridge.applied]
            /\ phase = "closed" => ~bridgeLive /\ bridge = Fresh

LEMMA Parts == Typing <=> AdapterTypes /\ (busy => turn > 0) /\ Files /\ Working /\ Extended
BY DEF Typing, TypeOK, ChildTypes, Files, Working, Extended, Bridges

LEMMA StepAdapter ==
  ASSUME Typing, Step
  PROVE  AdapterTypes' /\ (turn' = turn \/ (\E edit \in BOOLEAN : Begin(edit)))
<1>. USE DEF Typing, TypeOK
<1>1. CASE Open
  <2>1. persona' \in {"go", "read"} /\ bridgeLive' \in BOOLEAN /\ phase' = "idle" /\ preReady' \in 0..1
    BY <1>1 DEF Open
  <2>2. UNCHANGED <<turn, kinds, aborted, method, started, out, skip>> BY <1>1 DEF Open
  <2>. QED BY <2>1, <2>2 DEF AdapterTypes, Shown
<1>2. CASE SetPersona
  <2>1. persona' \in {"go", "read"} BY <1>2 DEF SetPersona
  <2>2. UNCHANGED <<bridgeLive, phase, turn, kinds, aborted, method, started, out, preReady, skip>>
    BY <1>2 DEF SetPersona
  <2>. QED BY <2>1, <2>2 DEF AdapterTypes, Shown
<1>3. CASE UNCHANGED adapter
  BY <1>3, AdapterKept DEF adapter
<1>4. CASE MapStartup
  <2>1. UNCHANGED <<bridgeLive, persona, turn, kinds, aborted, method, started>>
    BY <1>4 DEF MapStartup
  <2>2. CASE aborted
    <3>1. UNCHANGED <<preReady, skip>> /\ out' \in Seq(Shown) /\ phase' \in {"settled", "drop"}
      BY <1>4, <2>2, SettleTyped DEF MapStartup
    <3>. QED BY <2>1, <3>1 DEF AdapterTypes, Shown
  <2>3. CASE ~aborted
    <3>1. out' = out \o Startup /\ skip' = preReady /\ preReady' = 0 /\ phase' = "compose"
      BY <1>4, <2>3 DEF MapStartup
    <3>2. preReady \in 0..1 /\ out \in Seq(Shown) BY DEF AdapterTypes
    <3>3. Record(0, "ask") \in Shown BY DEF AdapterTypes, Shown, Record
    <3>4. Startup \in Seq(Shown) BY <3>2, <3>3 DEF Startup
    <3>5. out' \in Seq(Shown) BY <3>1, <3>2, <3>4
    <3>. QED BY <2>1, <3>1, <3>2, <3>5 DEF AdapterTypes, Shown
  <2>. QED BY <2>2, <2>3
<1>5. CASE Compose
  <2>1. UNCHANGED <<bridgeLive, persona, turn, kinds, aborted, method, started, preReady, skip>>
    BY <1>5 DEF Compose
  <2>2. Settle("aborted") \/ Settle("error") \/ (phase' = "reading" /\ out' = out)
    BY <1>5 DEF Compose
  <2>3. out' \in Seq(Shown) /\ phase' \in {"reading", "settled", "drop"}
    BY <2>2, SettleTyped DEF AdapterTypes
  <2>. QED BY <2>1, <2>3 DEF AdapterTypes, Shown
<1>6. CASE ReadRecord
  <2>1. UNCHANGED <<bridgeLive, persona, turn, kinds, aborted, method, preReady>>
    BY <1>6 DEF ReadRecord
  <2>2. skip' \in 0..1 /\ started' \in BOOLEAN
    <3>1. skip \in 0..1 /\ started \in BOOLEAN BY DEF AdapterTypes
    <3>2. (skip > 0 /\ skip' = skip - 1) \/ skip' = skip BY <1>6 DEF ReadRecord
    <3>3. started' = started \/ started' = (started \/ Head(events).is = "start") BY <1>6 DEF ReadRecord
    <3>4. skip' \in 0..1 BY ONLY <3>1, <3>2
    <3>5. started' \in BOOLEAN BY ONLY <3>1, <3>3
    <3>. QED BY ONLY <3>4, <3>5
  <2>3. \/ Settle("settled")
        \/ phase' = phase /\ (out' = out \/ out' = Append(out, Head(events)))
    BY <1>6 DEF ReadRecord
  <2>4. Head(events) \in Said BY <1>6, TakeTyped DEF ReadRecord
  <2>5. Head(events) \in Shown BY <2>4 DEF Said, Shown
  <2>6. out' \in Seq(Shown) /\ phase' \in {"closed", "idle", "startup", "compose", "reading", "settled", "drop"}
    BY <2>3, <2>5, SettleTyped DEF AdapterTypes
  <2>. QED BY <2>1, <2>2, <2>6 DEF AdapterTypes, Shown
<1>7. CASE ReadAborted
  <2>1. UNCHANGED <<bridgeLive, persona, turn, kinds, aborted, method, started, preReady>> /\ skip' = 0
    BY <1>7 DEF ReadAborted
  <2>2. out' \in Seq(Shown) /\ phase' \in {"settled", "drop"}
    BY <1>7, SettleTyped DEF ReadAborted
  <2>. QED BY <2>1, <2>2 DEF AdapterTypes, Shown
<1>8. CASE ReadFailure
  <2>1. UNCHANGED <<bridgeLive, persona, turn, kinds, aborted, method, started, preReady, skip>>
    BY <1>8 DEF ReadFailure
  <2>2. out' \in Seq(Shown) /\ phase' \in {"settled", "drop"}
    BY <1>8, SettleTyped DEF ReadFailure
  <2>. QED BY <2>1, <2>2 DEF AdapterTypes, Shown
<1>9. CASE Finally
  <2>1. UNCHANGED <<bridgeLive, persona, turn, kinds, aborted, method, started, out, preReady>>
        /\ skip' = 0 /\ phase' = "idle"
    BY <1>9 DEF Finally
  <2>. QED BY <2>1 DEF AdapterTypes, Shown
<1>10. CASE Signal \/ Abort
  <2>1. UNCHANGED <<bridgeLive, persona, phase, turn, kinds, started, out, preReady, skip>>
        /\ method' \in {"no", "clearing"} /\ aborted' \in BOOLEAN
    BY <1>10 DEF Signal, Abort, AdapterTypes, busy
  <2>. QED BY <2>1 DEF AdapterTypes, Shown
<1>11. CASE PiIsTold
  <2>1. UNCHANGED <<bridgeLive, persona, phase, turn, kinds, aborted, started, out, preReady, skip>>
        /\ method' = "no"
    BY <1>11 DEF PiIsTold
  <2>. QED BY <2>1 DEF AdapterTypes, Shown
<1>12. ASSUME NEW edit \in BOOLEAN, Begin(edit) PROVE AdapterTypes'
  <2>1. turn \in 0..MaxTurn /\ turn < MaxTurn /\ turn' = turn + 1 /\ MaxTurn \in Nat
    BY <1>12, TurnAssumption DEF Begin, AdapterTypes, TurnAssumption
  <2>2. turn' \in 0..MaxTurn BY <2>1
  <2>3. kinds' = Append(kinds, IF edit THEN "edit" ELSE persona) BY <1>12 DEF Begin
  <2>4. (IF edit THEN "edit" ELSE persona) \in {"go", "read", "edit"} BY DEF AdapterTypes
  <2>5. kinds' \in Seq({"go", "read", "edit"}) /\ Len(kinds') = turn'
    <3>1. kinds \in Seq({"go", "read", "edit"}) /\ Len(kinds) = turn BY DEF AdapterTypes
    <3>. HIDE DEF Typing, TypeOK
    <3>. QED BY <2>1, <2>3, <2>4, <3>1
  <2>6. out' = << >> /\ phase' = "startup" /\ skip' = 0 /\ aborted' = FALSE /\ started' = FALSE
        /\ UNCHANGED <<bridgeLive, persona, method, preReady>>
    BY <1>12 DEF Begin
  <2>7. out' \in Seq(Shown)' BY <2>6
  <2>8. bridgeLive \in BOOLEAN /\ persona \in {"go", "read"} /\ method \in {"no", "clearing"}
        /\ preReady \in 0..1
    BY DEF AdapterTypes
  <2>. HIDE DEF Typing, TypeOK
  <2>12. skip' \in 0..1 BY ONLY <2>6
  <2>13. aborted' \in BOOLEAN /\ started' \in BOOLEAN BY ONLY <2>6
  <2>9. skip' \in 0..1 /\ aborted' \in BOOLEAN /\ started' \in BOOLEAN BY ONLY <2>12, <2>13
  <2>10. phase' \in {"closed", "idle", "startup", "compose", "reading", "settled", "drop"} BY <2>6
  <2>11. bridgeLive' \in BOOLEAN /\ persona' \in {"go", "read"} /\ method' \in {"no", "clearing"}
         /\ preReady' \in 0..1
    BY <2>6, <2>8
  <2>. QED BY ONLY <2>2, <2>5, <2>7, <2>9, <2>10, <2>11 DEF AdapterTypes
<1>13. CASE Close \/ Exits \/ RespondUi \/ DialogExpires \/ PiAsks BY <1>13, <1>3 DEF Close, Exits, RespondUi, DialogExpires, PiAsks
<1>14. CASE Pi BY <1>14, <1>3, <1>11 DEF Pi, PiTakes, PiRefuses, BeforeAgentStart, PiStarts, PiSpeaks, PiSettles, PiIsTold
<1>. QED
  BY <1>1, <1>2, <1>4, <1>5, <1>6, <1>7, <1>8, <1>9, <1>10, <1>12, <1>13, <1>14
     DEF Step, Session, Generator

\* The steps of a child that leave the number of the turn alone.
LEMMA TurnKept ==
  ASSUME Step, ~(\E edit \in BOOLEAN : Begin(edit))
  PROVE  turn' = turn
BY DEF Step, Session, Generator, Pi, Open, SetPersona, Close, Exits, MapStartup, Compose, ReadRecord,
       ReadAborted, ReadFailure, Finally, RespondUi, DialogExpires, Signal, Abort, PiAsks, PiTakes, PiRefuses,
       BeforeAgentStart, PiStarts, PiSpeaks, PiSettles, PiIsTold, adapter

\* A session opens once, and a turn that runs was begun.
LEMMA PhaseOpens ==
  ASSUME Typing, Step
  PROVE  /\ phase' = "closed" => phase = "closed" /\ UNCHANGED bridgeLive
         /\ busy' => turn' > 0
<1>1. turn \in Nat /\ (busy => turn > 0) BY DEF Typing, TypeOK, AdapterTypes
<1>2. CASE Open BY <1>1, <1>2 DEF Open, busy
<1>3. CASE SetPersona \/ Close \/ Exits BY <1>1, <1>3 DEF SetPersona, Close, Exits, adapter, busy
<1>4. CASE MapStartup \/ Compose \/ ReadAborted \/ ReadFailure
  BY <1>1, <1>4 DEF MapStartup, Compose, ReadAborted, ReadFailure, Settle, busy
<1>5. CASE ReadRecord BY <1>1, <1>5 DEF ReadRecord, Settle, busy
<1>6. CASE Finally BY <1>6 DEF Finally, busy
<1>7. CASE RespondUi \/ DialogExpires \/ Signal \/ Abort
  BY <1>1, <1>7 DEF RespondUi, DialogExpires, Signal, Abort, adapter, busy
<1>8. CASE \E edit \in BOOLEAN : Begin(edit) BY <1>1, <1>8 DEF Begin, busy
<1>9. CASE Pi \/ PiAsks
  BY <1>1, <1>9 DEF Pi, PiTakes, PiRefuses, BeforeAgentStart, PiStarts, PiSpeaks, PiSettles, PiIsTold, PiAsks,
                    adapter, busy
<1>. QED BY <1>2, <1>3, <1>4, <1>5, <1>6, <1>7, <1>8, <1>9 DEF Step, Session, Generator

LEMMA StepFiles ==
  ASSUME Typing, Step
  PROVE  Files'
<1>. DEFINE Queued == events' \in Seq(Said')
            Rest == /\ held' \subseteq 0..turn' /\ context' \in 0..turn' /\ ready' \in BOOLEAN
                    /\ life' \in {"up", "closing", "down"} /\ verdict' \in {"none", "refused"}
<1>0. /\ events \in Seq(Said) /\ held \subseteq 0..turn /\ context \in 0..turn /\ ready \in BOOLEAN
      /\ life \in {"up", "closing", "down"} /\ verdict \in {"none", "refused"}
      /\ turn \in Nat /\ 0 \in 0..turn /\ run \in 0..turn /\ TypeOK
  BY DEF Typing, TypeOK, ChildTypes, AdapterTypes
<1>1. CASE \E edit \in BOOLEAN : Begin(edit)
  <2>1. turn' = turn + 1 /\ verdict' = "none" /\ UNCHANGED <<life, events, held, context, ready>>
    BY <1>1 DEF Begin, files
  <2>2. Said \subseteq Said' BY <1>0, <2>1 DEF Said
  <2>3. Seq(Said) \subseteq Seq(Said') BY <2>2
  <2>. QED BY <1>0, <2>1, <2>3 DEF Files
<1>2. CASE ~(\E edit \in BOOLEAN : Begin(edit))
  <2>1. turn' = turn BY <1>2, TurnKept
  <2>2. Said' = Said BY <2>1 DEF Said
  <2>3. \A r \in Said : Write(r) => Queued BY <1>0, <2>2 DEF Write
  <2>4. UNCHANGED events => Queued BY <1>0, <2>2
  <2>5. events' = << >> => Queued OBVIOUS
  <2>6. Queued
    <3>1. CASE Open
      <4>1. Record(0, "ask") \in Said BY <1>0 DEF Said, Record
      <4>. QED BY <2>2, <4>1, <3>1 DEF Open
    <3>2. CASE ReadRecord BY <1>0, <2>2, <3>2, TakeTyped DEF ReadRecord
    <3>3. CASE PiAsks \/ PiStarts \/ PiSpeaks \/ Ends
      <4>1. Record(run, "ask") \in Said /\ Record(run, "start") \in Said /\ Record(run, "text") \in Said
            /\ Record(run, "settled") \in Said
        BY <1>0 DEF Said, Record
      <4>. QED BY <4>1, <3>3, <2>3 DEF PiAsks, PiStarts, PiSpeaks, Ends
    <3>4. CASE PiSettles \/ PiIsTold BY <3>3, <3>4, <2>4 DEF PiSettles, PiIsTold
    <3>5. CASE SetPersona \/ Close \/ Exits \/ MapStartup \/ Compose \/ ReadFailure
      BY <3>5, <2>4 DEF SetPersona, Close, Exits, MapStartup, Compose, ReadFailure
    <3>6. CASE ReadAborted \/ Finally BY <3>6, <2>4, <2>5 DEF ReadAborted, Finally
    <3>7. CASE RespondUi \/ DialogExpires \/ Signal \/ Abort
      BY <3>7, <2>4 DEF RespondUi, DialogExpires, Signal, Abort
    <3>8. CASE PiTakes \/ PiRefuses \/ BeforeAgentStart
      BY <3>8, <2>4 DEF PiTakes, PiRefuses, BeforeAgentStart
    <3>. QED BY <1>2, <3>1, <3>2, <3>3, <3>4, <3>5, <3>6, <3>7, <3>8 DEF Step, Session, Generator, Pi
  <2>. HIDE DEF Queued
  <2>7. Rest
    <3>. USE <1>0, <2>1
    <3>1. CASE Open
      BY <3>1 DEF Open
    <3>2. CASE SetPersona \/ MapStartup \/ ReadRecord
      BY <3>2 DEF SetPersona, MapStartup, ReadRecord, files
    <3>3. CASE Close BY <3>3 DEF Close
    <3>4. CASE Exits BY <3>4 DEF Exits, Gone, files
    <3>5. CASE Compose
      <4>1. \E condition \in BOOLEAN : EndChildIf(condition) \/ UNCHANGED <<life, held, ready>>
        BY <3>5 DEF Compose, waitingForUi
      <4>2. life' \in {"up", "closing", "down"} /\ held' \subseteq 0..turn /\ ready' \in BOOLEAN
        BY <4>1, EndTyped
      <4>3. context' \in {context, turn} /\ verdict' \in {"none", "refused"}
        BY <3>5 DEF Compose, Publish
      <4>. QED BY <4>2, <4>3
    <3>6. CASE ReadAborted \/ ReadFailure \/ Abort
      <4>1. \E condition \in BOOLEAN : EndChildIf(condition)
        BY <3>6 DEF ReadAborted, ReadFailure, Abort, waitingForUi
      <4>2. life' \in {"up", "closing", "down"} /\ held' \subseteq 0..turn /\ ready' \in BOOLEAN
        BY <4>1, EndTyped
      <4>3. context' = context /\ verdict' = verdict
        BY <3>6 DEF ReadAborted, ReadFailure, Abort
      <4>. QED BY <4>2, <4>3
    <3>7. CASE Finally BY <3>7 DEF Finally
    <3>8. CASE Signal BY <3>8 DEF Signal, files
    <3>9. CASE RespondUi \/ DialogExpires BY <3>9 DEF RespondUi, DialogExpires, files
    <3>10. CASE PiAsks BY <3>10 DEF PiAsks, files
    <3>11. CASE PiTakes \/ PiStarts \/ PiSpeaks BY <3>11 DEF PiTakes, PiStarts, PiSpeaks, files
    <3>12. CASE PiRefuses BY <3>12 DEF PiRefuses, files
    <3>13. CASE BeforeAgentStart BY <3>13 DEF BeforeAgentStart, files
    <3>14. CASE PiSettles \/ PiIsTold BY <3>14 DEF PiSettles, PiIsTold, Ends, files
    <3>. QED BY <1>2, <3>1, <3>2, <3>3, <3>4, <3>5, <3>6, <3>7, <3>8, <3>9, <3>10, <3>11, <3>12, <3>13, <3>14
             DEF Step, Session, Generator, Pi
  <2>. QED BY <2>6, <2>7 DEF Files, Queued
<1>. QED BY <1>1, <1>2

LEMMA StepWorking ==
  ASSUME Typing, Step
  PROVE  Working'
<1>0. /\ inbox \in Seq(1..turn) /\ run \in 0..turn
      /\ stage \in {"none", "preflight", "hooked", "started"} /\ (stage = "none" <=> run = 0)
      /\ asked \subseteq 0..turn /\ texts \in 0..MaxText
      /\ turn \in Nat /\ 0 \in 0..turn /\ MaxText \in Nat /\ TypeOK
  BY TurnAssumption DEF Typing, TypeOK, ChildTypes, AdapterTypes, TurnAssumption
<1>1. CASE \E edit \in BOOLEAN : Begin(edit)
  <2>1. turn' = turn + 1 /\ UNCHANGED pi BY <1>1 DEF Begin
  <2>2. 1..turn \subseteq 1..turn' BY <1>0, <2>1
  <2>3. Seq(1..turn) \subseteq Seq(1..turn') BY <2>2, SeqMono
  <2>. QED BY <1>0, <2>1, <2>3 DEF Working, pi
<1>2. CASE ~(\E edit \in BOOLEAN : Begin(edit))
  <2>1. turn' = turn BY <1>2, TurnKept
  <2>2. CASE UNCHANGED pi BY <2>1, <2>2, PiKept, <1>0 DEF Working
  <2>3. ASSUME NEW condition \in BOOLEAN, EndChildIf(condition) PROVE Working'
    BY <1>0, <2>1, <2>3, EndTyped DEF Working
  <2>4. CASE Gone BY <1>0, <2>1, <2>4 DEF Gone, Working
  <2>5. CASE Compose
    <3>1. CASE /\ inbox' = IF life = "up" THEN Append(inbox, turn) ELSE inbox
               /\ phase = "compose"
               /\ UNCHANGED <<run, stage, asked, texts>>
      <4>1. inbox' \in Seq(1..turn)
        <5>1. turn > 0 BY <3>1 DEF Typing, busy
        <5>2. turn \in 1..turn BY <1>0, <5>1
        <5>3. Append(inbox, turn) \in Seq(1..turn)
          <6>. HIDE DEF TypeOK, Typing
          <6>. DEFINE S == 1..turn
          <6>1. inbox \in Seq(S) /\ turn \in S BY <1>0, <5>2
          <6>. HIDE DEF S
          <6>2. Append(inbox, turn) \in Seq(S) BY ONLY <6>1
          <6>. QED BY <6>2 DEF S
        <5>. QED BY <1>0, <5>3, <3>1
      <4>. QED BY <1>0, <2>1, <3>1, <4>1 DEF Working
    <3>. QED BY <2>3, <2>5, <3>1 DEF Compose, waitingForUi
  <2>6. CASE PiTakes
    <3>1. Head(inbox) \in 1..turn /\ Tail(inbox) \in Seq(1..turn) BY <1>0, <2>6 DEF PiTakes
    <3>2. inbox' = Tail(inbox) /\ run' = Head(inbox) /\ stage' = "preflight" /\ texts' = 0 /\ asked' = asked
      BY <2>6 DEF PiTakes
    <3>. QED BY <1>0, <2>1, <3>1, <3>2 DEF Working
  <2>7. CASE PiRefuses
    <3>1. Tail(inbox) \in Seq(1..turn) BY <1>0, <2>7 DEF PiRefuses
    <3>2. inbox' = Tail(inbox) /\ UNCHANGED <<run, stage, asked, texts>> BY <2>7 DEF PiRefuses
    <3>. QED BY <1>0, <2>1, <3>1, <3>2 DEF Working
  <2>8. CASE PiAsks BY <1>0, <2>1, <2>8 DEF PiAsks, Working
  <2>9. CASE BeforeAgentStart BY <1>0, <2>1, <2>9 DEF BeforeAgentStart, Working
  <2>10. CASE PiStarts BY <1>0, <2>1, <2>10 DEF PiStarts, Working
  <2>11. CASE PiSpeaks BY <1>0, <2>1, <2>11 DEF PiSpeaks, Working
  <2>12. CASE PiSettles \/ PiIsTold
    <3>1. CASE Ends BY <1>0, <2>1, <3>1 DEF Ends, Working
    <3>. QED BY <2>2, <2>12, <3>1 DEF PiSettles, PiIsTold
  <2>13. CASE Open \/ SetPersona \/ Close \/ MapStartup \/ ReadRecord \/ Finally
    BY <2>2, <2>13 DEF Open, SetPersona, Close, MapStartup, ReadRecord, Finally
  <2>14. CASE RespondUi \/ DialogExpires \/ Signal
    BY <2>2, <2>14 DEF RespondUi, DialogExpires, Signal
  <2>15. CASE ReadAborted \/ ReadFailure \/ Abort
    BY <2>3, <2>15 DEF ReadAborted, ReadFailure, Abort, waitingForUi
  <2>16. CASE Exits BY <2>4, <2>16 DEF Exits
  <2>. QED BY <1>2, <2>5, <2>6, <2>7, <2>8, <2>9, <2>10, <2>11, <2>12, <2>13, <2>14, <2>15, <2>16
           DEF Step, Session, Generator, Pi
<1>. QED BY <1>1, <1>2

LEMMA StepExtended ==
  ASSUME Typing, Step
  PROVE  Extended'
<1>0. /\ turn \in Nat /\ 0 \in 0..turn /\ turn \in 0..MaxTurn /\ MaxTurn \in Nat /\ run \in 0..turn
      /\ got \in [1..MaxTurn -> 0..MaxTurn] /\ unswitched \subseteq 0..turn /\ context \in 0..turn
      /\ tools \in {All, {"read"}, {"propose"}} /\ bridge \in Bridges
      /\ bridgeLive => Base = ToolsOf[bridge.applied]
      /\ bridgeLive \in BOOLEAN
  BY TurnAssumption DEF Typing, TypeOK, ChildTypes, AdapterTypes, TurnAssumption, Bridges
<1>1. CASE UNCHANGED <<extension, bridgeLive>>
  <2>1. turn' = turn \/ turn' = turn + 1 BY TurnKept DEF Begin
  <2>2. unswitched' \subseteq 0..turn' BY <1>0, <1>1, <2>1 DEF extension
  <2>3. phase' = "closed" => phase = "closed" BY PhaseOpens
  <2>4. phase' = "closed" => ~bridgeLive' /\ bridge' = Fresh BY <1>1, <2>3 DEF Typing, extension
  <2>5. bridgeLive' => Base' = ToolsOf[bridge'.applied] BY <1>0, <1>1 DEF extension, Base
  <2>. QED BY <1>0, <1>1, <2>2, <2>4, <2>5 DEF Extended, extension
<1>2. CASE Open
  <2>0. UNCHANGED <<turn, bridge, got, unswitched>> BY <1>2 DEF Open
  <2>1. PICK configured \in BOOLEAN, loads \in BOOLEAN, p \in {"go", "read"} :
          tools' = SpawnTools(configured, loads, p) /\ bridgeLive' = (configured /\ loads)
    BY <1>2 DEF Open
  <2>2. tools' \in {All, {"read"}} BY <2>1 DEF SpawnTools, ToolsOf
  <2>3. bridgeLive' => tools' = All BY <2>1 DEF SpawnTools
  <2>4. bridge' = Fresh BY <1>2, <2>0 DEF Open, Typing
  <2>5. bridgeLive' => Base' = ToolsOf[bridge'.applied] BY <2>3, <2>4 DEF Base, Fresh, ToolsOf
  <2>6. phase' # "closed" BY <1>2 DEF Open
  <2>. QED BY <1>0, <2>0, <2>2, <2>5, <2>6 DEF Extended
<1>3. CASE BeforeAgentStart /\ ~UNCHANGED extension
  <2>1. PICK restored \in BOOLEAN, switched \in BOOLEAN :
          /\ Apply(kinds[context], restored, switched)
          /\ unswitched' = IF restored /\ switched THEN unswitched ELSE unswitched \cup {run}
    BY <1>3 DEF BeforeAgentStart
  <2>2. context # 0 /\ got' = [got EXCEPT ![run] = context] /\ bridgeLive' = bridgeLive /\ bridgeLive /\ turn' = turn
    BY <1>3 DEF BeforeAgentStart, adapter
  <2>3. kinds[context] \in {"go", "read", "edit"}
    <3>1. kinds \in Seq({"go", "read", "edit"}) /\ Len(kinds) = turn BY DEF Typing, TypeOK, AdapterTypes
    <3>. QED BY <1>0, <2>2, <3>1
  <2>4. /\ tools' \in {All, {"read"}, {"propose"}} /\ bridge' \in Bridges
        /\ Base' = ToolsOf[bridge'.applied]
    BY <2>1, <2>2, <2>3, Applied
  <2>5. got' \in [1..MaxTurn -> 0..MaxTurn]
    <3>1. context \in 0..MaxTurn BY <1>0
    <3>. QED BY <1>0, <2>2, <3>1
  <2>6. unswitched' \subseteq 0..turn' BY <1>0, <2>1, <2>2
  <2>7. phase' # "closed" BY <2>2, PhaseOpens DEF Typing
  <2>. QED BY <2>4, <2>5, <2>6, <2>7 DEF Extended
<1>4. ASSUME NEW ok \in BOOLEAN, RestoreEdit(ok), bridgeLive,
             UNCHANGED <<bridgeLive, phase, turn>>
      PROVE  Extended'
  <2>1. /\ tools' \in {All, {"read"}, {"propose"}} /\ bridge' \in Bridges
        /\ bridge'.applied = bridge.applied /\ Base' = Base
    BY <1>4, EditOver
  <2>2. phase' # "closed" /\ turn' = turn BY <1>4 DEF Typing
  <2>. QED BY <1>0, <1>4, <2>1, <2>2 DEF Extended, RestoreEdit
<1>5. CASE PiSettles \/ PiIsTold
  <2>1. UNCHANGED <<extension, bridgeLive>> \/ (Ends /\ UNCHANGED <<bridgeLive, phase, turn>>)
    BY <1>5 DEF PiSettles, PiIsTold, adapter
  <2>2. CASE Ends /\ UNCHANGED <<bridgeLive, phase, turn>>
    BY <1>1, <1>4, <2>2 DEF Ends
  <2>. QED BY <1>1, <2>1, <2>2
<1>6. CASE BeforeAgentStart BY <1>1, <1>3, <1>6 DEF BeforeAgentStart, adapter
<1>7. CASE SetPersona \/ Close \/ Exits \/ MapStartup \/ ReadRecord \/ Finally
  BY <1>1, <1>7 DEF SetPersona, Close, Exits, Gone, MapStartup, ReadRecord, Finally, adapter
<1>8. CASE Compose \/ ReadAborted \/ ReadFailure \/ Abort
  BY <1>1, <1>8 DEF Compose, ReadAborted, ReadFailure, Abort, EndChildIf, Gone
<1>9. CASE RespondUi \/ DialogExpires \/ Signal \/ (\E edit \in BOOLEAN : Begin(edit))
  BY <1>1, <1>9 DEF RespondUi, DialogExpires, Signal, Begin, adapter
<1>10. CASE PiTakes \/ PiRefuses \/ PiStarts \/ PiSpeaks \/ PiAsks
  BY <1>1, <1>10 DEF PiTakes, PiRefuses, PiStarts, PiSpeaks, PiAsks, adapter
<1>. QED BY <1>2, <1>5, <1>6, <1>7, <1>8, <1>9, <1>10 DEF Step, Session, Generator, Pi

\* Whatever may happen, types are kept.
LEMMA StepTyped == ASSUME Typing, Step PROVE Typing'
<1>1. AdapterTypes' /\ Files' /\ Working' /\ Extended'
  BY StepAdapter, StepFiles, StepWorking, StepExtended
<1>2. busy' => turn' > 0 BY PhaseOpens
<1>. QED BY <1>1, <1>2 DEF Typing, TypeOK, ChildTypes, Files, Working, Extended, Bridges
-----------------------------------------------------------------------------
(* One prompt at a time.                                                   *)

LEMMA Singletons == \A n : Append(<<>>, n) = <<n>> /\ Head(<<n>>) = n /\ Tail(<<n>>) = <<>> /\ <<n>> # <<>>
OBVIOUS

LEMMA NextIsStep == Next => Step
BY DEF Next, Step

\* The start of the run is read when pi has begun the prompt and no other waits.
LEMMA StartRead ==
  ASSUME TypeOK, OnePrompt, Queue, events # <<>>, Head(events).is = "start", phase = "reading"
  PROVE  /\ inbox = <<>> /\ run \in {0, turn} /\ stage \in {"none", "started"}
         /\ \A i \in Index : events[i].run = turn
<1>1. /\ Head(events) = events[1] /\ 1 \in Index /\ events[1] \in Said
      /\ turn \in Nat /\ run \in 0..turn /\ stage \in {"none", "preflight", "hooked", "started"}
      /\ Len(events) \in Nat
  BY TakeTyped DEF TypeOK, ChildTypes, AdapterTypes
<1>2. events[1].run = turn
  <2>1. events[1].run # 0 BY <1>1 DEF Queue
  <2>2. events[1].run \in {0, turn} BY <1>1 DEF Queue
  <2>. QED BY <2>1, <2>2
<1>3. turn # 0 BY <1>1, <1>2 DEF Queue
<1>4. inbox = <<>> /\ run \in {0, turn} BY <1>1, <1>2, <1>3 DEF Queue
<1>5. stage \notin {"preflight", "hooked"} BY <1>1, <1>2 DEF Queue
<1>6. \A i \in Index : events[i].run = turn
  <2>1. \A i \in Index : 1 < i => events[i].run = turn BY <1>1, <1>2 DEF Queue
  <2>. QED BY <1>1, <1>2, <2>1 DEF Index
<1>. QED BY <1>1, <1>4, <1>5, <1>6

LEMMA NextOnePrompt ==
  ASSUME Typing, Inductive, Next
  PROVE  OnePrompt'
<1>0. /\ OnePrompt /\ Closed /\ Dialogs /\ TypeOK
      /\ turn \in Nat /\ inbox \in Seq(1..turn) /\ run \in 0..turn
      /\ stage \in {"none", "preflight", "hooked", "started"} /\ (stage = "none" <=> run = 0)
      /\ life \in {"up", "closing", "down"}
  BY DEF Inductive, Typing, TypeOK, ChildTypes, AdapterTypes
<1>1. CASE Open BY <1>0, <1>1 DEF Open, OnePrompt, Closed, pi
<1>2. CASE SetPersona BY <1>0, <1>2 DEF SetPersona, OnePrompt, pi
<1>3. CASE Close BY <1>0, <1>3 DEF Close, OnePrompt, pi, adapter
<1>4. CASE Exits BY <1>0, <1>4 DEF Exits, Gone, OnePrompt, adapter
<1>5. CASE MapStartup BY <1>0, <1>5 DEF MapStartup, Settle, OnePrompt, pi
<1>6. CASE Compose
  <2>1. inbox = <<>> /\ run # turn /\ ~started BY <1>0, <1>6 DEF Compose, OnePrompt
  <2>2. CASE phase' = "reading"
    <3>1. inbox' = (IF life = "up" THEN <<turn>> ELSE <<>>) /\ verdict' = (IF life = "up" THEN "none" ELSE "refused")
          /\ UNCHANGED <<life, held, run, stage, turn, started, aborted>> /\ ~aborted
      BY <1>6, <2>1, <2>2, Singletons DEF Compose, Settle
    <3>. QED BY <1>0, <2>1, <2>2, <3>1, Singletons DEF OnePrompt
  <2>3. CASE phase' # "reading"
    <3>1. phase' = "settled" /\ UNCHANGED <<turn, started, aborted, verdict>>
      BY <1>6, <2>3 DEF Compose, Settle
    <3>2. Gone \/ UNCHANGED <<life, held, pi>>
      BY <1>6, <2>3 DEF Compose, EndChildIf
    <3>. QED BY <1>0, <2>1, <3>1, <3>2 DEF OnePrompt, Gone, pi
  <2>. QED BY <2>2, <2>3
<1>7. CASE ReadRecord
  <2>1. UNCHANGED <<turn, aborted, life, held, verdict, pi>> /\ phase = "reading" /\ events # <<>>
    BY <1>7 DEF ReadRecord
  <2>2. CASE started' = started /\ (phase' = phase \/ started)
    <3>1. phase' = "reading" \/ (phase' = "drop" /\ started)
      BY <1>7, <2>2 DEF ReadRecord, Settle
    <3>. QED BY <1>0, <2>1, <2>2, <3>1 DEF OnePrompt, pi
  <2>3. CASE ~(started' = started /\ (phase' = phase \/ started))
    <3>0. started \in BOOLEAN BY DEF Typing, TypeOK, AdapterTypes
    <3>a. skip = 0 /\ Takes(Head(events)) /\ (started' <=> started \/ Head(events).is = "start")
          /\ IF Head(events).is = "settled" THEN phase' = "drop" ELSE phase' = phase
      BY <1>7, <2>3 DEF ReadRecord, Settle
    <3>b. started' \in BOOLEAN BY StepTyped, NextIsStep DEF Typing, TypeOK, AdapterTypes
    <3>c. CASE started BY <2>3, <3>0, <3>a, <3>b, <3>c
    <3>d. CASE ~started /\ Head(events).is # "start" BY <2>3, <3>0, <3>a, <3>b, <3>d DEF Takes
    <3>e. CASE ~started /\ Head(events).is = "start"
      <4>1. phase' = "reading" /\ started' BY <2>1, <3>a, <3>b, <3>e
      <4>2. inbox = <<>> /\ run \in {0, turn} /\ stage \in {"none", "started"}
        BY <1>0, <2>1, <3>e, StartRead DEF Inductive
      <4>. QED BY <1>0, <2>1, <4>1, <4>2 DEF OnePrompt, pi
    <3>. QED BY <3>0, <3>c, <3>d, <3>e
  <2>. QED BY <2>2, <2>3
<1>8. CASE ReadAborted
  <2>1. /\ phase = "reading" /\ aborted /\ phase' = "drop" /\ UNCHANGED <<turn, started, aborted, verdict>>
        /\ EndChildIf(waitingForUi \/ life = "closing")
    BY <1>8 DEF ReadAborted, Settle
  <2>2. CASE waitingForUi \/ life = "closing" BY <1>0, <2>1, <2>2 DEF OnePrompt, EndChildIf, Gone
  <2>3. CASE ~(waitingForUi \/ life = "closing")
    <3>1. UNCHANGED <<life, held, pi>> /\ held = {} BY <2>1, <2>3 DEF EndChildIf, waitingForUi
    <3>2. inbox = <<>> /\ stage \notin {"preflight", "hooked"} BY <1>0, <2>1, <3>1 DEF OnePrompt
    <3>. QED BY <1>0, <2>1, <3>1, <3>2 DEF OnePrompt, pi
  <2>. QED BY <2>2, <2>3
<1>9. CASE ReadFailure
  <2>1. /\ phase = "reading" /\ phase' = "drop" /\ UNCHANGED <<turn, started, aborted, verdict>>
        /\ EndChildIf(life = "closing" \/ (aborted /\ waitingForUi))
        /\ verdict = "refused" \/ life = "down"
    BY <1>9 DEF ReadFailure, Settle
  <2>2. CASE Gone BY <1>0, <2>1, <2>2 DEF OnePrompt, Gone
  <2>3. CASE ~Gone
    <3>1. UNCHANGED <<life, held, pi>> BY <2>1, <2>3 DEF EndChildIf
    <3>2. (inbox = <<>> /\ run # turn) \/ (run = 0 /\ inbox = <<>>) BY <1>0, <2>1, <3>1 DEF OnePrompt
    <3>. QED BY <1>0, <2>1, <3>1, <3>2 DEF OnePrompt, pi
  <2>. QED BY <2>2, <2>3
<1>10. CASE Finally BY <1>0, <1>10 DEF Finally, OnePrompt, pi
<1>11. CASE RespondUi BY <1>0, <1>11 DEF RespondUi, OnePrompt, pi, adapter
<1>12. CASE DialogExpires BY <1>0, <1>12 DEF DialogExpires, OnePrompt, pi, adapter, busy
<1>13. CASE Orderly /\ Signal BY <1>0, <1>13 DEF Orderly, Signal, OnePrompt, pi, busy, waitingForUi
<1>14. CASE Orderly /\ Abort
  BY <1>0, <1>14 DEF Orderly, Abort, EndChildIf, Gone, OnePrompt, pi, busy, waitingForUi
<1>15. CASE Attended /\ PiAsks BY <1>0, <1>15 DEF Attended, PiAsks, OnePrompt, adapter
<1>16. CASE PiTakes
  <2>1. inbox = <<turn>> /\ phase = "reading" /\ ~started /\ run' = turn /\ inbox' = <<>> /\ stage' = "preflight"
        /\ life # "down" /\ held = {}
    BY <1>0, <1>16, Singletons DEF PiTakes, OnePrompt
  <2>2. verdict # "refused" BY <1>0, <2>1, Singletons DEF OnePrompt
  <2>3. UNCHANGED <<adapter, life, held, verdict>> BY <1>16 DEF PiTakes
  <2>. QED BY <1>0, <2>1, <2>2, <2>3 DEF OnePrompt, adapter
<1>17. CASE PiRefuses
  <2>1. inbox = <<turn>> /\ phase = "reading" /\ run # turn /\ ~started /\ inbox' = <<>>
    BY <1>0, <1>17, Singletons DEF PiRefuses, OnePrompt
  <2>2. UNCHANGED <<adapter, life, held, run, stage>> BY <1>17 DEF PiRefuses
  <2>. QED BY <1>0, <2>1, <2>2 DEF OnePrompt, adapter
<1>18. CASE BeforeAgentStart BY <1>0, <1>18 DEF BeforeAgentStart, OnePrompt, adapter
<1>19. CASE PiStarts BY <1>0, <1>19 DEF PiStarts, OnePrompt, adapter
<1>20. CASE PiSpeaks BY <1>0, <1>20 DEF PiSpeaks, OnePrompt, adapter
<1>21. CASE PiSettles BY <1>0, <1>21 DEF PiSettles, Ends, OnePrompt, adapter
<1>22. CASE PiIsTold
  <2>1. UNCHANGED <<phase, turn, aborted, started>> BY <1>22 DEF PiIsTold
  <2>2. CASE UNCHANGED <<life, held, verdict, pi>> BY <1>0, <2>1, <2>2 DEF OnePrompt, pi
  <2>3. CASE Ends /\ run # 0 /\ life # "down"
    <3>1. held = {} /\ run' = 0 /\ stage' = "none" /\ UNCHANGED <<life, held, verdict, inbox>>
      BY <1>0, <1>22, <2>3 DEF Ends, Dialogs, PiIsTold
    <3>. QED BY <1>0, <2>1, <2>3, <3>1 DEF OnePrompt
  <2>. QED BY <1>22, <2>2, <2>3 DEF PiIsTold
<1>23. CASE \E edit \in BOOLEAN : method = "no" /\ Begin(edit)
  BY <1>0, <1>23 DEF Begin, OnePrompt, pi
<1>. QED
  BY <1>1, <1>2, <1>3, <1>4, <1>5, <1>6, <1>7, <1>8, <1>9, <1>10, <1>11, <1>12, <1>13, <1>14, <1>15, <1>16,
     <1>17, <1>18, <1>19, <1>20, <1>21, <1>22, <1>23 DEF Next, Session, Generator, Pi
-----------------------------------------------------------------------------
(* What a turn yields.                                                     *)

LEMMA NextOpens == ASSUME Typing, Inductive, Next PROVE phase' # "closed" /\ Closed'
<1>. SUFFICES ASSUME phase' = "closed" PROVE FALSE BY DEF Closed
<1>1. phase = "closed" BY PhaseOpens, NextIsStep
<1>2. inbox = <<>> /\ run = 0 /\ stage = "none" /\ held = {} /\ method = "no"
  BY <1>1 DEF Inductive, Closed, Typing, TypeOK, ChildTypes
<1>3. ~(Session \/ Generator \/ RespondUi \/ DialogExpires)
  BY <1>1, <1>2 DEF Session, Generator, RespondUi, DialogExpires, Open, SetPersona, Close, Exits, MapStartup,
     Compose, ReadRecord, ReadAborted, ReadFailure, Finally, busy
<1>4. ~Pi
  BY <1>1, <1>2 DEF Pi, PiTakes, PiRefuses, BeforeAgentStart, PiStarts, PiSpeaks, PiSettles, PiIsTold
<1>. QED BY <1>1, <1>2, <1>3, <1>4 DEF Next, Begin, Signal, Abort, PiAsks, busy

\* An event more.
LEMMA OutGrows ==
  ASSUME TypeOK, NEW r, out' = Append(out, r)
  PROVE  /\ Len(out) \in Nat /\ Len(out') = Len(out) + 1 /\ out'[Len(out')] = r
         /\ \A i \in 1..Len(out) : out'[i] = out[i]
         /\ \A i \in 1..Len(out') : i \in 1..Len(out) \/ i = Len(out')
<1>1. out \in Seq(Shown) BY DEF TypeOK, AdapterTypes
<1>2. Len(out) \in Nat /\ Len(out') = Len(out) + 1 /\ out'[Len(out) + 1] = r
      /\ \A i \in 1..Len(out) : out'[i] = out[i]
  BY <1>1
<1>. QED BY <1>2

LEMMA SettlesYields ==
  ASSUME Typing, Inductive, NEW how \in {"settled", "aborted", "error"}, Settle(how), turn' = turn,
         phase \in {"startup", "compose", "reading"}
  PROVE  Yields' /\ SettledOnceAndLast' /\ OwnRecords'
<1>0. TypeOK /\ Yields /\ OwnRecords /\ turn \in Nat /\ turn > 0
  BY DEF Typing, Inductive, TypeOK, AdapterTypes, Yields, busy
<1>1. out' = Append(out, Record(turn, how)) /\ phase' \in {"settled", "drop"} BY DEF Settle
<1>2. /\ Len(out) \in Nat /\ Len(out') = Len(out) + 1 /\ out'[Len(out')] = Record(turn, how)
      /\ \A i \in 1..Len(out) : out'[i] = out[i]
      /\ \A i \in 1..Len(out') : i \in 1..Len(out) \/ i = Len(out')
  BY <1>0, <1>1, OutGrows
<1>3. out' # <<>> BY <1>1
<1>4. \A i \in 1..Len(out) : ~IsEnd(out[i]) BY <1>0 DEF Yields
<1>5. IsEnd(out'[Len(out')]) BY <1>2 DEF IsEnd, Record
<1>6. \A i \in 1..Len(out') : IsEnd(out'[i]) => i = Len(out')
  <2>. SUFFICES ASSUME NEW i \in 1..Len(out'), IsEnd(out'[i]) PROVE i = Len(out') OBVIOUS
  <2>1. CASE i \in 1..Len(out) BY <1>2, <1>4, <2>1
  <2>. QED BY <1>2, <2>1
<1>7. Yields' BY <1>0, <1>1, <1>3, <1>5 DEF Yields, IsEnd
<1>8. SettledOnceAndLast' BY <1>1, <1>6 DEF SettledOnceAndLast, IsEnd
<1>9. \A i \in 1..Len(out') : out'[i].run \in {0, turn'} BY <1>0, <1>2 DEF OwnRecords, Record
<1>10. \A i, j \in 1..Len(out') : out'[i] = out'[j] /\ out'[i].is = "ask" => i = j
  <2>. SUFFICES ASSUME NEW i \in 1..Len(out'), NEW j \in 1..Len(out'), out'[i] = out'[j], out'[i].is = "ask"
                PROVE  i = j
    OBVIOUS
  <2>1. i # Len(out') /\ j # Len(out') BY <1>2 DEF Record
  <2>2. i \in 1..Len(out) /\ j \in 1..Len(out) BY <1>2, <2>1
  <2>3. out[i] = out[j] /\ out[i].is = "ask" BY <1>2, <2>2
  <2>. QED BY <1>0, <2>2, <2>3 DEF OwnRecords
<1>. QED BY <1>7, <1>8, <1>9, <1>10 DEF OwnRecords

\* A record the turn takes is its own, and a dialog it has not shown.
LEMMA TakesOwn ==
  ASSUME Typing, Inductive, phase = "reading", events # <<>>, skip = 0, Takes(Head(events))
  PROVE  /\ Head(events).run \in {0, turn} /\ Head(events) \in Said
         /\ Head(events).is = "ask" => \A i \in 1..Len(out) : out[i] # Head(events)
         /\ Head(events).is = "settled" => started
<1>1. /\ Head(events) = events[1] /\ 1 \in Index /\ events[1] \in Said /\ TypeOK
  BY TakeTyped DEF Typing
<1>2. started => events[1].run = turn BY <1>1 DEF Inductive, Queue
<1>3. ~started => events[1].is \in {"start", "ask"} BY <1>1 DEF Takes
<1>4. events[1].run \in {0, turn} BY <1>1, <1>2, <1>3 DEF Inductive, Queue
<1>5. events[1].is = "ask" => \A i \in 1..Len(out) : out[i] # events[1]
  BY <1>1 DEF Inductive, AsksOnce
<1>. QED BY <1>1, <1>3, <1>4, <1>5

LEMMA NextYields ==
  ASSUME Typing, Inductive, Next
  PROVE  Yields' /\ SettledOnceAndLast' /\ OwnRecords'
<1>. DEFINE Goal == Yields' /\ SettledOnceAndLast' /\ OwnRecords'
<1>0. TypeOK /\ Yields /\ SettledOnceAndLast /\ OwnRecords /\ turn \in Nat /\ out \in Seq(Shown) /\ (busy => turn > 0)
  BY DEF Typing, Inductive, TypeOK, AdapterTypes
<1>1. ASSUME UNCHANGED <<phase, turn, out>> PROVE Goal
  BY <1>0, <1>1 DEF Yields, SettledOnceAndLast, OwnRecords, busy, IsEnd
<1>2. CASE Open
  <2>1. phase' = "idle" /\ turn' = 0 /\ out' = <<>> BY <1>2 DEF Open, Inductive, Closed
  <2>. QED BY <2>1 DEF Yields, SettledOnceAndLast, OwnRecords, busy
<1>3. CASE \E edit \in BOOLEAN : Begin(edit)
  <2>1. phase' = "startup" /\ turn' = turn + 1 /\ out' = <<>> BY <1>3 DEF Begin
  <2>. QED BY <1>0, <2>1 DEF Yields, SettledOnceAndLast, OwnRecords, busy
<1>4. CASE MapStartup
  <2>1. CASE aborted
    <3>1. Settle("aborted") /\ phase = "startup" /\ turn' = turn BY <1>4, <2>1 DEF MapStartup
    <3>. QED BY <3>1, SettlesYields
  <2>2. CASE ~aborted
    <3>1. out' = out \o Startup /\ phase = "startup" /\ phase' = "compose" /\ turn' = turn
      BY <1>4, <2>2 DEF MapStartup
    <3>2. out = <<>> /\ turn > 0 BY <1>0, <3>1 DEF Yields, busy
    <3>3. preReady \in 0..1 BY <1>0 DEF TypeOK, AdapterTypes
    <3>4. Startup \in Seq({Record(0, "ask")}) /\ Len(Startup) = preReady
      BY <3>3 DEF Startup
    <3>5. out' = Startup BY <3>1, <3>2, <3>4
    <3>6. Len(out') \in 0..1 /\ \A i \in 1..Len(out') : out'[i] = Record(0, "ask")
      BY <3>3, <3>4, <3>5
    <3>7. \A i, j \in 1..Len(out') : i = j BY <3>6
    <3>8. \A i \in 1..Len(out') : ~IsEnd(out'[i]) /\ out'[i].run = 0 BY <3>6 DEF IsEnd, Record
    <3>9. Yields' BY <1>0, <3>1, <3>2, <3>8 DEF Yields, IsEnd, busy
    <3>. QED BY <3>1, <3>7, <3>8, <3>9 DEF SettledOnceAndLast, OwnRecords, IsEnd
  <2>. QED BY <2>1, <2>2
<1>5. CASE Compose
  <2>1. CASE Settle("aborted") \/ Settle("error")
    BY <1>5, <2>1, SettlesYields DEF Compose
  <2>2. CASE phase' = "reading" /\ out' = out
    <3>1. phase = "compose" /\ turn' = turn BY <1>5 DEF Compose
    <3>2. Yields' BY <1>0, <2>2, <3>1 DEF Yields, busy, IsEnd
    <3>. QED BY <1>0, <2>2, <3>1, <3>2 DEF SettledOnceAndLast, OwnRecords, IsEnd
  <2>. QED BY <1>5, <2>1, <2>2 DEF Compose
<1>6. CASE ReadRecord
  <2>0. phase = "reading" /\ turn' = turn /\ events # <<>> BY <1>6 DEF ReadRecord
  <2>1. CASE UNCHANGED <<phase, out>> BY <1>1, <2>0, <2>1
  <2>2. CASE skip = 0 /\ Takes(Head(events)) /\ Settle("settled") BY <2>0, <2>2, SettlesYields
  <2>3. CASE skip = 0 /\ Takes(Head(events)) /\ Head(events).is # "settled"
             /\ out' = Append(out, Head(events)) /\ UNCHANGED phase
    <3>. DEFINE r == Head(events)
    <3>1. /\ r.run \in {0, turn} /\ r \in Said
          /\ r.is = "ask" => \A i \in 1..Len(out) : out[i] # r
      BY <2>0, <2>3, TakesOwn
    <3>. HIDE DEF r
    <3>2. /\ Len(out) \in Nat /\ Len(out') = Len(out) + 1 /\ out'[Len(out')] = r
          /\ \A i \in 1..Len(out) : out'[i] = out[i]
          /\ \A i \in 1..Len(out') : i \in 1..Len(out) \/ i = Len(out')
      BY <1>0, <2>3, OutGrows DEF r
    <3>3. ~IsEnd(r) BY <2>3, <3>1 DEF IsEnd, Said, r
    <3>4. \A i \in 1..Len(out') : ~IsEnd(out'[i])
      <4>1. \A i \in 1..Len(out) : ~IsEnd(out[i]) BY <1>0, <2>0 DEF Yields
      <4>2. \A i \in 1..Len(out) : ~IsEnd(out'[i]) BY <3>2, <4>1
      <4>. QED BY <3>2, <3>3, <4>2
    <3>5. Yields' BY <1>0, <2>0, <2>3, <3>4 DEF Yields, IsEnd, busy
    <3>6. SettledOnceAndLast' BY <2>0, <2>3, <3>4 DEF SettledOnceAndLast, IsEnd
    <3>7. \A i \in 1..Len(out') : out'[i].run \in {0, turn'} BY <1>0, <2>0, <3>1, <3>2 DEF OwnRecords
    <3>8. \A i, j \in 1..Len(out') : out'[i] = out'[j] /\ out'[i].is = "ask" => i = j
      <4>. SUFFICES ASSUME NEW i \in 1..Len(out'), NEW j \in 1..Len(out'), out'[i] = out'[j], out'[i].is = "ask"
                    PROVE  i = j
        OBVIOUS
      <4>1. CASE i \in 1..Len(out) /\ j \in 1..Len(out)
        <5>1. out[i] = out[j] /\ out[i].is = "ask" BY <3>2, <4>1
        <5>. QED BY <1>0, <4>1, <5>1 DEF OwnRecords
      <4>2. CASE i = Len(out') /\ j # Len(out') BY <3>1, <3>2, <4>2
      <4>3. CASE j = Len(out') /\ i # Len(out') BY <3>1, <3>2, <4>3
      <4>. QED BY <3>2, <4>1, <4>2, <4>3
    <3>. QED BY <3>5, <3>6, <3>7, <3>8 DEF OwnRecords
  <2>. QED BY <1>6, <2>1, <2>2, <2>3 DEF ReadRecord
<1>7. CASE ReadAborted \/ ReadFailure
  <2>1. phase = "reading" /\ turn' = turn /\ (Settle("aborted") \/ Settle("error"))
    BY <1>7 DEF ReadAborted, ReadFailure
  <2>. QED BY <2>1, SettlesYields
<1>8. CASE Finally
  <2>1. phase \in {"settled", "drop"} /\ phase' = "idle" /\ turn' = turn /\ out' = out
    BY <1>8 DEF Finally
  <2>2. out # <<>> /\ IsEnd(out[Len(out)]) BY <1>0, <2>1 DEF Yields
  <2>3. IsEnd(Last(out)) BY <2>2 DEF Last
  <2>4. Yields' BY <2>1 DEF Yields, busy
  <2>. QED BY <1>0, <2>1, <2>2, <2>3, <2>4 DEF SettledOnceAndLast, OwnRecords, IsEnd
<1>9. CASE SetPersona \/ Close \/ Exits
  BY <1>1, <1>9 DEF SetPersona, Close, Exits, adapter
<1>10. CASE RespondUi \/ DialogExpires \/ Signal \/ Abort \/ PiAsks
  BY <1>1, <1>10 DEF RespondUi, DialogExpires, Signal, Abort, PiAsks, adapter
<1>11. CASE Pi
  BY <1>1, <1>11 DEF Pi, PiTakes, PiRefuses, BeforeAgentStart, PiStarts, PiSpeaks, PiSettles, PiIsTold, adapter
<1>. QED BY <1>2, <1>3, <1>4, <1>5, <1>6, <1>7, <1>8, <1>9, <1>10, <1>11 DEF Next, Session, Generator
-----------------------------------------------------------------------------
(* What is queued for the reader.                                          *)

LEMMA QueueTypes ==
  ASSUME Typing
  PROVE  /\ turn \in Nat /\ run \in 0..turn /\ inbox \in Seq(1..turn) /\ events \in Seq(Said)
         /\ preReady \in 0..1 /\ skip \in 0..1 /\ (stage = "none" <=> run = 0) /\ TypeOK
         /\ stage \in {"none", "preflight", "hooked", "started"} /\ (busy => turn > 0)
         /\ Len(events) \in Nat /\ \A i \in Index : events[i] \in Said /\ events[i].run \in 0..turn
<1>1. events \in Seq(Said) BY DEF Typing, TypeOK, ChildTypes
<1>2. Len(events) \in Nat /\ \A i \in Index : events[i] \in Said BY <1>1 DEF Index
<1>3. \A r \in Said : r.run \in 0..turn BY DEF Said
<1>. QED BY <1>1, <1>2, <1>3 DEF Typing, TypeOK, ChildTypes, AdapterTypes

\* pi writes a record.
LEMMA QueueWritten ==
  ASSUME Typing, Inductive, NEW is \in {"ask", "start", "text", "settled"}, Write(Record(run, is)),
         run # 0, UNCHANGED <<turn, started, skip, preReady, phase, inbox>>,
         run' = run \/ (run' = 0 /\ stage' = "none"), is = "settled" => run' = 0,
         is \in {"ask", "start"} => run = turn /\ phase = "reading",
         stage' \in {"preflight", "hooked"} => stage' = stage /\ is = "ask"
  PROVE  Queue'
<1>. DEFINE r == Record(run, is)
            n == Len(events) + 1
<1>0. /\ Queue /\ OnePrompt /\ turn \in Nat /\ run \in 0..turn /\ preReady \in 0..1 /\ skip \in 0..1
      /\ \A i \in Index : events[i] \in Said
      /\ turn # 0 /\ r.run = run /\ r.is = is
  BY QueueTypes DEF Inductive, Record
<1>1. /\ Len(events) \in Nat /\ Len(events') = n /\ events'[n] = r /\ \A i \in Index : events'[i] = events[i]
      /\ \A i \in Index' : i \in Index \/ i = n
  <2>1. Record(run, is) \in Said BY <1>0 DEF Said, Record
  <2>. QED BY <2>1, QueueTypes, WriteTyped
<1>. HIDE DEF r, n
<1>2. \A i \in Index' : events'[i].run = 0 => i = 1 /\ events'[i].is = "ask" BY <1>0, <1>1 DEF Queue
<1>3. \A i \in Index' : events'[i].run \notin {0, turn} => events'[i].is \in {"text", "settled"}
  BY <1>0, <1>1 DEF Queue
<1>4. run = turn \/ \A i \in Index : events[i].run # turn BY <1>0 DEF Queue
<1>5. \A i, j \in Index' : i < j /\ events'[i].run = turn => events'[j].run = turn
  <2>. SUFFICES ASSUME NEW i \in Index', NEW j \in Index', i < j, events'[i].run = turn
                PROVE  events'[j].run = turn
    OBVIOUS
  <2>1. i \in Index
    <3>1. Index' = 1..n BY <1>1 DEF Index
    <3>2. i < n BY <1>1, <3>1 DEF n
    <3>. QED BY <1>1, <3>2
  <2>2. events[i].run = turn BY <1>1, <2>1
  <2>3. CASE j \in Index BY <1>0, <1>1, <2>1, <2>2, <2>3 DEF Queue
  <2>4. CASE j = n BY <1>0, <1>1, <1>4, <2>1, <2>2, <2>4
  <2>. QED BY <1>1, <2>3, <2>4
<1>6. run' \notin {0, turn'} \/ inbox' # <<>> \/ phase' \in {"startup", "compose", "settled"} =>
           turn' = 0 \/ \A i \in Index' : events'[i].run # turn'
  <2>. SUFFICES ASSUME run' \notin {0, turn} \/ inbox # <<>> \/ phase \in {"startup", "compose", "settled"}
                PROVE  \A i \in Index' : events'[i].run # turn
    OBVIOUS
  <2>1. run # turn BY <1>0 DEF OnePrompt
  <2>2. \A i \in Index : events[i].run # turn BY <1>4, <2>1
  <2>. QED BY <1>0, <1>1, <2>1, <2>2
<1>7. started' => skip' = 0 /\ \A i \in Index' : events'[i].run = turn'
  <2>. SUFFICES ASSUME started PROVE skip = 0 /\ \A i \in Index' : events'[i].run = turn
    OBVIOUS
  <2>1. run = turn /\ skip = 0 /\ \A i \in Index : events[i].run = turn BY <1>0 DEF OnePrompt, Queue
  <2>. QED BY <1>0, <1>1, <2>1
<1>8. stage' \in {"preflight", "hooked"} => \A i \in Index' : events'[i].run = turn' => events'[i].is = "ask"
  BY <1>0, <1>1 DEF Queue
<1>9. \A i \in Index' : events'[i].run = turn' /\ events'[i].is = "settled" => run' # turn'
  BY <1>0, <1>1 DEF Queue
<1>10. phase' = "idle" => \A i \in Index' : events'[i].run # 0 => events'[i].is \in {"text", "settled"}
  BY <1>0, <1>1 DEF Queue
<1>11. preReady' + skip' = 1 => events' # <<>> /\ events'[1] = Record(0, "ask")
  <2>. SUFFICES ASSUME preReady + skip = 1 PROVE events' # <<>> /\ events'[1] = Record(0, "ask")
    OBVIOUS
  <2>1. events # <<>> /\ events[1] = Record(0, "ask") BY <1>0 DEF Queue
  <2>2. 1 \in Index BY <2>1, QueueTypes, TakeTyped
  <2>. QED BY <1>1, <2>1, <2>2 DEF Write
<1>12. /\ phase' \in {"compose", "reading", "drop"} => preReady' = 0
       /\ preReady' + skip' <= 1 /\ (phase' \in {"closed", "idle", "startup"} => skip' = 0)
  BY <1>0 DEF Queue
<1>. QED BY <1>2, <1>3, <1>5, <1>6, <1>7, <1>8, <1>9, <1>10, <1>11, <1>12 DEF Queue

\* Nothing is written or taken.
LEMMA QueueKept ==
  ASSUME Typing, Inductive, UNCHANGED <<events, turn>>, started' => started, skip' = skip, preReady' = preReady,
         run' \in {0, run} \/ inbox # <<>>, inbox' # <<>> => inbox # <<>> \/ phase = "compose",
         phase' \in {phase, "settled", "reading", "drop"}, phase' = "settled" => phase \in {"startup", "compose", "settled"},
         phase' \in {"reading", "drop"} => phase \in {"compose", "reading", "drop"},
         stage' \in {"preflight", "hooked"} => stage \in {"preflight", "hooked"} \/ inbox # <<>>,
         phase' = "settled" => skip' = 0 \/ phase # "startup"
  PROVE  Queue'
<1>0. /\ Queue /\ OnePrompt /\ turn \in Nat /\ run \in 0..turn /\ preReady \in 0..1 /\ skip \in 0..1
      /\ inbox \in Seq(1..turn) /\ (busy => turn > 0) /\ Index' = Index
  BY QueueTypes DEF Inductive, Index
<1>1. inbox # <<>> => turn # 0 /\ \A i \in Index : events[i].run # turn
  <2>1. inbox # <<>> => turn > 0 BY <1>0 DEF OnePrompt, busy
  <2>. QED BY <1>0, <2>1 DEF Queue
<1>2. run' \notin {0, turn'} \/ inbox' # <<>> \/ phase' \in {"startup", "compose", "settled"} =>
           turn' = 0 \/ \A i \in Index' : events'[i].run # turn'
  BY <1>0, <1>1 DEF Queue
<1>3. \A i \in Index' : events'[i].run = turn' /\ events'[i].is = "settled" => run' # turn'
  BY <1>0, <1>1 DEF Queue
<1>4. stage' \in {"preflight", "hooked"} => \A i \in Index' : events'[i].run = turn' => events'[i].is = "ask"
  BY <1>0, <1>1 DEF Queue
<1>5. started' => skip' = 0 /\ \A i \in Index' : events'[i].run = turn'
  BY <1>0 DEF Queue
<1>6. phase' = "idle" => \A i \in Index' : events'[i].run # 0 => events'[i].is \in {"text", "settled"}
  BY <1>0 DEF Queue
<1>7. preReady' + skip' = 1 => events' # <<>> /\ events'[1] = Record(0, "ask")
  BY <1>0 DEF Queue
<1>8. /\ phase' \in {"compose", "reading", "drop"} => preReady' = 0
      /\ preReady' + skip' <= 1 /\ (phase' \in {"closed", "idle", "startup"} => skip' = 0)
  BY <1>0 DEF Queue
<1>9. /\ \A i \in Index' : events'[i].run = 0 => i = 1 /\ events'[i].is = "ask"
      /\ \A i \in Index' : events'[i].run \notin {0, turn'} => events'[i].is \in {"text", "settled"}
      /\ \A i, j \in Index' : i < j /\ events'[i].run = turn' => events'[j].run = turn'
  BY <1>0 DEF Queue
<1>. QED BY <1>2, <1>3, <1>4, <1>5, <1>6, <1>7, <1>8, <1>9 DEF Queue

\* The reader takes a record.
LEMMA QueueTaken ==
  ASSUME Typing, Inductive, ReadRecord
  PROVE  Queue'
<1>0. /\ Queue /\ OnePrompt /\ turn \in Nat /\ run \in 0..turn /\ preReady \in 0..1 /\ skip \in 0..1
      /\ TypeOK
  BY QueueTypes DEF Inductive
<1>1. /\ events # <<>> /\ events' = Tail(events) /\ phase = "reading" /\ UNCHANGED <<turn, preReady, pi>>
      /\ preReady = 0 /\ phase' \in {"reading", "drop"}
  BY <1>0 DEF ReadRecord, Settle, Queue
<1>2. /\ Head(events) = events[1] /\ events[1] \in Said /\ 1 \in Index
      /\ Len(events) \in Nat /\ Len(events') = Len(events) - 1
      /\ \A i \in Index' : events'[i] = events[i + 1] /\ i + 1 \in Index
  BY <1>0, <1>1, TakeTyped DEF Index
<1>3. \A i \in Index' : i \in Nat /\ i # 0 /\ i + 1 # 1 BY <1>2 DEF Index
<1>4. \A i \in Index' : events'[i].run # 0 BY <1>0, <1>2, <1>3 DEF Queue
<1>5. \A i \in Index' : events'[i].run \notin {0, turn} => events'[i].is \in {"text", "settled"}
  BY <1>0, <1>2 DEF Queue
<1>6. \A i, j \in Index' : i < j /\ events'[i].run = turn => events'[j].run = turn
  <2>. SUFFICES ASSUME NEW i \in Index', NEW j \in Index', i < j, events'[i].run = turn
                PROVE  events'[j].run = turn
    OBVIOUS
  <2>1. i + 1 < j + 1 BY <1>3
  <2>. QED BY <1>0, <1>2, <2>1 DEF Queue
<1>7. run' \notin {0, turn} \/ inbox' # <<>> \/ phase' \in {"startup", "compose", "settled"} =>
           turn' = 0 \/ \A i \in Index' : events'[i].run # turn
  BY <1>0, <1>1, <1>2 DEF Queue, pi
<1>8. started' => skip' = 0 /\ \A i \in Index' : events'[i].run = turn
  <2>1. CASE started
    <3>1. skip = 0 /\ \A i \in Index : events[i].run = turn BY <1>0, <2>1 DEF Queue
    <3>2. skip' = 0 BY <1>1, <3>1 DEF ReadRecord
    <3>. QED BY <1>2, <3>1, <3>2
  <2>2. CASE ~started /\ started'
    <3>1. skip = 0 /\ skip' = skip /\ events[1].is = "start" BY <1>2, <2>2 DEF ReadRecord
    <3>2. \A i \in Index : events[i].run = turn BY <1>0, <1>1, <1>2, <3>1, StartRead
    <3>. QED BY <1>2, <3>1, <3>2
  <2>. QED BY <2>1, <2>2
<1>9. stage' \in {"preflight", "hooked"} => \A i \in Index' : events'[i].run = turn => events'[i].is = "ask"
  <2>1. stage \in {"preflight", "hooked"} => \A i \in Index : events[i].run = turn => events[i].is = "ask"
    BY <1>0 DEF Queue
  <2>. QED BY <1>1, <1>2, <2>1 DEF pi
<1>10. \A i \in Index' : events'[i].run = turn /\ events'[i].is = "settled" => run' # turn
  <2>1. \A i \in Index : events[i].run = turn /\ events[i].is = "settled" => run # turn BY <1>0 DEF Queue
  <2>. QED BY <1>1, <1>2, <2>1 DEF pi
<1>11. preReady' + skip' # 1
  <2>1. skip' = skip - 1 \/ (skip = 0 /\ skip' = 0) BY <1>1 DEF ReadRecord
  <2>. QED BY <1>0, <1>1, <2>1
<1>12. preReady' = 0 /\ preReady' + skip' <= 1
  <2>1. skip' = skip - 1 \/ (skip = 0 /\ skip' = 0) BY <1>1 DEF ReadRecord
  <2>2. skip' \in 0..1 BY StepAdapter DEF Step, Generator, AdapterTypes
  <2>3. preReady' = 0 BY <1>1
  <2>4. skip' = 0 \/ skip' = 1 BY <2>2
  <2>. QED BY <2>3, <2>4
<1>. QED BY <1>1, <1>4, <1>5, <1>6, <1>7, <1>8, <1>9, <1>10, <1>11, <1>12 DEF Queue

LEMMA NextQueue ==
  ASSUME Typing, Inductive, Next
  PROVE  Queue'
<1>0. /\ Queue /\ OnePrompt /\ Closed /\ turn \in Nat /\ run \in 0..turn /\ preReady \in 0..1 /\ skip \in 0..1
      /\ inbox \in Seq(1..turn) /\ (busy => turn > 0) /\ (stage = "none" <=> run = 0)
      /\ Len(events) \in Nat /\ \A i \in Index : events[i] \in Said /\ events[i].run \in 0..turn
  BY QueueTypes DEF Inductive
<1>1. CASE Open
  <2>1. PICK n \in 0..1 : preReady' = n /\ events' = [i \in 1..n |-> Record(0, "ask")]
    BY <1>1 DEF Open
  <2>2. /\ turn = 0 /\ turn' = 0 /\ ~started' /\ skip' = 0 /\ run' = 0 /\ inbox' = <<>> /\ phase' = "idle"
        /\ stage' = "none"
    BY <1>0, <1>1 DEF Open, Closed, pi
  <2>3. Index' = 1..n BY <2>1 DEF Index
  <2>4. \A i \in Index' : i = 1 /\ n = 1 /\ events'[i] = Record(0, "ask") BY <2>1, <2>3
  <2>5. n = 1 => events' # <<>> /\ events'[1] = Record(0, "ask") BY <2>1
  <2>6. Record(0, "ask").run = 0 /\ Record(0, "ask").is = "ask" BY DEF Record
  <2>. QED BY <2>1, <2>2, <2>4, <2>5, <2>6 DEF Queue
<1>2. ASSUME events' = <<>>, preReady' + skip' = 0, UNCHANGED started, phase' \notin {"startup", "compose", "settled"},
             skip' = 0, preReady' = 0, inbox' = <<>>, turn' = turn
      PROVE  Queue'
  <2>1. Index' = {} BY <1>2 DEF Index
  <2>2. preReady' + skip' <= 1 /\ preReady' + skip' # 1 BY <1>2
  <2>. QED BY <1>2, <2>1, <2>2 DEF Queue
<1>3. CASE MapStartup
  <2>1. phase = "startup" /\ skip = 0 /\ UNCHANGED <<turn, started, pi, events>>
    BY <1>0, <1>3 DEF MapStartup, Queue
  <2>2. CASE aborted
    <3>1. phase' = "settled" /\ UNCHANGED <<preReady, skip>> BY <1>3, <2>1, <2>2 DEF MapStartup, Settle
    <3>. QED BY <2>1, <3>1, QueueKept DEF pi
  <2>3. CASE ~aborted
    <3>1. skip' = preReady /\ preReady' = 0 /\ phase' = "compose" BY <1>3, <2>3 DEF MapStartup
    <3>2. preReady' + skip' = preReady + skip BY <1>0, <2>1, <3>1
    <3>3. ~started BY <1>0, <2>1 DEF OnePrompt
    <3>4. turn' = turn /\ events' = events /\ run' = run /\ stage' = stage /\ inbox' = inbox /\ started' = started
          /\ Index' = Index
      BY <2>1 DEF pi, Index
    <3>5. /\ \A i \in Index' : events'[i].run = 0 => i = 1 /\ events'[i].is = "ask"
          /\ \A i \in Index' : events'[i].run \notin {0, turn'} => events'[i].is \in {"text", "settled"}
          /\ \A i, j \in Index' : i < j /\ events'[i].run = turn' => events'[j].run = turn'
      BY <1>0, <3>4 DEF Queue
    <3>6. run' \notin {0, turn'} \/ inbox' # <<>> \/ phase' \in {"startup", "compose", "settled"} =>
             turn' = 0 \/ \A i \in Index' : events'[i].run # turn'
      BY <1>0, <2>1, <3>4 DEF Queue
    <3>7. /\ stage' \in {"preflight", "hooked"} =>
               \A i \in Index' : events'[i].run = turn' => events'[i].is = "ask"
          /\ \A i \in Index' : events'[i].run = turn' /\ events'[i].is = "settled" => run' # turn'
      BY <1>0, <3>4 DEF Queue
    <3>8. preReady' + skip' = 1 => events' # <<>> /\ events'[1] = Record(0, "ask")
      BY <1>0, <3>2, <3>4 DEF Queue
    <3>9. preReady' + skip' <= 1 BY <1>0, <3>2 DEF Queue
    <3>. QED BY <3>1, <3>3, <3>4, <3>5, <3>6, <3>7, <3>8, <3>9 DEF Queue
  <2>. QED BY <2>2, <2>3
<1>4. CASE Compose
  <2>1. UNCHANGED <<turn, started, preReady, skip, events>> /\ phase = "compose" BY <1>4 DEF Compose
  <2>2. phase' \in {"settled", "reading"} BY <1>4 DEF Compose, Settle
  <2>3. /\ run' \in {0, run} /\ (stage' = stage \/ stage' = "none")
    BY <1>4 DEF Compose, EndChildIf, Gone, pi
  <2>4. CASE phase' = "settled" BY <2>1, <2>2, <2>3, <2>4, QueueKept
  <2>5. CASE phase' = "reading" BY <2>1, <2>2, <2>3, <2>5, QueueKept
  <2>. QED BY <2>2, <2>4, <2>5
<1>5. CASE ReadAborted
  <2>1. /\ events' = <<>> /\ skip' = 0 /\ phase = "reading" /\ phase' = "drop"
        /\ UNCHANGED <<turn, started, preReady>>
    BY <1>5 DEF ReadAborted, Settle
  <2>2. preReady' = 0 BY <1>0, <2>1 DEF Queue
  <2>3. inbox' = <<>> BY NextOnePrompt, <2>1 DEF OnePrompt
  <2>. QED BY <1>2, <2>1, <2>2, <2>3
<1>6. CASE ReadFailure
  <2>1. UNCHANGED <<turn, started, preReady, skip, events>> /\ phase = "reading" /\ phase' = "drop"
    BY <1>6 DEF ReadFailure, Settle
  <2>2. EndChildIf(life = "closing" \/ (aborted /\ waitingForUi)) BY <1>6 DEF ReadFailure
  <2>3. run' \in {0, run} /\ (inbox' = inbox \/ inbox' = <<>>) /\ (stage' = stage \/ stage' = "none")
    BY <2>2 DEF EndChildIf, Gone, pi
  <2>. QED BY <2>1, <2>3, QueueKept
<1>7. CASE Finally
  <2>1. UNCHANGED <<turn, started, preReady, pi>> /\ skip' = 0 /\ phase \in {"settled", "drop"} /\ phase' = "idle"
    BY <1>7 DEF Finally
  <2>2. inbox' = <<>> BY <1>0, <2>1 DEF OnePrompt, pi
  <2>3. CASE phase = "drop"
    <3>1. events' = <<>> BY <1>7, <2>3 DEF Finally
    <3>2. preReady' = 0 BY <1>0, <2>1, <2>3 DEF Queue
    <3>. QED BY <1>2, <2>1, <2>2, <3>1, <3>2
  <2>4. CASE phase = "settled"
    <3>1. events' = events /\ turn' = turn /\ run' = run /\ stage' = stage /\ Index' = Index
      BY <1>7, <2>1, <2>4 DEF Finally, pi, Index
    <3>2. turn # 0 BY <1>0, <2>4 DEF busy
    <3>3. \A i \in Index : events[i].run # turn BY <1>0, <2>4, <3>2 DEF Queue
    <3>4. ~started \/ \A i \in Index : events[i].run = turn BY <1>0 DEF Queue
    <3>5. started' => skip' = 0 /\ \A i \in Index' : events'[i].run = turn' BY <1>0, <2>1, <3>1 DEF Queue
    <3>6. \A i \in Index' : events'[i].run # 0 => events'[i].is \in {"text", "settled"}
      BY <1>0, <3>1, <3>3 DEF Queue
    <3>7. preReady' + skip' = 1 => preReady + skip = 1
      <4>1. preReady' = preReady /\ skip' = 0 BY <2>1
      <4>2. preReady + skip <= 1 BY <1>0 DEF Queue
      <4>. QED BY <1>0, <4>1, <4>2
    <3>8. preReady' + skip' <= 1
      <4>1. preReady' = preReady /\ skip' = 0 BY <2>1
      <4>. QED BY <1>0, <4>1
    <3>9. preReady' + skip' = 1 => events' # <<>> /\ events'[1] = Record(0, "ask")
      BY <1>0, <3>1, <3>7 DEF Queue
    <3>10. /\ \A i \in Index' : events'[i].run = 0 => i = 1 /\ events'[i].is = "ask"
           /\ \A i \in Index' : events'[i].run \notin {0, turn'} => events'[i].is \in {"text", "settled"}
      BY <1>0, <3>1 DEF Queue
    <3>11. \A i \in Index' : events'[i].run # turn' BY <3>1, <3>3
    <3>. QED BY <2>1, <2>2, <3>5, <3>6, <3>8, <3>9, <3>10, <3>11 DEF Queue
  <2>. QED BY <2>1, <2>3, <2>4
<1>8. CASE \E edit \in BOOLEAN : Begin(edit)
  <2>1. /\ phase = "idle" /\ phase' = "startup" /\ turn' = turn + 1 /\ ~started' /\ skip' = 0
        /\ UNCHANGED <<preReady, events, pi>>
    BY <1>8 DEF Begin
  <2>2. inbox = <<>> /\ stage \notin {"preflight", "hooked"} /\ skip = 0 BY <1>0, <2>1 DEF OnePrompt, Queue
  <2>3. \A i \in Index : events[i].run # turn' BY <1>0, <2>1
  <2>4. \A i \in Index : events[i].run # 0 => events[i].is \in {"text", "settled"} BY <1>0, <2>1 DEF Queue
  <2>5. preReady' + skip' = preReady + skip BY <2>1, <2>2
  <2>6. events' = events /\ Index' = Index /\ stage' = stage /\ inbox' = <<>> BY <2>1, <2>2 DEF Index, pi
  <2>7. \A i \in Index' : events'[i].run # turn' BY <2>3, <2>6
  <2>8. preReady' + skip' <= 1 /\ (preReady' + skip' = 1 => events' # <<>> /\ events'[1] = Record(0, "ask"))
    BY <1>0, <2>5, <2>6 DEF Queue
  <2>9. /\ \A i \in Index' : events'[i].run = 0 => i = 1 /\ events'[i].is = "ask"
        /\ \A i \in Index' : events'[i].run \notin {0, turn'} => events'[i].is \in {"text", "settled"}
    BY <1>0, <2>4, <2>6 DEF Queue
  <2>. QED BY <2>1, <2>2, <2>6, <2>7, <2>8, <2>9 DEF Queue
<1>9. CASE ReadRecord BY <1>9, QueueTaken
<1>10. CASE SetPersona
  BY <1>10, QueueKept DEF SetPersona, pi
<1>11. CASE Close BY <1>11, QueueKept DEF Close, pi, adapter
<1>12. CASE Exits BY <1>12, QueueKept DEF Exits, Gone, adapter
<1>13. CASE RespondUi \/ DialogExpires BY <1>13, QueueKept DEF RespondUi, DialogExpires, pi, adapter
<1>14. CASE Signal BY <1>14, QueueKept DEF Signal, pi
<1>15. CASE Abort BY <1>15, QueueKept DEF Abort, EndChildIf, Gone, pi
<1>16. CASE PiTakes
  <2>1. inbox # <<>> /\ UNCHANGED <<adapter, events>> BY <1>16 DEF PiTakes
  <2>. QED BY <2>1, QueueKept DEF adapter
<1>17. CASE PiRefuses
  <2>1. inbox # <<>> /\ UNCHANGED <<adapter, events, run, stage>> BY <1>17 DEF PiRefuses
  <2>. QED BY <2>1, QueueKept DEF adapter
<1>18. CASE BeforeAgentStart
  <2>1. stage = "preflight" /\ UNCHANGED <<adapter, events, run, inbox>> BY <1>18 DEF BeforeAgentStart
  <2>. QED BY <2>1, QueueKept DEF adapter
<1>19. CASE Attended /\ PiAsks
  <2>1. /\ Write(Record(run, "ask")) /\ run = turn /\ phase = "reading" /\ stage # "none"
        /\ UNCHANGED <<adapter, inbox, run, stage>>
    BY <1>19 DEF Attended, PiAsks
  <2>. QED BY <1>0, <2>1, QueueWritten DEF adapter
<1>20. CASE PiStarts
  <2>1. /\ Write(Record(run, "start")) /\ stage = "hooked" /\ stage' = "started" /\ UNCHANGED <<adapter, inbox, run>>
    BY <1>20 DEF PiStarts
  <2>2. run = turn /\ phase = "reading" BY <1>0, <2>1 DEF OnePrompt
  <2>. QED BY <1>0, <2>1, <2>2, QueueWritten DEF adapter
<1>21. CASE PiSpeaks
  <2>1. /\ Write(Record(run, "text")) /\ stage = "started" /\ UNCHANGED <<adapter, inbox, run, stage>>
    BY <1>21 DEF PiSpeaks
  <2>. QED BY <1>0, <2>1, QueueWritten DEF adapter
<1>22. ASSUME Ends, run # 0, UNCHANGED <<phase, turn, started, preReady, skip>> PROVE Queue'
  <2>1. Write(Record(run, "settled")) /\ run' = 0 /\ stage' = "none" /\ inbox' = inbox BY <1>22 DEF Ends
  <2>. QED BY <1>22, <2>1, QueueWritten
<1>23. CASE PiSettles BY <1>0, <1>22, <1>23 DEF PiSettles, adapter
<1>24. CASE PiIsTold
  <2>1. UNCHANGED <<phase, turn, started, preReady, skip>> BY <1>24 DEF PiIsTold
  <2>2. CASE run = 0 \/ life = "down"
    <3>1. UNCHANGED <<events, pi>> BY <1>24, <2>2 DEF PiIsTold
    <3>. QED BY <2>1, <3>1, QueueKept DEF pi
  <2>. QED BY <1>22, <1>24, <2>1, <2>2 DEF PiIsTold
<1>. QED
  BY <1>1, <1>3, <1>4, <1>5, <1>6, <1>7, <1>8, <1>9, <1>10, <1>11, <1>12, <1>13, <1>14, <1>15, <1>16,
     <1>17, <1>18, <1>19, <1>20, <1>21, <1>23, <1>24 DEF Next, Session, Generator, Pi

\* No dialog comes twice.
Reads == phase \in {"startup", "compose", "reading"}

LEMMA AsksKept ==
  ASSUME Typing, Inductive, events' = events \/ events' = <<>>, asked' = asked,
         \/ out' = out /\ (Reads' => Reads /\ skip' = skip)
         \/ ~Reads' /\ \E how \in {"settled", "aborted", "error"} : out' = Append(out, Record(turn, how))
  PROVE  AsksOnce'
<1>0. AsksOnce /\ TypeOK /\ Len(events) \in Nat BY QueueTypes DEF Inductive
<1>1. \A i \in Index' : i \in Index /\ events'[i] = events[i] BY DEF Index
<1>2. /\ \A i, j \in Index' : events'[i] = events'[j] /\ events'[i].is = "ask" => i = j
      /\ \A i \in Index' : events'[i].is = "ask" /\ events'[i].run # 0 => events'[i].run \in asked'
  BY <1>0, <1>1 DEF AsksOnce
<1>3. CASE out' = out /\ (Reads' => Reads /\ skip' = skip)
  <2>1. \A i \in 1..Len(out') : out'[i].is = "ask" /\ out'[i].run # 0 => out'[i].run \in asked'
    BY <1>0, <1>3 DEF AsksOnce
  <2>2. Reads' => \A i \in 1..Len(out'), j \in Index' : out'[i] = events'[j] /\ out'[i].is = "ask" => j <= skip'
    BY <1>0, <1>1, <1>3 DEF AsksOnce, Reads
  <2>. QED BY <1>2, <2>1, <2>2 DEF AsksOnce, Reads
<1>4. ASSUME NEW how \in {"settled", "aborted", "error"}, out' = Append(out, Record(turn, how)), ~Reads'
      PROVE  AsksOnce'
  <2>1. /\ \A i \in 1..Len(out) : out'[i] = out[i]
        /\ \A i \in 1..Len(out') : i \in 1..Len(out) \/ out'[i] = Record(turn, how)
    BY <1>0, <1>4, OutGrows
  <2>2. Record(turn, how).is # "ask" BY DEF Record
  <2>3. \A i \in 1..Len(out') : out'[i].is = "ask" /\ out'[i].run # 0 => out'[i].run \in asked'
    BY <1>0, <2>1, <2>2 DEF AsksOnce
  <2>. QED BY <1>2, <1>4, <2>3 DEF AsksOnce, Reads
<1>. QED BY <1>3, <1>4

LEMMA AsksWritten ==
  ASSUME Typing, Inductive, NEW is \in {"ask", "start", "text", "settled"}, Write(Record(run, is)),
         run # 0, UNCHANGED <<out, skip, phase>>, asked \subseteq asked', is = "ask" => run \notin asked /\ run \in asked'
  PROVE  AsksOnce'
<1>. DEFINE r == Record(run, is)
            n == Len(events) + 1
<1>0. AsksOnce /\ run \in 0..turn /\ r.run = run /\ r.is = is BY QueueTypes DEF Inductive, Record
<1>1. /\ Len(events) \in Nat /\ Len(events') = n /\ events'[n] = r /\ \A i \in Index : events'[i] = events[i]
      /\ \A i \in Index' : i \in Index \/ i = n
  <2>1. Record(run, is) \in Said BY <1>0 DEF Said, Record
  <2>. QED BY <2>1, QueueTypes, WriteTyped
<1>. HIDE DEF r, n
<1>2. \A i \in Index : events[i].is = "ask" => events[i] # r BY <1>0 DEF AsksOnce
<1>3. \A i \in 1..Len(out) : out[i].is = "ask" => out[i] # r BY <1>0 DEF AsksOnce
<1>4. \A i, j \in Index' : events'[i] = events'[j] /\ events'[i].is = "ask" => i = j
  <2>. SUFFICES ASSUME NEW i \in Index', NEW j \in Index', events'[i] = events'[j], events'[i].is = "ask"
                PROVE  i = j
    OBVIOUS
  <2>1. CASE i \in Index /\ j \in Index BY <1>0, <1>1, <2>1 DEF AsksOnce
  <2>2. CASE i \in Index /\ j = n BY <1>1, <1>2, <2>2
  <2>3. CASE i = n /\ j \in Index BY <1>1, <1>2, <2>3
  <2>. QED BY <1>1, <2>1, <2>2, <2>3
<1>5. \A i \in Index' : events'[i].is = "ask" /\ events'[i].run # 0 => events'[i].run \in asked'
  BY <1>0, <1>1 DEF AsksOnce
<1>6. \A i \in 1..Len(out') : out'[i].is = "ask" /\ out'[i].run # 0 => out'[i].run \in asked'
  BY <1>0 DEF AsksOnce
<1>7. Reads' => \A i \in 1..Len(out'), j \in Index' : out'[i] = events'[j] /\ out'[i].is = "ask" => j <= skip'
  <2>. SUFFICES ASSUME Reads, NEW i \in 1..Len(out), NEW j \in Index', out[i] = events'[j], out[i].is = "ask"
                PROVE  j <= skip
    BY DEF Reads
  <2>1. j # n BY <1>1, <1>3
  <2>2. j \in Index /\ events'[j] = events[j] BY <1>1, <2>1
  <2>. QED BY <1>0, <2>2 DEF AsksOnce, Reads
<1>. QED BY <1>4, <1>5, <1>6, <1>7 DEF AsksOnce, Reads

LEMMA AsksTaken ==
  ASSUME Typing, Inductive, ReadRecord
  PROVE  AsksOnce'
<1>0. AsksOnce /\ TypeOK /\ skip \in 0..1 /\ skip' \in 0..1
  BY QueueTypes, StepAdapter DEF Inductive, Step, Generator, AdapterTypes
<1>1. events # <<>> /\ events' = Tail(events) /\ phase = "reading" /\ asked' = asked /\ turn' = turn
  BY DEF ReadRecord, pi
<1>2. /\ Head(events) = events[1] /\ events[1] \in Said /\ 1 \in Index
      /\ Len(events) \in Nat /\ Len(events') = Len(events) - 1
      /\ \A i \in Index' : events'[i] = events[i + 1] /\ i + 1 \in Index
  BY <1>0, <1>1, TakeTyped DEF Index
<1>3. \A i \in Index' : i \in Nat /\ i # 0 /\ i + 1 # 1 BY <1>2 DEF Index
<1>4. \A i, j \in Index' : events'[i] = events'[j] /\ events'[i].is = "ask" => i = j
  <2>. SUFFICES ASSUME NEW i \in Index', NEW j \in Index', events'[i] = events'[j], events'[i].is = "ask"
                PROVE  i = j
    OBVIOUS
  <2>1. i + 1 = j + 1 BY <1>0, <1>2 DEF AsksOnce
  <2>. QED BY <1>3, <2>1
<1>5. \A i \in Index' : events'[i].is = "ask" /\ events'[i].run # 0 => events'[i].run \in asked'
  <2>1. \A i \in Index : events[i].is = "ask" /\ events[i].run # 0 => events[i].run \in asked BY <1>0 DEF AsksOnce
  <2>. QED BY <1>1, <1>2, <2>1
<1>6. CASE out' = out /\ (skip' = skip - 1 \/ skip = 0)
  <2>1. \A i \in 1..Len(out') : out'[i].is = "ask" /\ out'[i].run # 0 => out'[i].run \in asked'
    BY <1>0, <1>1, <1>6 DEF AsksOnce
  <2>2. \A i \in 1..Len(out'), j \in Index' : out'[i] = events'[j] /\ out'[i].is = "ask" => j <= skip'
    <3>. SUFFICES ASSUME NEW i \in 1..Len(out), NEW j \in Index', out[i] = events[j + 1], out[i].is = "ask"
                  PROVE  j <= skip'
      BY <1>2, <1>6
    <3>1. j + 1 <= skip BY <1>0, <1>1, <1>2 DEF AsksOnce
    <3>. QED BY <1>0, <1>3, <1>6, <3>1
  <2>. QED BY <1>4, <1>5, <2>1, <2>2 DEF AsksOnce
<1>7. CASE skip = 0 /\ skip' = 0 /\ Takes(Head(events)) /\ out' = Append(out, Head(events))
  <2>1. /\ \A i \in 1..Len(out) : out'[i] = out[i]
        /\ \A i \in 1..Len(out') : i \in 1..Len(out) \/ out'[i] = events[1]
    BY <1>0, <1>2, <1>7, OutGrows
  <2>2. \A i \in 1..Len(out') : out'[i].is = "ask" /\ out'[i].run # 0 => out'[i].run \in asked'
    BY <1>0, <1>1, <1>2, <2>1 DEF AsksOnce
  <2>3. \A i \in 1..Len(out'), j \in Index' : out'[i] = events'[j] /\ out'[i].is = "ask" => j <= skip'
    <3>. SUFFICES ASSUME NEW i \in 1..Len(out'), NEW j \in Index', out'[i] = events[j + 1], out'[i].is = "ask"
                  PROVE  FALSE
      BY <1>2
    <3>1. CASE i \in 1..Len(out)
      <4>1. j + 1 <= skip BY <1>0, <1>1, <1>2, <2>1, <3>1 DEF AsksOnce
      <4>. QED BY <1>3, <1>7, <4>1
    <3>2. CASE out'[i] = events[1]
      <4>1. j + 1 = 1 BY <1>0, <1>2, <3>2 DEF AsksOnce
      <4>. QED BY <1>3, <4>1
    <3>. QED BY <2>1, <3>1, <3>2
  <2>. QED BY <1>4, <1>5, <2>2, <2>3 DEF AsksOnce
<1>8. CASE Settle("settled")
  <2>1. phase' = "drop" BY <1>1, <1>8 DEF Settle
  <2>2. /\ \A i \in 1..Len(out) : out'[i] = out[i]
        /\ \A i \in 1..Len(out') : i \in 1..Len(out) \/ out'[i] = Record(turn, "settled")
    BY <1>0, <1>8, OutGrows DEF Settle
  <2>3. Record(turn, "settled").is # "ask" BY DEF Record
  <2>4. \A i \in 1..Len(out') : out'[i].is = "ask" /\ out'[i].run # 0 => out'[i].run \in asked'
    BY <1>0, <1>1, <2>2, <2>3 DEF AsksOnce
  <2>. QED BY <1>4, <1>5, <2>1, <2>4 DEF AsksOnce
<1>. QED BY <1>1, <1>6, <1>7, <1>8 DEF ReadRecord

LEMMA NextAsks ==
  ASSUME Typing, Inductive, Next
  PROVE  AsksOnce'
<1>0. AsksOnce /\ Queue /\ Yields /\ Len(events) \in Nat /\ preReady \in 0..1 /\ TypeOK /\ (stage = "none" <=> run = 0)
  BY QueueTypes DEF Inductive
<1>1. CASE Open
  <2>1. PICK n \in 0..1 : events' = [i \in 1..n |-> Record(0, "ask")] BY <1>1 DEF Open
  <2>2. out' = <<>> BY <1>1 DEF Open, Inductive, Closed
  <2>3. Index' = 1..n BY <2>1 DEF Index
  <2>4. \A i \in Index' : i = 1 /\ n = 1 /\ events'[i] = Record(0, "ask") BY <2>1, <2>3
  <2>5. Record(0, "ask").run = 0 BY DEF Record
  <2>. QED BY <2>2, <2>4, <2>5 DEF AsksOnce
<1>2. CASE \E edit \in BOOLEAN : Begin(edit)
  <2>1. out' = <<>> /\ events' = events /\ asked' = asked /\ Index' = Index BY <1>2 DEF Begin, pi, Index
  <2>. QED BY <1>0, <2>1 DEF AsksOnce
<1>3. CASE MapStartup
  <2>0. UNCHANGED <<events, asked>> /\ phase = "startup" BY <1>3 DEF MapStartup, pi
  <2>1. CASE aborted
    <3>1. out' = Append(out, Record(turn, "aborted")) /\ ~Reads'
      BY <1>3, <2>0, <2>1 DEF MapStartup, Settle, Reads
    <3>. QED BY <2>0, <3>1, AsksKept
  <2>2. CASE ~aborted
    <3>1. out = <<>> /\ out' = out \o Startup /\ skip' = preReady BY <1>0, <1>3, <2>0, <2>2 DEF MapStartup, Yields
    <3>2. Startup \in Seq({Record(0, "ask")}) /\ Len(Startup) = preReady BY <1>0 DEF Startup
    <3>3. out' = Startup BY <3>1, <3>2
    <3>4. \A i \in 1..Len(out') : preReady = 1 /\ out'[i] = Record(0, "ask") BY <1>0, <3>2, <3>3
    <3>5. Record(0, "ask").run = 0 BY DEF Record
    <3>6. Index' = Index /\ events' = events /\ asked' = asked BY <2>0 DEF Index
    <3>7. \A i \in 1..Len(out'), j \in Index' : out'[i] = events'[j] /\ out'[i].is = "ask" => j <= skip'
      BY <1>0, <3>1, <3>4, <3>5, <3>6 DEF Queue
    <3>. QED BY <1>0, <3>4, <3>5, <3>6, <3>7 DEF AsksOnce
  <2>. QED BY <2>1, <2>2
<1>4. CASE Compose
  <2>1. events' = events /\ asked' = asked /\ skip' = skip /\ phase = "compose"
    BY <1>4 DEF Compose, EndChildIf, Gone, pi
  <2>2. Settle("aborted") \/ Settle("error") \/ out' = out
    BY <1>4 DEF Compose
  <2>3. CASE out' = out BY <2>1, <2>3, AsksKept DEF Reads
  <2>4. CASE Settle("aborted") \/ Settle("error") BY <2>1, <2>4, AsksKept DEF Reads, Settle
  <2>. QED BY <2>2, <2>3, <2>4
<1>5. CASE ReadAborted
  <2>1. events' = <<>> /\ asked' = asked /\ Settle("aborted") /\ phase = "reading"
    BY <1>5 DEF ReadAborted, EndChildIf, Gone, pi
  <2>. QED BY <2>1, AsksKept DEF Reads, Settle
<1>6. CASE ReadFailure
  <2>1. events' = events /\ asked' = asked /\ (Settle("aborted") \/ Settle("error")) /\ phase = "reading"
    BY <1>6 DEF ReadFailure, EndChildIf, Gone, pi
  <2>. QED BY <2>1, AsksKept DEF Reads, Settle
<1>7. CASE Finally
  <2>1. (events' = events \/ events' = <<>>) /\ asked' = asked /\ out' = out /\ ~Reads'
    BY <1>7 DEF Finally, pi, Reads
  <2>. QED BY <2>1, AsksKept
<1>8. CASE SetPersona \/ Close \/ Exits
  <2>1. UNCHANGED <<events, asked, out, phase, skip>> BY <1>8 DEF SetPersona, Close, Exits, Gone, adapter, pi
  <2>. QED BY <2>1, AsksKept DEF Reads
<1>9. CASE RespondUi \/ DialogExpires \/ Signal \/ Abort
  <2>1. UNCHANGED <<events, asked, out, phase, skip>>
    BY <1>9 DEF RespondUi, DialogExpires, Signal, Abort, EndChildIf, Gone, adapter, pi
  <2>. QED BY <2>1, AsksKept DEF Reads
<1>10. CASE PiTakes \/ PiRefuses \/ BeforeAgentStart
  <2>1. UNCHANGED <<events, asked, out, phase, skip>>
    BY <1>10 DEF PiTakes, PiRefuses, BeforeAgentStart, adapter
  <2>. QED BY <2>1, AsksKept DEF Reads
<1>11. CASE PiAsks
  <2>1. Write(Record(run, "ask")) /\ run # 0 /\ run \notin asked /\ asked' = asked \cup {run}
        /\ UNCHANGED <<out, skip, phase>>
    BY <1>0, <1>11 DEF PiAsks, adapter
  <2>. QED BY <2>1, AsksWritten
<1>12. CASE PiStarts \/ PiSpeaks
  <2>1. run # 0 /\ UNCHANGED <<out, skip, phase, asked>> /\ (Write(Record(run, "start")) \/ Write(Record(run, "text")))
    BY <1>0, <1>12 DEF PiStarts, PiSpeaks, adapter
  <2>. QED BY <2>1, AsksWritten
<1>13. CASE PiSettles \/ PiIsTold
  <2>1. UNCHANGED <<out, phase, skip>> BY <1>13 DEF PiSettles, PiIsTold, adapter
  <2>2. CASE Ends /\ run # 0
    <3>1. Write(Record(run, "settled")) /\ asked' = asked BY <2>2 DEF Ends
    <3>. QED BY <2>1, <2>2, <3>1, AsksWritten
  <2>3. CASE UNCHANGED <<events, pi>> BY <2>1, <2>3, AsksKept DEF Reads, pi
  <2>. QED BY <1>0, <1>13, <2>2, <2>3 DEF PiSettles, PiIsTold
<1>14. CASE ReadRecord BY <1>14, AsksTaken
<1>. QED
  BY <1>1, <1>2, <1>3, <1>4, <1>5, <1>6, <1>7, <1>8, <1>9, <1>10, <1>11, <1>12, <1>13, <1>14
     DEF Next, Session, Generator, Pi
-----------------------------------------------------------------------------
(* Dialogs.                                                                *)

\* What becomes of open dialogs, and when a turn is aborted.
LEMMA DialogsKept ==
  ASSUME Typing, Inductive, held' \subseteq held, run' = run \/ held = {} \/ held' = {},
         \A i \in Index' : \E j \in Index : events'[i] = events[j],
         method' = "clearing" => held' = {} /\ (busy' => aborted'),
         phase' \in {"settled", "drop", "idle"} /\ aborted' =>
            held' = {} \/ (phase \in {"settled", "drop", "idle"} /\ aborted /\ out' = out)
  PROVE  Dialogs'
<1>1. Dialogs BY DEF Inductive
<1>2. held' \subseteq {run'} BY <1>1 DEF Dialogs
<1>3. 0 \in held' => \A i \in Index' : events'[i].run = 0 BY <1>1 DEF Dialogs
<1>4. phase' \in {"settled", "drop", "idle"} /\ aborted' =>
           \A i \in 1..Len(out') : out'[i].is = "ask" => out'[i].run \notin held'
  BY <1>1 DEF Dialogs
<1>. QED BY <1>2, <1>3, <1>4 DEF Dialogs

\* pi writes nothing while a dialog is open.
LEMMA DialogsWritten ==
  ASSUME Typing, Inductive, held = {}, held' = {}, method' = "clearing" => (busy' => aborted')
  PROVE  Dialogs'
BY DEF Dialogs

LEMMA NextDialogs ==
  ASSUME Typing, Inductive, Next
  PROVE  Dialogs'
<1>0. /\ Dialogs /\ Closed /\ OnePrompt /\ Queue /\ Yields /\ TypeOK /\ turn \in Nat /\ (busy => turn > 0)
      /\ (stage = "none" <=> run = 0) /\ aborted \in BOOLEAN /\ Len(events) \in Nat /\ run \in 0..turn
  BY QueueTypes DEF Inductive, TypeOK, AdapterTypes
<1>a. events' = events => \A i \in Index' : \E j \in Index : events'[i] = events[j] BY DEF Index
<1>b. events' = <<>> => \A i \in Index' : \E j \in Index : events'[i] = events[j] BY DEF Index
<1>1. CASE Open
  <2>1. PICK n \in 0..1 : preReady' = n /\ events' = [i \in 1..n |-> Record(0, "ask")] BY <1>1 DEF Open
  <2>2. /\ held' \subseteq {0} /\ run' = 0 /\ method' = "no" /\ ~aborted'
    BY <1>0, <1>1 DEF Open, Closed, pi
  <2>3. \A i \in Index' : events'[i] = Record(0, "ask") BY <2>1 DEF Index
  <2>4. \A i \in Index' : events'[i].run = 0 BY <2>3 DEF Record
  <2>. QED BY <2>2, <2>4 DEF Dialogs
<1>2. CASE \E edit \in BOOLEAN : method = "no" /\ Begin(edit)
  <2>1. method' = "no" /\ phase' = "startup" /\ UNCHANGED <<held, run, events>> BY <1>2 DEF Begin, pi
  <2>. QED BY <1>a, <2>1, DialogsKept
<1>3. CASE MapStartup
  <2>1. phase = "startup" /\ UNCHANGED <<held, run, events, method, aborted>> /\ busy BY <1>3 DEF MapStartup, pi, busy
  <2>2. CASE ~aborted
    <3>1. method' # "clearing" /\ ~aborted' BY <1>0, <2>1, <2>2 DEF Dialogs
    <3>. QED BY <1>a, <2>1, <3>1, DialogsKept
  <2>3. CASE aborted
    <3>1. out = <<>> /\ out' = Append(out, Record(turn, "aborted")) BY <1>0, <1>3, <2>1, <2>3 DEF MapStartup, Settle, Yields
    <3>2. Len(out) = 0 /\ \A i \in 1..Len(out') : i \in 1..Len(out) \/ out'[i] = Record(turn, "aborted")
      BY <1>0, <3>1, OutGrows
    <3>3. \A i \in 1..Len(out') : out'[i].is # "ask" BY <3>2 DEF Record
    <3>4. Index' = Index /\ events' = events /\ held' = held /\ run' = run /\ method' = method BY <2>1 DEF Index
    <3>5. /\ held' \subseteq {run'} /\ (0 \in held' => \A i \in Index' : events'[i].run = 0)
          /\ method' = "clearing" => held' = {}
      BY <1>0, <3>4 DEF Dialogs
    <3>. QED BY <2>1, <2>3, <3>3, <3>5 DEF Dialogs
  <2>. QED BY <2>2, <2>3
<1>4. CASE Compose
  <2>1. phase = "compose" /\ busy /\ UNCHANGED <<events, method, aborted>> BY <1>4 DEF Compose, busy
  <2>2. \/ UNCHANGED <<held, run>> \/ held' = {}
    BY <1>4 DEF Compose, EndChildIf, Gone, pi
  <2>3. aborted => held' = {}
    <3>1. aborted => EndChildIf(waitingForUi \/ life = "closing") BY <1>4 DEF Compose
    <3>. QED BY <3>1 DEF EndChildIf, Gone, waitingForUi
  <2>4. method = "clearing" => held = {} /\ aborted BY <1>0, <2>1 DEF Dialogs
  <2>5. method' = "clearing" => held' = {} /\ aborted' BY <2>1, <2>3, <2>4
  <2>6. aborted' => held' = {} BY <2>1, <2>3
  <2>7. held' \subseteq held /\ (run' = run \/ held' = {}) BY <2>2
  <2>8. \A i \in Index' : \E j \in Index : events'[i] = events[j] BY <1>a, <2>1
  <2>. QED BY <2>5, <2>6, <2>7, <2>8, DialogsKept
<1>5. CASE ReadRecord
  <2>1. /\ phase = "reading" /\ events # <<>> /\ events' = Tail(events) /\ UNCHANGED <<held, run, method, aborted, turn>>
        /\ busy
    BY <1>5 DEF ReadRecord, pi, busy
  <2>2. /\ Head(events) = events[1] /\ 1 \in Index
        /\ \A i \in Index' : events'[i] = events[i + 1] /\ i + 1 \in Index
    BY <1>0, <2>1, TakeTyped DEF Index
  <2>3. \A i \in Index' : \E j \in Index : events'[i] = events[j] BY <2>2
  <2>4. method' = "clearing" => held' = {} /\ (busy' => aborted') BY <1>0, <2>1 DEF Dialogs
  <2>5. CASE phase' = "reading" BY <2>1, <2>3, <2>4, <2>5, DialogsKept
  <2>6. CASE phase' # "reading"
    <3>1. Settle("settled") /\ skip = 0 /\ Takes(Head(events)) /\ Head(events).is = "settled"
      BY <1>5, <2>1, <2>6 DEF ReadRecord
    <3>2. started BY <3>1 DEF Takes
    <3>3. events[1].run = turn /\ run # turn BY <1>0, <2>2, <3>1, <3>2 DEF Queue
    <3>4. turn # 0 BY <1>0, <2>1
    <3>5. held = {}
      <4>1. run = 0 BY <1>0, <3>2, <3>3 DEF OnePrompt
      <4>2. 0 \notin held BY <1>0, <2>2, <3>3, <3>4 DEF Dialogs
      <4>. QED BY <1>0, <4>1, <4>2 DEF Dialogs
    <3>. QED BY <2>1, <2>3, <2>4, <3>5, DialogsKept
  <2>. QED BY <2>5, <2>6
<1>6. CASE ReadAborted
  <2>1. phase = "reading" /\ aborted /\ busy /\ events' = <<>> /\ UNCHANGED <<method, aborted>>
    BY <1>6 DEF ReadAborted, busy
  <2>2. EndChildIf(waitingForUi \/ life = "closing") BY <1>6 DEF ReadAborted
  <2>3. held' = {} BY <2>2 DEF EndChildIf, Gone, waitingForUi
  <2>. QED BY <1>b, <2>1, <2>3, DialogsKept
<1>7. CASE ReadFailure
  <2>1. phase = "reading" /\ busy /\ events' = events /\ UNCHANGED <<method, aborted>>
    BY <1>7 DEF ReadFailure, busy
  <2>2. EndChildIf(life = "closing" \/ (aborted /\ waitingForUi)) BY <1>7 DEF ReadFailure
  <2>3. (held' = held /\ run' = run) \/ held' = {} BY <2>2 DEF EndChildIf, Gone, pi
  <2>4. aborted => held' = {} BY <2>2 DEF EndChildIf, Gone, waitingForUi
  <2>5. method' = "clearing" => held' = {} /\ aborted' BY <1>0, <2>1, <2>4 DEF Dialogs
  <2>6. aborted' => held' = {} BY <2>1, <2>4
  <2>7. held' \subseteq held /\ (run' = run \/ held' = {}) BY <2>3
  <2>8. \A i \in Index' : \E j \in Index : events'[i] = events[j] BY <1>a, <2>1
  <2>. QED BY <2>5, <2>6, <2>7, <2>8, DialogsKept
<1>8. CASE Finally
  <2>1. /\ phase \in {"settled", "drop"} /\ phase' = "idle" /\ UNCHANGED <<held, run, method, aborted, out>>
        /\ ~busy' /\ (events' = events \/ events' = <<>>)
    BY <1>8 DEF Finally, pi, busy
  <2>2. method' = "clearing" => held' = {} BY <1>0, <2>1 DEF Dialogs
  <2>3. \A i \in Index' : \E j \in Index : events'[i] = events[j] BY <1>a, <1>b, <2>1
  <2>. QED BY <2>1, <2>2, <2>3, DialogsKept
<1>9. CASE SetPersona \/ Close \/ Exits
  <2>1. /\ UNCHANGED <<phase, aborted, method, out, events>> /\ ((held' = held /\ run' = run) \/ held' = {})
        /\ busy' = busy
    BY <1>9 DEF SetPersona, Close, Exits, Gone, adapter, pi, busy
  <2>2. held' \subseteq held /\ (run' = run \/ held' = {}) BY <2>1
  <2>3. method' = "clearing" => held' = {} /\ (busy' => aborted') BY <1>0, <2>1 DEF Dialogs, busy
  <2>4. \A i \in Index' : \E j \in Index : events'[i] = events[j] BY <1>a, <2>1
  <2>. QED BY <2>1, <2>2, <2>3, <2>4, DialogsKept
<1>10. CASE RespondUi \/ DialogExpires
  <2>1. UNCHANGED <<phase, aborted, method, out, events, run>> /\ held' \subseteq held
    BY <1>10 DEF RespondUi, DialogExpires, adapter, pi
  <2>2. method' = "clearing" => held' = {} /\ (busy' => aborted') BY <1>0, <2>1 DEF Dialogs, busy
  <2>3. \A i \in Index' : \E j \in Index : events'[i] = events[j] BY <1>a, <2>1
  <2>. QED BY <2>1, <2>2, <2>3, DialogsKept
<1>11. CASE Signal
  <2>1. /\ UNCHANGED <<phase, method, out, events, run, held>> /\ aborted' = TRUE
        /\ phase \notin {"settled", "drop", "idle"}
    BY <1>11 DEF Signal, pi, busy
  <2>2. method' = "clearing" => held' = {} /\ (busy' => aborted') BY <1>0, <2>1 DEF Dialogs, busy
  <2>. QED BY <1>a, <2>1, <2>2, DialogsKept
<1>12. CASE Abort
  <2>1. UNCHANGED <<phase, out, events>> /\ (busy => aborted') /\ EndChildIf(waitingForUi)
    BY <1>12 DEF Abort
  <2>2. held' = {} BY <2>1 DEF EndChildIf, Gone, waitingForUi
  <2>. QED BY <1>a, <2>1, <2>2, DialogsKept DEF busy
<1>13. CASE Attended /\ PiAsks
  <2>1. /\ run = turn /\ phase = "reading" /\ ~aborted /\ held' = {run} /\ run # 0 /\ busy
        /\ UNCHANGED <<phase, method, run, aborted>>
    BY <1>0, <1>13 DEF Attended, PiAsks, adapter, busy
  <2>2. method # "clearing" BY <1>0, <2>1 DEF Dialogs
  <2>. QED BY <2>1, <2>2 DEF Dialogs
<1>14. CASE PiTakes \/ BeforeAgentStart \/ PiStarts \/ PiSpeaks \/ PiSettles
  <2>1. held = {} /\ held' = {} /\ UNCHANGED <<phase, method, aborted>>
    BY <1>14 DEF PiTakes, BeforeAgentStart, PiStarts, PiSpeaks, PiSettles, Ends, adapter
  <2>2. method' = "clearing" => (busy' => aborted') BY <1>0, <2>1 DEF Dialogs, busy
  <2>. QED BY <2>1, <2>2, DialogsWritten
<1>15. CASE PiRefuses
  <2>1. UNCHANGED <<phase, aborted, method, out, events, run, held>>
    BY <1>15 DEF PiRefuses, adapter
  <2>2. method' = "clearing" => held' = {} /\ (busy' => aborted') BY <1>0, <2>1 DEF Dialogs, busy
  <2>. QED BY <1>a, <2>1, <2>2, DialogsKept
<1>16. CASE PiIsTold
  <2>1. held = {} /\ held' = {} /\ method' = "no" BY <1>0, <1>16 DEF PiIsTold, Ends, Dialogs
  <2>. QED BY <2>1, DialogsWritten
<1>. QED
  BY <1>1, <1>2, <1>3, <1>4, <1>5, <1>6, <1>7, <1>8, <1>9, <1>10, <1>11, <1>12, <1>13, <1>14, <1>15, <1>16
     DEF Next, Session, Generator, Pi
-----------------------------------------------------------------------------
(* The context of a turn, and the tools of its run.                        *)

LEMMA NextPublished ==
  ASSUME Typing, Inductive, Next
  PROVE  Published'
<1>0. /\ Published /\ OnePrompt /\ Closed /\ inbox \in Seq(1..turn) /\ OnePrompt'
      /\ life \in {"up", "closing", "down"}
  BY QueueTypes, NextOnePrompt DEF Inductive, Typing, TypeOK, ChildTypes
<1>1. ASSUME UNCHANGED <<context, bridgeLive>>, turn' = turn \/ context = 0, context # 0 => phase' \in {"reading", "drop"},
             life' = "up" => life = "up" \/ (inbox' = <<>> /\ stage' # "preflight"),
             inbox' # <<>> \/ stage' = "preflight" => (inbox # <<>> \/ stage = "preflight") /\ turn' = turn
      PROVE  Published'
  BY <1>0, <1>1 DEF Published
<1>2. CASE Open
  <2>1. context' = 0 /\ inbox' = <<>> /\ stage' # "preflight"
    BY <1>0, <1>2 DEF Open, Closed, pi, Inductive, Typing, TypeOK, ChildTypes
  <2>. QED BY <2>1 DEF Published
<1>3. CASE Close
  <2>1. /\ context' = (IF bridgeLive THEN 0 ELSE context) /\ life' = "closing"
        /\ UNCHANGED <<turn, phase, bridgeLive>>
    BY <1>3 DEF Close, adapter
  <2>. QED BY <1>0, <2>1 DEF Published
<1>4. CASE Compose
  <2>1. context = 0 /\ phase = "compose" /\ UNCHANGED <<turn, bridgeLive>> /\ inbox = <<>> /\ stage # "preflight"
    BY <1>0, <1>4 DEF Compose, Published, OnePrompt
  <2>2. CASE phase' = "reading"
    <3>1. PICK written \in BOOLEAN : Deliverable(written) /\ Publish(written)
      BY <1>4, <2>2 DEF Compose, Settle
    <3>2. context' = (IF bridgeLive THEN turn ELSE 0) BY <2>1, <3>1 DEF Deliverable, Publish
    <3>. QED BY <2>1, <2>2, <3>2 DEF Published
  <2>3. CASE phase' # "reading"
    <3>1. context' = context /\ (Gone \/ UNCHANGED <<life, pi>>)
      BY <1>4, <2>3 DEF Compose, EndChildIf
    <3>2. inbox' = <<>> /\ stage' # "preflight" BY <2>1, <3>1 DEF Gone, pi
    <3>. QED BY <2>1, <3>1, <3>2 DEF Published
  <2>. QED BY <2>2, <2>3
<1>5. CASE Finally
  <2>1. context' = 0 BY <1>0, <1>5 DEF Finally, Published
  <2>2. inbox' = <<>> /\ stage' # "preflight" BY <1>0, <1>5 DEF Finally, OnePrompt
  <2>. QED BY <2>1, <2>2 DEF Published
<1>6. CASE BeforeAgentStart
  <2>1. stage = "preflight" /\ inbox = <<>> BY <1>0, <1>6 DEF BeforeAgentStart, OnePrompt
  <2>2. inbox' = <<>> /\ stage' = "hooked" /\ context' \in {0, context} /\ UNCHANGED adapter
    BY <1>6, <2>1 DEF BeforeAgentStart
  <2>. QED BY <1>0, <2>2 DEF Published, adapter
<1>7. CASE \E edit \in BOOLEAN : Begin(edit)
  <2>1. context = 0 /\ inbox = <<>> /\ stage # "preflight" /\ UNCHANGED <<context, bridgeLive, inbox, stage>>
    BY <1>0, <1>7 DEF Begin, Published, OnePrompt, files, pi
  <2>. QED BY <2>1 DEF Published
<1>8. CASE MapStartup \/ ReadRecord \/ SetPersona
  <2>1. context # 0 => phase' \in {"reading", "drop"}
    BY <1>0, <1>8 DEF MapStartup, ReadRecord, SetPersona, Settle, Published
  <2>2. UNCHANGED <<context, bridgeLive, turn, life, pi>>
    BY <1>8 DEF MapStartup, ReadRecord, SetPersona, files
  <2>. QED BY <1>1, <2>1, <2>2 DEF pi
<1>9. CASE ReadAborted \/ ReadFailure \/ Abort
  <2>1. context # 0 => phase' \in {"reading", "drop"}
    BY <1>0, <1>9 DEF ReadAborted, ReadFailure, Abort, Settle, Published
  <2>2. UNCHANGED <<context, bridgeLive, turn>> /\ (Gone \/ UNCHANGED <<life, pi>>)
    BY <1>9 DEF ReadAborted, ReadFailure, Abort, EndChildIf
  <2>. QED BY <1>1, <2>1, <2>2 DEF Gone, pi
<1>10. CASE Exits BY <1>0, <1>1, <1>10 DEF Exits, Gone, adapter, files, Published
<1>11. CASE RespondUi \/ DialogExpires \/ Signal \/ PiAsks
  <2>1. UNCHANGED <<context, bridgeLive, turn, phase, life, inbox, stage>>
    BY <1>11 DEF RespondUi, DialogExpires, Signal, PiAsks, adapter, files, pi
  <2>. QED BY <1>0, <1>1, <2>1 DEF Published
<1>12. CASE PiTakes \/ PiRefuses
  <2>1. UNCHANGED <<context, bridgeLive, turn, phase, life>> /\ inbox # <<>>
    BY <1>12 DEF PiTakes, PiRefuses, adapter, files
  <2>. QED BY <1>0, <1>1, <2>1 DEF Published
<1>13. CASE PiStarts \/ PiSpeaks \/ PiSettles \/ PiIsTold
  <2>1. UNCHANGED <<context, bridgeLive, turn, phase, life, inbox>> /\ (stage' = stage \/ stage' # "preflight")
    BY <1>13 DEF PiStarts, PiSpeaks, PiSettles, PiIsTold, Ends, adapter, files, pi
  <2>. QED BY <1>0, <1>1, <2>1 DEF Published
<1>. QED
  BY <1>2, <1>3, <1>4, <1>5, <1>6, <1>7, <1>8, <1>9, <1>10, <1>11, <1>12, <1>13
     DEF Next, Session, Generator, Pi

\* What of Equipped is not in Typing: a child without a bridge, and a run of one with it.
Bare ==
    phase # "closed" /\ ~bridgeLive =>
        /\ tools = ToolsOf[persona] /\ ~bridge.proposing
        /\ \A n \in 1..turn : kinds[n] \in {persona, "edit"}
        /\ inbox # <<>> => kinds[turn] # "edit"
        /\ run # 0 => kinds[run] # "edit"

Bridged ==
    bridgeLive /\ life = "up" /\ stage \in {"hooked", "started"} =>
        /\ got[run] = run
        /\ bridge.proposing = (kinds[run] = "edit")
        /\ run \notin unswitched => tools = ToolsOf[kinds[run]]

LEMMA NextBare ==
  ASSUME Typing, Inductive, Next
  PROVE  Bare'
<1>0. /\ OnePrompt /\ Closed /\ inbox \in Seq(1..turn) /\ turn \in Nat /\ run \in 0..turn
      /\ (phase # "closed" /\ ~bridgeLive =>
            /\ tools = ToolsOf[persona] /\ ~bridge.proposing
            /\ \A n \in 1..turn : kinds[n] \in {persona, "edit"}
            /\ inbox # <<>> => kinds[turn] # "edit"
            /\ run # 0 => kinds[run] # "edit")
      /\ kinds \in Seq({"go", "read", "edit"}) /\ Len(kinds) = turn
      /\ bridgeLive \in BOOLEAN /\ persona \in {"go", "read"}
  BY QueueTypes DEF Inductive, Equipped, TypeOK, AdapterTypes, Typing
<1>1. ASSUME phase # "closed", UNCHANGED <<bridgeLive, persona, turn, kinds>>, ~bridgeLive => UNCHANGED <<tools, bridge>>,
             inbox' = inbox \/ inbox' = <<>>, run' \in {run, 0}
      PROVE  Bare'
  BY <1>0, <1>1 DEF Bare
<1>2. CASE Open
  <2>1. PICK configured \in BOOLEAN, loads \in BOOLEAN, p \in {"go", "read"} :
          /\ tools' = SpawnTools(configured, loads, p) /\ bridgeLive' = (configured /\ loads) /\ persona' = p
    BY <1>2 DEF Open
  <2>2. turn' = 0 /\ inbox' = <<>> /\ run' = 0 /\ ~bridge'.proposing BY <1>0, <1>2 DEF Open, Closed, pi
  <2>3. ~bridgeLive' => tools' = ToolsOf[persona'] BY <2>1 DEF SpawnTools, ToolsOf
  <2>. QED BY <2>2, <2>3 DEF Bare
<1>3. CASE SetPersona BY <1>3 DEF SetPersona, Bare
<1>4. CASE \E edit \in BOOLEAN : Begin(edit)
  <2>1. PICK edit \in BOOLEAN : kinds' = Append(kinds, IF edit THEN "edit" ELSE persona)
    BY <1>4 DEF Begin
  <2>2. UNCHANGED <<bridgeLive, persona, tools, bridge, run, inbox>> /\ turn' = turn + 1 /\ inbox = <<>> /\ phase # "closed"
    BY <1>0, <1>4 DEF Begin, OnePrompt, extension, pi
  <2>3. /\ \A n \in 1..turn : kinds'[n] = kinds[n]
        /\ kinds'[turn + 1] \in {persona, "edit"}
    <3>1. /\ \A n \in 1..Len(kinds) : Append(kinds, IF edit THEN "edit" ELSE persona)[n] = kinds[n]
          /\ Append(kinds, IF edit THEN "edit" ELSE persona)[Len(kinds) + 1] = IF edit THEN "edit" ELSE persona
      BY <1>0
    <3>. QED BY <1>0, <2>1, <3>1
  <2>4. run # 0 => run \in 1..turn BY <1>0
  <2>5. \A n \in 1..turn' : n \in 1..turn \/ n = turn + 1 BY <1>0, <2>2
  <2>. QED BY <1>0, <2>2, <2>3, <2>4, <2>5 DEF Bare
<1>5. CASE Compose
  <2>1. phase = "compose" /\ UNCHANGED <<bridgeLive, persona, turn, kinds>> BY <1>5 DEF Compose
  <2>2. UNCHANGED <<tools, bridge>> BY <1>5 DEF Compose, EndChildIf, Gone, extension
  <2>3. CASE kinds[turn] # "edit" \/ bridgeLive
    <3>1. run' \in {run, 0} BY <1>5 DEF Compose, EndChildIf, Gone, pi
    <3>2. inbox' # <<>> => kinds[turn] # "edit" \/ bridgeLive BY <2>3
    <3>. QED BY <1>0, <2>1, <2>2, <3>1, <3>2 DEF Bare
  <2>4. CASE kinds[turn] = "edit" /\ ~bridgeLive
    <3>1. \A written \in BOOLEAN : ~Deliverable(written) BY <2>4 DEF Deliverable
    <3>2. (inbox' = inbox \/ inbox' = <<>>) /\ run' \in {run, 0}
      BY <1>5, <3>1 DEF Compose, EndChildIf, Gone, pi
    <3>. QED BY <1>1, <2>1, <2>2, <3>2
  <2>. QED BY <2>3, <2>4
<1>6. CASE PiTakes
  <2>1. inbox = <<turn>> /\ phase = "reading" /\ run' = turn /\ inbox' = <<>> /\ UNCHANGED <<adapter, extension>>
    BY <1>0, <1>6, Singletons DEF PiTakes, OnePrompt
  <2>. QED BY <1>0, <2>1, Singletons DEF Bare, adapter, extension
<1>7. CASE PiRefuses
  <2>1. inbox' = <<>> /\ phase # "closed" BY <1>0, <1>7, Singletons DEF PiRefuses, OnePrompt
  <2>2. UNCHANGED <<adapter, extension, run>> BY <1>7 DEF PiRefuses
  <2>. QED BY <1>1, <2>1, <2>2 DEF adapter, extension
<1>8. CASE Close \/ Exits \/ MapStartup \/ ReadRecord \/ Finally
  BY <1>1, <1>8 DEF Close, Exits, Gone, MapStartup, ReadRecord, Finally, adapter, extension, pi
<1>9. CASE ReadAborted \/ ReadFailure \/ Abort
  BY <1>1, <1>9 DEF ReadAborted, ReadFailure, Abort, EndChildIf, Gone, extension, pi
<1>c. phase = "closed" => run = 0 /\ stage = "none" /\ held = {} /\ method = "no"
  BY <1>0 DEF Closed, Inductive, Typing, TypeOK, ChildTypes
<1>10. CASE RespondUi \/ DialogExpires \/ Signal \/ PiAsks
  BY <1>1, <1>10, <1>c DEF RespondUi, DialogExpires, Signal, PiAsks, adapter, extension, pi, busy
<1>11. CASE BeforeAgentStart
  BY <1>1, <1>11, <1>c DEF BeforeAgentStart, adapter, extension
<1>12. CASE PiStarts \/ PiSpeaks BY <1>1, <1>12, <1>c DEF PiStarts, PiSpeaks, adapter, extension
<1>13. CASE PiSettles \/ PiIsTold
  BY <1>1, <1>13, <1>c DEF PiSettles, PiIsTold, Ends, adapter, extension, pi
<1>. QED
  BY <1>2, <1>3, <1>4, <1>5, <1>6, <1>7, <1>8, <1>9, <1>10, <1>11, <1>12, <1>13
     DEF Next, Session, Generator, Pi

LEMMA NextBridged ==
  ASSUME Typing, Inductive, Next
  PROVE  Bridged'
<1>0. /\ OnePrompt /\ Published /\ turn \in Nat /\ run \in 0..turn /\ turn \in 0..MaxTurn
      /\ Bridged /\ (stage = "none" <=> run = 0)
      /\ kinds \in Seq({"go", "read", "edit"}) /\ Len(kinds) = turn /\ got \in [1..MaxTurn -> 0..MaxTurn]
      /\ stage \in {"none", "preflight", "hooked", "started"} /\ run' \in 0..turn'
      /\ life \in {"up", "closing", "down"}
  BY QueueTypes, StepTyped, NextIsStep
     DEF Inductive, Equipped, Bridged, TypeOK, AdapterTypes, ChildTypes, Typing
<1>1. ASSUME UNCHANGED <<bridgeLive, run, extension>>, \A n \in 1..turn : kinds'[n] = kinds[n],
             stage' = stage \/ (stage = "hooked" /\ stage' = "started"), life' = "up" => life = "up"
      PROVE  Bridged'
  <2>1. stage \in {"hooked", "started"} => run \in 1..turn BY <1>0
  <2>. QED BY <1>0, <1>1, <2>1 DEF Bridged, extension
<1>2. ASSUME stage' \notin {"hooked", "started"} PROVE Bridged' BY <1>2 DEF Bridged
<1>3. CASE Open
  <2>1. stage' = "none" BY <1>3 DEF Open, Inductive, Closed, pi, Typing, TypeOK, ChildTypes
  <2>. QED BY <1>2, <2>1
<1>4. CASE \E edit \in BOOLEAN : Begin(edit)
  <2>1. PICK edit \in BOOLEAN : kinds' = Append(kinds, IF edit THEN "edit" ELSE persona)
    BY <1>4 DEF Begin
  <2>2. \A n \in 1..Len(kinds) : Append(kinds, IF edit THEN "edit" ELSE persona)[n] = kinds[n]
    BY <1>0
  <2>3. \A n \in 1..turn : kinds'[n] = kinds[n] BY <1>0, <2>1, <2>2
  <2>. QED BY <1>1, <1>4, <2>3 DEF Begin, pi
<1>5. CASE BeforeAgentStart
  <2>1. UNCHANGED <<adapter, life, run>> /\ stage' = "hooked" /\ stage = "preflight" BY <1>5 DEF BeforeAgentStart
  <2>2. run = turn /\ turn \in 1..MaxTurn BY <1>0, <2>1 DEF OnePrompt
  <2>3. CASE bridgeLive /\ life = "up"
    <3>1. context = turn BY <1>0, <2>1, <2>3 DEF Published
    <3>2. PICK restored \in BOOLEAN, switched \in BOOLEAN :
            /\ Apply(kinds[context], restored, switched)
            /\ unswitched' = IF restored /\ switched THEN unswitched ELSE unswitched \cup {run}
      BY <1>5, <2>2, <2>3, <3>1 DEF BeforeAgentStart
    <3>3. got' = [got EXCEPT ![run] = context] BY <1>5, <2>2, <2>3, <3>1 DEF BeforeAgentStart
    <3>4. kinds[turn] \in {"go", "read", "edit"} BY <1>0, <2>2
    <3>5. bridge'.proposing = (kinds[turn] = "edit") /\ (restored /\ switched => tools' = ToolsOf[kinds[turn]])
      BY <2>3, <3>1, <3>2, <3>4, Applied
    <3>6. got'[run] = run BY <1>0, <2>2, <3>1, <3>3
    <3>7. run \notin unswitched' => restored /\ switched BY <3>2
    <3>. QED BY <2>1, <2>2, <3>5, <3>6, <3>7 DEF Bridged, adapter
  <2>. QED BY <2>1, <2>3 DEF Bridged, adapter
<1>6. CASE PiTakes BY <1>2, <1>6 DEF PiTakes
<1>7. CASE PiStarts \/ PiSpeaks BY <1>1, <1>7 DEF PiStarts, PiSpeaks, adapter
<1>8. CASE PiRefuses \/ PiAsks BY <1>1, <1>8 DEF PiRefuses, PiAsks, adapter
<1>9. CASE PiSettles BY <1>2, <1>9 DEF PiSettles, Ends
<1>10. CASE PiIsTold
  <2>1. CASE run = 0 \/ life = "down"
    <3>1. UNCHANGED <<bridgeLive, kinds, pi, extension, life>> BY <1>10, <2>1 DEF PiIsTold
    <3>. QED BY <1>1, <3>1 DEF pi
  <2>. QED BY <1>2, <1>10, <2>1 DEF PiIsTold, Ends
<1>11. ASSUME Gone PROVE Bridged' BY <1>2, <1>11 DEF Gone
<1>12. CASE SetPersona \/ Close \/ MapStartup \/ ReadRecord \/ Finally
  BY <1>1, <1>12 DEF SetPersona, Close, MapStartup, ReadRecord, Finally, adapter, pi
<1>13. CASE Exits BY <1>11, <1>13 DEF Exits
<1>14. CASE ReadAborted \/ ReadFailure \/ Abort
  <2>1. Gone \/ UNCHANGED <<life, pi, extension>> BY <1>14 DEF ReadAborted, ReadFailure, Abort, EndChildIf
  <2>2. UNCHANGED <<bridgeLive, kinds>> BY <1>14 DEF ReadAborted, ReadFailure, Abort
  <2>. QED BY <1>1, <1>11, <2>1, <2>2 DEF pi
<1>15. CASE Compose
  <2>1. Gone \/ UNCHANGED <<life, run, stage, extension>>
    BY <1>15 DEF Compose, EndChildIf, pi
  <2>2. UNCHANGED <<bridgeLive, kinds>> BY <1>15 DEF Compose
  <2>. QED BY <1>1, <1>11, <2>1, <2>2
<1>16. CASE RespondUi \/ DialogExpires \/ Signal
  BY <1>1, <1>16 DEF RespondUi, DialogExpires, Signal, adapter, pi
<1>. QED
  BY <1>3, <1>4, <1>5, <1>6, <1>7, <1>8, <1>9, <1>10, <1>12, <1>13, <1>14, <1>15, <1>16
     DEF Next, Session, Generator, Pi

LEMMA NextInductive ==
  ASSUME Typing, Inductive, Next
  PROVE  Typing' /\ Inductive'
<1>1. Typing' BY StepTyped, NextIsStep
<1>2. Bare' /\ Bridged' BY NextBare, NextBridged
<1>3. Equipped' BY <1>1, <1>2 DEF Equipped, Bare, Bridged, Typing
<1>. QED
  BY <1>1, <1>3, NextOpens, NextOnePrompt, NextQueue, NextAsks, NextYields, NextDialogs, NextPublished DEF Inductive

LEMMA StutterTyped == ASSUME Typing, UNCHANGED vars PROVE Typing'
BY DEF Typing, TypeOK, AdapterTypes, ChildTypes, vars, adapter, files, pi, extension, Said, Shown, Base, busy

LEMMA StutterInductive == ASSUME Inductive, UNCHANGED vars PROVE Inductive'
<1>. USE DEF vars, adapter, files, pi, extension
<1>1. Index' = Index /\ busy' = busy BY DEF Index, busy
<1>2. Closed' /\ OnePrompt' /\ Dialogs' /\ Published' BY <1>1 DEF Inductive, Closed, OnePrompt, Dialogs, Published
<1>3. Queue' /\ AsksOnce' BY <1>1 DEF Inductive, Queue, AsksOnce
<1>4. Yields' /\ SettledOnceAndLast' /\ OwnRecords'
  BY <1>1 DEF Inductive, Yields, SettledOnceAndLast, OwnRecords, IsEnd
<1>5. Equipped' BY DEF Inductive, Equipped, Base
<1>. QED BY <1>2, <1>3, <1>4, <1>5 DEF Inductive

LEMMA InitInductive == Init => Inductive
<1>. SUFFICES ASSUME Init PROVE Inductive OBVIOUS
<1>1. Index = {} /\ ~busy BY DEF Init, Index, busy
<1>2. Closed BY DEF Init, Closed
<1>3. OnePrompt BY DEF Init, OnePrompt
<1>4. Queue BY <1>1 DEF Init, Queue
<1>5. AsksOnce BY <1>1 DEF Init, AsksOnce
<1>6. Yields /\ SettledOnceAndLast /\ OwnRecords BY <1>1 DEF Init, Yields, SettledOnceAndLast, OwnRecords
<1>7. Dialogs BY <1>1 DEF Init, Dialogs
<1>8. Published BY DEF Init, Published
<1>9. Equipped BY DEF Init, Equipped
<1>. QED BY <1>2, <1>3, <1>4, <1>5, <1>6, <1>7, <1>8, <1>9 DEF Inductive

-----------------------------------------------------------------------------
\* In any order of calls, signals and dialogs: the types (TypeOK) hold, and with
\* a live bridge the extension knows the tools it is to give back
\* (bridge.ts, the variable previousTools).
THEOREM Typed == LooseSpec => []Typing
<1>1. Typing /\ [LooseNext]_vars => Typing'
  <2>1. LooseNext => Step BY DEF LooseNext, Step
  <2>. QED BY <2>1, StepTyped, StutterTyped
<1>. QED BY <1>1, InitTyped, PTL DEF LooseSpec

\* The invariant of the order the design counts on: one prompt at a time, the
\* queue of records, dialogs, the context file and the tools.
THEOREM Invariance == Spec => [](TypeOK /\ Inductive)
<1>1. Init => Typing /\ Inductive BY InitTyped, InitInductive
<1>2. Typing /\ Inductive /\ [Next]_vars => (Typing /\ Inductive)'
  BY NextInductive, StutterTyped, StutterInductive
<1>3. Typing /\ Inductive => TypeOK /\ Inductive BY DEF Typing
<1>. QED BY <1>1, <1>2, <1>3, PTL DEF Spec

\* The events of a turn are its own, and end once (PiSession.prompt): nothing
\* of an abandoned run is shown, no dialog is shown twice, and the settled event
\* is the last.
THEOREM EventsAreTheTurns == Spec => []TurnIsItsOwn
<1>1. TypeOK /\ Inductive => TurnIsItsOwn BY DEF Inductive, TurnIsItsOwn
<1>. QED BY <1>1, Invariance, PTL

\* A turn leaves neither its context file nor an open dialog behind (the finally
\* and the catch of prompt).
THEOREM TurnsCleanUp == Spec => []NothingIsLeftOver
<1>1. TypeOK /\ Inductive => NothingIsLeftOver
  BY DEF Inductive, Published, Dialogs, NothingIsLeftOver, ContextIsCleared, NoDialogIsLeft
<1>. QED BY <1>1, Invariance, PTL

\* The run of a prompt has the context of its turn and the tools of its persona;
\* an edit can call its proposal tool and nothing else, whichever switches pi
\* refused (before_agent_start, tool_call).
THEOREM RunsAreEquipped == Spec => []RunHasItsTools
<1>1. TypeOK /\ Inductive => RunHasItsTools
  <2>. SUFFICES ASSUME TypeOK, Inductive, stage = "started", life = "up"
                PROVE  /\ bridgeLive => got[run] = run
                       /\ kinds[run] = "edit" => Usable \subseteq {"propose"}
                       /\ run \notin unswitched => Usable = ToolsOf[kinds[run]]
    BY DEF RunHasItsTools
  <2>0. /\ run \in 1..turn /\ kinds[run] \in {"go", "read", "edit"} /\ phase # "closed" /\ bridge \in Bridges
        /\ persona \in {"go", "read"}
    <3>1. run \in 1..turn /\ turn \in Nat BY DEF TypeOK, ChildTypes, AdapterTypes
    <3>2. kinds \in Seq({"go", "read", "edit"}) /\ Len(kinds) = turn /\ bridge \in Bridges /\ persona \in {"go", "read"}
      BY DEF TypeOK, AdapterTypes, ChildTypes, Bridges
    <3>3. phase # "closed" BY <3>1 DEF Inductive, Closed
    <3>. QED BY <3>1, <3>2, <3>3
  <2>1. CASE bridgeLive
    <3>1. /\ got[run] = run /\ bridge.proposing = (kinds[run] = "edit")
          /\ run \notin unswitched => tools = ToolsOf[kinds[run]]
      BY <2>1 DEF Inductive, Equipped
    <3>2. CASE kinds[run] = "edit"
      <4>1. bridge.proposing BY <3>1, <3>2
      <4>2. Usable = tools \cap {"propose"} BY <4>1 DEF Usable
      <4>3. ToolsOf["edit"] = {"propose"} BY DEF ToolsOf
      <4>. QED BY <3>1, <3>2, <4>2, <4>3
    <3>3. CASE kinds[run] \in {"go", "read"}
      <4>1. ~bridge.proposing BY <3>1, <3>3
      <4>2. Usable = tools \ {"propose"} BY <4>1 DEF Usable
      <4>3. "propose" \notin ToolsOf[kinds[run]] BY <3>3 DEF ToolsOf, All
      <4>. QED BY <3>1, <3>3, <4>2, <4>3
    <3>. QED BY <2>0, <3>1, <3>2, <3>3
  <2>2. CASE ~bridgeLive
    <3>1. tools = ToolsOf[persona] /\ ~bridge.proposing /\ kinds[run] = persona
      BY <2>0, <2>2 DEF Inductive, Equipped
    <3>. QED BY <2>0, <2>2, <3>1 DEF Usable, ToolsOf, All
  <2>. QED BY <2>1, <2>2
<1>. QED BY <1>1, Invariance, PTL
=============================================================================
