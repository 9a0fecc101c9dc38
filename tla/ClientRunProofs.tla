--------------------------- MODULE ClientRunProofs ---------------------------
(* Proofs about ClientRun, for every value of MaxEvents.                    *)
EXTENDS ClientRun, FiniteSetTheorems, SequenceTheorems, TLAPS

-----------------------------------------------------------------------------
(* Messages in flight.                                                      *)

\* What is left after the first.
LEMMA TailHolds ==
  ASSUME NEW S, NEW s \in Seq(S), s # <<>>
  PROVE  /\ Len(s) \in Nat /\ Len(s) >= 1 /\ DOMAIN s = 1..Len(s)
         /\ Head(s) = s[1] /\ Head(s) \in S /\ 1 \in DOMAIN s
         /\ Tail(s) \in Seq(S) /\ DOMAIN Tail(s) = 1..(Len(s) - 1)
         /\ \A i \in DOMAIN Tail(s) : i + 1 \in DOMAIN s /\ Tail(s)[i] = s[i + 1]
<1>1. Len(s) \in Nat /\ Len(s) >= 1 /\ DOMAIN s = 1..Len(s) BY EmptySeq, LenProperties
<1>2. Tail(s) \in Seq(S) /\ Head(s) \in S /\ Head(s) = s[1] BY HeadTailProperties
<1>3. Len(Tail(s)) = Len(s) - 1 /\ \A i \in 1..Len(Tail(s)) : Tail(s)[i] = s[i + 1] BY HeadTailProperties
<1>4. DOMAIN Tail(s) = 1..(Len(s) - 1) BY <1>2, <1>3, LenProperties
<1> QED BY <1>1, <1>2, <1>3, <1>4

\* What is there after one more.
LEMMA AppendHolds ==
  ASSUME NEW S, NEW s \in Seq(S), NEW m \in S
  PROVE  /\ Append(s, m) \in Seq(S) /\ Len(s) \in Nat /\ DOMAIN s = 1..Len(s)
         /\ DOMAIN Append(s, m) = 1..(Len(s) + 1)
         /\ \A i \in DOMAIN s : Append(s, m)[i] = s[i]
         /\ Append(s, m)[Len(s) + 1] = m
BY AppendProperties, LenProperties

\* What is there after a group of others.
LEMMA ConcatHolds ==
  ASSUME NEW S, NEW s \in Seq(S), NEW r \in Seq(S)
  PROVE  /\ s \o r \in Seq(S) /\ Len(s) \in Nat /\ Len(r) \in Nat
         /\ DOMAIN s = 1..Len(s) /\ DOMAIN r = 1..Len(r)
         /\ DOMAIN (s \o r) = 1..(Len(s) + Len(r))
         /\ \A i \in DOMAIN s : (s \o r)[i] = s[i]
         /\ \A i \in (Len(s) + 1)..(Len(s) + Len(r)) : (s \o r)[i] = r[i - Len(s)]
BY ConcatProperties, LenProperties

\* A function on a range from 1 is a sequence.
LEMMA RangeIsASeq == \A S : \A n \in Nat : \A f \in [1..n -> S] : f \in Seq(S)
BY SeqDef

LEMMA OneHolds ==
  ASSUME NEW S, NEW m \in S
  PROVE  <<m>> \in Seq(S) /\ Len(<<m>>) = 1 /\ DOMAIN <<m>> = {1} /\ <<m>>[1] = m
  OBVIOUS

LEMMA TwoHold ==
  ASSUME NEW S, NEW l \in S, NEW m \in S
  PROVE  <<l, m>> \in Seq(S) /\ DOMAIN <<l, m>> = {1, 2} /\ <<l, m>>[1] = l /\ <<l, m>>[2] = m
  OBVIOUS

LEMMA OneAndOne ==
  ASSUME NEW S, NEW l \in S, NEW m \in S
  PROVE  <<l>> \o <<m>> = <<l, m>>
<1>1. <<l>> \in Seq(S) /\ <<m>> \in Seq(S) /\ Len(<<l>>) = 1 /\ Len(<<m>>) = 1 /\ <<l>>[1] = l /\ <<m>>[1] = m
  BY OneHolds
<1> DEFINE a == <<l>>
           b == <<m>>
<1>2. /\ a \o b \in Seq(S) /\ Len(a \o b) = 2 /\ (a \o b)[1] = l /\ (a \o b)[2] = m
  <2> HIDE DEF a, b
  <2>1. a \in Seq(S) /\ b \in Seq(S) /\ Len(a) = 1 /\ Len(b) = 1 /\ a[1] = l /\ b[1] = m BY <1>1 DEF a, b
  <2> QED BY <2>1, ConcatProperties
<1>3. /\ <<l, m>> \in Seq(S) /\ Len(<<l, m>>) = 2 /\ <<l, m>>[1] = l /\ <<l, m>>[2] = m OBVIOUS
<1>4. \A i \in 1..2 : i = 1 \/ i = 2 OBVIOUS
<1> HIDE DEF a, b
<1>5. \A i \in 1..2 : (a \o b)[i] = <<l, m>>[i] BY <1>2, <1>3, <1>4
<1>6. a \o b = <<l, m>>
  <2> DEFINE c == a \o b
             d == <<l, m>>
  <2>1. c \in Seq(S) /\ d \in Seq(S) /\ Len(c) = 2 /\ Len(d) = 2 /\ \A i \in 1..2 : c[i] = d[i]
    BY <1>2, <1>3, <1>5
  <2> HIDE DEF c, d
  <2>2. c = d BY <2>1, SeqEqual
  <2> QED BY <2>2 DEF c, d
<1> QED BY <1>6 DEF a, b

\* Messages of each kind.
LEMMA Messages ==
  /\ \A op \in Ops, ok \in BOOLEAN : Res(op, ok) \in Message
  /\ \A n \in Nat : Evt(n) \in Message /\ Evt(n).t = "evt" /\ Evt(n).seq = n
  /\ \A status \in Statuses, buffer \in {"none", "draft"} : End(status, buffer) \in Message
  /\ [t |-> "close"] \in Message
  /\ \A m \in Message : /\ m.t = "res" => m.op \in Ops /\ m.ok \in BOOLEAN /\ m = Res(m.op, m.ok)
                        /\ m.t = "evt" => m.seq \in Nat /\ m = Evt(m.seq)
                        /\ m.t = "end" => m.status \in Statuses /\ m.buffer \in {"none", "draft"}
<1> USE DEF Message, Res, Evt, End
<1>1. \A op \in Ops, ok \in BOOLEAN : Res(op, ok) \in Message OBVIOUS
<1>2. \A n \in Nat : Evt(n) \in Message /\ Evt(n).t = "evt" /\ Evt(n).seq = n OBVIOUS
<1>3. \A status \in Statuses, buffer \in {"none", "draft"} : End(status, buffer) \in Message OBVIOUS
<1>4. [t |-> "close"] \in Message OBVIOUS
<1>5. ASSUME NEW m \in Message
      PROVE  /\ m.t = "res" => m.op \in Ops /\ m.ok \in BOOLEAN /\ m = Res(m.op, m.ok)
             /\ m.t = "evt" => m.seq \in Nat /\ m = Evt(m.seq)
             /\ m.t = "end" => m.status \in Statuses /\ m.buffer \in {"none", "draft"}
  <2>1. CASE m \in [t : {"res"}, op : Ops, ok : BOOLEAN] BY <2>1
  <2>2. CASE m \in [t : {"evt"}, seq : Nat] BY <2>2
  <2>3. CASE m \in [t : {"end"}, status : Statuses, buffer : {"none", "draft"}] BY <2>3
  <2>4. CASE m \in [t : {"close"}] BY <2>4
  <2> QED BY <2>1, <2>2, <2>3, <2>4
<1> QED BY <1>1, <1>2, <1>3, <1>4, <1>5

\* Asking adds at most the request, to a daemon that is there.
LEMMA AskTyped == ASSUME RunTypes, NEW op \in Ops, Ask(op) PROVE toDaemon' \in Seq(Ops)
<1>1. Append(toDaemon, op) \in Seq(Ops) BY AppendHolds DEF RunTypes, WireTypes
<1> QED BY <1>1 DEF Ask, RunTypes, WireTypes

\* The daemon sends messages, one or two at a time but for a replay.
LEMMA SendTyped ==
  ASSUME RunTypes
  PROVE  /\ \A m \in Message : Send(<<m>>) => toClient' \in Seq(Message)
         /\ \A l, m \in Message : Send(<<l, m>>) => toClient' \in Seq(Message)
<1>1. toClient \in Seq(Message) BY DEF RunTypes, WireTypes
<1>2. ASSUME NEW m \in Message, Send(<<m>>) PROVE toClient' \in Seq(Message)
  <2>1. <<m>> \in Seq(Message) OBVIOUS
  <2>2. toClient \o <<m>> \in Seq(Message) BY ONLY <1>1, <2>1, ConcatHolds
  <2> QED BY <1>2, <2>2 DEF Send
<1>3. ASSUME NEW l \in Message, NEW m \in Message, Send(<<l, m>>) PROVE toClient' \in Seq(Message)
  <2>1. <<l, m>> \in Seq(Message) OBVIOUS
  <2>2. toClient \o <<l, m>> \in Seq(Message) BY ONLY <1>1, <2>1, ConcatHolds
  <2> QED BY <1>3, <2>2 DEF Send
<1> QED BY <1>2, <1>3

-----------------------------------------------------------------------------
(* Types.                                                                   *)

LEMMA InitTyped == RunInit => RunTypes
<1> SUFFICES ASSUME RunInit PROVE RunTypes OBVIOUS
<1>1. <<>> \in Seq(Ops) /\ <<>> \in Seq(Message) /\ <<>> \in Seq({"draft", "typed"}) BY EmptySeq
<1>2. None \in [is : {"none", "closed"}] /\ None \in [is : {"none", "ended", "control"}] /\ None.is = "none"
      /\ None \in [is : {"none", "aborted", "detached", "replay stopped"}]
  BY DEF None
<1>3. NoResult \in Results
  BY <1>1 DEF NoResult, Results, Labels, Convs
<1>8. <<>> \in Seq(CallOps) BY EmptySeq
<1>4. PlaceTypes /\ RaceTypes /\ FlagTypes BY <1>2, <1>8 DEF RunInit, PlaceTypes, RaceTypes, FlagTypes, Early
<1>5. ShellTypes BY <1>3 DEF RunInit, ShellTypes, Convs
<1>6. WireTypes BY <1>1 DEF RunInit, WireTypes
<1>7. DaemonTypes BY DEF RunInit, DaemonTypes, Convs
<1> QED BY <1>4, <1>5, <1>6, <1>7 DEF RunTypes

\* What a step leaves alone keeps its types.
LEMMA SameClient ==
  ASSUME RunTypes
  PROVE  /\ UNCHANGED <<kind, pc, calls>> => PlaceTypes'
         /\ UNCHANGED <<race, ended, control>> => RaceTypes'
         /\ UNCHANGED <<acked, known, finished, aborted, detach, abortSent, detachSent, told, typing, keep>> => FlagTypes'
         /\ UNCHANGED <<conv, exit, seen, captured, proposal, agentText, result>> => ShellTypes'
         /\ UNCHANGED <<toDaemon, toClient>> => WireTypes'
         /\ UNCHANGED daemonVars => DaemonTypes'
<1> USE DEF RunTypes
<1>1. UNCHANGED <<kind, pc, calls>> => PlaceTypes' BY DEF PlaceTypes
<1>2. UNCHANGED <<race, ended, control>> => RaceTypes' BY DEF RaceTypes
<1>3. UNCHANGED <<acked, known, finished, aborted, detach, abortSent, detachSent, told, typing, keep>> => FlagTypes'
  BY DEF FlagTypes
<1>4. UNCHANGED <<conv, exit, seen, captured, proposal, agentText, result>> => ShellTypes' BY DEF ShellTypes
<1>5. UNCHANGED <<toDaemon, toClient>> => WireTypes' BY DEF WireTypes
<1>6. UNCHANGED daemonVars => DaemonTypes' BY DEF DaemonTypes, daemonVars
<1> QED BY <1>1, <1>2, <1>3, <1>4, <1>5, <1>6

\* What the daemon does keeps the types.
LEMMA DaemonTyped ==
  ASSUME RunTypes, DaemonStep \/ DaemonEvent \/ DaemonEvicts \/ DaemonEnds \/ DaemonGone
  PROVE  RunTypes'
<1>01. toDaemon \in Seq(Ops) /\ toClient \in Seq(Message) /\ DaemonTypes /\ conv \in Convs
  BY DEF RunTypes, WireTypes, ShellTypes
<1>02. ASSUME WireTypes', DaemonTypes', UNCHANGED clientVars PROVE RunTypes'
  BY <1>02, SameClient DEF clientVars, RunTypes
<1>03. ASSUME NEW op, Request(op) PROVE toDaemon' \in Seq(Ops) /\ op \in Ops
  BY <1>01, <1>03, TailHolds DEF Request
<1>04. \A op \in Ops, ok \in BOOLEAN : Send(<<Res(op, ok)>>) => toClient' \in Seq(Message)
  BY Messages, SendTyped
<1> USE DEF WireTypes, daemonVars
<1>1. CASE DaemonStart
  <2>1. WireTypes' /\ UNCHANGED clientVars BY <1>01, <1>03, <1>1 DEF DaemonStart
  <2>2. DaemonTypes' BY <1>01, <1>1 DEF DaemonStart, DaemonTypes
  <2> QED BY <1>02, <2>1, <2>2
<1>2. CASE DaemonOpened
  <2>1. Evt(1) \in Message /\ \A ok \in BOOLEAN : Res("turn.start", ok) \in Message
    BY Messages DEF Ops
  <2>2. WireTypes' /\ UNCHANGED clientVars BY <1>01, <1>2, <2>1, SendTyped DEF DaemonOpened
  <2>3. DaemonTypes'
    <3>1. next \in Nat /\ oldest \in Nat BY <1>01 DEF DaemonTypes
    <3>2. next' \in Nat /\ oldest' \in Nat BY ONLY <1>2, <3>1 DEF DaemonOpened, daemonVars
    <3> QED BY <1>01, <1>2, <3>2 DEF DaemonOpened, DaemonTypes
  <2> QED BY <1>02, <2>2, <2>3
<1>3. CASE DaemonEvent
  <2>1. Evt(next) \in Message BY <1>01, Messages DEF DaemonTypes
  <2>2. WireTypes' /\ UNCHANGED clientVars BY <1>01, <1>3, <2>1, SendTyped DEF DaemonEvent
  <2>3. DaemonTypes'
    <3>1. next \in Nat /\ oldest \in Nat BY <1>01 DEF DaemonTypes
    <3>2. next' \in Nat /\ oldest' \in Nat BY ONLY <1>3, <3>1 DEF DaemonEvent, daemonVars
    <3> QED BY <1>01, <1>3, <3>2 DEF DaemonEvent, DaemonTypes
  <2> QED BY <1>02, <2>2, <2>3
<1>4. CASE DaemonEvicts
  <2>1. WireTypes' /\ UNCHANGED clientVars BY <1>01, <1>4 DEF DaemonEvicts
  <2>2. DaemonTypes'
    <3>1. next \in Nat /\ oldest \in Nat BY <1>01 DEF DaemonTypes
    <3>2. next' \in Nat /\ oldest' \in Nat BY ONLY <1>4, <3>1 DEF DaemonEvicts, daemonVars
    <3> QED BY <1>01, <1>4, <3>2 DEF DaemonEvicts, DaemonTypes
  <2> QED BY <1>02, <2>1, <2>2
<1>5. CASE DaemonEnds
  <2>1. PICK status \in Statuses :
          IF owned /\ ~replay THEN Send(<<End(status, IF Edit /\ status = "stop" THEN "draft" ELSE "none")>>)
          ELSE UNCHANGED toClient
    BY <1>5 DEF DaemonEnds, Statuses
  <2>2. End(status, IF Edit /\ status = "stop" THEN "draft" ELSE "none") \in Message BY Messages
  <2>3. toClient' \in Seq(Message) BY <1>01, <2>1, <2>2, SendTyped
  <2>4. DaemonTypes' BY <1>01, <1>5 DEF DaemonEnds, DaemonTypes
  <2> QED BY <1>01, <1>02, <1>5, <2>3, <2>4 DEF DaemonEnds
<1>6. CASE DaemonAbort
  <2>1. PICK op \in {"turn.abort", "turn.abort conversation"} :
          Request(op) /\ stop' = (stop \/ Stoppable) /\ Send(<<Res(op, Stoppable)>>)
    BY <1>6 DEF DaemonAbort
  <2>2. Stoppable \in BOOLEAN BY DEF Stoppable
  <2>3. WireTypes' BY <1>03, <1>04, <2>1, <2>2
  <2>4. DaemonTypes' BY <1>01, <1>6, <2>1 DEF DaemonAbort, DaemonTypes
  <2> QED BY <1>02, <1>6, <2>3, <2>4 DEF DaemonAbort
<1>7. CASE DaemonDetach
  <2>1. (turn = "running" /\ owned) \in BOOLEAN OBVIOUS
  <2>2. WireTypes' BY <1>03, <1>04, <1>7, <2>1 DEF DaemonDetach
  <2>3. DaemonTypes' BY <1>01, <1>7 DEF DaemonDetach, DaemonTypes
  <2> QED BY <1>02, <1>7, <2>2, <2>3 DEF DaemonDetach
<1>8. CASE DaemonAttach
  <2>1. WireTypes' BY <1>01, <1>03, <1>04, <1>8 DEF DaemonAttach
  <2>2. DaemonTypes' BY <1>01, <1>8 DEF DaemonAttach, DaemonTypes
  <2> QED BY <1>02, <1>8, <2>1, <2>2 DEF DaemonAttach
<1>9. CASE DaemonReplayed
  <2> DEFINE past == [i \in 1..(next - oldest) |-> Evt(oldest + i - 1)]
             last == IF turn = "ended" THEN <<End(IF stop THEN "aborted" ELSE "stop", "none")>> ELSE <<>>
  <2>1. past \in Seq(Message)
    <3>1. next \in Nat /\ oldest \in Nat BY <1>01 DEF DaemonTypes
    <3>2. \A i \in 1..(next - oldest) : oldest + i - 1 \in Nat BY ONLY <3>1
    <3>3. past \in [1..(next - oldest) -> Message] BY <3>2, Messages
    <3> HIDE DEF past
    <3>4. PICK n \in Nat : 1..(next - oldest) = 1..n
      <4>1. CASE next - oldest >= 0 BY <3>1, <4>1
      <4>2. CASE next - oldest < 0
        <5>1. 1..(next - oldest) = 1..0 BY <3>1, <4>2
        <5> QED BY <5>1
      <4> QED BY <3>1, <4>1, <4>2
    <3>5. past \in [1..n -> Message] BY <3>3, <3>4
    <3> QED BY <3>5, RangeIsASeq
  <2>2. last \in Seq(Message)
    <3>1. End(IF stop THEN "aborted" ELSE "stop", "none") \in Message BY Messages DEF Statuses
    <3> QED BY <3>1, EmptySeq
  <2>3. <<Res("turn.attach", TRUE)>> \in Seq(Message)
    <3>1. Res("turn.attach", TRUE) \in Message BY Messages DEF Ops
    <3> QED BY <3>1, OneHolds
  <2>4. toClient' = toClient \o (past \o last \o <<Res("turn.attach", TRUE)>>) BY <1>9 DEF DaemonReplayed, Send
  <2> HIDE DEF past, last
  <2>5. past \o last \in Seq(Message) BY <2>1, <2>2, ConcatHolds
  <2>6. past \o last \o <<Res("turn.attach", TRUE)>> \in Seq(Message) BY <2>3, <2>5, ConcatHolds
  <2>7. WireTypes' BY <1>01, <1>9, <2>4, <2>6, ConcatHolds DEF DaemonReplayed
  <2>8. DaemonTypes' BY <1>01, <1>9 DEF DaemonReplayed, DaemonTypes
  <2> QED BY <1>02, <1>9, <2>7, <2>8 DEF DaemonReplayed
<1>10. CASE DaemonAnswers
  <2>1. WireTypes' BY <1>03, <1>04, <1>10 DEF DaemonAnswers
  <2>2. DaemonTypes' BY <1>01, <1>10 DEF DaemonAnswers, DaemonTypes
  <2> QED BY <1>02, <1>10, <2>1, <2>2 DEF DaemonAnswers
<1>11. CASE DaemonGone
  <2>1. WireTypes' BY <1>11, EmptySeq, Messages, SendTyped DEF DaemonGone
  <2>2. DaemonTypes' BY <1>01, <1>11 DEF DaemonGone, DaemonTypes
  <2> QED BY <1>02, <1>11, <2>1, <2>2 DEF DaemonGone
<1> QED
  BY <1>1, <1>2, <1>3, <1>4, <1>5, <1>6, <1>7, <1>8, <1>9, <1>10, <1>11 DEF DaemonStep

\* What the shell gets, a field at a time.
LEMMA ResultFields ==
  ASSUME NEW r \in Results
  PROVE  /\ \A s \in Labels : LET q == [r EXCEPT !.status = s]
                              IN  /\ q \in Results /\ q.status = s /\ q.conversation = r.conversation
                                  /\ q.file = r.file /\ q.buffer = r.buffer /\ q.committed = r.committed
         /\ \A c \in Convs : LET q == [r EXCEPT !.conversation = c]
                             IN  /\ q \in Results /\ q.conversation = c /\ q.status = r.status
                                 /\ q.file = r.file /\ q.buffer = r.buffer /\ q.committed = r.committed
         /\ LET q == [r EXCEPT !.committed = TRUE]
            IN  /\ q \in Results /\ q.conversation = r.conversation /\ q.status = r.status
                /\ q.file = r.file /\ q.buffer = r.buffer /\ q.committed = TRUE
  BY DEF Results

\* What is left at the end is what was decided, with the status and the buffer.
LEMMA LeaveFields ==
  ASSUME RunTypes, NEW r \in Results, agentText' \in {"none", "draft"}
  PROVE  /\ Leave(r) \in Results /\ Leave(r).conversation = r.conversation
         /\ Leave(r).status = r.status /\ Leave(r).committed = r.committed
         /\ keep => Leave(r).file = r.file
         /\ captured > 0 => \E i \in DOMAIN Leave(r).buffer : Leave(r).buffer[i] = "typed"
<1> DEFINE draft == IF agentText' = "draft" THEN <<"draft">> ELSE <<>>
           typed == IF captured > 0 THEN <<"typed">> ELSE <<>>
           file == IF r.status # "none" /\ ~keep THEN r.status ELSE r.file
<1>1. draft \in Seq({"draft", "typed"}) /\ typed \in Seq({"draft", "typed"})
  <2>1. "draft" \in {"draft", "typed"} /\ "typed" \in {"draft", "typed"} OBVIOUS
  <2>2. <<"draft">> \in Seq({"draft", "typed"}) /\ <<"typed">> \in Seq({"draft", "typed"}) BY <2>1, OneHolds
  <2> QED BY <2>2, EmptySeq
<1>2. captured > 0 => typed = <<"typed">> OBVIOUS
<1>3. file \in {"daemon's"} \cup Labels BY DEF Results
<1>4. keep => file = r.file OBVIOUS
<1>5. Leave(r) = [r EXCEPT !.file = file, !.buffer = draft \o typed] BY DEF Leave
<1> HIDE DEF draft, typed, file
<1>6. draft \o typed \in Seq({"draft", "typed"}) BY <1>1, ConcatHolds
<1>7. /\ Leave(r) \in Results /\ Leave(r).conversation = r.conversation
      /\ Leave(r).status = r.status /\ Leave(r).committed = r.committed
      /\ Leave(r).file = file /\ Leave(r).buffer = draft \o typed
  BY <1>3, <1>5, <1>6 DEF Results
<1>8. ASSUME captured > 0 PROVE \E i \in DOMAIN (draft \o typed) : (draft \o typed)[i] = "typed"
  <2>1. Len(typed) = 1 /\ typed[1] = "typed" BY <1>2, <1>8
  <2>2. Len(draft) \in Nat BY <1>1, LenProperties
  <2>3. (draft \o typed)[Len(draft) + 1] = typed[Len(draft) + 1 - Len(draft)]
        /\ Len(draft) + 1 \in DOMAIN (draft \o typed)
    BY <1>1, <2>1, <2>2, ConcatHolds
  <2>4. Len(draft) + 1 - Len(draft) = 1 BY <2>2
  <2> QED BY <2>1, <2>3, <2>4
<1> QED BY <1>4, <1>7, <1>8

LEMMA FailTyped ==
  ASSUME RunTypes, Fail
  PROVE  /\ pc' = "finally" /\ exit' = "error" /\ result' \in Results
         /\ result'.conversation = result.conversation /\ result'.file = result.file
         /\ result'.committed = result.committed
<1>1. "error" \in Labels /\ result \in Results BY DEF RunTypes, ShellTypes, Labels
<1> QED BY <1>1, ResultFields DEF Fail

\* A call is made, or the run fails.
LEMMA IssueEffect ==
  ASSUME RunTypes, NEW op \in Ops, NEW then, Issue(op, then)
  PROVE  /\ race' = None /\ toDaemon' \in Seq(Ops)
         /\ \/ pc' = then /\ Ask(op) /\ UNCHANGED <<exit, result>>
            \/ Fail /\ UNCHANGED toDaemon
<1>1. toDaemon \in Seq(Ops) BY DEF RunTypes, WireTypes
<1> QED BY <1>1, AskTyped DEF Issue

\* A promise is settled by what happens first.
LEMMA NoneTyped ==
  /\ None \in [is : {"none", "ended", "control"}] /\ None.is = "none"
  /\ None \in [is : {"none", "closed"}]
  /\ None \in [is : {"none", "aborted", "detached", "replay stopped"}]
  /\ \A what \in {"none", "ended", "control"} :
         [is |-> what] \in [is : {"none", "ended", "control"}] /\ [is |-> what].is = what
  /\ \A what \in {"none", "aborted", "detached", "replay stopped"} :
         [is |-> what] \in [is : {"none", "aborted", "detached", "replay stopped"}] /\ [is |-> what].is = what
  /\ \A ok \in BOOLEAN : LET q == [is |-> "res", ok |-> ok]
                         IN  q \in [is : {"res"}, ok : BOOLEAN] /\ q.is = "res" /\ q.ok = ok
BY DEF None

\* What keys do keeps the types.
LEMMA KeysTyped ==
  ASSUME RunTypes, PressAbort \/ PressDetach \/ PressChar
  PROVE  RunTypes'
<1> USE NoneTyped
<1>0. PlaceTypes /\ RaceTypes /\ FlagTypes /\ ShellTypes /\ WireTypes /\ DaemonTypes BY DEF RunTypes
<1>1. CASE PressAbort
  <2>1. UNCHANGED <<kind, pc, calls, conv, exit, seen, captured, proposal, agentText, result, toClient, daemonVars>>
    BY <1>1 DEF PressAbort
  <2>2. /\ abortSent' \in BOOLEAN /\ toDaemon' \in Seq(Ops)
        /\ control' \in [is : {"none", "aborted", "detached", "replay stopped"}]
    <3>1. CASE InTurn
      <4>1. Aborts(known) BY <1>1, <3>1 DEF PressAbort
      <4>2. toDaemon' \in Seq(Ops)
        <5>0. "turn.abort" \in Ops /\ "turn.abort conversation" \in Ops BY DEF Ops, CallOps
        <5>1. toDaemon' = toDaemon \/ (\E op \in Ops : Ask(op)) BY <4>1, <5>0 DEF Aborts
        <5> QED BY <1>0, <5>1, AskTyped DEF WireTypes
      <4>3. abortSent' \in BOOLEAN BY <4>1 DEF Aborts
      <4>4. control' \in [is : {"none", "aborted", "detached", "replay stopped"}]
        BY <1>0, <4>1 DEF Aborts, RaceTypes
      <4> QED BY <4>2, <4>3, <4>4
    <3>2. CASE ~InTurn BY <1>0, <1>1, <3>2 DEF PressAbort, FlagTypes, WireTypes, RaceTypes
    <3> QED BY <3>1, <3>2
  <2>3. ended' = ended /\ race' \in {race, [is |-> "control"]} BY <1>1 DEF PressAbort, Settles
  <2>4. RaceTypes' BY <1>0, <2>2, <2>3 DEF RaceTypes
  <2>5. FlagTypes'
    <3>1. UNCHANGED <<acked, known, finished, detach, detachSent, told, typing, keep>> /\ aborted' = TRUE
      BY <1>1 DEF PressAbort
    <3> QED BY <1>0, <2>2, <3>1 DEF FlagTypes
  <2>6. WireTypes' BY <1>0, <2>1, <2>2 DEF WireTypes
  <2> QED BY <2>1, <2>4, <2>5, <2>6, SameClient DEF RunTypes
<1>2. CASE PressDetach
  <2>1. UNCHANGED <<kind, pc, calls, race, ended, control, conv, exit, seen, captured, proposal, agentText, result,
                    toClient, daemonVars>>
    BY <1>2 DEF PressDetach
  <2>2. UNCHANGED <<acked, known, finished, aborted, abortSent, told, typing, keep>> /\ detach' = TRUE
    BY <1>2 DEF PressDetach
  <2>3. detachSent' \in BOOLEAN BY <1>0, <1>2 DEF PressDetach, FlagTypes
  <2>4. FlagTypes' BY <1>0, <2>2, <2>3 DEF FlagTypes
  <2>5. WireTypes'
    <3>1. toDaemon' = toDaemon \/ Ask("turn.detach") BY <1>2 DEF PressDetach
    <3>2. "turn.detach" \in Ops BY DEF Ops
    <3> QED BY <1>0, <2>1, <3>1, <3>2, AskTyped DEF WireTypes
  <2> QED BY <2>1, <2>4, <2>5, SameClient DEF RunTypes
<1>3. CASE PressChar
  <2>1. ShellTypes' BY <1>0, <1>3 DEF PressChar, ShellTypes
  <2>2. UNCHANGED <<kind, pc, calls, race, ended, control, acked, known, finished, aborted, detach, abortSent, detachSent,
                    told, typing, keep, toDaemon, toClient, daemonVars>>
    BY <1>3 DEF PressChar
  <2> QED BY <2>1, <2>2, SameClient DEF RunTypes
<1> QED BY <1>1, <1>2, <1>3

\* So does what the client makes of a message.
LEMMA ReceiveTyped ==
  ASSUME RunTypes, ReceiveRes \/ ReceiveEvt \/ ReceiveEnd \/ ReceiveClose
  PROVE  RunTypes'
<1> USE NoneTyped
<1>0. PlaceTypes /\ RaceTypes /\ FlagTypes /\ ShellTypes /\ WireTypes /\ DaemonTypes BY DEF RunTypes
<1> DEFINE m == Head(toClient)
<1>01. ASSUME Received
       PROVE  /\ m \in Message /\ toClient' \in Seq(Message)
              /\ m.t = "res" => m.op \in Ops /\ m.ok \in BOOLEAN
              /\ m.t = "evt" => m.seq \in Nat
              /\ m.t = "end" => m.status \in Statuses /\ m.buffer \in {"none", "draft"}
  <2>1. m \in Message /\ toClient' \in Seq(Message) BY <1>0, <1>01, TailHolds DEF Received, WireTypes
  <2> QED BY <2>1, Messages
<1>1. CASE ReceiveRes
  <2>0. Received /\ m.t = "res" BY <1>1 DEF ReceiveRes
  <2>1. UNCHANGED <<kind, pc, calls, acked, known, finished, aborted, detach, abortSent, detachSent, told, typing, keep,
                    conv, exit, seen, captured, proposal, agentText, result, daemonVars>>
    BY <1>1 DEF ReceiveRes
  <2>2. WireTypes' BY <1>0, <1>01, <1>1, <2>0 DEF ReceiveRes, WireTypes
  <2>3. /\ ended' = ended /\ race' \in {race, [is |-> "control"], [is |-> "res", ok |-> m.ok]}
        /\ control' \in {control, [is |-> "detached"], [is |-> "replay stopped"]}
    BY <1>1 DEF ReceiveRes, DetachAnswered, Settles
  <2>4. RaceTypes'
    <3>1. [is |-> "res", ok |-> m.ok] \in [is : {"res"}, ok : BOOLEAN] /\ [is |-> "res", ok |-> m.ok].is = "res"
      BY <1>01, <2>0
    <3>2. race' \in [is : {"none", "ended", "control"}] \cup [is : {"res"}, ok : BOOLEAN]
          /\ (race'.is = "ended" => race' = race)
      BY <1>0, <2>3, <3>1 DEF RaceTypes
    <3>3. control' \in [is : {"none", "aborted", "detached", "replay stopped"}] BY <1>0, <2>3 DEF RaceTypes
    <3> QED BY <1>0, <2>3, <3>2, <3>3 DEF RaceTypes
  <2> QED BY <2>1, <2>2, <2>4, SameClient DEF RunTypes
<1>2. CASE ReceiveEvt
  <2>0. Received /\ m.t = "evt" BY <1>2 DEF ReceiveEvt
  <2>1. UNCHANGED <<kind, pc, calls, ended, acked, finished, aborted, detach, typing, keep, conv, exit, captured, proposal,
                    agentText, result, daemonVars>>
    BY <1>2 DEF ReceiveEvt
  <2>2. /\ race' \in {race, [is |-> "control"]} /\ control' \in {control, [is |-> "aborted"]}
        /\ toDaemon' = toDaemon \/ (\E op \in Ops : Ask(op))
        /\ known' \in {known, TRUE} /\ detachSent' \in {detachSent, TRUE} /\ abortSent' \in {abortSent, TRUE}
    <3>1. CASE finished BY <1>2, <3>1 DEF ReceiveEvt
    <3>2. CASE ~finished /\ aborted BY <1>2, <3>2 DEF ReceiveEvt, Aborts, Settles, Ops, CallOps
    <3>3. CASE ~finished /\ ~aborted BY <1>2, <3>3 DEF ReceiveEvt, Ops
    <3> QED BY <1>0, <3>1, <3>2, <3>3 DEF FlagTypes
  <2>3. seen' \subseteq Nat /\ told' \in BOOLEAN
    <3>1. UNCHANGED <<seen, told>> \/ Shown(m.seq) BY <1>2 DEF ReceiveEvt
    <3>2. CASE UNCHANGED <<seen, told>> BY <1>0, <3>2 DEF ShellTypes, FlagTypes
    <3>3. CASE Shown(m.seq)
      <4>1. m.seq \in Nat BY <1>01, <2>0
      <4>2. seen' = seen \/ seen' = seen \cup {m.seq} BY <3>3 DEF Shown
      <4>3. told' = told \/ told' \in BOOLEAN BY <3>3 DEF Shown
      <4> QED BY <1>0, <4>1, <4>2, <4>3 DEF ShellTypes, FlagTypes
    <3> QED BY <3>1, <3>2, <3>3
  <2>4. RaceTypes' BY <1>0, <2>1, <2>2 DEF RaceTypes
  <2>5. FlagTypes' BY <1>0, <2>1, <2>2, <2>3 DEF FlagTypes
  <2>6. ShellTypes' BY <1>0, <2>1, <2>3 DEF ShellTypes
  <2>7. WireTypes' BY <1>0, <1>01, <2>0, <2>2, AskTyped DEF WireTypes
  <2> QED BY <2>1, <2>4, <2>5, <2>6, <2>7, SameClient DEF RunTypes
<1>3. CASE ReceiveEnd
  <2>0. Received /\ m.t = "end" BY <1>3 DEF ReceiveEnd
  <2>1. UNCHANGED <<kind, pc, calls, control, acked, known, finished, aborted, detach, abortSent, detachSent, told, typing,
                    keep, conv, exit, seen, captured, proposal, agentText, result, toDaemon, daemonVars>>
    BY <1>3 DEF ReceiveEnd
  <2>2. WireTypes' BY <1>0, <1>01, <2>0, <2>1 DEF WireTypes
  <2> DEFINE e == [is |-> "end", status |-> m.status, buffer |-> m.buffer]
  <2>3. e \in [is : {"end"}, status : Statuses, buffer : {"none", "draft"}] /\ e.is = "end" BY <1>01, <2>0
  <2>4. /\ race' \in {race, [is |-> "ended"]}
        /\ ended' = (IF ended = None THEN e ELSE ended)
    BY <1>3 DEF ReceiveEnd
  <2> HIDE DEF e
  <2>5. ended' \in [is : {"none", "closed"}] \cup [is : {"end"}, status : Statuses, buffer : {"none", "draft"}]
    BY <1>0, <2>3, <2>4 DEF RaceTypes
  <2>6. ended'.is # "none"
    <3>1. ended.is = "none" => ended = None BY <1>0 DEF RaceTypes, None
    <3> QED BY <2>3, <2>4, <3>1
  <2>7. RaceTypes' BY <1>0, <2>1, <2>4, <2>5, <2>6 DEF RaceTypes
  <2> QED BY <2>1, <2>2, <2>7, SameClient DEF RunTypes
<1>4. CASE ReceiveClose
  <2>0. Received BY <1>4 DEF ReceiveClose
  <2>1. UNCHANGED <<kind, pc, calls, control, acked, known, finished, aborted, detach, abortSent, detachSent, told, typing,
                    keep, conv, exit, seen, captured, proposal, agentText, result, toDaemon, daemonVars>>
    BY <1>4 DEF ReceiveClose
  <2>2. WireTypes' BY <1>0, <1>01, <2>0, <2>1 DEF WireTypes
  <2>3. [is |-> "closed"] \in [is : {"none", "closed"}] /\ [is |-> "closed"].is = "closed" OBVIOUS
  <2>4. /\ race' \in {race, [is |-> "ended"], [is |-> "res", ok |-> FALSE]}
        /\ ended' = (IF ended = None THEN [is |-> "closed"] ELSE ended)
    BY <1>4 DEF ReceiveClose, CloseSettles
  <2>5. ended' \in [is : {"none", "closed"}] \cup [is : {"end"}, status : Statuses, buffer : {"none", "draft"}]
    BY <1>0, <2>3, <2>4 DEF RaceTypes
  <2>6. ended'.is # "none"
    <3>1. ended.is = "none" => ended = None BY <1>0 DEF RaceTypes, None
    <3> QED BY <2>3, <2>4, <3>1
  <2>7. race' \in [is : {"none", "ended", "control"}] \cup [is : {"res"}, ok : BOOLEAN]
    BY <1>0, <2>4 DEF RaceTypes
  <2>8. RaceTypes' BY <1>0, <2>1, <2>5, <2>6, <2>7 DEF RaceTypes
  <2> QED BY <2>1, <2>2, <2>8, SameClient DEF RunTypes
<1> QED BY <1>1, <1>2, <1>3, <1>4

\* And the steps of the coroutine.
LEMMA CoroutineTyped ==
  ASSUME RunTypes,
         \/ Connect \/ CallNext \/ CallAnswered \/ BeginTurn \/ Acknowledged \/ Refused \/ TurnEnded \/ TurnControlled
         \/ Select \/ Selected \/ StatusRead \/ ListRead \/ Finally \/ Commit
  PROVE  RunTypes'
<1> DEFINE Same == UNCHANGED <<kind, ended, control, acked, known, aborted, detach, abortSent, detachSent, seen,
                               told, captured, toClient, daemonVars>>
           SameTurn == Same /\ UNCHANGED <<conv, finished, keep, typing, proposal, agentText>>
<1>0. PlaceTypes /\ RaceTypes /\ FlagTypes /\ ShellTypes /\ WireTypes /\ DaemonTypes BY DEF RunTypes
<1>01. result \in Results /\ conv \in Convs /\ exit \in {"ok", "error", "aborted"} BY <1>0 DEF ShellTypes
<1>02. ASSUME ended' = ended, control' = control, race' \in {race, None} PROVE RaceTypes'
  BY <1>0, <1>02, NoneTyped DEF RaceTypes
<1>03. ASSUME Same, UNCHANGED <<finished, typing, keep>> PROVE FlagTypes' /\ DaemonTypes'
  BY <1>03, SameClient
<1>04. ASSUME Same, UNCHANGED <<conv, proposal, agentText>>, exit' \in {"ok", "error", "aborted"}, result' \in Results
       PROVE ShellTypes'
  BY <1>0, <1>04 DEF ShellTypes
<1>05. Fail => pc' = "finally" /\ exit' = "error" /\ result' \in Results BY FailTyped
<1>06. ASSUME kind' = kind, calls' = calls, pc' \in {"finally", "begin", "ack", "follow", "chosen"} \cup Late
       PROVE  PlaceTypes'
  BY <1>0, <1>06 DEF PlaceTypes, Early, Late
<1>07. \A s \in Labels : [result EXCEPT !.status = s] \in Results BY <1>01, ResultFields
<1>08. \A c \in Convs : [result EXCEPT !.conversation = c] \in Results BY <1>01, ResultFields
<1>09. ASSUME toClient' = toClient, toDaemon' = toDaemon \/ \E op \in Ops : Ask(op) PROVE WireTypes'
  BY <1>0, <1>09, AskTyped DEF WireTypes
<1>10. ASSUME SameTurn, NEW op \in Ops, NEW then, Issue(op, then),
              then \in {"commandWait", "ack", "status", "list"}, then = "commandWait" => calls # <<>>, calls' = calls
       PROVE  RunTypes'
  <2>1. race' = None /\ toDaemon' \in Seq(Ops) /\ pc' \in {then, "finally"}
        /\ exit' \in {"ok", "error", "aborted"} /\ result' \in Results
    BY <1>01, <1>05, <1>10, IssueEffect
  <2>2. WireTypes' BY <1>0, <1>10, <2>1 DEF WireTypes
  <2>3. PlaceTypes' BY <1>0, <1>10, <2>1 DEF PlaceTypes, Early, Late
  <2> QED BY <1>02, <1>03, <1>04, <1>10, <2>1, <2>2, <2>3 DEF RunTypes
<1>11. ASSUME SameTurn, calls' = calls, Fail, toDaemon' = toDaemon, race' = None PROVE RunTypes'
  BY <1>02, <1>03, <1>04, <1>05, <1>06, <1>09, <1>11 DEF RunTypes, Late
<1>1. CASE Connect
  <2>1. SameTurn /\ race' = race /\ toDaemon' = toDaemon BY <1>1 DEF Connect
  <2>2. pc' \in {"begin", "command", "finally"} /\ exit' \in {"ok", "error", "aborted"} /\ result' \in Results
    BY <1>01, <1>05, <1>1 DEF Connect
  <2>3. PlaceTypes'
    <3>1. calls' \in Seq(CallOps) /\ (pc' = "command" => calls' # <<>>)
      <4>1. \A x, y \in CallOps : <<x>> \in Seq(CallOps) /\ <<x, y>> \in Seq(CallOps) OBVIOUS
      <4>2. {"conv.new", "conv.list", "conv.get", "conv.previous", "model.list", "model.set", "status.get",
             "turn.abort conversation"} \subseteq CallOps
        BY DEF CallOps
      <4>3. /\ <<"conv.new">> \in Seq(CallOps) /\ <<"conv.list", "conv.get">> \in Seq(CallOps)
            /\ <<"conv.previous">> \in Seq(CallOps) /\ <<"model.list", "model.set">> \in Seq(CallOps)
            /\ <<"status.get">> \in Seq(CallOps) /\ <<"turn.abort conversation">> \in Seq(CallOps)
            /\ <<>> \in Seq(CallOps)
        BY <4>1, <4>2, EmptySeq
      <4>4. Script(kind) \in Seq(CallOps) BY <4>3 DEF Script
      <4> QED BY <1>0, <1>1, <1>05, <4>4 DEF Connect, PlaceTypes
    <3> QED BY <1>0, <2>1, <2>2, <3>1 DEF PlaceTypes, Early, Late
  <2> QED BY <1>02, <1>03, <1>04, <1>09, <2>1, <2>2, <2>3 DEF RunTypes
<1>2. CASE CallNext
  <2>1. SameTurn /\ calls' = calls /\ Issue(Head(calls), "commandWait") /\ calls # <<>> BY <1>0, <1>2 DEF CallNext, PlaceTypes
  <2>2. Head(calls) \in Ops
    <3>1. Head(calls) \in CallOps BY <1>0, <2>1, TailHolds DEF PlaceTypes
    <3> QED BY <3>1 DEF Ops
  <2> QED BY <1>10, <2>1, <2>2
<1>3. CASE CallAnswered
  <2>1. Same /\ UNCHANGED <<finished, typing, proposal, agentText, toDaemon>> /\ race' = None
    BY <1>3 DEF CallAnswered
  <2>2. CASE Fail /\ UNCHANGED <<calls, conv, keep>> BY <1>11, <2>1, <2>2
  <2>3. CASE ~(Fail /\ UNCHANGED <<calls, conv, keep>>)
    <3>1. calls # <<>> /\ calls \in Seq(CallOps) BY <1>0, <1>3 DEF CallAnswered, PlaceTypes
    <3>2. Tail(calls) \in Seq(CallOps) /\ <<>> \in Seq(CallOps) BY <3>1, TailHolds, EmptySeq
    <3>3. exit' = exit /\ calls' \in Seq(CallOps) /\ pc' \in {"command", "begin", "chosen"}
          /\ (pc' = "command" => calls' # <<>>)
      BY <1>3, <2>3, <3>2 DEF CallAnswered
    <3>4. conv' \in Convs BY <1>01, <1>3, <2>3 DEF CallAnswered, Chosen, Convs
    <3>5. result' \in Results BY <1>01, <1>08, <1>3, <2>3, <3>4 DEF CallAnswered
    <3>6. keep' \in BOOLEAN BY <1>0, <1>3, <2>3 DEF CallAnswered, FlagTypes
    <3>7. PlaceTypes' BY <1>0, <2>1, <3>3 DEF PlaceTypes, Early
    <3>8. ShellTypes' BY <1>0, <1>01, <2>1, <3>3, <3>4, <3>5 DEF ShellTypes
    <3>9. FlagTypes' BY <1>0, <2>1, <3>6 DEF FlagTypes
    <3>10. DaemonTypes' /\ WireTypes' BY <1>09, <2>1, SameClient
    <3> QED BY <1>02, <2>1, <3>7, <3>8, <3>9, <3>10 DEF RunTypes
  <2> QED BY <2>2, <2>3
<1>4. CASE BeginTurn
  <2>1. /\ UNCHANGED <<kind, ended, control, acked, known, aborted, detach, abortSent, detachSent, seen,
                       told, captured, toClient, daemonVars>>
        /\ UNCHANGED <<conv, finished, keep, proposal, agentText, calls>> /\ typing' = TRUE
    BY <1>4 DEF BeginTurn
  <2>2. "turn.attach" \in Ops /\ "turn.start" \in Ops BY DEF Ops
  <2>3. PICK op \in {"turn.attach", "turn.start"} : Issue(op, "ack") BY <1>4 DEF BeginTurn
  <2>4. race' = None /\ toDaemon' \in Seq(Ops) /\ pc' \in {"ack", "finally"}
        /\ exit' \in {"ok", "error", "aborted"} /\ result' \in Results
    BY <1>01, <1>05, <2>2, <2>3, IssueEffect
  <2>5. FlagTypes' BY <1>0, <2>1 DEF FlagTypes
  <2>6. DaemonTypes' BY <2>1, SameClient
  <2>7. WireTypes' BY <1>0, <2>1, <2>4 DEF WireTypes
  <2> QED BY <1>02, <1>04, <1>06, <2>1, <2>4, <2>5, <2>6, <2>7 DEF RunTypes, Late
<1>5. CASE Acknowledged
  <2>1. /\ UNCHANGED <<kind, ended, control, aborted, detach, seen, told, captured, toClient, daemonVars>>
        /\ UNCHANGED <<finished, keep, typing, proposal, agentText, exit, calls>>
        /\ pc' = "follow" /\ acked' = TRUE /\ known' = TRUE
        /\ abortSent' = (abortSent \/ (aborted /\ ~abortSent)) /\ detachSent' = (detachSent \/ MayDetach)
    BY <1>5 DEF Acknowledged
  <2>2. conv' \in Convs BY <1>01, <1>5 DEF Acknowledged, Convs
  <2>3. result' \in Results BY <1>08, <1>5, <2>2 DEF Acknowledged
  <2>4. ShellTypes' BY <1>0, <2>1, <2>2, <2>3 DEF ShellTypes
  <2>5. FlagTypes' BY <1>0, <2>1 DEF FlagTypes, MayDetach
  <2>6. DaemonTypes' BY <2>1, SameClient
  <2>7. RaceTypes'
    <3>1. race' = IF ended # None THEN [is |-> "ended"] ELSE IF control # None THEN [is |-> "control"] ELSE None
      BY <1>5 DEF Acknowledged
    <3>2. ended # None => ended.is # "none" BY <1>0 DEF RaceTypes, None
    <3> QED BY <1>0, <2>1, <3>1, <3>2, NoneTyped DEF RaceTypes
  <2>8. WireTypes'
    <3> DEFINE abort == IF aborted /\ ~abortSent THEN <<"turn.abort">> ELSE <<>>
               away == IF MayDetach THEN <<"turn.detach">> ELSE <<>>
    <3>1. toDaemon' = IF alive THEN toDaemon \o abort \o away ELSE toDaemon BY <1>5 DEF Acknowledged
    <3>2. abort \in Seq(Ops) /\ away \in Seq(Ops)
      <4>1. "turn.abort" \in Ops /\ "turn.detach" \in Ops BY DEF Ops
      <4>2. <<"turn.abort">> \in Seq(Ops) /\ <<"turn.detach">> \in Seq(Ops) BY <4>1, OneHolds
      <4> QED BY <4>2, EmptySeq
    <3> HIDE DEF abort, away
    <3>3. toDaemon \o abort \in Seq(Ops) BY <1>0, <3>2, ConcatHolds DEF WireTypes
    <3>4. toDaemon \o abort \o away \in Seq(Ops) BY <3>2, <3>3, ConcatHolds
    <3> QED BY <1>0, <2>1, <3>1, <3>4 DEF WireTypes
  <2> QED BY <1>06, <2>1, <2>4, <2>5, <2>6, <2>7, <2>8 DEF RunTypes, Late
<1>6. CASE Refused
  <2>1. Same /\ UNCHANGED <<conv, keep, typing, proposal, agentText, toDaemon, calls>> /\ Fail /\ finished' = TRUE
        /\ race' = None
    BY <1>6 DEF Refused
  <2>2. FlagTypes' BY <1>0, <2>1 DEF FlagTypes
  <2> QED BY <1>02, <1>04, <1>05, <1>06, <1>09, <2>1, <2>2, SameClient DEF RunTypes, Late
<1>7. CASE TurnEnded
  <2>1. Same /\ UNCHANGED <<conv, keep, typing, agentText, toDaemon, calls>> /\ finished' = TRUE /\ race' = None
    BY <1>7 DEF TurnEnded
  <2>2. FlagTypes' BY <1>0, <2>1 DEF FlagTypes
  <2>3. /\ exit' \in {"ok", "error", "aborted"} /\ proposal' \in {"none", "draft"} /\ result' \in Results
        /\ pc' \in {"finally", "chosen"}
    <3>1. CASE ended.is = "closed" BY <1>0, <1>05, <1>7, <3>1 DEF TurnEnded, ShellTypes
    <3>2. CASE ended.is # "closed"
      <4>1. ended.status \in Statuses /\ ended.buffer \in {"none", "draft"} BY <1>0, <1>7, <3>2 DEF TurnEnded, RaceTypes
      <4> QED BY <1>01, <1>7, <3>2, <4>1 DEF TurnEnded, Statuses
    <3> QED BY <3>1, <3>2
  <2>4. ShellTypes' BY <1>0, <2>1, <2>3 DEF ShellTypes
  <2> QED BY <1>02, <1>06, <1>09, <2>1, <2>2, <2>3, <2>4, SameClient DEF RunTypes, Late
<1>8. CASE TurnControlled
  <2>1. /\ UNCHANGED <<kind, ended, control, acked, known, aborted, detach, abortSent, detachSent, seen,
                       told, captured, toClient, daemonVars>>
        /\ UNCHANGED <<conv, typing, proposal, agentText, toDaemon, calls>>
        /\ finished' = TRUE /\ race' = None /\ pc' = "chosen"
        /\ keep' = (keep \/ control.is = "detached") /\ exit' \in {"ok", "aborted"}
    BY <1>8 DEF TurnControlled, Controlled
  <2>2. FlagTypes' BY <1>0, <2>1 DEF FlagTypes
  <2>3. result' \in Results
    <3>1. "running" \in Labels BY DEF Labels
    <3> QED BY <1>01, <1>07, <1>8, <3>1 DEF TurnControlled, Controlled
  <2> QED BY <1>02, <1>04, <1>06, <1>09, <2>1, <2>2, <2>3, SameClient DEF RunTypes, Late
<1>12. CASE Select
  <2>1. SameTurn /\ race' = None /\ calls' = calls BY <1>12 DEF Select
  <2>2. "conv.select" \in Ops BY DEF Ops
  <2>3. /\ exit' \in {"ok", "error", "aborted"} /\ result' \in Results /\ pc' \in {"finally", "select"}
        /\ toDaemon' = toDaemon \/ \E op \in Ops : Ask(op)
    BY <1>01, <1>05, <1>08, <1>12, <2>2 DEF Select
  <2> QED BY <1>02, <1>03, <1>04, <1>06, <1>09, <2>1, <2>3 DEF RunTypes, Late
<1>13. CASE Selected
  <2>1. SameTurn /\ calls' = calls BY <1>13 DEF Selected
  <2>2. "status.get" \in Ops BY DEF Ops, CallOps
  <2>3. CASE Fail /\ race' = None /\ UNCHANGED toDaemon BY <1>11, <2>1, <2>3
  <2>4. CASE pc' = "finally" /\ race' = None /\ UNCHANGED <<exit, result, toDaemon>>
    BY <1>01, <1>02, <1>03, <1>04, <1>06, <1>09, <2>1, <2>4 DEF RunTypes, Late
  <2>5. CASE Issue("status.get", "status") BY <1>10, <2>1, <2>2, <2>5
  <2> QED BY <1>13, <2>3, <2>4, <2>5 DEF Selected
<1>14. CASE StatusRead
  <2>1. SameTurn /\ calls' = calls BY <1>14 DEF StatusRead
  <2>2. "commands.list" \in Ops BY DEF Ops
  <2>3. CASE Fail /\ race' = None /\ UNCHANGED toDaemon BY <1>11, <2>1, <2>3
  <2>4. CASE Issue("commands.list", "list") BY <1>10, <2>1, <2>2, <2>4
  <2> QED BY <1>14, <2>3, <2>4 DEF StatusRead
<1>15. CASE ListRead
  <2>1. SameTurn /\ calls' = calls /\ race' = None /\ pc' = "finally" /\ UNCHANGED <<exit, toDaemon>> BY <1>15 DEF ListRead
  <2>2. result' \in Results
    <3>1. (IF exit \in {"aborted", "error"} THEN exit ELSE "label") \in Labels BY DEF Labels
    <3> QED BY <1>07, <1>15, <3>1 DEF ListRead
  <2> QED BY <1>01, <1>02, <1>03, <1>04, <1>06, <1>09, <2>1, <2>2 DEF RunTypes, Late
<1>16. CASE Finally
  <2>1. /\ UNCHANGED <<kind, race, ended, control, acked, known, detach, abortSent, detachSent, seen, told, captured,
                       toClient, toDaemon, daemonVars, calls>>
        /\ UNCHANGED <<conv, finished, keep, proposal>> /\ typing' = FALSE
    BY <1>16 DEF Finally
  <2>2. PICK late \in {FALSE, typing} :
          /\ aborted' = (aborted \/ late)
          /\ exit' = IF Withdrawn(late) THEN "aborted" ELSE exit
          /\ agentText' \in {agentText, "draft"} /\ pc' \in {"commit", "done"}
          /\ result' = result \/ result' = Leave(IF Withdrawn(late) THEN [result EXCEPT !.status = "aborted"] ELSE result)
    BY <1>16 DEF Finally
  <2>3. agentText' \in {"none", "draft"} BY <1>0, <2>2 DEF ShellTypes
  <2>4. result' \in Results
    <3>1. "aborted" \in Labels BY DEF Labels
    <3>2. (IF Withdrawn(late) THEN [result EXCEPT !.status = "aborted"] ELSE result) \in Results BY <1>01, <1>07, <3>1
    <3> QED BY <1>01, <2>2, <2>3, <3>2, LeaveFields
  <2>5. FlagTypes' BY <1>0, <2>1, <2>2 DEF FlagTypes
  <2>6. ShellTypes' BY <1>0, <1>01, <2>1, <2>2, <2>3, <2>4 DEF ShellTypes
  <2> QED BY <1>02, <1>06, <1>09, <2>1, <2>2, <2>5, <2>6, SameClient DEF RunTypes, Late
<1>17. CASE Commit
  <2>1. /\ UNCHANGED <<kind, ended, control, acked, known, aborted, detach, abortSent, detachSent, seen,
                       told, captured, toClient, daemonVars>>
        /\ UNCHANGED <<conv, finished, keep, typing, proposal, race, calls, agentText, toDaemon>>
        /\ pc' = "done" /\ exit' \in {"ok", "error"}
        /\ (result' = Leave([result EXCEPT !.committed = TRUE]) \/ result' = Leave([result EXCEPT !.status = "error"]))
    BY <1>17 DEF Commit
  <2>2. agentText' \in {"none", "draft"} BY <1>0, <2>1 DEF ShellTypes
  <2>3. "error" \in Labels BY DEF Labels
  <2>4. [result EXCEPT !.committed = TRUE] \in Results /\ [result EXCEPT !.status = "error"] \in Results
    BY <1>01, <2>3, ResultFields
  <2>5. result' \in Results BY <2>1, <2>2, <2>4, LeaveFields
  <2> QED BY <1>02, <1>03, <1>04, <1>06, <1>09, <2>1, <2>5 DEF RunTypes, Late
<1> QED
  BY <1>1, <1>2, <1>3, <1>4, <1>5, <1>6, <1>7, <1>8, <1>12, <1>13, <1>14, <1>15, <1>16, <1>17

LEMMA TypingNext == RunTypes /\ [RunNext]_runVars => RunTypes'
<1>1. ASSUME RunTypes, UNCHANGED runVars PROVE RunTypes'
  BY <1>1, SameClient DEF runVars, clientVars, RunTypes
<1> QED
  BY <1>1, DaemonTyped, KeysTyped, ReceiveTyped, CoroutineTyped DEF RunNext, ClientStep

\* Every value keeps its type.
THEOREM Typed == RunSpec => []RunTypes
  BY InitTyped, TypingNext, PTL DEF RunSpec

-----------------------------------------------------------------------------
(* What a step puts on the connection and takes from it.                    *)

LEMMA AskEffect ==
  ASSUME RunTypes, NEW op \in Ops, Ask(op)
  PROVE  /\ \A x : Asks(x)' => Asks(x) \/ x = op
         /\ Once /\ (op \in Claim => ~Claims) => Once'
<1>1. CASE ~alive BY <1>1 DEF Ask, Asks, Once
<1>2. CASE alive
  <2>1. toDaemon \in Seq(Ops) /\ toDaemon' = Append(toDaemon, op) BY <1>2 DEF RunTypes, WireTypes, Ask
  <2>2. /\ Len(toDaemon) \in Nat /\ DOMAIN toDaemon = 1..Len(toDaemon)
        /\ DOMAIN toDaemon' = 1..(Len(toDaemon) + 1)
        /\ \A i \in DOMAIN toDaemon : toDaemon'[i] = toDaemon[i]
        /\ toDaemon'[Len(toDaemon) + 1] = op
    BY <2>1, AppendHolds
  <2>3. \A i \in DOMAIN toDaemon' : i \in DOMAIN toDaemon \/ i = Len(toDaemon) + 1 BY <2>2
  <2>4. \A x : Asks(x)' => Asks(x) \/ x = op BY <2>2, <2>3 DEF Asks
  <2>5. ASSUME Once, op \in Claim => ~Claims PROVE Once'
    <3>1. op \in Claim => \A i \in DOMAIN toDaemon : toDaemon[i] \notin Claim BY <2>5 DEF Claims, Asks
    <3> QED BY <2>2, <2>3, <2>5, <3>1 DEF Once
  <2> QED BY <2>4, <2>5
<1> QED BY <1>1, <1>2

LEMMA RequestEffect ==
  ASSUME RunTypes, NEW op, Request(op)
  PROVE  /\ Asks(op) /\ \A x : Asks(x)' => Asks(x)
         /\ Once => Once'
         /\ Once /\ op \in Claim => ~Claims'
<1>1. toDaemon \in Seq(Ops) /\ toDaemon # <<>> /\ Head(toDaemon) = op /\ toDaemon' = Tail(toDaemon)
  BY DEF RunTypes, WireTypes, Request
<1>2. /\ Len(toDaemon) \in Nat /\ DOMAIN toDaemon = 1..Len(toDaemon) /\ 1 \in DOMAIN toDaemon /\ toDaemon[1] = op
      /\ DOMAIN toDaemon' = 1..(Len(toDaemon) - 1)
      /\ \A i \in DOMAIN toDaemon' : i + 1 \in DOMAIN toDaemon /\ toDaemon'[i] = toDaemon[i + 1]
  BY <1>1, TailHolds
<1>3. Asks(op) /\ \A x : Asks(x)' => Asks(x) BY <1>2 DEF Asks
<1>4. ASSUME Once PROVE Once'
  <2>1. \A i, j \in DOMAIN toDaemon' : toDaemon'[i] \in Claim /\ toDaemon'[j] \in Claim => i + 1 = j + 1
    BY <1>2, <1>4 DEF Once
  <2> QED BY <1>2, <2>1 DEF Once
<1>5. ASSUME Once, op \in Claim PROVE ~Claims'
  <2>1. \A i \in DOMAIN toDaemon' : toDaemon'[i] \in Claim => i + 1 = 1 BY <1>2, <1>5 DEF Once
  <2>2. \A i \in DOMAIN toDaemon' : i + 1 # 1 BY <1>2
  <2> QED BY <2>1, <2>2 DEF Claims, Asks
<1> QED BY <1>3, <1>4, <1>5

\* Asks and Hears of sequences that are put one after the other.
LEMMA SendEffect ==
  ASSUME RunTypes, NEW r \in Seq(Message), Send(r)
  PROVE  \A x : Hears(x)' => Hears(x) \/ \E i \in DOMAIN r : r[i] = x
<1>1. toClient \in Seq(Message) /\ toClient' = toClient \o r BY DEF RunTypes, WireTypes, Send
<1>2. /\ Len(toClient) \in Nat /\ Len(r) \in Nat /\ DOMAIN toClient = 1..Len(toClient) /\ DOMAIN r = 1..Len(r)
      /\ DOMAIN toClient' = 1..(Len(toClient) + Len(r))
      /\ \A i \in DOMAIN toClient : toClient'[i] = toClient[i]
      /\ \A i \in (Len(toClient) + 1)..(Len(toClient) + Len(r)) : toClient'[i] = r[i - Len(toClient)]
  BY <1>1, ConcatHolds
<1>3. ASSUME NEW x, NEW i \in DOMAIN toClient', toClient'[i] = x PROVE Hears(x) \/ \E j \in DOMAIN r : r[j] = x
  <2>1. CASE i <= Len(toClient) BY <1>2, <1>3, <2>1 DEF Hears
  <2>2. CASE i > Len(toClient)
    <3>1. i \in (Len(toClient) + 1)..(Len(toClient) + Len(r)) /\ i - Len(toClient) \in DOMAIN r BY <1>2, <2>2
    <3> QED BY <1>2, <1>3, <3>1
  <2> QED BY <1>2, <2>1, <2>2
<1> QED BY <1>3 DEF Hears

LEMMA SendOne ==
  ASSUME RunTypes, NEW m \in Message, Send(<<m>>)
  PROVE  \A x : Hears(x)' => Hears(x) \/ x = m
<1>1. <<m>> \in Seq(Message) /\ DOMAIN <<m>> = {1} /\ <<m>>[1] = m BY OneHolds
<1> QED BY <1>1, SendEffect

LEMMA ReceiveEffect ==
  ASSUME RunTypes, Received
  PROVE  /\ Head(toClient) \in Message /\ Hears(Head(toClient)) /\ \A x : Hears(x)' => Hears(x)
<1>1. toClient \in Seq(Message) /\ toClient # <<>> /\ toClient' = Tail(toClient) BY DEF RunTypes, WireTypes, Received
<1> QED BY <1>1, TailHolds DEF Hears

\* What a client puts on the connection, and when.
LEMMA ClientWires ==
  ASSUME RunTypes, ClientStep \/ PressAbort \/ PressDetach \/ PressChar
  PROVE  /\ UNCHANGED <<kind, daemonVars>>
         /\ Once /\ (BeginTurn => ~Claims) => Once'
         /\ \A op : Asks(op)' => \/ Asks(op)
                                 \/ BeginTurn /\ op = (IF Attach THEN "turn.attach" ELSE "turn.start")
                                 \/ op = "conv.select" /\ Select
                                 \/ op = "turn.detach" /\ detach'
                                 \/ op \notin Claim \cup {"conv.select", "turn.detach"}
         /\ \A m : Hears(m)' => Hears(m)
<1> DEFINE May(op) == \/ BeginTurn /\ op = (IF Attach THEN "turn.attach" ELSE "turn.start")
                      \/ op = "conv.select" /\ Select
                      \/ op = "turn.detach" /\ detach'
                      \/ op \notin Claim \cup {"conv.select", "turn.detach"}
           Goal == /\ UNCHANGED <<kind, daemonVars>>
                   /\ Once /\ (BeginTurn => ~Claims) => Once'
                   /\ \A op : Asks(op)' => Asks(op) \/ May(op)
                   /\ \A m : Hears(m)' => Hears(m)
<1>0. toDaemon \in Seq(Ops) BY DEF RunTypes, WireTypes
<1>1. ASSUME UNCHANGED <<kind, daemonVars>>, toDaemon' = toDaemon, toClient' = toClient \/ Received PROVE Goal
  <2>1. \A m : Hears(m)' => Hears(m) BY <1>1, ReceiveEffect DEF Hears
  <2>2. (Once => Once') /\ \A op : Asks(op)' => Asks(op) BY <1>1 DEF Once, Asks
  <2> QED BY <1>1, <2>1, <2>2
<1>2. ASSUME UNCHANGED <<kind, daemonVars>>, NEW op \in Ops, Ask(op), May(op), op \in Claim => BeginTurn,
             toClient' = toClient \/ Received
      PROVE  Goal
  <2>1. \A m : Hears(m)' => Hears(m) BY <1>2, ReceiveEffect DEF Hears
  <2>2. (Once /\ (op \in Claim => ~Claims) => Once') /\ \A x : Asks(x)' => Asks(x) \/ x = op
    BY <1>2, AskEffect
  <2> QED BY <1>2, <2>1, <2>2
<1> HIDE DEF May
<1>3. /\ \A op \in CallOps : op \in Ops /\ May(op) /\ op \notin Claim
      /\ "turn.abort" \in Ops /\ May("turn.abort") /\ "turn.abort" \notin Claim
      /\ "commands.list" \in Ops /\ May("commands.list") /\ "commands.list" \notin Claim
      /\ "turn.detach" \in Ops /\ (detach' => May("turn.detach")) /\ "turn.detach" \notin Claim
      /\ "conv.select" \in Ops /\ (Select => May("conv.select")) /\ "conv.select" \notin Claim
      /\ "status.get" \in CallOps /\ "turn.abort conversation" \in CallOps
      /\ "turn.start" \in Ops /\ "turn.attach" \in Ops
      /\ BeginTurn => May(IF Attach THEN "turn.attach" ELSE "turn.start")
  BY DEF Ops, CallOps, Claim, May
<1> HIDE DEF Goal
<1>4. ASSUME UNCHANGED <<kind, daemonVars, toClient>>, NEW op \in Ops, NEW then, Issue(op, then), May(op),
             op \in Claim => BeginTurn
      PROVE  Goal
  BY <1>1, <1>2, <1>4 DEF Issue
<1>5. ASSUME \/ Connect \/ CallAnswered \/ Refused \/ TurnEnded \/ TurnControlled \/ ListRead \/ Finally \/ Commit
           \/ ReceiveEnd \/ ReceiveClose \/ ReceiveRes \/ PressChar
      PROVE Goal
  <2>1. UNCHANGED <<kind, daemonVars, toDaemon>> /\ (toClient' = toClient \/ Received)
    <3>1. CASE Connect \/ CallAnswered \/ Refused \/ TurnEnded \/ TurnControlled
      BY <3>1 DEF Connect, CallAnswered, Refused, TurnEnded, TurnControlled, Controlled
    <3>2. CASE ListRead \/ Finally \/ Commit \/ PressChar BY <3>2 DEF ListRead, Finally, Commit, PressChar
    <3>3. CASE ReceiveEnd \/ ReceiveClose \/ ReceiveRes BY <3>3 DEF ReceiveEnd, ReceiveClose, ReceiveRes
    <3> QED BY <1>5, <3>1, <3>2, <3>3
  <2> QED BY <1>1, <2>1
<1>6. ASSUME CallNext PROVE Goal
  <2>1. calls \in Seq(CallOps) /\ calls # <<>> BY <1>6 DEF CallNext, RunTypes, PlaceTypes
  <2>2. Head(calls) \in CallOps BY <2>1, TailHolds
  <2>3. Head(calls) \in Ops /\ May(Head(calls)) /\ Head(calls) \notin Claim BY <1>3, <2>2
  <2>4. UNCHANGED <<kind, daemonVars, toClient>> /\ Issue(Head(calls), "commandWait") BY <1>6 DEF CallNext
  <2> QED BY <1>4, <2>3, <2>4
<1>7. ASSUME BeginTurn PROVE Goal
  <2>1. UNCHANGED <<kind, daemonVars, toClient>> /\ Issue(IF Attach THEN "turn.attach" ELSE "turn.start", "ack")
    BY <1>7 DEF BeginTurn
  <2> QED BY <1>3, <1>4, <1>7, <2>1
<1>8. ASSUME Select PROVE Goal
  <2>1. UNCHANGED <<kind, daemonVars, toClient>> /\ (toDaemon' = toDaemon \/ Ask("conv.select")) BY <1>8 DEF Select
  <2> QED BY <1>1, <1>2, <1>3, <1>8, <2>1
<1>9. ASSUME Selected PROVE Goal
  <2>1. UNCHANGED <<kind, daemonVars, toClient>> /\ (toDaemon' = toDaemon \/ Issue("status.get", "status"))
    BY <1>9 DEF Selected
  <2> QED BY <1>1, <1>3, <1>4, <2>1
<1>10. ASSUME StatusRead PROVE Goal
  <2>1. UNCHANGED <<kind, daemonVars, toClient>> /\ (toDaemon' = toDaemon \/ Issue("commands.list", "list"))
    BY <1>10 DEF StatusRead
  <2> QED BY <1>1, <1>3, <1>4, <2>1
<1>11. ASSUME PressAbort PROVE Goal
  <2>1. /\ UNCHANGED <<kind, daemonVars, toClient>>
        /\ (toDaemon' = toDaemon \/ Ask("turn.abort") \/ Ask("turn.abort conversation"))
    BY <1>11 DEF PressAbort, Aborts
  <2> QED BY <1>1, <1>2, <1>3, <2>1
<1>12. ASSUME PressDetach PROVE Goal
  <2>1. UNCHANGED <<kind, daemonVars, toClient>> /\ detach' = TRUE /\ (toDaemon' = toDaemon \/ Ask("turn.detach"))
    BY <1>12 DEF PressDetach
  <2> QED BY <1>1, <1>2, <1>3, <2>1
<1>13. ASSUME ReceiveEvt PROVE Goal
  <2>1. UNCHANGED <<kind, daemonVars>> /\ detach' = detach /\ Received
        /\ \/ toDaemon' = toDaemon \/ Ask("turn.abort") \/ Ask("turn.abort conversation")
           \/ detach /\ Ask("turn.detach")
    BY <1>13 DEF ReceiveEvt, Aborts, MayDetach
  <2> QED BY <1>1, <1>2, <1>3, <2>1
<1>14. ASSUME Acknowledged PROVE Goal
  <2> DEFINE abort == IF aborted /\ ~abortSent THEN <<"turn.abort">> ELSE <<>>
             away == IF MayDetach THEN <<"turn.detach">> ELSE <<>>
  <2>1. UNCHANGED <<kind, daemonVars, toClient, detach>> /\ toDaemon' = IF alive THEN toDaemon \o abort \o away ELSE toDaemon
    BY <1>14 DEF Acknowledged
  <2>2. /\ abort \in Seq(Ops) /\ \A i \in DOMAIN abort : abort[i] = "turn.abort"
        /\ away \in Seq(Ops) /\ \A i \in DOMAIN away : away[i] = "turn.detach" /\ detach
    <3>1. /\ <<"turn.abort">> \in Seq(Ops) /\ DOMAIN <<"turn.abort">> = {1} /\ <<"turn.abort">>[1] = "turn.abort"
          /\ <<"turn.detach">> \in Seq(Ops) /\ DOMAIN <<"turn.detach">> = {1} /\ <<"turn.detach">>[1] = "turn.detach"
      BY <1>3, OneHolds
    <3>2. <<>> \in Seq(Ops) /\ DOMAIN <<>> = {} BY EmptySeq
    <3> QED BY <3>1, <3>2 DEF MayDetach
  <2> HIDE DEF abort, away
  <2> DEFINE two == toDaemon \o abort
  <2>3. /\ two \in Seq(Ops) /\ DOMAIN toDaemon \subseteq DOMAIN two
        /\ \A i \in DOMAIN toDaemon : two[i] = toDaemon[i]
        /\ \A i \in DOMAIN two : i \in DOMAIN toDaemon \/ two[i] = "turn.abort"
    <3>1. /\ two \in Seq(Ops) /\ Len(toDaemon) \in Nat /\ Len(abort) \in Nat
          /\ DOMAIN toDaemon = 1..Len(toDaemon) /\ DOMAIN abort = 1..Len(abort)
          /\ DOMAIN two = 1..(Len(toDaemon) + Len(abort))
          /\ \A i \in DOMAIN toDaemon : two[i] = toDaemon[i]
          /\ \A i \in (Len(toDaemon) + 1)..(Len(toDaemon) + Len(abort)) : two[i] = abort[i - Len(toDaemon)]
      BY <1>0, <2>2, ConcatHolds
    <3> HIDE DEF two
    <3>2. \A i \in DOMAIN two : i \notin DOMAIN toDaemon =>
              i \in (Len(toDaemon) + 1)..(Len(toDaemon) + Len(abort)) /\ i - Len(toDaemon) \in DOMAIN abort
      BY <3>1
    <3>3. DOMAIN toDaemon \subseteq DOMAIN two BY <3>1
    <3> QED BY <2>2, <3>1, <3>2, <3>3
  <2> HIDE DEF two
  <2> DEFINE all == two \o away
  <2>4. /\ DOMAIN two \subseteq DOMAIN all
        /\ \A i \in DOMAIN two : all[i] = two[i]
        /\ \A i \in DOMAIN all : i \in DOMAIN two \/ (all[i] = "turn.detach" /\ detach)
    <3>1. /\ Len(two) \in Nat /\ Len(away) \in Nat
          /\ DOMAIN two = 1..Len(two) /\ DOMAIN away = 1..Len(away)
          /\ DOMAIN all = 1..(Len(two) + Len(away))
          /\ \A i \in DOMAIN two : all[i] = two[i]
          /\ \A i \in (Len(two) + 1)..(Len(two) + Len(away)) : all[i] = away[i - Len(two)]
      BY <2>2, <2>3, ConcatHolds
    <3> HIDE DEF all
    <3>2. \A i \in DOMAIN all : i \notin DOMAIN two =>
              i \in (Len(two) + 1)..(Len(two) + Len(away)) /\ i - Len(two) \in DOMAIN away
      BY <3>1
    <3>3. DOMAIN two \subseteq DOMAIN all BY <3>1
    <3> QED BY <2>2, <3>1, <3>2, <3>3
  <2>5. toDaemon' = all \/ toDaemon' = toDaemon BY <2>1 DEF all, two
  <2> HIDE DEF all
  <2>6. \A i \in DOMAIN all : (i \in DOMAIN toDaemon /\ all[i] = toDaemon[i]) \/ all[i] = "turn.abort"
                              \/ (all[i] = "turn.detach" /\ detach)
    BY <2>3, <2>4
  <2>7. CASE toDaemon' = all
    <3>1. \A op : Asks(op)' => Asks(op) \/ op = "turn.abort" \/ (op = "turn.detach" /\ detach) BY <2>6, <2>7 DEF Asks
    <3>2. Once => Once' BY <1>3, <2>6, <2>7 DEF Once
    <3>3. \A m : Hears(m)' => Hears(m) BY <2>1 DEF Hears
    <3>4. detach => May("turn.detach") BY <1>3, <2>1
    <3>5. \A op : Asks(op)' => Asks(op) \/ May(op)
      <4>1. May("turn.abort") BY <1>3
      <4> QED BY <3>1, <3>4, <4>1
    <3>6. UNCHANGED <<kind, daemonVars>> BY <2>1
    <3> QED BY <3>2, <3>3, <3>5, <3>6 DEF Goal
  <2>8. CASE toDaemon' = toDaemon BY <1>1, <2>1, <2>8
  <2> QED BY <2>5, <2>7, <2>8
<1> QED
  BY <1>5, <1>6, <1>7, <1>8, <1>9, <1>10, <1>11, <1>12, <1>13, <1>14 DEF ClientStep, Goal, May

\* What the daemon's side puts on the connection, and when a turn becomes this connection's.
DaemonMoves == DaemonStep \/ DaemonEvent \/ DaemonEvicts \/ DaemonEnds \/ DaemonGone

LEMMA DaemonWires ==
  ASSUME RunTypes, DaemonMoves
  PROVE  /\ UNCHANGED clientVars
         /\ Once => Once'
         /\ \A op : Asks(op)' => Asks(op)
         /\ owned' => owned \/ (Once => Claims /\ ~Claims')
         /\ Hears(Res("turn.detach", TRUE))' => Hears(Res("turn.detach", TRUE)) \/ (owned /\ ~owned')
         /\ \A ok \in BOOLEAN : Hears(Res("conv.select", ok))' =>
                Hears(Res("conv.select", ok)) \/ (Asks("conv.select") /\ (ok => selected' = conv))
         /\ selected' = selected \/ (selected' = conv /\ Asks("conv.select"))
<1> DEFINE Same == UNCHANGED clientVars
           Down == (Once => Once') /\ \A op : Asks(op)' => Asks(op)
           Gains == owned' => owned \/ (Once => Claims /\ ~Claims')
           Odd(m) == \/ m = Res("turn.detach", TRUE) /\ ~(owned /\ ~owned')
                     \/ \E ok \in BOOLEAN : m = Res("conv.select", ok) /\ ~(Asks("conv.select") /\ (ok => selected' = conv))
           Up == \A m : Odd(m) /\ Hears(m)' => Hears(m)
           Picks == selected' = selected \/ (selected' = conv /\ Asks("conv.select"))
           Goal == Same /\ Down /\ Gains /\ Up /\ Picks
<1>0. toDaemon \in Seq(Ops) /\ toClient \in Seq(Message) /\ Len(toClient) \in Nat
  BY LenProperties DEF RunTypes, WireTypes
<1>1. toDaemon' = toDaemon => Down BY DEF Once, Asks
<1>2. ASSUME NEW op, Request(op) PROVE Down /\ Asks(op) /\ (Once /\ op \in Claim => Claims /\ ~Claims')
  BY <1>2, RequestEffect DEF Claims
<1>3. toDaemon' = <<>> => Down
  <2>1. DOMAIN <<>> = {} BY EmptySeq
  <2> QED BY <2>1 DEF Once, Asks
<1>4. toClient' = toClient => Up BY DEF Hears
<1>5. ASSUME NEW r \in Seq(Message), Send(r), \A i \in DOMAIN r : ~Odd(r[i]) PROVE Up
  BY <1>5, SendEffect
<1>6. ASSUME NEW m \in Message, Send(<<m>>), ~Odd(m) PROVE Up
  BY <1>6, SendOne
<1>7. (owned' => owned) => Gains OBVIOUS
<1>8. selected' = selected => Picks OBVIOUS
<1>9. \A m : m.t # "res" \/ (m.op # "turn.detach" /\ m.op # "conv.select") => ~Odd(m) BY DEF Res
<1> HIDE DEF Odd, Up, Down, Gains, Picks
<1>10. ASSUME DaemonStart PROVE Goal
  <2>1. Request("turn.start") /\ Same /\ toClient' = toClient /\ selected' = selected BY <1>10 DEF DaemonStart
  <2>2. "turn.start" \in Claim BY DEF Claim
  <2>3. Gains BY <1>2, <2>1, <2>2 DEF Gains
  <2> QED BY <1>2, <1>4, <1>8, <2>1, <2>3
<1>11. ASSUME DaemonOpened PROVE Goal
  <2> DEFINE res(ok) == Res("turn.start", ok)
  <2>1. Same /\ toDaemon' = toDaemon /\ owned' = owned /\ selected' = selected
        /\ (Send(<<res(TRUE)>>) \/ Send(<<Evt(1), res(TRUE)>>) \/ Send(<<res(FALSE)>>))
    BY <1>11 DEF DaemonOpened
  <2>2. \A ok \in BOOLEAN : res(ok) \in Message /\ ~Odd(res(ok))
    <3>1. "turn.start" \in Ops BY DEF Ops
    <3>2. \A ok \in BOOLEAN : res(ok).op = "turn.start" BY DEF Res
    <3> QED BY <1>9, <3>1, <3>2, Messages
  <2>3. Evt(1) \in Message /\ ~Odd(Evt(1))
    <3>1. Evt(1) \in Message /\ Evt(1).t = "evt" BY Messages
    <3> QED BY <1>9, <3>1
  <2> HIDE DEF res
  <2>4. LET r == <<Evt(1), res(TRUE)>> IN r \in Seq(Message) /\ \A i \in DOMAIN r : ~Odd(r[i])
    <3> DEFINE r == <<Evt(1), res(TRUE)>>
    <3>1. Evt(1) \in Message /\ res(TRUE) \in Message /\ ~Odd(Evt(1)) /\ ~Odd(res(TRUE)) BY <2>2, <2>3
    <3>2. r \in Seq(Message) /\ DOMAIN r = {1, 2} /\ r[1] = Evt(1) /\ r[2] = res(TRUE) BY <3>1, TwoHold
    <3> HIDE DEF r
    <3>3. r \in Seq(Message) /\ \A i \in DOMAIN r : ~Odd(r[i]) BY <3>1, <3>2
    <3> QED BY <3>3 DEF r
  <2>5. Up BY <1>5, <1>6, <2>1, <2>2, <2>4
  <2> QED BY <1>1, <1>7, <1>8, <2>1, <2>5
<1>12. ASSUME DaemonAbort PROVE Goal
  <2>1. Same /\ owned' = owned /\ selected' = selected BY <1>12 DEF DaemonAbort
  <2>2. PICK op \in {"turn.abort", "turn.abort conversation"} : Request(op) /\ Send(<<Res(op, Stoppable)>>)
    BY <1>12 DEF DaemonAbort
  <2>3. op \in Ops /\ Stoppable \in BOOLEAN BY DEF Ops, CallOps, Stoppable
  <2>4. Res(op, Stoppable) \in Message BY <2>3, Messages
  <2>5. Res(op, Stoppable).op = op BY DEF Res
  <2>6. ~Odd(Res(op, Stoppable)) BY <1>9, <2>2, <2>5
  <2> QED BY <1>2, <1>6, <1>7, <1>8, <2>1, <2>2, <2>4, <2>6
<1>13. ASSUME DaemonDetach PROVE Goal
  <2> DEFINE may == turn = "running" /\ owned
  <2>1. /\ Same /\ selected' = selected /\ Request("turn.detach") /\ owned' = (owned /\ ~may)
        /\ Send(<<Res("turn.detach", may)>>)
    BY <1>13 DEF DaemonDetach
  <2>2. may \in BOOLEAN /\ "turn.detach" \in Ops BY DEF Ops
  <2>3. may => owned /\ ~owned' BY <2>1
  <2>4. owned' => owned BY <2>1
  <2> HIDE DEF may
  <2>5. Res("turn.detach", may) \in Message BY <2>2, Messages
  <2>6. ~Odd(Res("turn.detach", may))
    <3>1. Res("turn.detach", may).op = "turn.detach" /\ Res("turn.detach", may).ok = may
          /\ \A ok : Res("conv.select", ok).op = "conv.select" /\ Res("turn.detach", TRUE).ok = TRUE
      BY DEF Res
    <3> QED BY <2>2, <2>3, <3>1 DEF Odd
  <2> QED BY <1>2, <1>6, <1>7, <1>8, <2>1, <2>4, <2>5, <2>6
<1>14. ASSUME DaemonAttach PROVE Goal
  <2>1. Same /\ selected' = selected /\ Request("turn.attach")
        /\ (Send(<<Res("turn.attach", FALSE)>>) \/ toClient' = toClient)
    BY <1>14 DEF DaemonAttach
  <2>2. "turn.attach" \in Claim /\ "turn.attach" \in Ops BY DEF Claim, Ops
  <2>3. Gains BY <1>2, <2>1, <2>2 DEF Gains
  <2>4. Res("turn.attach", FALSE) \in Message BY <2>2, Messages
  <2>5. Res("turn.attach", FALSE).op = "turn.attach" BY DEF Res
  <2>6. Up BY <1>4, <1>6, <1>9, <2>1, <2>4, <2>5
  <2> QED BY <1>2, <1>8, <2>1, <2>3, <2>6
<1>15. ASSUME DaemonReplayed PROVE Goal
  <2> DEFINE events == [i \in 1..(next - oldest) |-> Evt(oldest + i - 1)]
             over == IF turn = "ended" THEN <<End(IF stop THEN "aborted" ELSE "stop", "none")>> ELSE <<>>
             answer == <<Res("turn.attach", TRUE)>>
  <2>1. Same /\ toDaemon' = toDaemon /\ owned' = owned /\ selected' = selected /\ Send(events \o over \o answer)
    BY <1>15 DEF DaemonReplayed
  <2>2. events \in Seq(Message) /\ \A i \in DOMAIN events : events[i].t = "evt"
    <3>1. next \in Nat /\ oldest \in Nat BY DEF RunTypes, DaemonTypes
    <3>2. \A i \in 1..(next - oldest) : Evt(oldest + i - 1) \in Message /\ Evt(oldest + i - 1).t = "evt"
      <4>1. \A i \in 1..(next - oldest) : oldest + i - 1 \in Nat BY <3>1
      <4> QED BY <4>1, Messages
    <3> HIDE DEF events
    <3>3. CASE next >= oldest
      <4>1. next - oldest \in Nat BY <3>1, <3>3
      <4>2. events \in [1..(next - oldest) -> Message] /\ \A i \in DOMAIN events : events[i].t = "evt"
        BY <3>2 DEF events
      <4> QED BY <4>1, <4>2, RangeIsASeq
    <3>4. CASE next < oldest
      <4>1. 1..(next - oldest) = 1..0 BY <3>1, <3>4
      <4>2. events \in [1..0 -> Message] /\ \A i \in DOMAIN events : events[i].t = "evt"
        BY <3>2, <4>1 DEF events
      <4> QED BY <4>2, RangeIsASeq
    <3> QED BY <3>1, <3>3, <3>4
  <2>3. over \in Seq(Message) /\ \A i \in DOMAIN over : over[i].t = "end"
    <3>1. \A s \in Statuses : End(s, "none") \in Message /\ End(s, "none").t = "end" BY Messages DEF End
    <3>2. "aborted" \in Statuses /\ "stop" \in Statuses BY DEF Statuses
    <3>3. LET m == End(IF stop THEN "aborted" ELSE "stop", "none")
          IN  <<m>> \in Seq(Message) /\ DOMAIN <<m>> = {1} /\ <<m>>[1].t = "end"
      BY <3>1, <3>2
    <3>4. <<>> \in Seq(Message) /\ DOMAIN <<>> = {} BY EmptySeq
    <3> QED BY <3>3, <3>4
  <2>4. answer \in Seq(Message) /\ \A i \in DOMAIN answer : answer[i].op = "turn.attach"
    <3>1. "turn.attach" \in Ops BY DEF Ops
    <3>2. Res("turn.attach", TRUE) \in Message /\ Res("turn.attach", TRUE).op = "turn.attach" BY <3>1, Messages DEF Res
    <3> HIDE DEF Res
    <3>3. answer \in Seq(Message) /\ DOMAIN answer = {1} /\ answer[1] = Res("turn.attach", TRUE) BY <3>2, OneHolds
    <3> QED BY <3>2, <3>3
  <2>5. /\ \A i \in DOMAIN events : ~Odd(events[i])
        /\ \A i \in DOMAIN over : ~Odd(over[i])
        /\ \A i \in DOMAIN answer : ~Odd(answer[i])
    BY <1>9, <2>2, <2>3, <2>4
  <2> HIDE DEF events, over, answer
  <2>6. ASSUME NEW s \in Seq(Message), NEW r \in Seq(Message), \A i \in DOMAIN s : ~Odd(s[i]), \A i \in DOMAIN r : ~Odd(r[i])
        PROVE  s \o r \in Seq(Message) /\ \A i \in DOMAIN (s \o r) : ~Odd((s \o r)[i])
    <3>1. /\ s \o r \in Seq(Message) /\ Len(s) \in Nat /\ Len(r) \in Nat
          /\ DOMAIN s = 1..Len(s) /\ DOMAIN r = 1..Len(r)
          /\ DOMAIN (s \o r) = 1..(Len(s) + Len(r))
          /\ \A i \in DOMAIN s : (s \o r)[i] = s[i]
          /\ \A i \in (Len(s) + 1)..(Len(s) + Len(r)) : (s \o r)[i] = r[i - Len(s)]
      BY ConcatHolds
    <3>2. \A i \in DOMAIN (s \o r) : i \in DOMAIN s \/ (i \in (Len(s) + 1)..(Len(s) + Len(r)) /\ i - Len(s) \in DOMAIN r)
      BY <3>1
    <3> QED BY <2>6, <3>1, <3>2
  <2>7. events \o over \in Seq(Message) /\ \A i \in DOMAIN (events \o over) : ~Odd((events \o over)[i])
    BY <2>2, <2>3, <2>5, <2>6
  <2> DEFINE both == events \o over
  <2> HIDE DEF both
  <2>8. both \o answer \in Seq(Message) /\ \A i \in DOMAIN (both \o answer) : ~Odd((both \o answer)[i])
    <3>1. both \in Seq(Message) /\ \A i \in DOMAIN both : ~Odd(both[i]) BY <2>7 DEF both
    <3> QED BY <2>4, <2>5, <2>6, <3>1
  <2>9. Send(both \o answer) BY <2>1 DEF both
  <2>10. Up BY <1>5, <2>8, <2>9
  <2> QED BY <1>1, <1>7, <1>8, <2>1, <2>10
<1>16. ASSUME DaemonAnswers PROVE Goal
  <2>1. Same /\ owned' = owned BY <1>16 DEF DaemonAnswers
  <2>2. PICK op \in CallOps \cup {"commands.list", "conv.select"}, ok \in BOOLEAN :
            /\ Request(op) /\ Send(<<Res(op, ok)>>)
            /\ selected' = IF op = "conv.select" /\ ok THEN conv ELSE selected
    BY <1>16 DEF DaemonAnswers, CallOps
  <2>3. Down /\ Asks(op) BY <1>2, <2>2
  <2>4. Res(op, ok) \in Message
    <3>1. op \in Ops BY DEF Ops
    <3> QED BY <3>1, Messages
  <2>5. ~Odd(Res(op, ok))
    <3>1. /\ Res(op, ok).op = op /\ Res(op, ok).ok = ok /\ Res("turn.detach", TRUE).op = "turn.detach"
          /\ \A b : Res("conv.select", b).op = "conv.select" /\ Res("conv.select", b).ok = b
      BY DEF Res
    <3>2. op # "turn.detach" BY DEF CallOps
    <3>3. ASSUME NEW b \in BOOLEAN, Res(op, ok) = Res("conv.select", b)
          PROVE  Asks("conv.select") /\ (b => selected' = conv)
      BY <2>2, <2>3, <3>1, <3>3
    <3> QED BY <3>1, <3>2, <3>3 DEF Odd
  <2>6. Picks BY <2>2, <2>3 DEF Picks
  <2> QED BY <1>6, <1>7, <2>1, <2>2, <2>3, <2>4, <2>5, <2>6
<1>17. ASSUME DaemonEvent PROVE Goal
  <2>1. Same /\ toDaemon' = toDaemon /\ owned' = owned /\ selected' = selected
        /\ (Send(<<Evt(next)>>) \/ toClient' = toClient)
    BY <1>17 DEF DaemonEvent
  <2>2. Evt(next) \in Message /\ Evt(next).t = "evt" BY Messages DEF RunTypes, DaemonTypes
  <2>3. Up BY <1>4, <1>6, <1>9, <2>1, <2>2
  <2> QED BY <1>1, <1>7, <1>8, <2>1, <2>3
<1>18. ASSUME DaemonEvicts PROVE Goal
  <2>1. Same /\ toDaemon' = toDaemon /\ owned' = owned /\ selected' = selected /\ toClient' = toClient
    BY <1>18 DEF DaemonEvicts
  <2> QED BY <1>1, <1>4, <1>7, <1>8, <2>1
<1>19. ASSUME DaemonEnds PROVE Goal
  <2> DEFINE buffer(status) == IF Edit /\ status = "stop" THEN "draft" ELSE "none"
  <2>1. Same /\ toDaemon' = toDaemon /\ ~owned' /\ selected' = selected BY <1>19 DEF DaemonEnds
  <2>2. PICK status \in Statuses : Send(<<End(status, buffer(status))>>) \/ toClient' = toClient
    BY <1>19 DEF DaemonEnds, Statuses
  <2>3. buffer(status) \in {"none", "draft"} OBVIOUS
  <2> HIDE DEF buffer
  <2>4. End(status, buffer(status)) \in Message /\ End(status, buffer(status)).t = "end" BY <2>3, Messages DEF End
  <2>5. Up BY <1>4, <1>6, <1>9, <2>2, <2>4
  <2> QED BY <1>1, <1>7, <1>8, <2>1, <2>5
<1>20. ASSUME DaemonGone PROVE Goal
  <2>1. Same /\ toDaemon' = <<>> /\ owned' = owned /\ selected' = selected /\ Send(<<[t |-> "close"]>>)
    BY <1>20 DEF DaemonGone
  <2>2. [t |-> "close"] \in Message /\ [t |-> "close"].t = "close" BY Messages
  <2>3. Up BY <1>6, <1>9, <2>1, <2>2
  <2> QED BY <1>3, <1>7, <1>8, <2>1, <2>3
<1> HIDE DEF Same
<1>21. Goal
  BY <1>10, <1>11, <1>12, <1>13, <1>14, <1>15, <1>16, <1>17, <1>18, <1>19, <1>20 DEF DaemonMoves, DaemonStep
<1> USE DEF Same, Down, Gains, Picks
<1>22. Same /\ Down /\ Gains /\ Picks BY <1>21
<1>23. Hears(Res("turn.detach", TRUE))' => Hears(Res("turn.detach", TRUE)) \/ (owned /\ ~owned')
  BY <1>21 DEF Up, Odd
<1>24. ASSUME NEW ok \in BOOLEAN, Hears(Res("conv.select", ok))', ~Hears(Res("conv.select", ok))
       PROVE  Asks("conv.select") /\ (ok => selected' = conv)
  BY <1>21, <1>24 DEF Up, Odd
<1> QED BY <1>22, <1>23, <1>24

-----------------------------------------------------------------------------
(* One turn, and what was let go of.                                        *)

LEMMA InitInductive == RunInit => Inductive
<1> SUFFICES ASSUME RunInit PROVE Inductive OBVIOUS
<1>1. DOMAIN <<>> = {} BY EmptySeq
<1>2. toDaemon = <<>> /\ toClient = <<>> BY DEF RunInit
<1>3. (\A op : ~Asks(op)) /\ (\A m : ~Hears(m)) /\ ~Claims /\ Once BY <1>1, <1>2 DEF Asks, Hears, Claims, Once
<1>4. OneTurn /\ LetGo BY <1>3 DEF RunInit, OneTurn, LetGo, None
<1>5. Streamed
  <2>1. Silent(toClient) /\ \A k : Stream(toClient, k, FALSE, next) BY <1>1, <1>2 DEF Silent, Stream
  <2>2. seen = 1..0
    <3>1. 1..0 = {} OBVIOUS
    <3> QED BY <3>1 DEF RunInit
  <2>3. owned = FALSE BY DEF RunInit
  <2>4. \E k \in {0} \cup seen : seen = 1..k /\ Stream(toClient, k, owned, next) BY <2>1, <2>2, <2>3
  <2>5. Attach => turn # "opening" BY DEF RunInit
  <2> QED BY <1>3, <2>1, <2>4, <2>5 DEF RunInit, Streamed, Attach, Turns, Commands
<1>6. Followed BY <1>3 DEF RunInit, Followed, None
<1>7. Unused BY DEF RunInit, Unused, NoResult, Done
<1> QED BY <1>4, <1>5, <1>6, <1>7 DEF Inductive

\* Where the coroutine goes, what it keeps, and what it takes the answers for.
LEMMA ClientPlaces ==
  ASSUME RunTypes, ClientStep \/ PressAbort \/ PressDetach \/ PressChar
  PROVE  /\ pc' \in Early => pc \in Early /\ typing' = typing
         /\ pc' \in Early => keep' = keep \/ (keep' = FALSE /\ kind = "newText")
         /\ pc' \in {"begin", "ack", "follow"} => pc \in {"begin", "ack", "follow"} \/ kind \in Turns
         /\ BeginTurn => pc = "begin"
         /\ detach' => detach \/ typing
         /\ keep' /\ kind \in Turns => keep \/ control.is = "detached"
         /\ control'.is = "detached" => control.is = "detached" \/ Hears(Res("turn.detach", TRUE))
<1> DEFINE Where == /\ pc' \in Early => pc \in Early /\ typing' = typing
                    /\ pc' \in {"begin", "ack", "follow"} => pc \in {"begin", "ack", "follow"} \/ kind \in Turns
           Keeps == /\ pc' \in Early => keep' = keep \/ (keep' = FALSE /\ kind = "newText")
                    /\ keep' /\ kind \in Turns => keep \/ control.is = "detached"
           Keys == (BeginTurn => pc = "begin") /\ (detach' => detach \/ typing)
           Tells == control'.is = "detached" => control.is = "detached" \/ Hears(Res("turn.detach", TRUE))
           Goal == Where /\ Keeps /\ Keys /\ Tells
<1>0. BeginTurn => pc = "begin" BY DEF BeginTurn
<1>1. UNCHANGED <<pc, typing>> \/ (pc' \notin Early /\ pc' # "ack" /\ pc' # "follow") => Where BY DEF Early
<1>2. keep' = keep => Keeps OBVIOUS
<1>3. detach' = detach => Keys BY <1>0
<1>4. control' = control => Tells OBVIOUS
<1> HIDE DEF Where, Keeps, Keys, Tells
<1>5. ASSUME Connect PROVE Goal
  <2>1. keep' = keep /\ detach' = detach /\ control' = control /\ typing' = typing /\ pc = "connect" BY <1>5 DEF Connect
  <2>2. pc' = "begin" => Script(kind) = <<>> /\ kind' = kind BY <1>5 DEF Connect, Fail
  <2>3. pc' \in {"begin", "command", "finally"} BY <1>5 DEF Connect, Fail
  <2>4. Script(kind) = <<>> => kind \in Turns
    <3>1. kind \in Turns \cup Commands BY DEF RunTypes, PlaceTypes
    <3>2. \A a, b : <<a>> # <<>> /\ <<a, b>> # <<>> OBVIOUS
    <3>3. kind \in Commands => Script(kind) # <<>> BY <3>2 DEF Commands, Script
    <3> QED BY <3>1, <3>3
  <2>5. Where BY <2>1, <2>2, <2>3, <2>4 DEF Where, Early
  <2> QED BY <1>2, <1>3, <1>4, <2>1, <2>5
<1>6. ASSUME CallNext PROVE Goal
  <2>1. keep' = keep /\ detach' = detach /\ control' = control /\ typing' = typing /\ pc = "command"
        /\ pc' \in {"commandWait", "finally"}
    BY <1>6 DEF CallNext, Issue, Fail
  <2>2. Where BY <2>1 DEF Where, Early
  <2> QED BY <1>2, <1>3, <1>4, <2>1, <2>2
<1>7. ASSUME CallAnswered PROVE Goal
  <2>1. detach' = detach /\ control' = control /\ typing' = typing /\ pc = "commandWait"
        /\ pc' \in {"command", "begin", "chosen", "finally"}
    BY <1>7 DEF CallAnswered, Fail
  <2>2. pc' = "begin" => kind = "newText" BY <1>7 DEF CallAnswered, Fail
  <2>3. \/ keep' = keep
        \/ kind = "abort" /\ pc' = "chosen"
        \/ kind # "abort" /\ keep' = FALSE /\ (pc' = "chosen" \/ kind = "newText")
    BY <1>7 DEF CallAnswered
  <2>4. Where BY <2>1, <2>2 DEF Where, Early, Turns
  <2>5. Keeps BY <2>3 DEF Keeps, Early, Turns
  <2> QED BY <1>3, <1>4, <2>1, <2>4, <2>5
<1>8. ASSUME BeginTurn PROVE Goal
  <2>1. keep' = keep /\ detach' = detach /\ control' = control /\ pc = "begin" /\ pc' \in {"ack", "finally"}
    BY <1>8 DEF BeginTurn, Issue, Fail
  <2>2. Where BY <2>1 DEF Where, Early
  <2> QED BY <1>2, <1>3, <1>4, <2>1, <2>2
<1>9. ASSUME Acknowledged PROVE Goal
  <2>1. keep' = keep /\ detach' = detach /\ control' = control /\ pc = "ack" /\ pc' = "follow"
    BY <1>9 DEF Acknowledged
  <2>2. Where BY <2>1 DEF Where, Early
  <2> QED BY <1>2, <1>3, <1>4, <2>1, <2>2
<1>10. ASSUME Refused \/ TurnEnded \/ Select \/ Selected \/ StatusRead \/ ListRead \/ Finally \/ Commit PROVE Goal
  <2>1. keep' = keep /\ detach' = detach /\ control' = control
    <3>1. CASE Refused \/ TurnEnded \/ Select \/ Selected BY <3>1 DEF Refused, TurnEnded, Select, Selected
    <3>2. CASE StatusRead \/ ListRead \/ Finally \/ Commit BY <3>2 DEF StatusRead, ListRead, Finally, Commit
    <3> QED BY <1>10, <3>1, <3>2
  <2>2. pc' \in {"chosen"} \cup Late
    <3>1. CASE Refused \/ TurnEnded \/ Select \/ Selected
      BY <3>1 DEF Refused, TurnEnded, Select, Selected, Fail, Issue, Late
    <3>2. CASE StatusRead \/ ListRead \/ Commit BY <3>2 DEF StatusRead, ListRead, Commit, Fail, Issue, Late
    <3>3. CASE Finally
      <4>1. pc' = "commit" \/ pc' = "done" BY <3>3 DEF Finally
      <4> QED BY <4>1 DEF Late
    <3> QED BY <1>10, <3>1, <3>2, <3>3
  <2>3. pc' \notin Early /\ pc' # "ack" /\ pc' # "follow" BY <2>2 DEF Late, Early
  <2> QED BY <1>1, <1>2, <1>3, <1>4, <2>1, <2>3
<1>11. ASSUME TurnControlled PROVE Goal
  <2>1. detach' = detach /\ control' = control /\ pc' = "chosen" /\ keep' = (keep \/ control.is = "detached")
    BY <1>11 DEF TurnControlled, Controlled
  <2>2. Where BY <2>1 DEF Where, Early
  <2>3. keep \in BOOLEAN BY DEF RunTypes, FlagTypes
  <2>4. Keeps BY <2>1, <2>3 DEF Keeps, Early
  <2> QED BY <1>3, <1>4, <2>1, <2>2, <2>4
<1>12. ASSUME ReceiveEvt \/ PressAbort PROVE Goal
  <2>1. UNCHANGED <<pc, typing, keep, detach>> BY <1>12 DEF ReceiveEvt, PressAbort
  <2>2. control' = control \/ control' = [is |-> "aborted"] BY <1>12 DEF ReceiveEvt, PressAbort, Aborts
  <2>3. Tells
    <3>1. control'.is = control.is \/ control'.is = "aborted" BY <2>2
    <3> QED BY <3>1 DEF Tells
  <2> QED BY <1>1, <1>2, <1>3, <2>1, <2>3
<1>13. ASSUME PressDetach PROVE Goal
  <2>1. UNCHANGED <<pc, typing, keep, control>> /\ typing BY <1>13 DEF PressDetach, Idle
  <2>2. Keys BY <1>0, <2>1 DEF Keys
  <2> QED BY <1>1, <1>2, <1>4, <2>1, <2>2
<1>14. ASSUME PressChar \/ ReceiveEnd \/ ReceiveClose PROVE Goal
  <2>1. UNCHANGED <<pc, typing, keep, detach, control>> BY <1>14 DEF PressChar, ReceiveEnd, ReceiveClose
  <2> QED BY <1>1, <1>2, <1>3, <1>4, <2>1
<1>15. ASSUME ReceiveRes PROVE Goal
  <2>1. UNCHANGED <<pc, typing, keep, detach>> BY <1>15 DEF ReceiveRes
  <2> DEFINE m == Head(toClient)
  <2>2. m \in Message /\ Hears(m) /\ m.t = "res" BY <1>15, ReceiveEffect DEF ReceiveRes
  <2>3. m = Res(m.op, m.ok) /\ m.ok \in BOOLEAN BY <2>2, Messages
  <2>4. control' = control \/ (m.op = "turn.detach" /\ DetachAnswered(m.ok)) BY <1>15 DEF ReceiveRes
  <2> HIDE DEF m
  <2>5. control'.is = "detached" /\ control.is # "detached" => m.ok
    <3>1. ASSUME ~m.ok, DetachAnswered(m.ok) PROVE control' = control \/ control' = [is |-> "replay stopped"]
      BY <3>1 DEF DetachAnswered
    <3>2. ASSUME ~m.ok, control.is # "detached" PROVE control'.is # "detached"
      <4>1. control' = control \/ control' = [is |-> "replay stopped"] BY <2>4, <3>1, <3>2
      <4>2. [is |-> "replay stopped"].is = "replay stopped" BY NoneTyped
      <4>3. CASE control' = control BY <3>2, <4>3
      <4>4. CASE control' = [is |-> "replay stopped"]
        <5>1. control'.is = "replay stopped" BY <4>2, <4>4
        <5> QED BY <5>1
      <4> QED BY <4>1, <4>3, <4>4
    <3> QED BY <3>2
  <2>6. Tells
    <3>1. ASSUME control'.is = "detached", control.is # "detached" PROVE Hears(Res("turn.detach", TRUE))
      <4>1. m.ok = TRUE /\ m.op = "turn.detach" BY <2>3, <2>4, <2>5, <3>1
      <4> QED BY <2>2, <2>3, <4>1
    <3> QED BY <3>1 DEF Tells
  <2> QED BY <1>1, <1>2, <1>3, <2>1, <2>6
<1>16. Goal
  BY <1>5, <1>6, <1>7, <1>8, <1>9, <1>10, <1>11, <1>12, <1>13, <1>14, <1>15 DEF ClientStep
<1> QED BY <1>16 DEF Where, Keeps, Keys, Tells

\* What putting the terminal back, and a commit, leave.
LEMMA Leaving ==
  ASSUME RunTypes, Finally \/ Commit
  PROVE  /\ result'.conversation = result.conversation
         /\ Finally => result'.committed = result.committed
         /\ keep => result'.file = result.file
         /\ pc' = "done" /\ captured > 0 => \E i \in DOMAIN result'.buffer : result'.buffer[i] = "typed"
<1>0. result \in Results /\ captured \in Nat /\ agentText \in {"none", "draft"} BY DEF RunTypes, ShellTypes
<1>1. agentText' \in {"none", "draft"} BY <1>0 DEF Finally, Commit
<1> DEFINE Leaves(r) == /\ result'.conversation = r.conversation /\ result'.committed = r.committed
                        /\ keep => result'.file = r.file
                        /\ captured > 0 => \E i \in DOMAIN result'.buffer : result'.buffer[i] = "typed"
<1>2. ASSUME NEW r \in Results, result' = Leave(r) PROVE Leaves(r) BY <1>1, <1>2, LeaveFields
<1>3. CASE Finally
  <2>1. PICK late \in {FALSE, typing} :
            LET quit == Withdrawn(late)
                used == exit = "ok" /\ ~quit /\ proposal # "none"
            IN  /\ pc' = IF used /\ kind = "commit" THEN "commit" ELSE "done"
                /\ result' = IF used /\ kind = "commit" THEN result
                             ELSE Leave(IF quit THEN [result EXCEPT !.status = "aborted"] ELSE result)
    BY <1>3 DEF Finally
  <2> DEFINE withdrawn == [result EXCEPT !.status = "aborted"]
  <2>2. "aborted" \in Labels BY DEF Labels
  <2>3. withdrawn \in Results /\ withdrawn.conversation = result.conversation /\ withdrawn.file = result.file
        /\ withdrawn.committed = result.committed
    BY <1>0, <2>2, ResultFields
  <2>4. (result' = result /\ pc' = "commit") \/ result' = Leave(withdrawn) \/ result' = Leave(result) BY <2>1
  <2> HIDE DEF withdrawn
  <2>5. CASE result' = Leave(withdrawn)
    <3>1. Leaves(withdrawn) BY <1>2, <2>3, <2>5
    <3> QED BY <1>3, <2>3, <3>1
  <2>6. CASE result' = Leave(result)
    <3>1. Leaves(result) BY <1>0, <1>2, <2>6
    <3> QED BY <1>3, <3>1
  <2> QED BY <1>3, <2>4, <2>5, <2>6
<1>4. CASE Commit
  <2> DEFINE made == [result EXCEPT !.committed = TRUE]
             refused == [result EXCEPT !.status = "error"]
  <2>1. "error" \in Labels BY DEF Labels
  <2>2. /\ made \in Results /\ made.conversation = result.conversation /\ made.file = result.file
        /\ refused \in Results /\ refused.conversation = result.conversation /\ refused.file = result.file
    BY <1>0, <2>1, ResultFields
  <2>3. result' = Leave(made) \/ result' = Leave(refused) BY <1>4 DEF Commit
  <2>4. pc = "commit" /\ ~Finally BY <1>4 DEF Commit, Finally
  <2> HIDE DEF made, refused
  <2>5. CASE result' = Leave(made)
    <3>1. Leaves(made) BY <1>2, <2>2, <2>5
    <3> QED BY <2>2, <2>4, <3>1
  <2>6. CASE result' = Leave(refused)
    <3>1. Leaves(refused) BY <1>2, <2>2, <2>6
    <3> QED BY <2>2, <2>4, <3>1
  <2> QED BY <2>3, <2>5, <2>6
<1> QED BY <1>3, <1>4

\* A turn is asked for once, and not again when it was let go of.
LEMMA TurnKept ==
  ASSUME RunTypes, OneTurn, LetGo, [RunNext]_runVars
  PROVE  OneTurn' /\ LetGo'
<1> USE DEF OneTurn, LetGo
<1>1. CASE UNCHANGED runVars
  BY <1>1 DEF runVars, clientVars, daemonVars, Once, Asks, Hears, Claims
<1>2. CASE ClientStep \/ PressAbort \/ PressDetach \/ PressChar
  <2>1. pc = "begin" => pc \in Early BY DEF Early
  <2>2. BeginTurn => pc = "begin" /\ ~Claims BY <1>2, <2>1, ClientPlaces
  <2>3. owned' = owned /\ kind' = kind /\ (Once => Once') /\ \A m : Hears(m)' => Hears(m)
    BY <1>2, <2>2, ClientWires DEF daemonVars
  <2>4. Claims' => Claims \/ pc = "begin"
    <3>1. ASSUME NEW op \in Claim, Asks(op)' PROVE Claims \/ pc = "begin"
      <4>1. op \notin {"conv.select", "turn.detach"} BY DEF Claim
      <4> QED BY <1>2, <2>2, <3>1, <4>1, ClientWires DEF Claims
    <3> QED BY <3>1 DEF Claims
  <2>5. Asks("turn.detach")' => Asks("turn.detach") \/ detach' BY <1>2, ClientWires DEF Claim
  <2>6. pc' \in Early => pc \in Early /\ ~typing' /\ ~detach' /\ control'.is # "detached" BY <1>2, ClientPlaces
  <2>7. pc' \in Early => ~keep' BY <1>2, <2>6, ClientPlaces
  <2>8. ASSUME pc' \in Early PROVE ~Claims'
    <3>1. ASSUME pc = "begin" PROVE ~BeginTurn
      <4>1. BeginTurn => pc' \in {"ack", "finally"} BY DEF BeginTurn, Issue, Fail
      <4> QED BY <2>8, <4>1 DEF Early
    <3>2. ~BeginTurn BY <2>2, <3>1
    <3>3. \A op \in Claim : Asks(op)' => Asks(op)
      <4>1. \A op \in Claim : op \notin {"conv.select", "turn.detach"} BY DEF Claim
      <4> QED BY <1>2, <3>2, <4>1, ClientWires
    <3> QED BY <2>6, <2>8, <3>3 DEF Claims
  <2>9. pc' \in {"begin", "ack", "follow"} => kind' \in Turns BY <1>2, <2>3, ClientPlaces
  <2>10. owned' => ~Claims' BY <2>1, <2>3, <2>4
  <2>11. OneTurn' BY <2>3, <2>5, <2>6, <2>7, <2>8, <2>9, <2>10
  <2>12. ASSUME control'.is = "detached" \/ (keep' /\ kind' \in Turns) \/ Hears(Res("turn.detach", TRUE))'
         PROVE  ~owned' /\ ~Claims'
    <3>1. control.is = "detached" \/ (keep /\ kind \in Turns) \/ Hears(Res("turn.detach", TRUE))
      BY <1>2, <2>3, <2>12, ClientPlaces
    <3>2. pc # "begin" BY <2>1, <3>1
    <3> QED BY <2>3, <2>4, <3>1, <3>2
  <2> QED BY <2>11, <2>12
<1>3. CASE DaemonMoves
  <2>1. UNCHANGED <<kind, pc, control, typing, detach, keep>> BY <1>3, DaemonWires DEF clientVars
  <2>2. Once' /\ (Claims' => Claims) /\ (Asks("turn.detach")' => Asks("turn.detach")) BY <1>3, DaemonWires DEF Claims
  <2>3. owned' => owned \/ (Claims /\ ~Claims') BY <1>3, DaemonWires
  <2>4. Hears(Res("turn.detach", TRUE))' => Hears(Res("turn.detach", TRUE)) \/ (owned /\ ~owned')
    BY <1>3, DaemonWires
  <2> QED BY <2>1, <2>2, <2>3, <2>4
<1> QED BY <1>1, <1>2, <1>3 DEF RunNext, DaemonMoves

-----------------------------------------------------------------------------
(* The conversation of the shell.                                           *)

\* A conversation is chosen before the daemon is told, and the answer is the daemon's.
LEMMA SelectKept ==
  ASSUME RunTypes, Followed, Unused, [RunNext]_runVars
  PROVE  Followed'
<1> DEFINE Heard == \E ok \in BOOLEAN : Hears(Res("conv.select", ok))
           Sure == selected = conv
           Race == pc \in {"commandWait", "select", "status", "list"} => race.is \in {"none", "res"}
           Place == /\ pc = "select" => result.conversation = conv /\ (race.is = "res" /\ race.ok => Sure)
                    /\ pc \in {"status", "list"} => Settled
                    /\ pc \in {"finally", "commit", "done"} /\ exit = "ok" /\ conv # "" => Settled
<1>0. /\ Asks("conv.select") \/ Heard => pc \in Late
      /\ Hears(Res("conv.select", TRUE)) => Sure
      /\ Race /\ Place
  BY DEF Followed
<1>01. result \in Results /\ conv \in Convs BY DEF RunTypes, ShellTypes
<1>02. None.is = "none" BY DEF None
<1>1. CASE UNCHANGED runVars
  BY <1>0, <1>1 DEF runVars, clientVars, daemonVars, Followed, Asks, Hears, Settled
<1>2. CASE DaemonMoves
  <2>1. UNCHANGED <<pc, conv, race, result, exit>> BY <1>2, DaemonWires DEF clientVars
  <2>2. Asks("conv.select")' \/ Heard' => Asks("conv.select") \/ Heard BY <1>2, DaemonWires
  <2>3. selected' = selected \/ selected' = conv BY <1>2, DaemonWires
  <2>4. Hears(Res("conv.select", TRUE))' => Hears(Res("conv.select", TRUE)) \/ selected' = conv BY <1>2, DaemonWires
  <2> QED BY <1>0, <2>1, <2>2, <2>3, <2>4 DEF Followed, Settled
<1>3. CASE ClientStep \/ PressAbort \/ PressDetach \/ PressChar
  <2>1. selected' = selected /\ \A m : Hears(m)' => Hears(m) BY <1>3, ClientWires DEF daemonVars
  <2>2. Asks("conv.select")' => Asks("conv.select") \/ Select BY <1>3, ClientWires DEF Claim
  <2> DEFINE Moved == /\ pc \in Late => pc' \in Late /\ conv' = conv
                      /\ Select /\ Asks("conv.select")' => pc' \in Late \/ Asks("conv.select")
  <2> SUFFICES Moved /\ Race' /\ Place'
    <3>1. Asks("conv.select")' \/ Heard' => pc' \in Late BY <1>0, <2>1, <2>2
    <3>2. Hears(Res("conv.select", TRUE))' => Sure' BY <1>0, <2>1
    <3> QED BY <3>1, <3>2 DEF Followed
  <2>3. UNCHANGED <<pc, conv>> \/ pc \notin Late => (pc \in Late => pc' \in Late /\ conv' = conv) OBVIOUS
  <2>4. ASSUME Connect \/ CallNext \/ BeginTurn PROVE Moved /\ Race' /\ Place'
    <3>1. pc \notin Late /\ ~Select BY <2>4 DEF Connect, CallNext, BeginTurn, Select, Late
    <3>2. \/ pc' \in {"begin", "command", "ack"}
          \/ pc' = "commandWait" /\ race' = None
          \/ pc' = "finally" /\ exit' = "error"
      BY <2>4 DEF Connect, CallNext, BeginTurn, Issue, Fail
    <3> QED BY <1>02, <3>1, <3>2
  <2>5. ASSUME CallAnswered PROVE Moved /\ Race' /\ Place'
    <3>1. pc \notin Late /\ ~Select BY <2>5 DEF CallAnswered, Select, Late
    <3>2. pc' \in {"begin", "command", "chosen"} \/ (pc' = "finally" /\ exit' = "error")
      BY <2>5 DEF CallAnswered, Fail
    <3> QED BY <3>1, <3>2
  <2>6. ASSUME Acknowledged \/ Refused \/ TurnEnded \/ TurnControlled PROVE Moved /\ Race' /\ Place'
    <3>1. pc \notin Late /\ ~Select
      BY <2>6 DEF Acknowledged, Refused, TurnEnded, TurnControlled, InTurn, Select, Late
    <3>2. pc' \in {"follow", "chosen"} \/ (pc' = "finally" /\ exit' = "error")
      BY <2>6 DEF Acknowledged, Refused, TurnEnded, TurnControlled, Controlled, Fail
    <3> QED BY <3>1, <3>2
  <2>7. ASSUME Select PROVE Moved /\ Race' /\ Place'
    <3>1. pc \notin Late /\ conv' = conv BY <2>7 DEF Select, Late
    <3>2. \/ pc' = "finally" /\ conv = ""
          \/ pc' = "finally" /\ exit' = "error"
          \/ pc' = "select" /\ race' = None /\ result' = [result EXCEPT !.conversation = conv]
      BY <2>7 DEF Select, Fail
    <3>3. pc' \in Late BY <3>2 DEF Late
    <3>4. result' = [result EXCEPT !.conversation = conv] => result'.conversation = conv
      BY <1>01, ResultFields
    <3> QED BY <1>02, <3>1, <3>2, <3>3, <3>4
  <2>8. ASSUME Selected PROVE Moved /\ Race' /\ Place'
    <3>1. pc = "select" /\ race # None /\ conv' = conv /\ ~Select BY <2>8 DEF Selected, Select
    <3>2. race.is = "res"
      <4>1. race.is \in {"none", "res"} BY <1>0, <3>1
      <4>2. race \in [is : {"none", "ended", "control"}] \cup [is : {"res"}, ok : BOOLEAN] BY DEF RunTypes, RaceTypes
      <4>3. \A r \in [is : {"none", "ended", "control"}] : r.is = "none" => r = [is |-> "none"] OBVIOUS
      <4>4. \A r \in [is : {"res"}, ok : BOOLEAN] : r.is = "res" OBVIOUS
      <4> QED BY <3>1, <4>1, <4>2, <4>3, <4>4 DEF None
    <3>3. \/ pc' = "finally" /\ exit' = "error"
          \/ race.ok /\ pc' \in {"finally", "status"} /\ race' = None /\ result' = result
      BY <2>8 DEF Selected, Fail, Issue
    <3>4. race.ok => Settled BY <1>0, <3>1, <3>2 DEF Settled
    <3>5. pc' \in Late BY <3>3 DEF Late
    <3> QED BY <1>02, <2>1, <3>1, <3>3, <3>4, <3>5 DEF Settled
  <2>9. ASSUME StatusRead PROVE Moved /\ Race' /\ Place'
    <3>1. pc = "status" /\ conv' = conv /\ ~Select BY <2>9 DEF StatusRead, Select
    <3>2. \/ pc' = "finally" /\ exit' = "error"
          \/ pc' = "list" /\ race' = None /\ result' = result
      BY <2>9 DEF StatusRead, Fail, Issue
    <3>3. pc' \in Late BY <3>2 DEF Late
    <3> QED BY <1>0, <1>02, <2>1, <3>1, <3>2, <3>3 DEF Settled
  <2>10. ASSUME ListRead PROVE Moved /\ Race' /\ Place'
    <3>1. pc = "list" /\ conv' = conv /\ ~Select /\ pc' = "finally" BY <2>10 DEF ListRead, Select
    <3>2. result'.conversation = result.conversation
      <4>1. (IF exit \in {"aborted", "error"} THEN exit ELSE "label") \in Labels BY DEF Labels
      <4> QED BY <1>01, <2>10, <4>1, ResultFields DEF ListRead
    <3>3. pc' \in Late BY <3>1 DEF Late
    <3> QED BY <1>0, <2>1, <3>1, <3>2, <3>3 DEF Settled
  <2>11. ASSUME Finally \/ Commit PROVE Moved /\ Race' /\ Place'
    <3>1. pc \in {"finally", "commit"} /\ conv' = conv /\ ~Select /\ pc' \in {"commit", "done"}
      BY <2>11 DEF Finally, Commit, Select
    <3>2. exit' = "ok" => exit = "ok"
      <4>1. CASE Finally BY <4>1 DEF Finally
      <4>2. CASE Commit BY <4>2 DEF Commit, Unused
      <4> QED BY <2>11, <4>1, <4>2
    <3>3. result'.conversation = result.conversation BY <2>11, Leaving
    <3>4. pc' \in Late BY <3>1 DEF Late
    <3> QED BY <1>0, <2>1, <3>1, <3>2, <3>3, <3>4 DEF Settled
  <2>12. ASSUME PressAbort \/ PressDetach \/ PressChar \/ ReceiveEvt \/ ReceiveEnd \/ ReceiveClose \/ ReceiveRes
         PROVE  Moved /\ Race' /\ Place'
    <3>1. UNCHANGED <<pc, conv, exit, result>> /\ ~Select
      <4>1. CASE PressAbort \/ PressDetach \/ PressChar
        <5>1. pc # "chosen" BY <4>1 DEF PressAbort, PressDetach, PressChar, Idle, Waiting
        <5> QED BY <4>1, <5>1 DEF PressAbort, PressDetach, PressChar, Select
      <4>2. CASE ReceiveEvt \/ ReceiveEnd \/ ReceiveClose \/ ReceiveRes
        <5>1. toClient' # toClient
          <6>1. Received BY <4>2 DEF ReceiveEvt, ReceiveEnd, ReceiveClose, ReceiveRes
          <6>2. toClient \in Seq(Message) /\ toClient # <<>> /\ toClient' = Tail(toClient)
            BY <6>1 DEF Received, RunTypes, WireTypes
          <6>3. DOMAIN toClient = 1..Len(toClient) /\ Len(toClient) \in Nat /\ Len(toClient) >= 1
                /\ DOMAIN toClient' = 1..(Len(toClient) - 1)
            BY <6>2, TailHolds
          <6>4. Len(toClient) \in DOMAIN toClient /\ Len(toClient) \notin DOMAIN toClient' BY <6>3
          <6> QED BY <6>4
        <5> QED BY <4>2, <5>1 DEF ReceiveEvt, ReceiveEnd, ReceiveClose, ReceiveRes, Select
      <4> QED BY <2>12, <4>1, <4>2
    <3>2. Moved BY <3>1
    <3>3. CASE race' = race BY <1>0, <2>1, <3>1, <3>2, <3>3 DEF Settled
    <3>4. CASE race' # race /\ pc \in {"select", "commandWait", "status", "list"}
      <4>1. race'.is = "res" /\ (race'.ok /\ pc = "select" => Hears(Res("conv.select", TRUE)))
        <5>1. ~InTurn /\ pc # "follow" /\ Waiting BY <3>4 DEF InTurn, Waiting
        <5>2. CASE PressAbort \/ PressDetach \/ PressChar \/ ReceiveEvt \/ ReceiveEnd
          BY <3>4, <5>1, <5>2 DEF PressAbort, PressDetach, PressChar, ReceiveEvt, ReceiveEnd, Settles
        <5>3. CASE ReceiveClose
          <6>1. race' = [is |-> "res", ok |-> FALSE] BY <3>4, <5>1, <5>3 DEF ReceiveClose, CloseSettles
          <6> QED BY <6>1
        <5>4. CASE ReceiveRes
          <6> DEFINE m == Head(toClient)
          <6>1. m \in Message /\ Hears(m) /\ m.t = "res" BY <5>4, ReceiveEffect DEF ReceiveRes
          <6>2. m = Res(m.op, m.ok) /\ m.ok \in BOOLEAN BY <6>1, Messages
          <6>3. m.op = Awaited /\ race' = [is |-> "res", ok |-> m.ok]
            BY <3>4, <5>1, <5>4 DEF ReceiveRes, DetachAnswered, Settles
          <6>4. pc = "select" => Awaited = "conv.select" BY DEF Awaited
          <6> HIDE DEF m
          <6>5. race'.is = "res" /\ race'.ok = m.ok BY <6>3
          <6>6. m.ok /\ pc = "select" => Hears(Res("conv.select", TRUE))
            <7>1. m.ok /\ pc = "select" => m = Res("conv.select", TRUE) BY <6>2, <6>3, <6>4
            <7> QED BY <6>1, <7>1
          <6> QED BY <6>5, <6>6
        <5> QED BY <2>12, <5>2, <5>3, <5>4
      <4> QED BY <1>0, <2>1, <3>1, <3>2, <3>4, <4>1 DEF Settled
    <3>5. CASE pc \notin {"select", "commandWait", "status", "list"}
      BY <1>0, <2>1, <3>1, <3>2, <3>5 DEF Settled
    <3> QED BY <3>3, <3>4, <3>5
  <2> QED
    BY <1>3, <2>4, <2>5, <2>6, <2>7, <2>8, <2>9, <2>10, <2>11, <2>12 DEF ClientStep
<1> QED BY <1>1, <1>2, <1>3 DEF RunNext, DaemonMoves

-----------------------------------------------------------------------------
(* What is used at the end.                                                 *)

\* Nothing is used before the end, and nothing is decided after it.
LEMMA UseKept ==
  ASSUME RunTypes, Unused, [RunNext]_runVars
  PROVE  Unused'
<1> DEFINE Fresh == agentText = "none" /\ ~result.committed /\ result.file = "daemon's"
           Made == kind = "commit" /\ exit = "ok" /\ ~aborted
           Left == /\ WithdrawnIsNotUsed
                   /\ keep => result.file = "daemon's"
                   /\ captured > 0 => \E i \in DOMAIN result.buffer : result.buffer[i] = "typed"
<1>0. (pc # "done" => Fresh) /\ (pc = "commit" => Made) /\ (Done => Left) BY DEF Unused
<1>01. result \in Results /\ conv \in Convs /\ exit \in {"ok", "error", "aborted"} BY DEF RunTypes, ShellTypes
<1>02. (pc' # "done" => Fresh') /\ (pc' = "commit" => Made') /\ (Done' => Left') => Unused' BY DEF Unused
<1> DEFINE Goal == (pc' # "done" => Fresh') /\ (pc' = "commit" => Made') /\ (Done' => Left')
<1>1. ASSUME UNCHANGED clientVars PROVE Goal
  BY <1>0, <1>1 DEF clientVars, Done, WithdrawnIsNotUsed, Edit, Attach
<1>2. ASSUME pc # "done", pc' # "done", pc' # "commit", agentText' = agentText,
             result'.committed = result.committed, result'.file = result.file
      PROVE  Goal
  BY <1>0, <1>2 DEF Done
<1> DEFINE Rest == result'.committed = result.committed /\ result'.file = result.file
<1>03. /\ \A s \in Labels : result' = [result EXCEPT !.status = s] => Rest
       /\ \A c \in Convs : result' = [result EXCEPT !.conversation = c] => Rest
       /\ result' = result => Rest
  <2>1. ASSUME NEW s \in Labels, result' = [result EXCEPT !.status = s] PROVE Rest
    BY <1>01, <2>1, ResultFields
  <2>2. ASSUME NEW c \in Convs, result' = [result EXCEPT !.conversation = c] PROVE Rest
    BY <1>01, <2>2, ResultFields
  <2> QED BY <2>1, <2>2
<1>04. "error" \in Labels /\ "running" \in Labels /\ "label" \in Labels /\ exit \in Labels \cup {"ok"}
  BY <1>01 DEF Labels
<1>05. ASSUME pc # "done", pc' # "done", pc' # "commit", agentText' = agentText, Rest PROVE Goal
  BY <1>2, <1>05
<1> HIDE DEF Fresh, Made, Left, Rest
<1>3. ASSUME Connect \/ CallNext \/ BeginTurn PROVE Goal
  <2>1. agentText' = agentText /\ pc # "done" /\ pc' # "done" /\ pc' # "commit"
    BY <1>3 DEF Connect, CallNext, BeginTurn, Issue, Fail
  <2>2. result' = result \/ result' = [result EXCEPT !.status = "error"]
    BY <1>3 DEF Connect, CallNext, BeginTurn, Issue, Fail
  <2> QED BY <1>03, <1>04, <1>05, <2>1, <2>2
<1>4. ASSUME CallAnswered \/ Acknowledged PROVE Goal
  <2>1. agentText' = agentText /\ pc # "done" /\ pc' # "done" /\ pc' # "commit"
    BY <1>4 DEF CallAnswered, Acknowledged, Fail
  <2>2. conv' \in Convs
    <3>1. conv' = conv \/ conv' = Chosen(kind) \/ conv' = "new" BY <1>4 DEF CallAnswered, Acknowledged
    <3>2. Chosen(kind) \in Convs BY <1>01 DEF Chosen, Convs
    <3> QED BY <1>01, <3>1, <3>2 DEF Convs
  <2>3. result' = result \/ result' = [result EXCEPT !.status = "error"] \/ result' = [result EXCEPT !.conversation = conv']
    BY <1>4 DEF CallAnswered, Acknowledged, Fail
  <2> QED BY <1>03, <1>04, <1>05, <2>1, <2>2, <2>3
<1>5. ASSUME Refused \/ TurnEnded \/ TurnControlled PROVE Goal
  <2>1. agentText' = agentText /\ pc # "done" /\ pc' # "done" /\ pc' # "commit"
    BY <1>5 DEF Refused, TurnEnded, TurnControlled, InTurn, Controlled, Fail
  <2>2. result' = result \/ result' = [result EXCEPT !.status = "error"] \/ result' = [result EXCEPT !.status = "running"]
    BY <1>5 DEF Refused, TurnEnded, TurnControlled, Controlled, Fail
  <2> QED BY <1>03, <1>04, <1>05, <2>1, <2>2
<1>6. ASSUME Select \/ Selected PROVE Goal
  <2>1. agentText' = agentText /\ pc # "done" /\ pc' # "done" /\ pc' # "commit"
    BY <1>6 DEF Select, Selected, Issue, Fail
  <2>2. result' = result \/ result' = [result EXCEPT !.status = "error"] \/ result' = [result EXCEPT !.conversation = conv]
    BY <1>6 DEF Select, Selected, Issue, Fail
  <2> QED BY <1>01, <1>03, <1>04, <1>05, <2>1, <2>2
<1>7. ASSUME StatusRead \/ ListRead PROVE Goal
  <2>1. agentText' = agentText /\ pc # "done" /\ pc' # "done" /\ pc' # "commit"
    BY <1>7 DEF StatusRead, ListRead, Issue, Fail
  <2> DEFINE said == IF exit \in {"aborted", "error"} THEN exit ELSE "label"
  <2>2. result' = result \/ result' = [result EXCEPT !.status = "error"] \/ result' = [result EXCEPT !.status = said]
    BY <1>7 DEF StatusRead, ListRead, Issue, Fail
  <2>3. said \in Labels BY DEF Labels
  <2> HIDE DEF said
  <2> QED BY <1>03, <1>04, <1>05, <2>1, <2>2, <2>3
<1>8. ASSUME PressAbort \/ PressDetach \/ PressChar PROVE Goal
  <2>1. agentText' = agentText /\ result' = result /\ pc' = pc /\ pc \notin {"done", "commit"}
    BY <1>8 DEF PressAbort, PressDetach, PressChar, Idle, Waiting
  <2> QED BY <1>2, <2>1
<1>9. ASSUME ReceiveEvt \/ ReceiveEnd \/ ReceiveClose \/ ReceiveRes PROVE Goal
  <2>1. UNCHANGED <<pc, agentText, result, kind, exit, aborted, keep, captured>>
    BY <1>9 DEF ReceiveEvt, ReceiveEnd, ReceiveClose, ReceiveRes
  <2> QED BY <1>0, <2>1 DEF Fresh, Made, Left, Done, WithdrawnIsNotUsed, Edit, Attach
<1>10. ASSUME Finally PROVE Goal
  <2>1. PICK late \in {FALSE, typing} :
            LET quit == Withdrawn(late)
                used == exit = "ok" /\ ~quit /\ proposal # "none"
            IN  /\ aborted' = (aborted \/ late)
                /\ exit' = IF quit THEN "aborted" ELSE exit
                /\ agentText' = IF used /\ kind # "commit" THEN "draft" ELSE agentText
                /\ pc' = IF used /\ kind = "commit" THEN "commit" ELSE "done"
    BY <1>10 DEF Finally
  <2>2. kind' = kind /\ keep' = keep /\ captured' = captured /\ pc = "finally" BY <1>10 DEF Finally
  <2>3. Fresh BY <1>0, <2>2
  <2>4. /\ result'.committed = result.committed /\ (keep => result'.file = result.file)
        /\ pc' = "done" /\ captured > 0 => \E i \in DOMAIN result'.buffer : result'.buffer[i] = "typed"
    BY <1>10, Leaving
  <2>5. CASE pc' = "commit"
    <3>1. kind = "commit" /\ exit = "ok" /\ ~Withdrawn(late) /\ exit' = exit /\ agentText' = agentText BY <2>1, <2>5
    <3>2. ~aborted' BY <2>1, <3>1 DEF Withdrawn, Edit
    <3>3. result' = result BY <1>10, <2>5 DEF Finally
    <3> QED BY <2>2, <2>3, <2>5, <3>1, <3>2, <3>3 DEF Fresh, Made, Done
  <2>6. CASE pc' = "done"
    <3>1. aborted' /\ (Edit \/ Attach) => exit' # "ok" /\ agentText' = "none"
      BY <2>1, <2>3 DEF Fresh, Withdrawn
    <3>2. WithdrawnIsNotUsed' BY <2>2, <2>3, <2>4, <3>1 DEF Fresh, WithdrawnIsNotUsed, Edit, Attach
    <3>3. Left' BY <2>2, <2>3, <2>4, <2>6, <3>2 DEF Fresh, Left
    <3> QED BY <2>6, <3>3
  <2> QED BY <2>1, <2>5, <2>6
<1>11. ASSUME Commit PROVE Goal
  <2>1. UNCHANGED <<kind, aborted, keep, captured>> /\ pc = "commit" /\ pc' = "done" BY <1>11 DEF Commit
  <2>2. Fresh /\ Made BY <1>0, <2>1
  <2>3. WithdrawnIsNotUsed' BY <2>1, <2>2 DEF Made, WithdrawnIsNotUsed
  <2>4. Left' BY <1>11, <2>1, <2>2, <2>3, Leaving DEF Left, Fresh
  <2> QED BY <2>1, <2>4
<1> HIDE DEF Goal
<1>12. Goal
  BY <1>1, <1>3, <1>4, <1>5, <1>6, <1>7, <1>8, <1>9, <1>10, <1>11, DaemonWires
  DEF RunNext, ClientStep, DaemonMoves, runVars
<1> QED BY <1>02, <1>12 DEF Goal

-----------------------------------------------------------------------------
(* What is shown.                                                           *)

\* Events that arrive are the next ones.
LEMMA StreamTail ==
  ASSUME NEW s \in Seq(Message), s # <<>>, NEW k \in Nat, NEW mine \in BOOLEAN, NEW last \in Nat, Stream(s, k, mine, last)
  PROVE  /\ Head(s).t # "evt" => Stream(Tail(s), k, mine, last)
         /\ Head(s).t = "evt" => Head(s).seq = k + 1 /\ Stream(Tail(s), k + 1, mine, last)
<1>1. /\ Len(s) \in Nat /\ Len(s) >= 1 /\ DOMAIN s = 1..Len(s) /\ 1 \in DOMAIN s /\ Head(s) = s[1]
      /\ DOMAIN Tail(s) = 1..(Len(s) - 1)
      /\ \A i \in DOMAIN Tail(s) : i + 1 \in DOMAIN s /\ Tail(s)[i] = s[i + 1]
  BY TailHolds
<1>2. \A i \in DOMAIN s : s[i] \in Message BY ElementOfSeq, <1>1
<1>3. /\ \A i \in DOMAIN s : s[i].t = "evt" =>
            s[i].seq > k /\ \A n \in (k + 1)..s[i].seq : \E j \in DOMAIN s : j <= i /\ s[j] = Evt(n)
      /\ \A i, j \in DOMAIN s : i < j /\ s[i].t = "evt" /\ s[j].t = "evt" => s[i].seq < s[j].seq
      /\ mine => /\ k < last
                 /\ \A i \in DOMAIN s : s[i].t = "evt" => s[i].seq < last
                 /\ \A n \in (k + 1)..(last - 1) : \E j \in DOMAIN s : s[j] = Evt(n)
  BY DEF Stream
<1>4. \A n \in Nat : Evt(n).t = "evt" /\ Evt(n).seq = n BY Messages
<1>5. \A i \in DOMAIN s : s[i].t = "evt" => s[i].seq \in Nat BY <1>2, Messages
<1> DEFINE r == Tail(s)
<1>6. \A j \in DOMAIN s : j # 1 => j - 1 \in DOMAIN r /\ r[j - 1] = s[j]
  <2>1. \A j \in DOMAIN s : j # 1 => j - 1 \in 1..(Len(s) - 1) /\ (j - 1) + 1 = j BY <1>1
  <2> QED BY <1>1, <2>1
<1> HIDE DEF r
<1>7. DOMAIN r \subseteq Int /\ \A i \in DOMAIN r : i + 1 \in DOMAIN s /\ r[i] = s[i + 1] BY <1>1 DEF r
<1>8. DOMAIN s \subseteq Int BY <1>1
<1>9. ASSUME NEW m \in Nat, m >= k, \A n \in Nat : n > m => s[1] # Evt(n),
             \A i \in DOMAIN r : r[i].t = "evt" => r[i].seq > m, mine => m < last
      PROVE  Stream(r, m, mine, last)
  <2>1. ASSUME NEW i \in DOMAIN r, r[i].t = "evt", NEW n \in (m + 1)..r[i].seq
        PROVE  \E j \in DOMAIN r : j <= i /\ r[j] = Evt(n)
    <3>1. i + 1 \in DOMAIN s /\ s[i + 1] = r[i] /\ r[i].seq \in Nat BY <1>5, <1>7, <2>1
    <3>2. n \in (k + 1)..s[i + 1].seq /\ n \in Nat /\ n > m BY <1>9, <2>1, <3>1
    <3>3. PICK j \in DOMAIN s : j <= i + 1 /\ s[j] = Evt(n) BY <1>3, <2>1, <3>1, <3>2
    <3>4. j # 1 BY <1>9, <3>2, <3>3
    <3>5. j - 1 \in DOMAIN r /\ r[j - 1] = Evt(n) BY <1>6, <3>3, <3>4
    <3>6. j - 1 <= i BY <1>7, <1>8, <3>3
    <3> QED BY <3>5, <3>6
  <2>2. ASSUME NEW i \in DOMAIN r, NEW j \in DOMAIN r, i < j, r[i].t = "evt", r[j].t = "evt"
        PROVE  r[i].seq < r[j].seq
    <3>1. i + 1 < j + 1 BY <1>7, <2>2
    <3> QED BY <1>3, <1>7, <2>2, <3>1
  <2>3. ASSUME mine
        PROVE  /\ m < last
               /\ \A i \in DOMAIN r : r[i].t = "evt" => r[i].seq < last
               /\ \A n \in (m + 1)..(last - 1) : \E j \in DOMAIN r : r[j] = Evt(n)
    <3>1. \A i \in DOMAIN r : r[i].t = "evt" => r[i].seq < last BY <1>3, <1>7, <2>3
    <3>2. ASSUME NEW n \in (m + 1)..(last - 1) PROVE \E j \in DOMAIN r : r[j] = Evt(n)
      <4>1. n \in (k + 1)..(last - 1) /\ n \in Nat /\ n > m BY <1>9
      <4>2. PICK j \in DOMAIN s : s[j] = Evt(n) BY <1>3, <2>3, <4>1
      <4>3. j # 1 BY <1>9, <4>1, <4>2
      <4> QED BY <1>6, <4>2, <4>3
    <3> QED BY <1>9, <2>3, <3>1, <3>2
  <2> QED BY <1>9, <2>1, <2>2, <2>3 DEF Stream
<1>10. ASSUME s[1].t # "evt" PROVE Stream(r, k, mine, last)
  <2>1. \A n \in Nat : s[1] # Evt(n) BY <1>4, <1>10
  <2>2. \A i \in DOMAIN r : r[i].t = "evt" => r[i].seq > k BY <1>3, <1>7
  <2> QED BY <1>3, <1>9, <2>1, <2>2
<1>11. ASSUME s[1].t = "evt" PROVE s[1].seq = k + 1 /\ Stream(r, k + 1, mine, last)
  <2>1. s[1].seq \in Nat /\ s[1].seq > k BY <1>1, <1>3, <1>5, <1>11
  <2>2. k + 1 \in (k + 1)..s[1].seq BY <2>1
  <2>3. PICK j \in DOMAIN s : j <= 1 /\ s[j] = Evt(k + 1) BY <1>1, <1>3, <1>11, <2>2
  <2>4. j = 1 BY <1>1, <2>3
  <2>5. s[1].seq = k + 1 /\ s[1] = Evt(k + 1) BY <1>4, <2>3, <2>4
  <2>6. \A n \in Nat : n > k + 1 => s[1] # Evt(n) BY <1>4, <2>5
  <2>7. ASSUME NEW i \in DOMAIN r, r[i].t = "evt" PROVE r[i].seq > k + 1
    <3>1. i + 1 \in DOMAIN s /\ s[i + 1] = r[i] /\ 1 < i + 1 BY <1>1, <1>7 DEF r
    <3>2. s[1].seq < s[i + 1].seq BY <1>1, <1>3, <1>11, <2>7, <3>1
    <3> QED BY <2>5, <3>1, <3>2
  <2>8. mine => k + 1 < last BY <1>1, <1>3, <1>11, <2>5
  <2> QED BY <1>9, <2>5, <2>6, <2>7, <2>8
<1> QED BY <1>1, <1>10, <1>11 DEF r

\* Messages that are no events change nothing, and neither does letting go.
LEMMA StreamMore ==
  ASSUME NEW s \in Seq(Message), NEW r \in Seq(Message), Silent(r),
         NEW k \in Nat, NEW mine \in BOOLEAN, NEW last \in Nat, Stream(s, k, mine, last)
  PROVE  Stream(s \o r, k, mine, last)
<1> DEFINE b == s \o r
<1>1. /\ Len(s) \in Nat /\ Len(r) \in Nat /\ DOMAIN s = 1..Len(s) /\ DOMAIN r = 1..Len(r)
      /\ DOMAIN b = 1..(Len(s) + Len(r))
      /\ \A i \in DOMAIN s : b[i] = s[i]
      /\ \A i \in (Len(s) + 1)..(Len(s) + Len(r)) : b[i] = r[i - Len(s)]
  BY ConcatHolds
<1> HIDE DEF b
<1>2. DOMAIN s \subseteq DOMAIN b BY <1>1
<1>3. ASSUME NEW i \in DOMAIN b, b[i].t = "evt" PROVE i \in DOMAIN s
  <2>1. i \in (Len(s) + 1)..(Len(s) + Len(r)) => b[i] = r[i - Len(s)] /\ i - Len(s) \in DOMAIN r BY <1>1
  <2> QED BY <1>1, <1>3, <2>1 DEF Silent
<1>4. ASSUME NEW i \in DOMAIN b, b[i].t = "evt", NEW n \in (k + 1)..b[i].seq
      PROVE  \E j \in DOMAIN b : j <= i /\ b[j] = Evt(n)
  <2>1. i \in DOMAIN s /\ b[i] = s[i] BY <1>1, <1>3, <1>4
  <2>2. PICK j \in DOMAIN s : j <= i /\ s[j] = Evt(n) BY <1>4, <2>1 DEF Stream
  <2> QED BY <1>1, <1>2, <2>2
<1>5. \A i \in DOMAIN b : b[i].t = "evt" => b[i].seq > k BY <1>1, <1>3 DEF Stream
<1>6. \A i, j \in DOMAIN b : i < j /\ b[i].t = "evt" /\ b[j].t = "evt" => b[i].seq < b[j].seq
  BY <1>1, <1>3 DEF Stream
<1>7. mine => k < last /\ \A i \in DOMAIN b : b[i].t = "evt" => b[i].seq < last BY <1>1, <1>3 DEF Stream
<1>8. ASSUME mine, NEW n \in (k + 1)..(last - 1) PROVE \E j \in DOMAIN b : b[j] = Evt(n)
  <2>1. PICK j \in DOMAIN s : s[j] = Evt(n) BY <1>8 DEF Stream
  <2> QED BY <1>1, <1>2, <2>1
<1>9. Stream(b, k, mine, last) BY <1>4, <1>5, <1>6, <1>7, <1>8 DEF Stream
<1> QED BY <1>9 DEF b

\* The turn's next event goes on.
LEMMA StreamNext ==
  ASSUME NEW s \in Seq(Message), NEW k \in Nat, NEW last \in Nat, Stream(s, k, TRUE, last)
  PROVE  Stream(s \o <<Evt(last)>>, k, TRUE, last + 1)
<1> DEFINE b == s \o <<Evt(last)>>
           z == Len(s) + 1
<1>0. Evt(last) \in Message /\ Evt(last).t = "evt" /\ Evt(last).seq = last BY Messages
<1>1. /\ Len(s) \in Nat /\ DOMAIN s = 1..Len(s) /\ DOMAIN b = 1..(Len(s) + 1) /\ z \in DOMAIN b
      /\ \A i \in DOMAIN s : b[i] = s[i]
      /\ b[z] = Evt(last)
  <2>1. <<Evt(last)>> \in Seq(Message) /\ Len(<<Evt(last)>>) = 1 /\ <<Evt(last)>>[1] = Evt(last) BY <1>0, OneHolds
  <2>2. Len(s) \in Nat BY LenProperties
  <2>3. z \in (Len(s) + 1)..(Len(s) + 1) /\ z - Len(s) = 1 BY <2>2
  <2> QED BY <2>1, <2>2, <2>3, ConcatHolds
<1>2. k < last BY DEF Stream
<1>3. DOMAIN s \subseteq DOMAIN b /\ \A i \in DOMAIN b : i \in DOMAIN s \/ i = z BY <1>1
<1>4. \A i \in DOMAIN s : i < z /\ i \in Int BY <1>1
<1>5. \A i \in DOMAIN s : s[i].t = "evt" => s[i].seq < last /\ s[i].seq > k BY DEF Stream
<1> HIDE DEF b, z
<1>6. ASSUME NEW i \in DOMAIN b, b[i].t = "evt", NEW n \in (k + 1)..b[i].seq
      PROVE  \E j \in DOMAIN b : j <= i /\ b[j] = Evt(n)
  <2>1. CASE i \in DOMAIN s
    <3>1. PICK j \in DOMAIN s : j <= i /\ s[j] = Evt(n) BY <1>1, <1>6, <2>1 DEF Stream
    <3> QED BY <1>1, <1>3, <3>1
  <2>2. CASE i = z
    <3>1. n \in (k + 1)..last BY <1>0, <1>1, <1>6, <2>2
    <3>2. CASE n = last BY <1>1, <2>2, <3>2 DEF z
    <3>3. CASE n # last
      <4>1. n \in (k + 1)..(last - 1) BY <3>1, <3>3
      <4>2. PICK j \in DOMAIN s : s[j] = Evt(n) BY <4>1 DEF Stream
      <4>3. j <= z /\ j \in DOMAIN b /\ b[j] = s[j] BY <1>1, <1>3, <1>4 DEF z
      <4> QED BY <2>2, <4>2, <4>3
    <3> QED BY <3>2, <3>3
  <2> QED BY <1>3, <2>1, <2>2
<1>7. ASSUME NEW i \in DOMAIN b, b[i].t = "evt" PROVE b[i].seq > k /\ b[i].seq < last + 1
  <2>1. CASE i = z BY <1>0, <1>1, <1>2, <2>1
  <2>2. CASE i \in DOMAIN s
    <3>1. b[i] = s[i] /\ s[i].seq < last /\ s[i].seq > k BY <1>1, <1>5, <1>7, <2>2
    <3>2. s[i].seq \in Nat
      <4>1. s[i] \in Message BY <2>2, <1>1, ElementOfSeq
      <4> QED BY <1>7, <3>1, <4>1, Messages
    <3> QED BY <3>1, <3>2
  <2> QED BY <1>3, <2>1, <2>2
<1>8. ASSUME NEW i \in DOMAIN b, NEW j \in DOMAIN b, i < j, b[i].t = "evt", b[j].t = "evt"
      PROVE  b[i].seq < b[j].seq
  <2>1. i \in DOMAIN s BY <1>1, <1>8 DEF z
  <2>2. CASE j = z BY <1>0, <1>1, <1>5, <1>8, <2>1, <2>2
  <2>3. CASE j \in DOMAIN s BY <1>1, <1>8, <2>1, <2>3 DEF Stream
  <2> QED BY <1>3, <2>2, <2>3
<1>9. ASSUME NEW n \in (k + 1)..((last + 1) - 1) PROVE \E j \in DOMAIN b : b[j] = Evt(n)
  <2>1. CASE n = last BY <1>1, <2>1
  <2>2. CASE n # last
    <3>1. n \in (k + 1)..(last - 1) BY <2>2
    <3>2. PICK j \in DOMAIN s : s[j] = Evt(n) BY <3>1 DEF Stream
    <3> QED BY <1>1, <1>3, <3>2
  <2> QED BY <2>1, <2>2
<1>10. k < last + 1 BY <1>2
<1>11. Stream(b, k, TRUE, last + 1) BY <1>6, <1>7, <1>8, <1>9, <1>10 DEF Stream
<1> QED BY <1>11 DEF b

LEMMA SilentMore ==
  ASSUME NEW s \in Seq(Message), NEW r \in Seq(Message), Silent(s), Silent(r)
  PROVE  Silent(s \o r)
<1> DEFINE b == s \o r
<1>1. /\ Len(s) \in Nat /\ Len(r) \in Nat /\ DOMAIN s = 1..Len(s) /\ DOMAIN r = 1..Len(r)
      /\ DOMAIN b = 1..(Len(s) + Len(r))
      /\ \A i \in DOMAIN s : b[i] = s[i]
      /\ \A i \in (Len(s) + 1)..(Len(s) + Len(r)) : b[i] = r[i - Len(s)]
  BY ConcatHolds
<1> HIDE DEF b
<1>2. \A i \in DOMAIN b : i \in DOMAIN s \/ (i \in (Len(s) + 1)..(Len(s) + Len(r)) /\ i - Len(s) \in DOMAIN r) BY <1>1
<1> QED BY <1>1, <1>2 DEF Silent, b

\* The newest of 1..k is k, and there are k of them.
LEMMA NewestIs ==
  ASSUME RunTypes, NEW k \in {0} \cup seen, seen = 1..k
  PROVE  k \in Nat /\ Newest = k /\ Cardinality(seen) = k
<1>1. k \in Nat BY DEF RunTypes, ShellTypes
<1>2. Cardinality(1..k) = k
  <2>1. Cardinality(1..k) = IF 1 > k THEN 0 ELSE k - 1 + 1 BY <1>1, FS_Interval
  <2> QED BY <1>1, <2>1
<1>3. CASE k = 0
  <2>1. seen = {} BY <1>3
  <2> QED BY <1>1, <1>2, <1>3, <2>1 DEF Newest
<1>4. CASE k # 0
  <2>1. k \in seen /\ \A m \in seen : m <= k BY <1>1, <1>4
  <2>2. \A n \in seen : (\A m \in seen : m <= n) => n = k BY <1>1, <2>1
  <2>3. (CHOOSE n \in seen : \A m \in seen : m <= n) = k BY <2>1, <2>2
  <2> QED BY <1>1, <1>2, <2>1, <2>3 DEF Newest
<1> QED BY <1>3, <1>4

\* Only an event that arrives changes what is shown.
LEMMA ClientShows ==
  ASSUME RunTypes, ClientStep \/ PressAbort \/ PressDetach \/ PressChar
  PROVE  \/ ReceiveEvt
         \/ /\ UNCHANGED <<seen, told>> /\ (finished => finished')
            /\ toClient' = toClient \/ (Received /\ Head(toClient).t # "evt")
<1>0. finished \in BOOLEAN BY DEF RunTypes, FlagTypes
<1> DEFINE Goal == /\ UNCHANGED <<seen, told>> /\ (finished => finished')
                   /\ toClient' = toClient \/ (Received /\ Head(toClient).t # "evt")
<1>1. CASE Connect \/ CallNext \/ CallAnswered \/ BeginTurn BY <1>1 DEF Connect, CallNext, CallAnswered, BeginTurn
<1>2. CASE Acknowledged \/ Refused \/ TurnEnded \/ TurnControlled
  BY <1>2 DEF Acknowledged, Refused, TurnEnded, TurnControlled, Controlled
<1>3. CASE Select \/ Selected \/ StatusRead \/ ListRead BY <1>3 DEF Select, Selected, StatusRead, ListRead
<1>4. CASE Finally \/ Commit BY <1>4 DEF Finally, Commit
<1>5. CASE PressAbort \/ PressDetach \/ PressChar BY <1>5 DEF PressAbort, PressDetach, PressChar
<1>6. CASE ReceiveRes \/ ReceiveEnd \/ ReceiveClose BY <1>6 DEF ReceiveRes, ReceiveEnd, ReceiveClose
<1>7. CASE ReceiveEvt BY <1>7
<1> QED BY <1>1, <1>2, <1>3, <1>4, <1>5, <1>6, <1>7 DEF ClientStep

\* What is shown is shown without a hole, or the user is told.
LEMMA ShownKept ==
  ASSUME RunTypes, OneTurn, Streamed, [RunNext]_runVars
  PROVE  Streamed'
<1> DEFINE Routes == /\ ~Attach => ~replay /\ ~Asks("turn.attach")
                     /\ Attach => turn # "opening" /\ ~Asks("turn.start")
           Opens == turn = "opening" => owned /\ next = 1
           Before == kind \in Turns \ {"attach"} /\ (pc \in Early \/ Claims)
           Waits == Before => turn = "none" /\ next = 1 /\ seen = {} /\ Silent(toClient)
           Command == kind \in Commands => ~owned /\ ~Claims /\ Silent(toClient)
           Good(k) == seen = 1..k /\ (~Attach /\ ~finished => Stream(toClient, k, owned, next))
           Whole == told \/ \E k \in {0} \cup seen : Good(k)
           Goal == Routes' /\ Opens' /\ Waits' /\ Command' /\ Whole'
<1>0. Routes /\ Opens /\ Waits /\ Command /\ Whole BY DEF Streamed
<1>01. Goal => Streamed' BY DEF Streamed
<1>02. /\ toClient \in Seq(Message) /\ next \in Nat /\ seen \subseteq Nat /\ 0 \in Nat
       /\ owned \in BOOLEAN /\ finished \in BOOLEAN /\ told \in BOOLEAN /\ kind \in Turns \cup Commands
  BY DEF RunTypes, WireTypes, DaemonTypes, ShellTypes, FlagTypes, PlaceTypes
<1>03. Turns \cap Commands = {} /\ (Attach => kind \in Turns) /\ (Attach <=> kind = "attach")
  BY DEF Turns, Commands, Attach
<1>04. \A k \in {0} \cup seen : k \in Nat BY <1>02
<1>05. Attach' <=> kind' = "attach" BY DEF Attach
<1>06. kind \in Commands => ~Attach BY DEF Commands, Attach
\* The client's steps.
<1>1. ASSUME ClientStep \/ PressAbort \/ PressDetach \/ PressChar PROVE Goal
  <2>1. UNCHANGED <<kind, turn, owned, next, replay>> BY <1>1, ClientWires DEF daemonVars
  <2>2. pc = "begin" => pc \in Early BY DEF Early
  <2>3. /\ pc' \in Early => pc \in Early
        /\ BeginTurn => pc = "begin"
        /\ \A op \in Claim : Asks(op)' => Asks(op) \/ (BeginTurn /\ op = (IF Attach THEN "turn.attach" ELSE "turn.start"))
    <3>1. \A op \in Claim : op # "conv.select" /\ op # "turn.detach" BY DEF Claim
    <3> QED BY <1>1, <3>1, ClientPlaces, ClientWires
  <2>4. "turn.attach" \in Claim /\ "turn.start" \in Claim BY DEF Claim
  <2>5. Routes' BY <1>0, <1>03, <1>05, <2>1, <2>3, <2>4
  <2>6. Opens' BY <1>0, <2>1
  <2>7. Claims' => Claims \/ (pc = "begin" /\ kind \in Turns) BY <2>3 DEF Claims, OneTurn
  <2>8. Before' => Before BY <2>1, <2>2, <2>3, <2>7
  <2>9. CASE ReceiveEvt
    <3> DEFINE m == Head(toClient)
    <3>1. Received /\ m.t = "evt" /\ toClient # <<>> /\ toClient' = Tail(toClient) BY <2>9 DEF ReceiveEvt, Received
    <3>2. m \in Message /\ \E i \in DOMAIN toClient : toClient[i] = m BY <3>1, ReceiveEffect DEF Hears
    <3>3. ~Silent(toClient) BY <3>1, <3>2 DEF Silent
    <3>4. Waits' /\ Command' BY <1>0, <2>1, <2>8, <3>3
    <3>5. finished' = finished BY <2>9 DEF ReceiveEvt
    <3>6. UNCHANGED <<seen, told>> \/ Shown(m.seq) BY <2>9 DEF ReceiveEvt
    <3>7. m.seq \in Nat BY <3>1, <3>2, Messages
    <3>8. ~Attach /\ ~finished => Shown(m.seq) BY <2>9 DEF ReceiveEvt
    <3>9. finished => UNCHANGED <<seen, told>> BY <2>9 DEF ReceiveEvt
    <3> HIDE DEF m
    <3>10. told => told' BY <3>6 DEF Shown
    <3>11. ASSUME NEW k \in {0} \cup seen, Good(k) PROVE Whole'
      <4>1. k \in Nat /\ Newest = k BY <3>11, NewestIs
      <4>2. CASE Attach \/ finished
        <5>1. Attach' \/ finished' BY <1>03, <1>05, <2>1, <3>5, <4>2
        <5>2. CASE UNCHANGED <<seen, told>> BY <3>11, <5>1, <5>2
        <5>3. CASE Shown(m.seq) /\ m.seq = k + 1
          <6>1. seen' = seen \cup {k + 1} BY <4>1, <5>3 DEF Shown
          <6>2. seen' = 1..(k + 1) BY <3>11, <4>1, <6>1
          <6>3. k + 1 \in seen' BY <6>1
          <6> QED BY <5>1, <6>2, <6>3
        <5>4. CASE Shown(m.seq) /\ m.seq > k + 1
          <6>1. CASE Attach
            <7>1. ~(m.seq <= Newest) /\ m.seq > Newest + 1 BY <3>7, <4>1, <5>4
            <7>2. told' = TRUE BY ONLY <5>4, <6>1, <7>1 DEF Shown
            <7> QED BY <7>2
          <6>2. CASE ~Attach BY <3>9, <3>11, <4>2, <5>1, <6>2
          <6> QED BY <6>1, <6>2
        <5>5. CASE Shown(m.seq) /\ m.seq <= k
          <6>1. UNCHANGED <<seen, told>> BY <4>1, <5>5 DEF Shown
          <6> QED BY <3>11, <5>1, <6>1
        <5> QED BY <3>6, <3>7, <4>1, <5>2, <5>3, <5>4, <5>5
      <4>3. CASE ~Attach /\ ~finished
        <5>1. m.seq = k + 1 /\ Stream(Tail(toClient), k + 1, owned, next)
          BY <1>02, <3>1, <3>11, <4>1, <4>3, StreamTail DEF m
        <5>2. Shown(m.seq) BY <3>8, <4>3
        <5>3. seen' = seen \cup {k + 1} BY <4>1, <5>1, <5>2 DEF Shown
        <5>4. seen' = 1..(k + 1) BY <3>11, <4>1, <5>3
        <5>5. k + 1 \in seen' BY <5>3
        <5>6. Stream(toClient, k + 1, owned, next)' BY <2>1, <3>1, <5>1
        <5> QED BY <5>4, <5>5, <5>6
      <4> QED BY <4>2, <4>3
    <3>12. Whole' BY <1>0, <3>10, <3>11
    <3> QED BY <2>5, <2>6, <3>4, <3>12
  <2>10. CASE ~ReceiveEvt
    <3>1. /\ UNCHANGED <<seen, told>> /\ (finished => finished')
          /\ toClient' = toClient \/ (toClient # <<>> /\ toClient' = Tail(toClient) /\ Head(toClient).t # "evt")
      BY <1>1, <2>10, ClientShows DEF Received
    <3>2. Silent(toClient) => Silent(toClient)'
      <4>1. ASSUME toClient # <<>>, toClient' = Tail(toClient), Silent(toClient) PROVE Silent(toClient)'
        BY <1>02, <4>1, TailHolds DEF Silent
      <4>2. toClient' = toClient => (Silent(toClient) => Silent(toClient)') BY DEF Silent
      <4> QED BY <3>1, <4>1, <4>2
    <3>3. Waits' BY <1>0, <2>1, <2>8, <3>1, <3>2
    <3>4. Command' BY <1>0, <1>03, <2>1, <2>7, <3>2
    <3>5. ASSUME NEW k \in {0} \cup seen, Good(k) PROVE Good(k)'
      <4>1. k \in Nat BY <1>04
      <4>2. ASSUME ~Attach, ~finished PROVE Stream(toClient, k, owned, next)'
        <5>1. Stream(toClient, k, owned, next) BY <3>5, <4>2
        <5>2. CASE toClient' = toClient BY <2>1, <5>1, <5>2
        <5>3. CASE toClient # <<>> /\ toClient' = Tail(toClient) /\ Head(toClient).t # "evt"
          <6>1. Stream(Tail(toClient), k, owned, next) BY <1>02, <4>1, <5>1, <5>3, StreamTail
          <6> QED BY <2>1, <5>3, <6>1
        <5> QED BY <3>1, <5>2, <5>3
      <4> QED BY <1>03, <1>05, <2>1, <3>1, <3>5, <4>2
    <3>6. Whole' BY <1>0, <3>1, <3>5
    <3> QED BY <2>5, <2>6, <3>3, <3>4, <3>6
  <2> QED BY <2>9, <2>10
\* The daemon's.
<1>2. ASSUME DaemonMoves
      PROVE  /\ UNCHANGED <<kind, pc, seen, told, finished>> /\ (Attach' <=> Attach)
             /\ \A op : Asks(op)' => Asks(op)
             /\ Claims' => Claims
             /\ Before' => Before
  BY <1>2, DaemonWires DEF clientVars, Claims, Attach
<1>3. ASSUME DaemonMoves, UNCHANGED <<next>>, turn' # "opening" /\ (turn' = "none" <=> turn = "none"), owned' => owned,
             replay' => replay \/ Attach, NEW r \in Seq(Message), Silent(r) \/ Attach, toClient' = toClient \o r
      PROVE  Goal
  <2>1. Routes' /\ Opens' BY <1>0, <1>2, <1>3
  <2>2. Silent(toClient) /\ ~Attach => Silent(toClient)' BY <1>02, <1>3, SilentMore
  <2>3. Waits'
    <3>1. Before' => Before BY <1>2, <1>3
    <3>2. Before => ~Attach BY <1>03
    <3>3. turn = "none" => turn' = "none" BY <1>3
    <3> QED BY <1>0, <1>2, <1>3, <2>2, <3>1, <3>2, <3>3
  <2>6. Command'
    <3>1. (Claims' => Claims) /\ kind' = kind BY <1>2, <1>3
    <3> QED BY <1>0, <1>06, <1>3, <2>2, <3>1
  <2>4. ASSUME NEW k \in {0} \cup seen, Good(k) PROVE Good(k)'
    <3>1. k \in Nat BY <1>04
    <3>2. ASSUME ~Attach, ~finished PROVE Stream(toClient, k, owned, next)'
      <4>1. Stream(toClient \o r, k, owned, next) BY <1>02, <1>3, <2>4, <3>1, <3>2, StreamMore
      <4>2. owned' \in BOOLEAN BY TypingNext DEF RunTypes, DaemonTypes, RunNext, DaemonMoves
      <4>3. owned' = owned \/ owned' = FALSE BY <1>02, <1>3, <4>2
      <4> QED BY <1>3, <4>1, <4>3 DEF Stream
    <3> QED BY <1>2, <1>3, <2>4, <3>2
  <2>5. Whole' BY <1>0, <1>2, <1>3, <2>4
  <2> QED BY <2>1, <2>3, <2>5, <2>6
<1>4. /\ \A m \in Message : m.t # "evt" => <<m>> \in Seq(Message) /\ Silent(<<m>>)
      /\ <<>> \in Seq(Message) /\ Silent(<<>>) /\ toClient \o <<>> = toClient
  <2>1. ASSUME NEW m \in Message, m.t # "evt" PROVE <<m>> \in Seq(Message) /\ Silent(<<m>>)
    <3>1. <<m>> \in Seq(Message) /\ DOMAIN <<m>> = {1} /\ <<m>>[1] = m BY OneHolds
    <3> QED BY <2>1, <3>1 DEF Silent
  <2>2. <<>> \in Seq(Message) /\ DOMAIN <<>> = {} BY EmptySeq
  <2> QED BY <1>02, <2>1, <2>2 DEF Silent
<1>5. ASSUME DaemonStart PROVE Goal
  <2>1. /\ Request("turn.start") /\ turn' = "opening" /\ owned' = TRUE
        /\ UNCHANGED <<kind, seen, told, finished, toClient, next, replay>>
    BY <1>5 DEF DaemonStart, clientVars
  <2>2. "turn.start" \in Claim BY DEF Claim
  <2>3. Asks("turn.start") /\ (Once => Claims /\ ~Claims') BY <2>1, <2>2, RequestEffect DEF Claims
  <2>4. ~Attach /\ Claims /\ ~Claims' BY <1>0, <2>3 DEF OneTurn
  <2>5. kind \in Turns \ {"attach"} BY <1>0, <1>02, <1>03, <2>4
  <2>6. next = 1 /\ seen = {} /\ Silent(toClient) BY <1>0, <2>4, <2>5
  <2>7. pc \notin Early BY <2>4 DEF OneTurn
  <2>8. Routes' /\ Opens' BY <1>0, <1>2, <1>5, <2>1, <2>4, <2>6 DEF DaemonMoves, DaemonStep
  <2>9. Waits' /\ Command' BY <1>03, <1>2, <1>5, <2>4, <2>5, <2>7 DEF DaemonMoves, DaemonStep
  <2>10. Stream(toClient, 0, TRUE, 1) BY <2>6 DEF Stream, Silent
  <2>11. seen = 1..0 BY <2>6
  <2>12. Good(0)' BY <2>1, <2>6, <2>10, <2>11
  <2> QED BY <2>8, <2>9, <2>12
<1>6. ASSUME DaemonOpened PROVE Goal
  <2>1. alive /\ turn = "opening" /\ owned /\ next = 1 BY <1>0, <1>6 DEF DaemonOpened
  <2>2. UNCHANGED <<owned, replay>> BY <1>6 DEF DaemonOpened
  <2>3. \A ok \in BOOLEAN : Res("turn.start", ok) \in Message /\ Res("turn.start", ok).t = "res"
    <3>1. "turn.start" \in Ops BY DEF Ops
    <3> QED BY <3>1, Messages DEF Res
  <2>4. CASE \/ turn' = "running" /\ Send(<<Res("turn.start", TRUE)>>) /\ UNCHANGED next
             \/ turn' = "ended" /\ Send(<<Res("turn.start", FALSE)>>) /\ UNCHANGED next
    <3>1. PICK ok \in BOOLEAN : toClient' = toClient \o <<Res("turn.start", ok)>> BY <2>4 DEF Send
    <3>2. <<Res("turn.start", ok)>> \in Seq(Message) /\ Silent(<<Res("turn.start", ok)>>) BY <1>4, <2>3
    <3>3. turn' # "opening" /\ turn' # "none" /\ turn # "none" /\ next' = next BY <2>1, <2>4
    <3> QED BY <1>3, <1>6, <2>2, <3>1, <3>2, <3>3 DEF DaemonMoves, DaemonStep
  <2>5. CASE turn' = "running" /\ Send(<<Evt(1), Res("turn.start", TRUE)>>) /\ next' = 2
    <3> DEFINE r == <<Res("turn.start", TRUE)>>
               q == toClient \o <<Evt(1)>>
    <3>1. Evt(1) \in Message /\ <<Evt(1)>> \in Seq(Message) /\ r \in Seq(Message) /\ Silent(r) BY <1>4, <2>3, Messages, OneHolds
    <3>2. toClient' = q \o r
      <4>1. <<Evt(1)>> \o r = <<Evt(1), Res("turn.start", TRUE)>> BY <2>3, <3>1, OneAndOne
      <4>2. toClient' = toClient \o (<<Evt(1)>> \o r) BY <2>5, <4>1 DEF Send
      <4> QED BY <1>02, <3>1, <4>2, ConcatAssociative
    <3>3. q \in Seq(Message) BY <1>02, <3>1, ConcatHolds
    <3> HIDE DEF r
    <3>4. ~Attach /\ kind \notin Commands /\ ~Before BY <1>0, <1>03, <2>1
    <3>5. Routes' /\ Opens' /\ Waits' /\ Command'
      BY <1>0, <1>2, <1>6, <2>2, <2>5, <3>4 DEF DaemonMoves, DaemonStep
    <3>6. ASSUME NEW k \in {0} \cup seen, Good(k) PROVE Good(k)'
      <4>1. k \in Nat BY <1>04
      <4>2. ASSUME ~finished PROVE Stream(toClient, k, owned, next)'
        <5>1. Stream(toClient, k, TRUE, 1) BY <2>1, <3>4, <3>6, <4>2
        <5>2. Stream(q, k, TRUE, 1 + 1) BY <1>02, <4>1, <5>1, StreamNext
        <5>5. 1 + 1 = 2 OBVIOUS
        <5>3. Stream(q \o r, k, TRUE, 2) BY <3>1, <3>3, <4>1, <5>2, <5>5, StreamMore
        <5>4. owned' = TRUE BY <1>02, <2>1, <2>2
        <5> QED BY <2>5, <3>2, <5>3, <5>4
      <4> QED BY <1>2, <1>6, <3>6, <4>2 DEF DaemonMoves, DaemonStep
    <3>7. Whole' BY <1>0, <1>2, <1>6, <3>6 DEF DaemonMoves, DaemonStep
    <3> QED BY <3>5, <3>7
  <2> QED BY <1>6, <2>4, <2>5 DEF DaemonOpened
<1>7. ASSUME DaemonEvent PROVE Goal
  <2>1. turn = "running" /\ next' = next + 1 /\ UNCHANGED <<turn, owned, replay>>
        /\ (IF owned /\ ~replay THEN toClient' = toClient \o <<Evt(next)>> ELSE toClient' = toClient)
    BY <1>7 DEF DaemonEvent, Send
  <2>2. ~Before BY <1>0, <2>1
  <2>3. Routes' /\ Opens' /\ Waits' BY <1>0, <1>2, <1>7, <2>1, <2>2 DEF DaemonMoves
  <2>4. Command'
    <3>1. ~owned => toClient' = toClient BY <2>1
    <3>2. owned' = owned /\ kind' = kind /\ (Claims' => Claims) BY <1>2, <1>7, <2>1 DEF DaemonMoves
    <3>3. kind \in Commands => ~owned /\ Silent(toClient) /\ ~Claims BY <1>0
    <3>4. ASSUME kind \in Commands PROVE ~owned' /\ ~Claims' /\ Silent(toClient)'
      <4>1. toClient' = toClient BY <3>1, <3>3, <3>4
      <4> QED BY <3>2, <3>3, <3>4, <4>1
    <3> QED BY <3>2, <3>4
  <2>5. ASSUME NEW k \in {0} \cup seen, Good(k) PROVE Good(k)'
    <3>1. k \in Nat BY <1>04
    <3>2. ASSUME ~Attach, ~finished PROVE Stream(toClient, k, owned, next)'
      <4>1. Stream(toClient, k, owned, next) /\ ~replay BY <1>0, <2>5, <3>2
      <4>2. CASE owned
        <5>1. owned = TRUE /\ owned' = TRUE BY <1>02, <2>1, <4>2
        <5>2. Stream(toClient \o <<Evt(next)>>, k, TRUE, next + 1) BY <1>02, <3>1, <4>1, <5>1, StreamNext
        <5> QED BY <2>1, <4>1, <5>1, <5>2
      <4>3. CASE ~owned BY <2>1, <4>1, <4>3 DEF Stream
      <4> QED BY <4>2, <4>3
    <3> QED BY <1>2, <1>7, <2>5, <3>2 DEF DaemonMoves
  <2>6. Whole' BY <1>0, <1>2, <1>7, <2>5 DEF DaemonMoves
  <2> QED BY <2>3, <2>4, <2>6
\* What only moves on leaves the events as they are.
<1>8. ASSUME DaemonMoves, UNCHANGED <<next, turn, owned>>, replay' => replay, NEW m \in Message, m.t # "evt",
             toClient' = toClient \/ Send(<<m>>)
      PROVE  Goal
  <2>1. PICK r \in Seq(Message) : Silent(r) /\ toClient' = toClient \o r BY <1>4, <1>8 DEF Send
  <2>2. CASE turn # "opening" BY <1>3, <1>8, <2>1, <2>2
  <2>3. CASE turn = "opening"
    <3>1. ~Attach /\ kind \notin Commands /\ ~Before BY <1>0, <1>03, <2>3
    <3>2. Routes' /\ Opens' /\ Waits' /\ Command' BY <1>0, <1>2, <1>8, <3>1
    <3>3. ASSUME NEW k \in {0} \cup seen, Good(k) PROVE Good(k)'
      <4>1. k \in Nat BY <1>04
      <4>2. ~finished => Stream(toClient \o r, k, owned, next) BY <1>02, <2>1, <3>1, <3>3, <4>1, StreamMore
      <4> QED BY <1>2, <1>8, <2>1, <3>3, <4>2
    <3>4. Whole' BY <1>0, <1>2, <1>8, <3>3
    <3> QED BY <3>2, <3>4
  <2> QED BY <2>2, <2>3
<1>9. ASSUME DaemonAbort \/ DaemonAnswers PROVE Goal
  <2>1. UNCHANGED <<next, turn, owned, replay>> BY <1>9 DEF DaemonAbort, DaemonAnswers
  <2>2. PICK op \in Ops, ok \in BOOLEAN : Send(<<Res(op, ok)>>)
    BY <1>9 DEF DaemonAbort, DaemonAnswers, Stoppable, Ops, CallOps
  <2>3. Res(op, ok) \in Message /\ Res(op, ok).t = "res" BY Messages DEF Res
  <2> QED BY <1>8, <1>9, <2>1, <2>2, <2>3 DEF DaemonMoves, DaemonStep
<1>10. ASSUME DaemonGone PROVE Goal
  <2>1. UNCHANGED <<next, turn, owned, replay>> /\ Send(<<[t |-> "close"]>>) BY <1>10 DEF DaemonGone
  <2>2. [t |-> "close"] \in Message /\ [t |-> "close"].t = "close" BY Messages
  <2> QED BY <1>8, <1>10, <2>1, <2>2 DEF DaemonMoves
<1>11. ASSUME DaemonEvicts PROVE Goal
  <2>1. UNCHANGED <<next, turn, owned, replay, toClient>> BY <1>11 DEF DaemonEvicts
  <2>2. [t |-> "close"] \in Message /\ [t |-> "close"].t = "close" BY Messages
  <2> QED BY <1>8, <1>11, <2>1, <2>2 DEF DaemonMoves
<1>12. ASSUME DaemonDetach PROVE Goal
  <2> DEFINE may == turn = "running" /\ owned
  <2>1. UNCHANGED <<next, turn, replay>> /\ owned' = (owned /\ ~may) /\ Send(<<Res("turn.detach", may)>>)
    BY <1>12 DEF DaemonDetach
  <2>2. "turn.detach" \in Ops /\ may \in BOOLEAN BY DEF Ops
  <2>3. Res("turn.detach", may) \in Message /\ Res("turn.detach", may).t = "res" BY <2>2, Messages DEF Res
  <2>4. CASE may
    <3>1. turn # "opening" /\ (owned' => owned) BY <2>1, <2>4
    <3> QED BY <1>3, <1>4, <1>12, <2>1, <2>3, <3>1 DEF DaemonMoves, DaemonStep, Send
  <2>5. CASE ~may
    <3>1. owned' = owned BY <1>02, <2>1, <2>5
    <3> QED BY <1>8, <1>12, <2>1, <2>3, <3>1 DEF DaemonMoves, DaemonStep
  <2> QED BY <2>4, <2>5
<1>13. ASSUME DaemonEnds PROVE Goal
  <2> DEFINE buffer(status) == IF Edit /\ status = "stop" THEN "draft" ELSE "none"
  <2>1. UNCHANGED <<next, replay>> /\ turn = "running" /\ turn' = "ended" /\ owned' = FALSE BY <1>13 DEF DaemonEnds
  <2>2. PICK status \in Statuses : Send(<<End(status, buffer(status))>>) \/ toClient' = toClient
    BY <1>13 DEF DaemonEnds, Statuses
  <2>3. buffer(status) \in {"none", "draft"} OBVIOUS
  <2> HIDE DEF buffer
  <2>4. End(status, buffer(status)) \in Message /\ End(status, buffer(status)).t = "end" BY <2>3, Messages DEF End
  <2>5. PICK r \in Seq(Message) : Silent(r) /\ toClient' = toClient \o r BY <1>4, <2>2, <2>4 DEF Send
  <2> QED BY <1>3, <1>13, <2>1, <2>5 DEF DaemonMoves
<1>14. ASSUME DaemonAttach PROVE Goal
  <2>1. /\ Request("turn.attach") /\ UNCHANGED <<turn, next>>
        /\ \/ turn = "none" /\ Send(<<Res("turn.attach", FALSE)>>) /\ UNCHANGED <<owned, replay>>
           \/ turn # "none" /\ replay' = TRUE /\ owned' = (turn = "running") /\ toClient' = toClient
    BY <1>14 DEF DaemonAttach
  <2>2. "turn.attach" \in Claim /\ "turn.attach" \in Ops BY DEF Claim, Ops
  <2>3. Asks("turn.attach") BY <2>1, RequestEffect
  <2>4. Attach /\ turn # "opening" BY <1>0, <2>3
  <2>5. kind \notin Commands /\ kind' \notin Commands /\ Attach' BY <1>03, <1>2, <1>14, <2>4 DEF DaemonMoves, DaemonStep
  <2>6. Routes' /\ Opens' /\ Waits' /\ Command'
    BY <1>0, <1>03, <1>05, <1>2, <1>14, <2>1, <2>4, <2>5 DEF DaemonMoves, DaemonStep
  <2>7. Whole' BY <1>0, <1>2, <1>14, <2>5 DEF DaemonMoves, DaemonStep
  <2> QED BY <2>6, <2>7
<1>15. ASSUME DaemonReplayed PROVE Goal
  <2>1. replay /\ UNCHANGED <<turn, next, owned>> /\ replay' = FALSE BY <1>15 DEF DaemonReplayed
  <2>2. Attach /\ turn # "opening" BY <1>0, <2>1
  <2>3. kind \notin Commands /\ kind' \notin Commands /\ Attach' BY <1>03, <1>2, <1>15, <2>2 DEF DaemonMoves, DaemonStep
  <2>4. Routes' /\ Opens' /\ Waits' /\ Command'
    BY <1>0, <1>03, <1>05, <1>2, <1>15, <2>1, <2>2, <2>3 DEF DaemonMoves, DaemonStep
  <2>5. Whole' BY <1>0, <1>2, <1>15, <2>3 DEF DaemonMoves, DaemonStep
  <2> QED BY <2>4, <2>5
<1>16. ASSUME UNCHANGED runVars PROVE Goal
  <2>1. UNCHANGED <<kind, pc, seen, told, finished, toDaemon, toClient, turn, owned, next, replay>>
    BY <1>16 DEF runVars, clientVars, daemonVars
  <2>2. \A op : Asks(op)' <=> Asks(op) BY <2>1 DEF Asks
  <2>3. Claims' <=> Claims BY <2>2 DEF Claims
  <2> QED BY <1>0, <1>03, <1>05, <2>1, <2>2, <2>3
<1> HIDE DEF Goal
<1>17. Goal
  BY <1>1, <1>5, <1>6, <1>7, <1>9, <1>10, <1>11, <1>12, <1>13, <1>14, <1>15, <1>16 DEF RunNext, DaemonStep
<1> QED BY <1>01, <1>17

-----------------------------------------------------------------------------
(* The results.                                                             *)

\* One turn is asked for, what was let go of stays let go of, what is shown has no untold hole, the daemon's
\* choice for the shell is the run's, and nothing is used early.
THEOREM Invariance == RunSpec => [](RunTypes /\ Inductive)
<1>1. RunInit => RunTypes /\ Inductive BY InitTyped, InitInductive
<1>2. RunTypes /\ Inductive /\ [RunNext]_runVars => (RunTypes /\ Inductive)'
  BY TypingNext, TurnKept, ShownKept, SelectKept, UseKept DEF Inductive
<1> QED BY <1>1, <1>2, PTL DEF RunSpec

(* However a run ends, nothing withdrawn is used, nothing detached is still *)
(* this connection's, the shell and the daemon agree on the conversation,   *)
(* and what was typed comes back.                                           *)
THEOREM RunsLeaveCleanly == RunSpec => []RunLeavesCleanly
<1>1. RunTypes /\ Inductive => RunLeavesCleanly
  <2> SUFFICES ASSUME RunTypes, Inductive PROVE RunLeavesCleanly OBVIOUS
  <2>1. WithdrawnIsNotUsed BY DEF Inductive, Unused, WithdrawnIsNotUsed
  <2>2. DetachedIsLetGo BY DEF Inductive, Unused, LetGo, DetachedIsLetGo
  <2>3. ASSUME Done, exit = "ok", conv # "" PROVE result.conversation = conv /\ selected = conv
    BY <2>3 DEF Inductive, Followed, Settled, Done
  <2>4. Done /\ captured > 0 => "typed" \in {result.buffer[i] : i \in DOMAIN result.buffer}
    BY DEF Inductive, Unused
  <2>5. ShellGoesOn BY <2>3, <2>4 DEF ShellGoesOn
  <2> QED BY <2>1, <2>2, <2>5 DEF RunLeavesCleanly
<1> QED BY <1>1, Invariance, PTL

(* Whatever the ring let go of and whenever the client attached, an event   *)
(* shown after a missing one comes with the notice.                         *)
THEOREM HolesAreAlwaysTold == RunSpec => []HolesAreTold
<1>1. RunTypes /\ Inductive => HolesAreTold
  <2> SUFFICES ASSUME RunTypes, Inductive, ~told PROVE ~(Newest > Cardinality(seen)) BY DEF HolesAreTold
  <2>1. PICK k \in {0} \cup seen : seen = 1..k BY DEF Inductive, Streamed
  <2>2. k \in Nat /\ Newest = k /\ Cardinality(seen) = k BY <2>1, NewestIs
  <2> QED BY <2>2
<1> QED BY <1>1, Invariance, PTL
=============================================================================
