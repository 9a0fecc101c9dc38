----------------------------- MODULE EventsProofs -----------------------------
(* Proofs about the way of a turn's events in MCServices: the mapping of pi's  *)
(* records, the queue of the stream and the ring of the daemon.                *)
EXTENDS MCServices, SequenceTheorems, FiniteSetTheorems, WellFoundedInduction, TLAPS

LEMMA SceneStays == [Next]_vars => scene' = scene
BY DEF Next, vars, MapperOnly, QueueOnly, RingOnly, ConvOnly, LineOnly, ConfigOnly, ContextOnly

LEMMA EmptyIsSeq == (\A S : <<>> \in Seq(S)) /\ Len(<<>>) < 2
OBVIOUS

-----------------------------------------------------------------------------
(* The queue of a stream.                                                    *)

Answered(i, n, s) == IF i <= n THEN Queue!Value(i)
                     ELSE Queue!End(IF s = "open" THEN Queue!Parked ELSE IF s = "closed" THEN Queue!Done ELSE Queue!Failed)

\* Answers differ as what they say does.

LEMMA AnswersDiffer ==
  /\ \A v, h : Queue!Value(v) # Queue!End(h) \/ h = "value"
  /\ \A h, k : Queue!End(h) = Queue!End(k) => h = k
  /\ \A v \in Nat : Queue!Value(v) \in Queue!Answers
  /\ \A h \in {Queue!Done, Queue!Failed, Queue!Parked} : Queue!End(h) \in Queue!Answers /\ h # "value"
  /\ Queue!Done # Queue!Failed /\ Queue!Done # Queue!Parked /\ Queue!Failed # Queue!Parked
<1>1. \A v, h : Queue!Value(v).is = "value" /\ Queue!End(h).is = h BY DEF Queue!Value, Queue!End
<1>2. \A v, h : Queue!Value(v) # Queue!End(h) \/ h = "value" BY <1>1
<1>3. \A h, k : Queue!End(h) = Queue!End(k) => h = k BY <1>1
<1> QED BY <1>2, <1>3 DEF Queue!Value, Queue!End, Queue!Answers, Queue!Done, Queue!Failed, Queue!Parked

\* The answers stand, with the three states told apart.
LEMMA AnswersStand ==
  ASSUME Queue!QueueInductive
  PROVE  /\ \A i \in DOMAIN answer : answer[i] = Answered(i, accepted, state) \/ (left /\ answer[i] = Queue!End(Queue!Done))
         /\ left => \A i \in DOMAIN answer : answer[i] # Queue!End(Queue!Parked)
<1>1. state \in {"open", "closed", "failed"} /\ Queue!EachReadGetsItsItem BY DEF Queue!QueueInductive
<1>2. CASE state = "open" BY <1>1, <1>2 DEF Queue!EachReadGetsItsItem, Answered
<1>3. CASE state = "closed" BY <1>1, <1>3 DEF Queue!EachReadGetsItsItem, Answered
<1>4. CASE state = "failed" BY <1>1, <1>4 DEF Queue!EachReadGetsItsItem, Answered
<1> QED BY <1>1, <1>2, <1>3, <1>4

LEMMA AnswersWillStand ==
  ASSUME state' \in {"open", "closed", "failed"},
         \A i \in DOMAIN answer' : answer'[i] = Answered(i, accepted', state') \/ (left' /\ answer'[i] = Queue!End(Queue!Done)),
         left' => \A i \in DOMAIN answer' : answer'[i] # Queue!End(Queue!Parked)
  PROVE  Queue!EachReadGetsItsItem'
<1>2. CASE state' = "open" BY <1>2 DEF Queue!EachReadGetsItsItem, Answered
<1>3. CASE state' = "closed" BY <1>3 DEF Queue!EachReadGetsItsItem, Answered
<1>4. CASE state' = "failed" BY <1>4 DEF Queue!EachReadGetsItsItem, Answered
<1> QED BY <1>2, <1>3, <1>4

QueueTypes ==
  /\ accepted \in Nat /\ state \in {"open", "closed", "failed"} /\ left \in BOOLEAN
  /\ buffered \in Seq(Nat) /\ waiting \in Seq(Nat) /\ answer \in Seq(Queue!Answers)

\* The lengths and members of both queues, while the reader is there.
LEMMA LinesAre ==
  ASSUME Queue!QueueInductive, ~left
  PROVE  /\ accepted \in Nat /\ Len(answer) \in Nat /\ DOMAIN answer = 1..Len(answer)
         /\ DOMAIN buffered = 1..Len(buffered) /\ DOMAIN waiting = 1..Len(waiting)
         /\ Len(buffered) = IF Len(answer) < accepted THEN accepted - Len(answer) ELSE 0
         /\ \A k \in DOMAIN buffered : buffered[k] = Len(answer) + k
         /\ Len(waiting) = IF state = "open" /\ accepted < Len(answer) THEN Len(answer) - accepted ELSE 0
         /\ \A k \in DOMAIN waiting : waiting[k] = accepted + k
BY DEF Queue!QueueInductive, Queue!InLine

LEMMA QueueIs ==
  Queue!QueueInductive <=> QueueTypes /\ (left => waiting = <<>>) /\ Queue!InLine /\ Queue!EachReadGetsItsItem
BY DEF Queue!QueueInductive, QueueTypes

\* Ending, and leaving: whoever waits is answered.
LEMMA AllAnswered ==
  ASSUME NEW how \in {Queue!Done, Queue!Failed}, Queue!AnswerAll(how), answer \in Seq(Queue!Answers)
  PROVE  /\ waiting' = <<>> /\ answer' \in Seq(Queue!Answers) /\ DOMAIN answer' = DOMAIN answer /\ Len(answer') = Len(answer)
         /\ \A i \in DOMAIN answer : answer'[i] = IF answer[i] = Queue!End(Queue!Parked) THEN Queue!End(how) ELSE answer[i]
<1>1. DOMAIN answer = 1..Len(answer) /\ Len(answer) \in Nat OBVIOUS
<1>2. /\ waiting' = <<>>
      /\ answer' = [i \in 1..Len(answer) |-> IF answer[i] = Queue!End(Queue!Parked) THEN Queue!End(how) ELSE answer[i]]
  BY <1>1 DEF Queue!AnswerAll
<1>3. \A i \in 1..Len(answer) : answer'[i] \in Queue!Answers BY <1>1, <1>2, AnswersDiffer
<1> QED BY <1>1, <1>2, <1>3

LEMMA QueueStays ==
  ASSUME Queue!QueueInductive, UNCHANGED <<accepted, buffered, waiting, state, answer, left>>
  PROVE  Queue!QueueInductive'
BY DEF Queue!QueueInductive, Queue!InLine, Queue!EachReadGetsItsItem, Queue!Answers, Queue!Value, Queue!End,
       Queue!Done, Queue!Failed, Queue!Parked

LEMMA Pushed ==
  ASSUME Queue!QueueInductive, Queue!Push
  PROVE  Queue!QueueInductive'
<1>0. QueueTypes /\ (left => waiting = <<>>) BY QueueIs
<1>1. CASE state # "open"
  <2>1. UNCHANGED <<accepted, buffered, waiting, state, answer, left>> BY <1>1 DEF Queue!Push
  <2> QED BY <2>1, QueueStays
<1>2. CASE state = "open" /\ waiting = <<>>
  <2>1. /\ accepted' = accepted + 1 /\ buffered' = Append(buffered, accepted + 1) /\ waiting' = waiting /\ answer' = answer
        /\ state' = state /\ left' = left
    BY <1>2 DEF Queue!Push
  <2>2. QueueTypes' BY <1>0, <2>1 DEF QueueTypes, Queue!Answers, Queue!Done, Queue!Failed, Queue!Parked
  <2>3. Queue!InLine'
    <3> SUFFICES ASSUME ~left
                 PROVE  /\ Len(buffered') = IF Len(answer) < accepted + 1 THEN accepted + 1 - Len(answer) ELSE 0
                        /\ \A k \in DOMAIN buffered' : buffered'[k] = Len(answer) + k
                        /\ Len(waiting) = IF state = "open" /\ accepted + 1 < Len(answer) THEN Len(answer) - (accepted + 1) ELSE 0
                        /\ \A k \in DOMAIN waiting : waiting[k] = accepted + 1 + k
      BY <2>1 DEF Queue!InLine
    <3>1. Len(waiting) = 0 /\ DOMAIN waiting = {} BY <1>2
    <3>2. Len(answer) <= accepted BY <1>0, <1>2, <3>1, LinesAre
    <3>3. Len(buffered) = accepted - Len(answer) BY <3>2, LinesAre
    <3>4. /\ Len(buffered') = Len(buffered) + 1 /\ DOMAIN buffered' = 1 .. Len(buffered) + 1
          /\ \A k \in 1 .. Len(buffered) : buffered'[k] = buffered[k]
          /\ buffered'[Len(buffered) + 1] = accepted + 1
      BY <1>0, <2>1 DEF QueueTypes
    <3>5. accepted \in Nat /\ Len(answer) \in Nat /\ Len(buffered) \in Nat BY LinesAre, <3>3
    <3>6. Len(buffered') = accepted + 1 - Len(answer) /\ Len(answer) < accepted + 1 BY <3>2, <3>3, <3>4, <3>5
    <3>7. ~(accepted + 1 < Len(answer)) BY <3>2, <3>5
    <3>8. \A k \in 1 .. Len(buffered) : buffered[k] = Len(answer) + k BY LinesAre
    <3>9. accepted + 1 = Len(answer) + (Len(buffered) + 1) BY <3>3, <3>5
    <3>10. \A k \in DOMAIN buffered' : k \in 1 .. Len(buffered) \/ k = Len(buffered) + 1 BY <3>4, <3>5
    <3> QED BY <3>1, <3>4, <3>6, <3>7, <3>8, <3>9, <3>10
  <2>4. Queue!EachReadGetsItsItem'
    <3>1. \A i \in DOMAIN answer : answer[i] = Answered(i, accepted + 1, "open") \/ (left /\ answer[i] = Queue!End(Queue!Done))
      <4> SUFFICES ASSUME NEW i \in DOMAIN answer PROVE answer[i] = Answered(i, accepted + 1, "open") \/ (left /\ answer[i] = Queue!End(Queue!Done))
        OBVIOUS
      <4>1. answer[i] = Answered(i, accepted, "open") \/ (left /\ answer[i] = Queue!End(Queue!Done)) BY <1>2, AnswersStand
      <4>2. i \in Nat /\ accepted \in Nat BY <1>0 DEF QueueTypes
      <4>3. CASE i <= accepted
        <5>1. i <= accepted + 1 BY <4>2, <4>3
        <5> QED BY <4>1, <4>3, <5>1 DEF Answered
      <4>4. CASE ~(i <= accepted) /\ left
        <5>1. answer[i] # Queue!End(Queue!Parked) BY <4>4, AnswersStand
        <5> QED BY <4>1, <4>4, <5>1 DEF Answered
      <4>5. CASE ~(i <= accepted) /\ ~left
        <5>1. Len(waiting) = 0 BY <1>2
        <5>3. Len(waiting) = (IF accepted < Len(answer) THEN Len(answer) - accepted ELSE 0) /\ i \in 1 .. Len(answer)
              /\ Len(answer) \in Nat
          BY <1>2, <4>5, LinesAre
        <5>2. ~(accepted < Len(answer)) /\ i <= Len(answer) BY <4>2, <5>1, <5>3
        <5> QED BY <4>2, <4>5, <5>2, <1>0 DEF QueueTypes
      <4> QED BY <1>0, <4>3, <4>4, <4>5 DEF QueueTypes
    <3>2. left => \A i \in DOMAIN answer : answer[i] # Queue!End(Queue!Parked) BY AnswersStand
    <3>3. state' \in {"open", "closed", "failed"} /\ answer' = answer /\ accepted' = accepted + 1 /\ state' = "open" /\ left' = left
      BY <1>2, <2>1
    <3>4. Queue!End(Queue!Done)' = Queue!End(Queue!Done) /\ Queue!End(Queue!Parked)' = Queue!End(Queue!Parked)
          /\ \A i : Answered(i, accepted', state') = Answered(i, accepted + 1, "open")
      BY <3>3 DEF Queue!End, Queue!Done, Queue!Parked
    <3> QED BY <3>1, <3>2, <3>3, <3>4, AnswersWillStand
  <2> QED BY <1>0, <2>1, <2>2, <2>3, <2>4 DEF Queue!QueueInductive, QueueTypes
<1>3. CASE state = "open" /\ waiting # <<>>
  <2>1. /\ accepted' = accepted + 1 /\ buffered' = buffered /\ waiting' = Tail(waiting) /\ state' = state /\ left' = left
        /\ answer' = [answer EXCEPT ![Head(waiting)] = Queue!Value(accepted + 1)]
    BY <1>3 DEF Queue!Push
  <2>2. ~left /\ Len(waiting) > 0 BY <1>0, <1>3 DEF QueueTypes
  <2>3. /\ accepted < Len(answer) /\ Len(waiting) = Len(answer) - accepted /\ Head(waiting) = accepted + 1
        /\ accepted + 1 \in 1 .. Len(answer) /\ Len(buffered) = 0 /\ accepted \in Nat /\ Len(answer) \in Nat
    BY <1>3, <2>2, LinesAre
  <2>4. /\ answer' \in Seq(Queue!Answers) /\ Len(answer') = Len(answer) /\ DOMAIN answer' = DOMAIN answer
        /\ \A i \in DOMAIN answer : answer'[i] = IF i = accepted + 1 THEN Queue!Value(accepted + 1) ELSE answer[i]
    <3>1. Queue!Value(accepted + 1) \in Queue!Answers BY <2>3, AnswersDiffer
    <3> QED BY <1>0, <2>1, <2>3, <3>1 DEF QueueTypes
  <2>5. QueueTypes'
    <3>1. waiting' \in Seq(Nat) BY <1>0, <1>3, <2>1 DEF QueueTypes
    <3>2. Queue!Answers' = Queue!Answers BY DEF Queue!Answers, Queue!Done, Queue!Failed, Queue!Parked
    <3> QED BY <1>0, <2>1, <2>4, <3>1, <3>2 DEF QueueTypes
  <2>6. Queue!InLine'
    <3>1. /\ Len(waiting') = Len(waiting) - 1 /\ DOMAIN waiting' = 1 .. Len(waiting) - 1
          /\ \A k \in 1 .. Len(waiting) - 1 : waiting'[k] = waiting[k + 1] /\ k + 1 \in DOMAIN waiting
      BY <1>0, <1>3, <2>1 DEF QueueTypes
    <3>2. \A k \in DOMAIN waiting : waiting[k] = accepted + k BY <2>2, LinesAre
    <3>8. accepted' = accepted + 1 /\ Len(answer') = Len(answer) /\ state' = "open" BY <1>3, <2>1, <2>4
    <3>3. \A k \in DOMAIN waiting' : waiting'[k] = accepted' + k
      <4>1. \A k \in 1 .. Len(waiting) - 1 : waiting'[k] = accepted + (k + 1) BY <3>1, <3>2
      <4>2. \A k \in 1 .. Len(waiting) - 1 : accepted + (k + 1) = accepted + 1 + k BY <2>3
      <4> QED BY <3>1, <3>8, <4>1, <4>2
    <3>7. Len(waiting') = IF accepted + 1 < Len(answer) THEN Len(answer) - (accepted + 1) ELSE 0
      BY <2>3, <3>1
    <3>4. Len(waiting') = IF state' = "open" /\ accepted' < Len(answer') THEN Len(answer') - accepted' ELSE 0
      BY <3>7, <3>8
    <3>5. DOMAIN buffered = {} BY <2>2, <2>3, LinesAre
    <3>6. Len(buffered') = IF Len(answer') < accepted' THEN accepted' - Len(answer') ELSE 0 BY <2>1, <2>3, <2>4
    <3> QED BY <2>1, <3>3, <3>4, <3>5, <3>6 DEF Queue!InLine
  <2>7. Queue!EachReadGetsItsItem'
    <3>1. \A i \in DOMAIN answer : answer'[i] = Answered(i, accepted + 1, "open")
      <4> SUFFICES ASSUME NEW i \in DOMAIN answer PROVE answer'[i] = Answered(i, accepted + 1, "open")
        OBVIOUS
      <4>1. answer[i] = Answered(i, accepted, "open") BY <1>3, <2>2, AnswersStand
      <4>2. i \in Nat BY <1>0 DEF QueueTypes
      <4>3. CASE i = accepted + 1 BY <2>3, <2>4, <4>3 DEF Answered
      <4>4. CASE i # accepted + 1
        <5>1. i <= accepted <=> i <= accepted + 1 BY <2>3, <4>2, <4>4
        <5> QED BY <2>4, <4>1, <4>4, <5>1 DEF Answered
      <4> QED BY <4>3, <4>4
    <3>3. state' \in {"open", "closed", "failed"} /\ accepted' = accepted + 1 /\ state' = "open" /\ left' = left
      BY <1>3, <2>1
    <3>4. \A i : Answered(i, accepted', state') = Answered(i, accepted + 1, "open")
      BY <3>3
    <3> QED BY <2>2, <2>4, <3>1, <3>3, <3>4, AnswersWillStand
  <2> QED BY <2>1, <2>2, <2>5, <2>6, <2>7 DEF Queue!QueueInductive, QueueTypes
<1> QED BY <1>1, <1>2, <1>3

LEMMA Ended ==
  ASSUME Queue!QueueInductive, Queue!Close \/ Queue!Fail
  PROVE  Queue!QueueInductive'
<1>0. QueueTypes /\ (left => waiting = <<>>) BY QueueIs
<1>1. PICK how \in {Queue!Done, Queue!Failed} :
        /\ Queue!AnswerAll(how) /\ state = "open" /\ state' = (IF how = Queue!Done THEN "closed" ELSE "failed")
        /\ accepted' = accepted /\ buffered' = buffered /\ left' = left
  BY DEF Queue!Close, Queue!Fail, Queue!Done, Queue!Failed
<1>2. /\ waiting' = <<>> /\ answer' \in Seq(Queue!Answers) /\ DOMAIN answer' = DOMAIN answer /\ Len(answer') = Len(answer)
      /\ \A i \in DOMAIN answer : answer'[i] = IF answer[i] = Queue!End(Queue!Parked) THEN Queue!End(how) ELSE answer[i]
  BY <1>0, <1>1, AllAnswered DEF QueueTypes
<1>3. state' \in {"closed", "failed"} BY <1>1
<1>4. QueueTypes'
  <2>1. waiting' \in Seq(Nat) BY <1>2
  <2>2. Queue!Answers' = Queue!Answers BY DEF Queue!Answers, Queue!Done, Queue!Failed, Queue!Parked
  <2> QED BY <1>0, <1>1, <1>2, <1>3, <2>1, <2>2 DEF QueueTypes
<1>5. Queue!InLine'
  <2>1. Len(waiting') = 0 /\ DOMAIN waiting' = {} BY <1>2
  <2> QED BY <1>1, <1>2, <1>3, <2>1, LinesAre DEF Queue!InLine
<1>6. Queue!EachReadGetsItsItem'
  <2>1. ASSUME NEW i \in DOMAIN answer
        PROVE  answer'[i] = Answered(i, accepted, state') \/ (left /\ answer'[i] = Queue!End(Queue!Done))
    <3>1. answer[i] = Answered(i, accepted, "open") \/ (left /\ answer[i] = Queue!End(Queue!Done)) BY <1>1, AnswersStand
    <3>2. answer'[i] = IF answer[i] = Queue!End(Queue!Parked) THEN Queue!End(how) ELSE answer[i] BY <1>2
    <3>3. Queue!End(Queue!Done) # Queue!End(Queue!Parked) /\ Queue!Value(i) # Queue!End(Queue!Parked)
      BY AnswersDiffer DEF Queue!Parked
    <3>4. how = Queue!Done => state' = "closed" BY <1>1
    <3>5. how = Queue!Failed => state' = "failed" BY <1>1, AnswersDiffer
    <3> QED BY <3>1, <3>2, <3>3, <3>4, <3>5 DEF Answered
  <2>2. left' => \A i \in DOMAIN answer' : answer'[i] # Queue!End(Queue!Parked)
    <3>1. Queue!End(how) # Queue!End(Queue!Parked) BY AnswersDiffer
    <3> QED BY <1>1, <1>2, <3>1, AnswersStand
  <2>3. Queue!End(Queue!Done)' = Queue!End(Queue!Done) BY DEF Queue!End, Queue!Done
  <2>4. state' \in {"open", "closed", "failed"} BY <1>3
  <2> QED BY <1>1, <1>2, <2>1, <2>2, <2>3, <2>4, AnswersWillStand
<1> QED BY <1>1, <1>2, <1>4, <1>5, <1>6 DEF Queue!QueueInductive, QueueTypes

LEMMA Asked ==
  ASSUME Queue!QueueInductive, Queue!Next
  PROVE  Queue!QueueInductive'
<1>0. QueueTypes /\ ~left BY QueueIs DEF Queue!Next
<1>1. /\ accepted' = accepted /\ state' = state /\ left' = left BY DEF Queue!Next
<1>2. PICK x \in Queue!Answers :
        /\ answer' = Append(answer, x) /\ x = Answered(Len(answer) + 1, accepted, state)
        /\ \/ buffered # <<>> /\ buffered' = Tail(buffered) /\ waiting' = waiting
           \/ buffered = <<>> /\ state # "open" /\ buffered' = buffered /\ waiting' = waiting
           \/ buffered = <<>> /\ state = "open" /\ buffered' = buffered /\ waiting' = Append(waiting, Len(answer) + 1)
  <2> DEFINE n == Len(answer)
  <2>0. n \in Nat /\ accepted \in Nat BY <1>0, LinesAre
  <2>1. CASE buffered # <<>>
    <3>1. answer' = Append(answer, Queue!Value(Head(buffered))) /\ buffered' = Tail(buffered) /\ waiting' = waiting
      BY <2>1 DEF Queue!Next
    <3>2. Len(buffered) > 0 /\ Head(buffered) = buffered[1] /\ 1 \in DOMAIN buffered BY <1>0, <2>1 DEF QueueTypes
    <3>3. n < accepted /\ Head(buffered) = n + 1
      <4>1. Len(buffered) = (IF n < accepted THEN accepted - n ELSE 0) /\ buffered[1] = n + 1 BY <1>0, <3>2, LinesAre
      <4> QED BY <2>0, <3>2, <4>1
    <3>4. n + 1 <= accepted /\ n + 1 \in Nat BY <2>0, <3>3
    <3>5. Queue!Value(n + 1) = Answered(n + 1, accepted, state) /\ Queue!Value(n + 1) \in Queue!Answers
      BY <3>4, AnswersDiffer DEF Answered
    <3> QED BY <2>1, <3>1, <3>3, <3>5
  <2>2. CASE buffered = <<>>
    <3>1. ~(n + 1 <= accepted)
      <4>1. Len(buffered) = 0 BY <2>2
      <4>2. Len(buffered) = IF n < accepted THEN accepted - n ELSE 0 BY <1>0, LinesAre
      <4> QED BY <2>0, <4>1, <4>2
    <3>2. CASE state = "open"
      <4>1. answer' = Append(answer, Queue!End(Queue!Parked)) /\ buffered' = buffered /\ waiting' = Append(waiting, n + 1)
        BY <2>2, <3>2 DEF Queue!Next
      <4>2. Queue!End(Queue!Parked) = Answered(n + 1, accepted, state) BY <3>1, <3>2 DEF Answered
      <4> QED BY <2>2, <3>2, <4>1, <4>2, AnswersDiffer
    <3>3. CASE state # "open"
      <4> DEFINE how == IF state = "closed" THEN Queue!Done ELSE Queue!Failed
      <4>1. answer' = Append(answer, Queue!End(how)) /\ buffered' = buffered /\ waiting' = waiting
        BY <2>2, <3>3 DEF Queue!Next
      <4>2. Queue!End(how) = Answered(n + 1, accepted, state) BY <3>1, <3>3 DEF Answered
      <4>3. Queue!End(how) \in Queue!Answers BY AnswersDiffer
      <4> QED BY <2>2, <3>3, <4>1, <4>2, <4>3
    <3> QED BY <3>2, <3>3
  <2> QED BY <2>1, <2>2
<1> DEFINE n == Len(answer)
<1>3. n \in Nat /\ accepted \in Nat /\ DOMAIN answer = 1 .. n BY <1>0, LinesAre
<1>4. /\ answer' \in Seq(Queue!Answers) /\ Len(answer') = n + 1 /\ DOMAIN answer' = 1 .. n + 1
      /\ \A i \in 1 .. n : answer'[i] = answer[i]
      /\ answer'[n + 1] = Answered(n + 1, accepted, state)
  <2>1. answer \in Seq(Queue!Answers) BY <1>0 DEF QueueTypes
  <2> QED BY <1>2, <2>1
<1>5. /\ Len(buffered) = IF n < accepted THEN accepted - n ELSE 0
      /\ \A k \in DOMAIN buffered : buffered[k] = n + k
      /\ Len(waiting) = IF state = "open" /\ accepted < n THEN n - accepted ELSE 0
      /\ \A k \in DOMAIN waiting : waiting[k] = accepted + k
  BY <1>0, LinesAre
<1>6. buffered \in Seq(Nat) /\ waiting \in Seq(Nat) BY <1>0 DEF QueueTypes
<1>7. /\ buffered' \in Seq(Nat) /\ waiting' \in Seq(Nat)
      /\ Len(buffered') = IF n + 1 < accepted THEN accepted - (n + 1) ELSE 0
      /\ \A k \in DOMAIN buffered' : buffered'[k] = n + 1 + k
      /\ Len(waiting') = IF state = "open" /\ accepted < n + 1 THEN n + 1 - accepted ELSE 0
      /\ \A k \in DOMAIN waiting' : waiting'[k] = accepted + k
  <2> HIDE DEF n
  <2>1. CASE buffered # <<>> /\ buffered' = Tail(buffered) /\ waiting' = waiting
    <3>1. /\ buffered' \in Seq(Nat) /\ Len(buffered') = Len(buffered) - 1 /\ Len(buffered) > 0
          /\ \A k \in DOMAIN buffered' : k \in Nat /\ k + 1 \in DOMAIN buffered /\ buffered'[k] = buffered[k + 1]
      BY <1>6, <2>1
    <3>2. n < accepted /\ Len(buffered) = accepted - n BY <1>3, <1>5, <3>1
    <3>3. ~(accepted < n + 1) /\ ~(accepted < n) BY <1>3, <3>2
    <3>4. Len(buffered') = IF n + 1 < accepted THEN accepted - (n + 1) ELSE 0 BY <1>3, <3>1, <3>2
    <3>5. \A k \in DOMAIN buffered' : buffered'[k] = n + 1 + k
      <4>1. \A k \in Nat : n + (k + 1) = n + 1 + k BY <1>3
      <4> QED BY <1>5, <3>1, <4>1
    <3> QED BY <1>5, <1>6, <2>1, <3>1, <3>3, <3>4, <3>5
  <2>2. CASE buffered = <<>> /\ state # "open" /\ buffered' = buffered /\ waiting' = waiting
    <3>1. Len(buffered) = 0 /\ DOMAIN buffered = {} BY <2>2
    <3>2. ~(n + 1 < accepted) BY <1>3, <1>5, <3>1
    <3> QED BY <1>5, <1>6, <2>2, <3>1, <3>2
  <2>3. CASE buffered = <<>> /\ state = "open" /\ buffered' = buffered /\ waiting' = Append(waiting, n + 1)
    <3>1. Len(buffered) = 0 /\ DOMAIN buffered = {} BY <2>3
    <3>2. ~(n < accepted) /\ ~(n + 1 < accepted) BY <1>3, <1>5, <3>1
    <3>6. Len(waiting) = IF accepted < n THEN n - accepted ELSE 0 BY <1>5, <2>3
    <3>3. Len(waiting) = n - accepted /\ accepted < n + 1 BY <1>3, <3>2, <3>6
    <3>7. /\ waiting' \in Seq(Nat) /\ Len(waiting') = Len(waiting) + 1 /\ Len(waiting) \in Nat
          /\ DOMAIN waiting' = 1 .. Len(waiting) + 1 /\ DOMAIN waiting = 1 .. Len(waiting)
          /\ \A k \in 1 .. Len(waiting) : waiting'[k] = waiting[k]
          /\ waiting'[Len(waiting) + 1] = n + 1
      <4>1. n + 1 \in Nat BY <1>3
      <4> QED BY <1>6, <2>3, <4>1
    <3>5. n + 1 = accepted + (Len(waiting) + 1) /\ Len(waiting') = n + 1 - accepted BY <1>3, <3>3, <3>7
    <3>8. ASSUME NEW k \in DOMAIN waiting' PROVE waiting'[k] = accepted + k
      <4>1. k \in 1 .. Len(waiting) \/ k = Len(waiting) + 1 BY <3>7
      <4>2. CASE k \in 1 .. Len(waiting) BY <1>5, <3>7, <4>2
      <4>3. CASE k = Len(waiting) + 1 BY <3>5, <3>7, <4>3
      <4> QED BY <4>1, <4>2, <4>3
    <3> QED BY <1>5, <1>6, <2>3, <3>1, <3>2, <3>3, <3>5, <3>7, <3>8
  <2> QED BY <1>2, <2>1, <2>2, <2>3 DEF n
<1>8. Queue!InLine'
  <2>1. Len(answer') = n + 1 /\ accepted' = accepted /\ state' = state BY <1>1, <1>4
  <2> HIDE DEF n
  <2>2. Len(buffered') = IF Len(answer') < accepted' THEN accepted' - Len(answer') ELSE 0 BY <1>7, <2>1
  <2>3. \A k \in DOMAIN buffered' : buffered'[k] = Len(answer') + k BY <1>7, <2>1
  <2>4. Len(waiting') = IF state' = "open" /\ accepted' < Len(answer') THEN Len(answer') - accepted' ELSE 0
    <3>1. CASE state = "open"
      <4>1. Len(waiting') = IF accepted < n + 1 THEN n + 1 - accepted ELSE 0 BY <1>7, <3>1
      <4>2. state' = "open" BY <2>1, <3>1
      <4>3. Len(waiting') = IF accepted' < Len(answer') THEN Len(answer') - accepted' ELSE 0 BY <1>3, <2>1, <4>1
      <4> QED BY <4>2, <4>3
    <3>2. CASE state # "open"
      <4>1. Len(waiting') = 0 BY <1>7, <3>2
      <4>2. state' # "open" BY <2>1, <3>2
      <4> QED BY <4>1, <4>2
    <3> QED BY <3>1, <3>2
  <2>5. \A k \in DOMAIN waiting' : waiting'[k] = accepted' + k BY <1>7, <2>1
  <2> QED BY <2>2, <2>3, <2>4, <2>5, Zenon DEF Queue!InLine
<1>9. Queue!EachReadGetsItsItem'
  <2>1. \A i \in DOMAIN answer : answer[i] = Answered(i, accepted, state) BY <1>0, AnswersStand
  <2>2. \A i \in 1 .. n + 1 : i \in 1 .. n \/ i = n + 1 BY <1>3
  <2>3. \A i \in DOMAIN answer' : answer'[i] = Answered(i, accepted, state) BY <1>3, <1>4, <2>1, <2>2
  <2>4. state' \in {"open", "closed", "failed"} /\ \A i : Answered(i, accepted', state') = Answered(i, accepted, state)
    BY <1>0, <1>1 DEF QueueTypes
  <2> QED BY <1>0, <1>1, <2>3, <2>4, AnswersWillStand
<1>10. Queue!Answers' = Queue!Answers BY DEF Queue!Answers, Queue!Done, Queue!Failed, Queue!Parked
<1> QED BY <1>0, <1>1, <1>4, <1>7, <1>8, <1>9, <1>10 DEF Queue!QueueInductive, QueueTypes

LEMMA Leaves ==
  ASSUME Queue!QueueInductive, Queue!Return
  PROVE  Queue!QueueInductive'
<1>0. QueueTypes BY QueueIs
<1>1. /\ ~left /\ left' = TRUE /\ buffered' = <<>> /\ Queue!AnswerAll(Queue!Done) /\ accepted' = accepted /\ state' = state
  BY DEF Queue!Return
<1>2. /\ waiting' = <<>> /\ answer' \in Seq(Queue!Answers) /\ DOMAIN answer' = DOMAIN answer
      /\ \A i \in DOMAIN answer : answer'[i] = IF answer[i] = Queue!End(Queue!Parked) THEN Queue!End(Queue!Done) ELSE answer[i]
  BY <1>0, <1>1, AllAnswered DEF QueueTypes
<1>3. QueueTypes'
  <2>1. waiting' \in Seq(Nat) /\ buffered' \in Seq(Nat) BY <1>1, <1>2
  <2>2. Queue!Answers' = Queue!Answers BY DEF Queue!Answers, Queue!Done, Queue!Failed, Queue!Parked
  <2> QED BY <1>0, <1>1, <1>2, <2>1, <2>2 DEF QueueTypes
<1>4. Queue!EachReadGetsItsItem'
  <2>1. \A i \in DOMAIN answer : answer'[i] = Answered(i, accepted, state) \/ answer'[i] = Queue!End(Queue!Done)
    BY <1>1, <1>2, AnswersStand
  <2>2. Queue!End(Queue!Done) # Queue!End(Queue!Parked) BY AnswersDiffer
  <2>3. \A i \in DOMAIN answer : answer'[i] # Queue!End(Queue!Parked) BY <1>2, <2>2
  <2>4. state' \in {"open", "closed", "failed"} /\ (\A i : Answered(i, accepted', state') = Answered(i, accepted, state))
        /\ Queue!End(Queue!Done)' = Queue!End(Queue!Done) /\ Queue!End(Queue!Parked)' = Queue!End(Queue!Parked)
    BY <1>0, <1>1 DEF QueueTypes, Queue!End, Queue!Done, Queue!Parked
  <2> QED BY <1>1, <1>2, <2>1, <2>3, <2>4, AnswersWillStand
<1> QED BY <1>1, <1>2, <1>3, <1>4 DEF Queue!QueueInductive, QueueTypes, Queue!InLine

LEMMA QueueStarts ==
  ASSUME Queue!QueueInit
  PROVE  Queue!QueueInductive
<1>1. accepted = 0 /\ buffered = <<>> /\ waiting = <<>> /\ state = "open" /\ answer = <<>> /\ left = FALSE BY DEF Queue!QueueInit
<1>2. Queue!InLine BY <1>1 DEF Queue!InLine
<1>3. Queue!EachReadGetsItsItem BY <1>1 DEF Queue!EachReadGetsItsItem
<1> QED BY <1>1, <1>2, <1>3, EmptyIsSeq DEF Queue!QueueInductive

LEMMA QueueKeeps ==
  ASSUME Queue!QueueInductive, Queue!QueueNext \/ UNCHANGED queueVars
  PROVE  Queue!QueueInductive'
<1>1. CASE Queue!Abort
  <2>1. UNCHANGED <<accepted, buffered, waiting, state, answer, left>> BY <1>1 DEF Queue!Abort
  <2> QED BY <2>1, QueueStays
<1>2. CASE UNCHANGED queueVars
  <2>1. UNCHANGED <<accepted, buffered, waiting, state, answer, left>> BY <1>2 DEF queueVars
  <2> QED BY <2>1, QueueStays
<1> QED BY <1>1, <1>2, Pushed, Ended, Asked, Leaves DEF Queue!QueueNext

QueueScene == scene = "queue" => Queue!QueueInductive

LEMMA QueueSteps ==
  ASSUME [Next]_vars, scene = "queue"
  PROVE  Queue!QueueNext \/ UNCHANGED queueVars
BY DEF Next, vars, MapperOnly, QueueOnly, RingOnly, ConvOnly, LineOnly, ConfigOnly, ContextOnly

LEMMA QueueSceneKept ==
  ASSUME QueueScene, [Next]_vars, scene = "queue"
  PROVE  Queue!QueueInductive'
BY QueueSteps, QueueKeeps DEF QueueScene

\* A reader of a stream gets each value once and in order, whatever of it was pushed
\* before it asked, and its end after the last (async-queue.ts).
THEOREM ReadsGetTheirItems == Spec => [](scene = "queue" => Queue!EachReadGetsItsItem)
<1>1. Init => QueueScene BY QueueStarts DEF Init, QueueScene
<1>2. QueueScene /\ [Next]_vars => QueueScene' BY SceneStays, QueueSceneKept DEF QueueScene
<1>3. QueueScene => (scene = "queue" => Queue!EachReadGetsItsItem) BY DEF QueueScene, Queue!QueueInductive
<1> QED BY <1>1, <1>2, <1>3, PTL DEF Spec

-----------------------------------------------------------------------------
(* The events of a turn.                                                     *)

IsSeq(s) == \E S : s \in Seq(S)

\* At most one event, of one of these types.
From(e, T) == e = <<>> \/ \E r : e = <<r>> /\ r.type \in T

\* x continues o; of these types it has what o has, or r behind them as well.
Continues(o, x) == Len(o) <= Len(x) /\ \A i \in 1 .. Len(o) : x[i] = o[i]
KeepsAll(o, x, T) == Mapper!Of(x, T) = Mapper!Of(o, T) /\ \A i \in Mapper!Of(o, T) : x[i] = o[i]
Gains(o, x, T, r, q) ==
  /\ q \in Nat /\ x[q] = r /\ r.type \in T
  /\ Mapper!Of(x, T) = Mapper!Of(o, T) \union {q}
  /\ \A i \in Mapper!Of(o, T) : i \in Nat /\ i < q /\ x[i] = o[i]

LEMMA OneMore ==
  ASSUME NEW o, IsSeq(o), NEW r
  PROVE  LET x == o \o <<r>> IN
         /\ IsSeq(x) /\ Len(x) = Len(o) + 1 /\ Len(o) \in Nat /\ x[Len(x)] = r
         /\ \A i \in 1 .. Len(o) : x[i] = o[i]
<1> PICK S : o \in Seq(S) BY DEF IsSeq
<1> DEFINE Z == S \union {r}
           x == o \o <<r>>
<1>1. o \in Seq(Z) /\ <<r>> \in Seq(Z) /\ Len(<<r>>) = 1 /\ <<r>>[1] = r OBVIOUS
<1>2. Len(o) \in Nat OBVIOUS
<1>3. x \in Seq(Z) /\ Len(x) = Len(o) + 1 /\ \A i \in 1 .. Len(o) + 1 : x[i] = IF i <= Len(o) THEN o[i] ELSE <<r>>[i - Len(o)]
  BY <1>1, ConcatProperties
<1> HIDE DEF x, Z
<1>4. x[Len(x)] = r BY <1>1, <1>2, <1>3
<1>5. \A i \in 1 .. Len(o) : x[i] = o[i] BY <1>2, <1>3
<1> QED BY <1>2, <1>3, <1>4, <1>5 DEF IsSeq, x

LEMMA NoneMore ==
  ASSUME NEW o, IsSeq(o)
  PROVE  o \o <<>> = o
<1> PICK S : o \in Seq(S) BY DEF IsSeq
<1> QED BY ConcatEmptySeq

LEMMA OfIs == \A o, T : Mapper!Of(o, T) = {i \in 1 .. Len(o) : o[i].type \in T}
BY DEF Mapper!Of

LEMMA OneKeeps ==
  ASSUME NEW o, IsSeq(o), NEW r, NEW T, r.type \notin T
  PROVE  KeepsAll(o, o \o <<r>>, T)
<1> DEFINE x == o \o <<r>>
<1>1. Len(x) = Len(o) + 1 /\ Len(o) \in Nat /\ x[Len(x)] = r /\ \A i \in 1 .. Len(o) : x[i] = o[i] BY OneMore
<1> HIDE DEF x
<1>2. \A i \in 1 .. Len(x) : i \in 1 .. Len(o) \/ i = Len(x) BY <1>1
<1>3. 1 .. Len(o) \subseteq 1 .. Len(x) BY <1>1
<1>4. Mapper!Of(x, T) = Mapper!Of(o, T) BY <1>1, <1>2, <1>3, OfIs
<1> QED BY <1>1, <1>4, OfIs DEF KeepsAll, x

LEMMA OneGains ==
  ASSUME NEW o, IsSeq(o), NEW r, NEW T, r.type \in T
  PROVE  Gains(o, o \o <<r>>, T, r, Len(o) + 1)
<1> DEFINE x == o \o <<r>>
<1>1. Len(x) = Len(o) + 1 /\ Len(o) \in Nat /\ x[Len(x)] = r /\ \A i \in 1 .. Len(o) : x[i] = o[i] BY OneMore
<1> HIDE DEF x
<1>2. \A i \in 1 .. Len(x) : i \in 1 .. Len(o) \/ i = Len(x) BY <1>1
<1>3. 1 .. Len(o) \subseteq 1 .. Len(x) /\ Len(x) \in 1 .. Len(x) BY <1>1
<1>4. Mapper!Of(x, T) = Mapper!Of(o, T) \union {Len(x)} BY <1>1, <1>2, <1>3, OfIs
<1>5. \A i \in 1 .. Len(o) : i \in Nat /\ i < Len(x) BY <1>1
<1> QED BY <1>1, <1>4, <1>5, OfIs DEF Gains, x

\* One part of what a record adds.
LEMMA PartKeeps ==
  ASSUME NEW o, IsSeq(o), NEW e, NEW A, From(e, A), NEW T, A \cap T = {}
  PROVE  KeepsAll(o, o \o e, T)
<1>1. CASE e = <<>> BY <1>1, NoneMore DEF KeepsAll
<1>2. ASSUME NEW r, e = <<r>>, r.type \in A PROVE KeepsAll(o, o \o e, T) BY <1>2, OneKeeps
<1> QED BY <1>1, <1>2 DEF From

LEMMA PartContinues ==
  ASSUME NEW o, IsSeq(o), NEW e, NEW A, From(e, A)
  PROVE  IsSeq(o \o e) /\ Continues(o, o \o e) /\ Len(o) \in Nat
<1>0. Len(o) \in Nat BY OneMore
<1>1. CASE e = <<>> BY <1>0, <1>1, NoneMore DEF Continues
<1>2. ASSUME NEW r, e = <<r>> PROVE IsSeq(o \o e) /\ Continues(o, o \o e)
  <2> DEFINE x == o \o <<r>>
  <2>1. IsSeq(x) /\ Len(x) = Len(o) + 1 /\ \A i \in 1 .. Len(o) : x[i] = o[i] BY OneMore
  <2> HIDE DEF x
  <2>2. Continues(o, x) BY <1>0, <2>1 DEF Continues
  <2> QED BY <1>2, <2>1, <2>2 DEF x
<1> QED BY <1>0, <1>1, <1>2 DEF From

LEMMA KeepsKeeps ==
  ASSUME NEW o, NEW x, NEW y, NEW T, KeepsAll(o, x, T), KeepsAll(x, y, T)
  PROVE  KeepsAll(o, y, T)
BY DEF KeepsAll

LEMMA KeepsGains ==
  ASSUME NEW o, NEW x, NEW y, NEW T, NEW r, NEW q, KeepsAll(o, x, T), Gains(x, y, T, r, q)
  PROVE  Gains(o, y, T, r, q)
BY DEF KeepsAll, Gains

LEMMA GainsKeeps ==
  ASSUME NEW o, NEW x, NEW y, NEW T, NEW r, NEW q, Gains(o, x, T, r, q), KeepsAll(x, y, T)
  PROVE  Gains(o, y, T, r, q)
BY DEF KeepsAll, Gains

LEMMA FewerKeep ==
  ASSUME NEW o, NEW x, NEW T, NEW U, U \subseteq T, KeepsAll(o, x, T)
  PROVE  KeepsAll(o, x, U)
<1>1. \A s : Mapper!Of(s, U) = {i \in Mapper!Of(s, T) : s[i].type \in U} BY OfIs
<1> QED BY <1>1 DEF KeepsAll

LEMMA FewerGain ==
  ASSUME NEW o, NEW x, NEW T, NEW U, NEW r, NEW q, U \subseteq T, Gains(o, x, T, r, q)
  PROVE  IF r.type \in U THEN Gains(o, x, U, r, q) ELSE KeepsAll(o, x, U)
<1>1. \A s : Mapper!Of(s, U) = {i \in Mapper!Of(s, T) : s[i].type \in U} BY OfIs
<1>2. q \notin Mapper!Of(o, T) BY DEF Gains
<1>3. CASE r.type \in U BY <1>1, <1>3 DEF Gains
<1>4. CASE r.type \notin U
  <2>1. /\ x[q] = r /\ Mapper!Of(x, T) = Mapper!Of(o, T) \union {q}
        /\ \A i \in Mapper!Of(o, T) : x[i] = o[i]
    BY DEF Gains
  <2>2. Mapper!Of(x, U) = Mapper!Of(o, U) BY <1>1, <1>4, <2>1, ZenonT(60)
  <2>3. \A i \in Mapper!Of(o, U) : x[i] = o[i] BY <1>1, <2>1
  <2> QED BY <1>4, <2>2, <2>3 DEF KeepsAll
<1> QED BY <1>3, <1>4

\* What a record of pi adds: three parts, of these types.
AddsParts(o, x, a, A, b, B, c, C) == From(a, A) /\ From(b, B) /\ From(c, C) /\ x = ((o \o a) \o b) \o c

LEMMA AddsContinue ==
  ASSUME NEW o, IsSeq(o), NEW x, NEW a, NEW A, NEW b, NEW B, NEW c, NEW C, AddsParts(o, x, a, A, b, B, c, C)
  PROVE  IsSeq(x) /\ Continues(o, x) /\ Len(o) \in Nat /\ Len(x) \in Nat
<1> DEFINE o1 == o \o a
           o2 == o1 \o b
<1>1. IsSeq(o1) /\ Continues(o, o1) /\ Len(o) \in Nat BY PartContinues DEF AddsParts
<1>2. IsSeq(o2) /\ Continues(o1, o2) /\ Len(o1) \in Nat
  <2> HIDE DEF o1
  <2> QED BY <1>1, PartContinues DEF AddsParts
<1>3. IsSeq(x) /\ Continues(o2, x) /\ Len(o2) \in Nat
  <2>1. x = o2 \o c /\ From(c, C) BY DEF AddsParts
  <2> HIDE DEF o2
  <2> QED BY <1>2, <2>1, PartContinues
<1>4. Len(x) \in Nat BY <1>3, OneMore
<1> HIDE DEF o1, o2
<1>5. Continues(o, x) BY <1>1, <1>2, <1>3, <1>4 DEF Continues
<1> QED BY <1>1, <1>3, <1>4, <1>5

LEMMA AddsKeep ==
  ASSUME NEW o, IsSeq(o), NEW x, NEW a, NEW A, NEW b, NEW B, NEW c, NEW C, AddsParts(o, x, a, A, b, B, c, C),
         NEW T, (A \union B \union C) \cap T = {}
  PROVE  KeepsAll(o, x, T)
<1> DEFINE o1 == o \o a
           o2 == o1 \o b
<1>0. A \cap T = {} /\ B \cap T = {} /\ C \cap T = {} OBVIOUS
<1>1. IsSeq(o1) /\ KeepsAll(o, o1, T) BY <1>0, PartContinues, PartKeeps DEF AddsParts
<1>2. IsSeq(o2) /\ KeepsAll(o1, o2, T)
  <2> HIDE DEF o1
  <2> QED BY <1>0, <1>1, PartContinues, PartKeeps DEF AddsParts
<1>3. KeepsAll(o2, x, T)
  <2>1. x = o2 \o c /\ From(c, C) BY DEF AddsParts
  <2> HIDE DEF o2
  <2> QED BY <1>0, <1>2, <2>1, PartKeeps
<1> HIDE DEF o1, o2
<1> QED BY <1>1, <1>2, <1>3, KeepsKeeps

\* The second part is one event of these types, or the third is.
LEMMA SecondGains ==
  ASSUME NEW o, IsSeq(o), NEW x, NEW a, NEW A, NEW r, NEW c, NEW C, NEW T,
         From(a, A), From(c, C), x = ((o \o a) \o <<r>>) \o c, (A \union C) \cap T = {}, r.type \in T
  PROVE  \E q : Gains(o, x, T, r, q)
<1> DEFINE o1 == o \o a
           o2 == o1 \o <<r>>
<1>0. A \cap T = {} /\ C \cap T = {} OBVIOUS
<1>1. IsSeq(o1) /\ KeepsAll(o, o1, T) BY <1>0, PartContinues, PartKeeps
<1>2. IsSeq(o2) /\ Gains(o1, o2, T, r, Len(o1) + 1)
  <2> HIDE DEF o1
  <2> QED BY <1>1, OneMore, OneGains
<1>3. KeepsAll(o2, x, T)
  <2>1. x = o2 \o c OBVIOUS
  <2> HIDE DEF o2
  <2> QED BY <1>0, <1>2, <2>1, PartKeeps
<1> HIDE DEF o2
<1>4. Gains(o1, x, T, r, Len(o1) + 1) BY <1>2, <1>3, GainsKeeps
<1>5. Gains(o, x, T, r, Len(o1) + 1) BY <1>1, <1>4, KeepsGains
<1> QED BY <1>5

LEMMA ThirdGains ==
  ASSUME NEW o, IsSeq(o), NEW x, NEW a, NEW A, NEW b, NEW B, NEW r, NEW T,
         From(a, A), From(b, B), x = ((o \o a) \o b) \o <<r>>, (A \union B) \cap T = {}, r.type \in T
  PROVE  \E q : Gains(o, x, T, r, q)
<1> DEFINE o1 == o \o a
           o2 == o1 \o b
<1>0. A \cap T = {} /\ B \cap T = {} OBVIOUS
<1>1. IsSeq(o1) /\ KeepsAll(o, o1, T) BY <1>0, PartContinues, PartKeeps
<1>2. IsSeq(o2) /\ KeepsAll(o1, o2, T)
  <2> HIDE DEF o1
  <2> QED BY <1>0, <1>1, PartContinues, PartKeeps
<1>3. Gains(o2, x, T, r, Len(o2) + 1)
  <2>1. x = o2 \o <<r>> OBVIOUS
  <2> HIDE DEF o2
  <2> QED BY <1>2, <2>1, OneGains
<1> HIDE DEF o1, o2
<1> QED BY <1>1, <1>2, <1>3, KeepsGains

LEMMA FirstGains ==
  ASSUME NEW o, IsSeq(o), NEW x, NEW r, NEW b, NEW B, NEW c, NEW C, NEW T,
         From(b, B), From(c, C), x = ((o \o <<r>>) \o b) \o c, (B \union C) \cap T = {}, r.type \in T
  PROVE  Gains(o, x, T, r, Len(o) + 1)
<1> DEFINE o1 == o \o <<r>>
           o2 == o1 \o b
<1>0. B \cap T = {} /\ C \cap T = {} OBVIOUS
<1>1. IsSeq(o1) /\ Gains(o, o1, T, r, Len(o) + 1) BY OneMore, OneGains
<1>2. IsSeq(o2) /\ KeepsAll(o1, o2, T)
  <2> HIDE DEF o1
  <2> QED BY <1>0, <1>1, PartContinues, PartKeeps
<1>3. KeepsAll(o2, x, T)
  <2>1. x = o2 \o c OBVIOUS
  <2> HIDE DEF o2
  <2> QED BY <1>0, <1>2, <2>1, PartKeeps
<1> HIDE DEF o1, o2
<1> QED BY <1>1, <1>2, <1>3, GainsKeeps

LEMMA PartTypes ==
  ASSUME NEW o, IsSeq(o), NEW e, NEW A, From(e, A), NEW E, A \subseteq E, \A i \in 1 .. Len(o) : o[i].type \in E
  PROVE  \A i \in 1 .. Len(o \o e) : (o \o e)[i].type \in E
<1>1. CASE e = <<>> BY <1>1, NoneMore
<1>2. ASSUME NEW r, e = <<r>>, r.type \in A PROVE \A i \in 1 .. Len(o \o e) : (o \o e)[i].type \in E
  <2> DEFINE x == o \o <<r>>
  <2>1. Len(x) = Len(o) + 1 /\ Len(o) \in Nat /\ x[Len(x)] = r /\ \A i \in 1 .. Len(o) : x[i] = o[i] BY OneMore
  <2> HIDE DEF x
  <2>2. \A i \in 1 .. Len(x) : i \in 1 .. Len(o) \/ i = Len(x) BY <2>1
  <2>3. \A i \in 1 .. Len(x) : x[i].type \in E BY <1>2, <2>1, <2>2
  <2> QED BY <1>2, <2>3 DEF x
<1> QED BY <1>1, <1>2 DEF From

LEMMA AddsTypes ==
  ASSUME NEW o, IsSeq(o), NEW x, NEW a, NEW A, NEW b, NEW B, NEW c, NEW C, AddsParts(o, x, a, A, b, B, c, C),
         NEW E, A \union B \union C \subseteq E, \A i \in 1 .. Len(o) : o[i].type \in E
  PROVE  \A i \in 1 .. Len(x) : x[i].type \in E
<1> DEFINE o1 == o \o a
           o2 == o1 \o b
<1>0. A \subseteq E /\ B \subseteq E /\ C \subseteq E OBVIOUS
<1>1. IsSeq(o1) /\ \A i \in 1 .. Len(o1) : o1[i].type \in E BY <1>0, PartContinues, PartTypes DEF AddsParts
<1>2. IsSeq(o2) /\ \A i \in 1 .. Len(o2) : o2[i].type \in E
  <2> HIDE DEF o1
  <2> QED BY <1>0, <1>1, PartContinues, PartTypes DEF AddsParts
<1>3. x = o2 \o c /\ From(c, C) BY DEF AddsParts
<1> HIDE DEF o2
<1> QED BY <1>0, <1>2, <1>3, PartTypes

(* The start of the turn. *)

Early == {"usage", "notice", "status"}
Start == [type |-> "turn_start"]

LEMMA StartKept ==
  ASSUME NEW o, IsSeq(o), NEW x, IsSeq(x), Continues(o, x), KeepsAll(o, x, {"turn_start"}), Mapper!StartsOnce(o)
  PROVE  Mapper!StartsOnce(x)
<1> SUFFICES ASSUME NEW i \in Mapper!Of(o, {"turn_start"}), NEW j \in 1 .. (i - 1)
             PROVE  x[j].type \in Early
  BY DEF Mapper!StartsOnce, KeepsAll, Early
<1>1. i \in 1 .. Len(o) /\ Len(o) \in Nat BY OfIs, OneMore
<1>2. j \in 1 .. Len(o) BY <1>1
<1>3. o[j].type \in Early BY DEF Mapper!StartsOnce, Early
<1> QED BY <1>2, <1>3 DEF Continues

LEMMA StartFirst ==
  ASSUME NEW o, IsSeq(o), NEW x, Continues(o, x), Gains(o, x, {"turn_start"}, Start, Len(o) + 1),
         \A i \in 1 .. Len(o) : o[i].type \in Early
  PROVE  Mapper!StartsOnce(x)
<1>1. Len(o) \in Nat BY OneMore
<1>2. Mapper!Of(o, {"turn_start"}) = {} BY OfIs DEF Early
<1>3. Mapper!Of(x, {"turn_start"}) = {Len(o) + 1} BY <1>2 DEF Gains
<1>4. \A j \in 1 .. (Len(o) + 1 - 1) : x[j].type \in Early BY <1>1 DEF Continues
<1> QED BY <1>3, <1>4 DEF Mapper!StartsOnce, Early

(* What each kind of event needs, where no such event is added and where one is. *)

Begun == Mapper!StartsOnce(out) /\ Mapper!Opened
AsksDialogs == Mapper!DialogsDiffer(out) /\ \A i \in Mapper!Of(out, {"ui_request"}) : out[i].id \in 1 .. Len(dialogs)
Tells == Mapper!UsageGrows(out) /\ \A i \in Mapper!Of(out, {"usage"}) : out[i].total \in Nat /\ out[i].total <= emitted
Fills == Mapper!OnlyTheEditFillsTheBuffer /\ (edit # "no" => \A i \in Mapper!Of(out, {"set_buffer"}) : out[i].by \in DOMAIN piTools)
Speaks == Mapper!BlocksEnd(out) /\ Mapper!BlocksAreOver
Works == Mapper!ToolsPair(out) /\ Mapper!ToolsRun
Previews == Mapper!UpdatesAreThrottled /\ Mapper!UpdatesAreDated
ToolTypes == {"tool_start", "tool_update", "tool_end"}

LEMMA AsksStill ==
  ASSUME AsksDialogs, KeepsAll(out, out', {"ui_request"}), Len(dialogs) \in Nat, Len(dialogs)' \in Nat, Len(dialogs) <= Len(dialogs)'
  PROVE  AsksDialogs'
<1>1. Mapper!DialogsDiffer(out') BY DEF AsksDialogs, KeepsAll, Mapper!DialogsDiffer
<1>2. 1 .. Len(dialogs) \subseteq 1 .. Len(dialogs)' OBVIOUS
<1>3. \A i \in Mapper!Of(out', {"ui_request"}) : out'[i].id \in 1 .. Len(dialogs)' BY <1>2 DEF AsksDialogs, KeepsAll
<1> QED BY <1>1, <1>3 DEF AsksDialogs

LEMMA AsksMore ==
  ASSUME AsksDialogs, NEW r, NEW q, Gains(out, out', {"ui_request"}, r, q),
         Len(dialogs) \in Nat, Len(dialogs)' = Len(dialogs) + 1, r.id = Len(dialogs)'
  PROVE  AsksDialogs'
<1> DEFINE D == Mapper!Of(out, {"ui_request"})
           E == Mapper!Of(out', {"ui_request"})
<1>1. E = D \union {q} /\ out'[q] = r /\ \A i \in D : out'[i] = out[i] BY DEF Gains
<1>2. \A i \in D : out[i].id \in 1 .. Len(dialogs) /\ out[i].id # r.id BY DEF AsksDialogs
<1>3. \A i, j \in D : out[i].id = out[j].id => i = j BY DEF AsksDialogs, Mapper!DialogsDiffer
<1> HIDE DEF D, E
<1>4. \A i, j \in E : out'[i].id = out'[j].id => i = j BY <1>1, <1>2, <1>3
<1>5. \A i \in E : out'[i].id \in 1 .. Len(dialogs)' BY <1>1, <1>2
<1> QED BY <1>4, <1>5 DEF AsksDialogs, Mapper!DialogsDiffer, E

LEMMA TellsStill ==
  ASSUME Tells, KeepsAll(out, out', {"usage"}), emitted \in Nat, emitted' \in Nat, emitted <= emitted'
  PROVE  Tells'
<1>1. Mapper!UsageGrows(out') BY DEF Tells, KeepsAll, Mapper!UsageGrows
<1>2. \A i \in Mapper!Of(out', {"usage"}) : out'[i].total \in Nat /\ out'[i].total <= emitted' BY DEF Tells, KeepsAll
<1> QED BY <1>1, <1>2 DEF Tells

LEMMA TellsMore ==
  ASSUME Tells, NEW r, NEW q, Gains(out, out', {"usage"}, r, q), r.total = emitted',
         emitted \in Nat, emitted' \in Nat, emitted <= emitted'
  PROVE  Tells'
<1> DEFINE D == Mapper!Of(out, {"usage"})
           E == Mapper!Of(out', {"usage"})
<1>1. E = D \union {q} /\ out'[q] = r /\ q \in Nat /\ \A i \in D : i \in Nat /\ i < q /\ out'[i] = out[i] BY DEF Gains
<1>2. \A i \in D : out[i].total \in Nat /\ out[i].total <= emitted BY DEF Tells
<1>3. \A i, j \in D : i < j => out[i].total <= out[j].total BY DEF Tells, Mapper!UsageGrows
<1> HIDE DEF D, E
<1>4. \A i, j \in E : i < j => out'[i].total <= out'[j].total
  <2> SUFFICES ASSUME NEW i \in E, NEW j \in E, i < j PROVE out'[i].total <= out'[j].total OBVIOUS
  <2>1. i \in D BY <1>1
  <2>2. CASE j = q BY <1>1, <1>2, <2>1, <2>2
  <2>3. CASE j \in D BY <1>1, <1>3, <2>1, <2>3
  <2> QED BY <1>1, <2>2, <2>3
<1>5. \A i \in E : out'[i].total \in Nat /\ out'[i].total <= emitted' BY <1>1, <1>2
<1> QED BY <1>4, <1>5 DEF Tells, Mapper!UsageGrows, E

LEMMA FillsStill ==
  ASSUME Fills, KeepsAll(out, out', {"set_buffer"}), edit' = edit, DOMAIN piTools \subseteq DOMAIN piTools',
         \A id \in DOMAIN piTools : piTools'[id] = piTools[id]
  PROVE  Fills'
<1>1. CASE edit = "no" BY <1>1 DEF Fills, KeepsAll, Mapper!OnlyTheEditFillsTheBuffer
<1>2. CASE edit # "no"
  <2>1. \A i \in Mapper!Of(out', {"set_buffer"}) : out'[i] = out[i] /\ i \in Mapper!Of(out, {"set_buffer"}) BY DEF KeepsAll
  <2>2. \A i \in Mapper!Of(out, {"set_buffer"}) : out[i].by \in DOMAIN piTools /\ out[i].by \in Ids \ Nested /\ piTools[out[i].by] = edit
    BY <1>2 DEF Fills, Mapper!OnlyTheEditFillsTheBuffer
  <2>3. \A i \in Mapper!Of(out', {"set_buffer"}) :
          out'[i].by \in DOMAIN piTools' /\ out'[i].by \in Ids \ Nested /\ piTools'[out'[i].by] = edit'
    BY <2>1, <2>2
  <2>4. Mapper!OnlyTheEditFillsTheBuffer' BY <1>2, <2>3 DEF Mapper!OnlyTheEditFillsTheBuffer
  <2> QED BY <2>3, <2>4 DEF Fills
<1> QED BY <1>1, <1>2

LEMMA FillsMore ==
  ASSUME Fills, NEW r, NEW q, Gains(out, out', {"set_buffer"}, r, q), edit' = edit, piTools' = piTools,
         IF edit = "no" THEN r.by = "extension"
         ELSE r.by \in Ids \ Nested /\ r.by \in DOMAIN piTools /\ piTools[r.by] = edit
  PROVE  Fills'
<1> DEFINE D == Mapper!Of(out, {"set_buffer"})
           E == Mapper!Of(out', {"set_buffer"})
<1>1. E = D \union {q} /\ out'[q] = r /\ \A i \in D : out'[i] = out[i] BY DEF Gains
<1>2. CASE edit = "no"
  <2>1. \A i \in D : out[i].by = "extension" BY <1>2 DEF Fills, Mapper!OnlyTheEditFillsTheBuffer
  <2> HIDE DEF D, E
  <2>2. \A i \in E : out'[i].by = "extension" BY <1>1, <1>2, <2>1
  <2> QED BY <1>2, <2>2 DEF Fills, Mapper!OnlyTheEditFillsTheBuffer, E
<1>3. CASE edit # "no"
  <2>1. \A i \in D : out[i].by \in DOMAIN piTools /\ out[i].by \in Ids \ Nested /\ piTools[out[i].by] = edit
    BY <1>3 DEF Fills, Mapper!OnlyTheEditFillsTheBuffer
  <2> HIDE DEF D, E
  <2>2. \A i \in E : out'[i].by \in DOMAIN piTools /\ out'[i].by \in Ids \ Nested /\ piTools[out'[i].by] = edit
    BY <1>1, <1>3, <2>1
  <2> QED BY <1>3, <2>2 DEF Fills, Mapper!OnlyTheEditFillsTheBuffer, E
<1> QED BY <1>2, <1>3

LEMMA SpeaksStill ==
  ASSUME Speaks, KeepsAll(out, out', Mapper!Texts), blocks' = blocks, blockCount' = blockCount, piEnded \subseteq piEnded'
  PROVE  Speaks'
<1>1. KeepsAll(out, out', {"text_end"}) BY FewerKeep DEF Mapper!Texts
<1>2. Mapper!BlocksEnd(out') BY <1>1 DEF Speaks, KeepsAll, Mapper!BlocksEnd, Mapper!Texts
<1>3. Mapper!BlocksAreOver' BY <1>1 DEF Speaks, KeepsAll, Mapper!BlocksAreOver
<1> QED BY <1>2, <1>3 DEF Speaks

LEMMA SpeaksAnew ==
  ASSUME Speaks, KeepsAll(out, out', Mapper!Texts), DOMAIN blocks' = {}, blockCount' = blockCount
  PROVE  Speaks'
<1>1. KeepsAll(out, out', {"text_end"}) BY FewerKeep DEF Mapper!Texts
<1>2. Mapper!BlocksEnd(out') BY <1>1 DEF Speaks, KeepsAll, Mapper!BlocksEnd, Mapper!Texts
<1>3. Mapper!BlocksAreOver' BY <1>1 DEF Speaks, KeepsAll, Mapper!BlocksAreOver
<1> QED BY <1>2, <1>3 DEF Speaks

\* The block of an place that has not ended.
BlockIsFound(place) ==
  /\ blocks' = [i \in DOMAIN blocks \cup {place} |-> IF i = place THEN Mapper!Block(place) ELSE blocks[i]]
  /\ blockCount' = IF place \in DOMAIN blocks THEN blockCount ELSE blockCount + 1
  /\ place \notin piEnded /\ piEnded \subseteq piEnded'

LEMMA BlockFound ==
  ASSUME Mapper!BlocksAreOver, blockCount \in Nat, NEW place, BlockIsFound(place)
  PROVE  /\ blockCount' \in Nat /\ blockCount <= blockCount' /\ place \in DOMAIN blocks'
         /\ \A x \in DOMAIN blocks' : blocks'[x] \in Nat /\ blocks'[x] < blockCount'
         /\ \A x, y \in DOMAIN blocks' : blocks'[x] = blocks'[y] => x = y
         /\ \A i \in Mapper!Of(out, {"text_end"}), x \in DOMAIN blocks' : out[i].block = blocks'[x] => x \in piEnded
         /\ blocks'[place] = Mapper!Block(place)
<1>1. /\ \A x \in DOMAIN blocks : blocks[x] \in Nat /\ blocks[x] < blockCount
      /\ \A x, y \in DOMAIN blocks : blocks[x] = blocks[y] => x = y
      /\ \A i \in Mapper!Of(out, {"text_end"}), x \in DOMAIN blocks : out[i].block = blocks[x] => x \in piEnded
      /\ \A i \in Mapper!Of(out, Mapper!Texts) : out[i].block \in Nat /\ out[i].block < blockCount
  BY DEF Mapper!BlocksAreOver
<1>2. Mapper!Of(out, {"text_end"}) \subseteq Mapper!Of(out, Mapper!Texts) BY OfIs DEF Mapper!Texts
<1>3. CASE place \in DOMAIN blocks
  <2>1. blocks' = [i \in DOMAIN blocks |-> blocks[i]] /\ blockCount' = blockCount /\ Mapper!Block(place) = blocks[place]
        /\ DOMAIN blocks \union {place} = DOMAIN blocks
    BY <1>3 DEF BlockIsFound, Mapper!Block
  <2>2. DOMAIN blocks' = DOMAIN blocks /\ \A x \in DOMAIN blocks : blocks'[x] = blocks[x] BY <2>1
  <2> QED BY <1>1, <1>3, <2>1, <2>2
<1>4. CASE place \notin DOMAIN blocks
  <2>1. DOMAIN blocks' = DOMAIN blocks \union {place} /\ blocks'[place] = blockCount /\ blockCount' = blockCount + 1
        /\ (\A x \in DOMAIN blocks : blocks'[x] = blocks[x]) /\ Mapper!Block(place) = blockCount
    BY <1>4 DEF BlockIsFound, Mapper!Block
  <2>2. \A i \in Mapper!Of(out, {"text_end"}) : out[i].block # blockCount BY <1>1, <1>2
  <2>3. \A x \in DOMAIN blocks : blocks[x] # blockCount BY <1>1
  <2> QED BY <1>1, <2>1, <2>2, <2>3
<1> QED BY <1>3, <1>4

LEMMA SpeaksOn ==
  ASSUME Speaks, blockCount \in Nat, NEW place, BlockIsFound(place), KeepsAll(out, out', Mapper!Texts)
  PROVE  Speaks'
<1>1. KeepsAll(out, out', {"text_end"}) BY FewerKeep DEF Mapper!Texts
<1>2. Mapper!BlocksEnd(out') BY <1>1 DEF Speaks, KeepsAll, Mapper!BlocksEnd, Mapper!Texts
<1>3. Mapper!BlocksAreOver BY DEF Speaks
<1>4. \A i \in Mapper!Of(out', Mapper!Texts) : out'[i].block \in Nat /\ out'[i].block < blockCount'
  <2>1. \A i \in Mapper!Of(out, Mapper!Texts) : out[i].block \in Nat /\ out[i].block < blockCount BY <1>3 DEF Mapper!BlocksAreOver
  <2> QED BY <1>3, <2>1, BlockFound DEF KeepsAll
<1>5. \A i \in Mapper!Of(out', {"text_end"}), x \in DOMAIN blocks' : out'[i].block = blocks'[x] => x \in piEnded'
  <2>1. \A i \in Mapper!Of(out', {"text_end"}) : i \in Mapper!Of(out, {"text_end"}) /\ out'[i] = out[i] BY <1>1 DEF KeepsAll
  <2>2. \A i \in Mapper!Of(out, {"text_end"}), x \in DOMAIN blocks' : out[i].block = blocks'[x] => x \in piEnded
    BY <1>3, BlockFound
  <2> QED BY <2>1, <2>2 DEF BlockIsFound
<1>6. Mapper!BlocksAreOver' BY <1>3, <1>4, <1>5, BlockFound DEF Mapper!BlocksAreOver
<1> QED BY <1>2, <1>6 DEF Speaks

LEMMA SpeaksMore ==
  ASSUME Speaks, blockCount \in Nat, NEW place, BlockIsFound(place), NEW r, NEW q, Gains(out, out', Mapper!Texts, r, q),
         r.block = Mapper!Block(place), r.type = "text_end" => place \in piEnded'
  PROVE  Speaks'
<1> DEFINE D == Mapper!Of(out, Mapper!Texts)
           E == Mapper!Of(out', Mapper!Texts)
           DE == Mapper!Of(out, {"text_end"})
           EE == Mapper!Of(out', {"text_end"})
<1>1. E = D \union {q} /\ out'[q] = r /\ q \in Nat /\ \A i \in D : i \in Nat /\ i < q /\ out'[i] = out[i] BY DEF Gains
<1>2. EE = DE \/ (EE = DE \union {q} /\ r.type = "text_end")
  <2>1. IF r.type \in {"text_end"} THEN Gains(out, out', {"text_end"}, r, q) ELSE KeepsAll(out, out', {"text_end"})
    BY FewerGain DEF Mapper!Texts
  <2> QED BY <2>1 DEF Gains, KeepsAll
<1>3. DE \subseteq D BY OfIs DEF Mapper!Texts
<1>4. Mapper!BlocksAreOver BY DEF Speaks
<1>5. \A i \in D : out[i].block \in Nat /\ out[i].block < blockCount BY <1>4 DEF Mapper!BlocksAreOver
<1>6. \A i \in DE, j \in D : i # j /\ out[i].block = out[j].block => j < i BY DEF Speaks, Mapper!BlocksEnd, Mapper!Texts
<1>7. /\ blockCount' \in Nat /\ blockCount <= blockCount' /\ place \in DOMAIN blocks' /\ blocks'[place] = r.block
      /\ r.block \in Nat /\ r.block < blockCount'
      /\ \A i \in DE, x \in DOMAIN blocks' : out[i].block = blocks'[x] => x \in piEnded
      /\ \A x, y \in DOMAIN blocks' : blocks'[x] = blocks'[y] => x = y
  BY <1>4, BlockFound
<1>8. place \notin piEnded /\ piEnded \subseteq piEnded' BY DEF BlockIsFound
<1>9. \A i \in DE : out[i].block # r.block BY <1>7, <1>8
<1> HIDE DEF D, E, DE, EE
<1>10. \A i \in EE, j \in E : i # j /\ out'[i].block = out'[j].block => j < i
  <2> SUFFICES ASSUME NEW i \in EE, NEW j \in E, i # j, out'[i].block = out'[j].block PROVE j < i OBVIOUS
  <2>1. CASE i \in DE
    <3>1. i \in D /\ out'[i] = out[i] BY <1>1, <1>3, <2>1
    <3>2. j # q BY <1>1, <1>9, <2>1, <3>1
    <3>3. j \in D /\ out'[j] = out[j] BY <1>1, <3>2
    <3> QED BY <1>6, <2>1, <3>1, <3>3
  <2>2. CASE i = q BY <1>1, <2>2
  <2> QED BY <1>2, <2>1, <2>2
<1>11. \A i \in E : out'[i].block \in Nat /\ out'[i].block < blockCount' BY <1>1, <1>5, <1>7
<1>12. \A i \in EE, x \in DOMAIN blocks' : out'[i].block = blocks'[x] => x \in piEnded'
  <2> SUFFICES ASSUME NEW i \in EE, NEW x \in DOMAIN blocks', out'[i].block = blocks'[x] PROVE x \in piEnded' OBVIOUS
  <2>1. CASE i \in DE BY <1>1, <1>3, <1>7, <1>8, <2>1
  <2>2. CASE i = q /\ r.type = "text_end"
    <3>1. blocks'[x] = blocks'[place] BY <1>1, <1>7, <2>2
    <3>2. x = place BY <1>7, <3>1
    <3> QED BY <2>2, <3>2
  <2> QED BY <1>2, <2>1, <2>2
<1>13. Mapper!BlocksAreOver' BY <1>4, <1>11, <1>12, BlockFound DEF Mapper!BlocksAreOver, E, EE
<1>14. Mapper!BlocksEnd(out') BY <1>10 DEF Mapper!BlocksEnd, E, EE, Mapper!Texts
<1> QED BY <1>13, <1>14 DEF Speaks

(* Tools. *)

PiToolsGrow == DOMAIN piTools \subseteq DOMAIN piTools' /\ \A id \in DOMAIN piTools : piTools'[id] = piTools[id]

LEMMA WorksStill ==
  ASSUME Works, KeepsAll(out, out', ToolTypes), PiToolsGrow,
         DOMAIN running' = DOMAIN running, \A id \in DOMAIN running : running'[id].name = running[id].name
  PROVE  Works'
<1>1. KeepsAll(out, out', {"tool_start"}) /\ KeepsAll(out, out', {"tool_end"}) BY FewerKeep DEF ToolTypes
<1>2. Mapper!ToolsPair(out') BY <1>1 DEF Works, KeepsAll, Mapper!ToolsPair, ToolTypes
<1>3. Mapper!ToolsRun' BY <1>1 DEF Works, KeepsAll, Mapper!ToolsRun, PiToolsGrow
<1> QED BY <1>2, <1>3 DEF Works

\* The three kinds of tool events, as sets of places.
Paired(o, D, S, E) ==
  /\ D = Mapper!Of(o, ToolTypes) /\ S = Mapper!Of(o, {"tool_start"}) /\ E = Mapper!Of(o, {"tool_end"})
  /\ S \subseteq D /\ E \subseteq D /\ \A i \in S : i \notin E
  /\ \A i \in D : i \in S <=> o[i].type = "tool_start"

LEMMA PairedIs ==
  ASSUME NEW o
  PROVE  Paired(o, Mapper!Of(o, ToolTypes), Mapper!Of(o, {"tool_start"}), Mapper!Of(o, {"tool_end"}))
BY OfIs DEF Paired, ToolTypes

Pair(o, D, S, E) ==
  \A i \in D :
    IF i \in S THEN \A j \in S : o[j].id = o[i].id => i = j
    ELSE (\E j \in S : j < i /\ o[j].id = o[i].id) /\ \A j \in E : o[j].id = o[i].id => i <= j

LEMMA PairIs ==
  ASSUME NEW o, NEW D, NEW S, NEW E, Paired(o, D, S, E)
  PROVE  Mapper!ToolsPair(o) <=> Pair(o, D, S, E)
BY DEF Paired, Pair, Mapper!ToolsPair, ToolTypes

ToolAdded(r, q) ==
  /\ Gains(out, out', ToolTypes, r, q)
  /\ IF r.type = "tool_start" THEN Gains(out, out', {"tool_start"}, r, q) ELSE KeepsAll(out, out', {"tool_start"})
  /\ IF r.type = "tool_end" THEN Gains(out, out', {"tool_end"}, r, q) ELSE KeepsAll(out, out', {"tool_end"})

LEMMA ToolIsAdded ==
  ASSUME NEW r, NEW q, Gains(out, out', ToolTypes, r, q)
  PROVE  ToolAdded(r, q)
BY FewerGain DEF ToolAdded, ToolTypes

\* What a tool event adds to them.
PairAdded(o, x, D, S, E, D2, S2, E2, q, r) ==
  /\ Pair(o, D, S, E) /\ S \subseteq D /\ E \subseteq D
  /\ \A i \in D : i \in Nat /\ i < q /\ x[i] = o[i]
  /\ q \in Nat /\ x[q] = r /\ D2 = D \union {q}
  /\ \/ S2 = S \union {q} /\ E2 = E /\ \A j \in S : o[j].id # r.id
     \/ /\ S2 = S /\ (E2 = E \/ E2 = E \union {q})
        /\ (\E j \in S : o[j].id = r.id) /\ \A j \in E : o[j].id # r.id

LEMMA PairMore ==
  ASSUME NEW o, NEW x, NEW D, NEW S, NEW E, NEW D2, NEW S2, NEW E2, NEW q, NEW r,
         PairAdded(o, x, D, S, E, D2, S2, E2, q, r)
  PROVE  Pair(x, D2, S2, E2)
<1> USE DEF PairAdded
<1> SUFFICES ASSUME NEW i \in D2
             PROVE  IF i \in S2 THEN \A j \in S2 : x[j].id = x[i].id => i = j
                    ELSE (\E j \in S2 : j < i /\ x[j].id = x[i].id) /\ \A j \in E2 : x[j].id = x[i].id => i <= j
  BY DEF Pair
<1>0. q \notin D /\ q \notin S /\ S \subseteq S2 OBVIOUS
<1>1. CASE i \in S2
  <2> SUFFICES ASSUME NEW j \in S2, x[j].id = x[i].id PROVE i = j BY <1>1
  <2>1. CASE i \in S /\ j \in S BY <2>1 DEF Pair
  <2>2. CASE i = q \/ j = q BY <1>0, <1>1, <2>2
  <2> QED BY <1>1, <2>1, <2>2
<1>2. CASE i \notin S2
  <2>1. CASE i \in D
    <3>1. i \notin S BY <1>0, <1>2
    <3>2. PICK j \in S : j < i /\ o[j].id = o[i].id BY <2>1, <3>1 DEF Pair
    <3>3. \A k \in E : o[k].id = o[i].id => i <= k BY <2>1, <3>1 DEF Pair
    <3>4. j \in S2 /\ x[j].id = x[i].id BY <1>0, <2>1, <3>2
    <3>5. \A k \in E2 : x[k].id = x[i].id => i <= k
      <4> TAKE k \in E2
      <4> HAVE x[k].id = x[i].id
      <4>1. CASE k \in E BY <2>1, <3>3, <4>1
      <4>2. CASE k = q BY <2>1, <4>2
      <4> QED BY <4>1, <4>2
    <3> QED BY <1>2, <3>2, <3>4, <3>5
  <2>2. CASE i = q
    <3>1. S2 = S BY <1>2, <2>2
    <3>2. PICK j \in S : o[j].id = r.id BY <1>0, <3>1
    <3>3. j < i /\ x[j].id = x[i].id BY <2>2, <3>2
    <3>4. \A k \in E2 : x[k].id = x[i].id => i <= k
      <4> TAKE k \in E2
      <4> HAVE x[k].id = x[i].id
      <4>1. CASE k \in E BY <1>0, <2>2, <3>1, <4>1
      <4>2. CASE k = q BY <2>2, <4>2
      <4> QED BY <1>0, <3>1, <4>1, <4>2
    <3> QED BY <1>2, <3>1, <3>2, <3>3, <3>4
  <2> QED BY <2>1, <2>2
<1> QED BY <1>1, <1>2

LEMMA RunIs ==
  ASSUME Works, NEW S, NEW E, S = Mapper!Of(out, {"tool_start"}), E = Mapper!Of(out, {"tool_end"})
  PROVE  /\ \A i \in DOMAIN running : \E j \in S : out[j].id = i
         /\ \A i \in E : out[i].id \notin DOMAIN running
         /\ \A i \in S : out[i].id \in DOMAIN piTools
         /\ \A i \in E : out[i].id \in DOMAIN piTools
         /\ \A i \in DOMAIN running : i \in DOMAIN piTools /\ running[i].name = piTools[i]
<1> DEFINE D == Mapper!Of(out, ToolTypes)
<1>1. Paired(out, D, S, E) BY PairedIs
<1>2. Pair(out, D, S, E) BY <1>1, PairIs DEF Works
<1>3. \A i \in S : out[i].id \in DOMAIN piTools BY DEF Works, Mapper!ToolsRun
<1>4. ASSUME NEW i \in E PROVE out[i].id \in DOMAIN piTools
  <2>1. i \in D /\ i \notin S BY <1>1 DEF Paired
  <2>2. PICK j \in S : out[j].id = out[i].id BY <1>2, <2>1 DEF Pair
  <2> QED BY <1>3, <2>2
<1> QED BY <1>3, <1>4 DEF Works, Mapper!ToolsRun

\* A tool event keeps the pairs in order when it is the first of its tool, or of one that runs.
LEMMA PairsGrow ==
  ASSUME Works, NEW r, NEW q, Gains(out, out', ToolTypes, r, q),
         IF r.type = "tool_start" THEN r.id \notin DOMAIN piTools ELSE r.id \in DOMAIN running
  PROVE  Mapper!ToolsPair(out')
<1> DEFINE D == Mapper!Of(out, ToolTypes)
           S == Mapper!Of(out, {"tool_start"})
           E == Mapper!Of(out, {"tool_end"})
           D2 == Mapper!Of(out', ToolTypes)
           S2 == Mapper!Of(out', {"tool_start"})
           E2 == Mapper!Of(out', {"tool_end"})
<1>1. Paired(out, D, S, E) /\ Paired(out', D2, S2, E2) BY PairedIs
<1>2. Pair(out, D, S, E) BY <1>1, PairIs DEF Works
<1>3. ToolAdded(r, q) BY ToolIsAdded
<1>4. D2 = D \union {q} /\ q \in Nat /\ out'[q] = r /\ \A i \in D : i \in Nat /\ i < q /\ out'[i] = out[i] BY DEF Gains
<1>5. IF r.type = "tool_start" THEN S2 = S \union {q} ELSE S2 = S BY <1>3 DEF ToolAdded, Gains, KeepsAll
<1>6. IF r.type = "tool_end" THEN E2 = E \union {q} ELSE E2 = E BY <1>3 DEF ToolAdded, Gains, KeepsAll
<1>7. /\ \A i \in DOMAIN running : \E j \in S : out[j].id = i
      /\ \A i \in E : out[i].id \notin DOMAIN running
      /\ \A i \in S : out[i].id \in DOMAIN piTools
  BY RunIs
<1>8. S \subseteq D /\ E \subseteq D BY <1>1 DEF Paired
<1> HIDE DEF D, S, E, D2, S2, E2
<1>9. Pair(out', D2, S2, E2)
  <2>1. CASE r.type = "tool_start"
    <3>0. r.type # "tool_end" BY <2>1
    <3>1. S2 = S \union {q} /\ E2 = E /\ \A j \in S : out[j].id # r.id BY <1>5, <1>6, <1>7, <2>1, <3>0
    <3>2. PairAdded(out, out', D, S, E, D2, S2, E2, q, r) BY <1>2, <1>4, <1>8, <3>1 DEF PairAdded
    <3> QED BY <3>2, PairMore
  <2>2. CASE r.type # "tool_start"
    <3>1. S2 = S /\ (E2 = E \/ E2 = E \union {q}) /\ (\E j \in S : out[j].id = r.id) /\ \A j \in E : out[j].id # r.id
      BY <1>5, <1>6, <1>7, <2>2
    <3>2. PairAdded(out, out', D, S, E, D2, S2, E2, q, r) BY <1>2, <1>4, <1>8, <3>1 DEF PairAdded
    <3> QED BY <3>2, PairMore
  <2> QED BY <2>1, <2>2
<1> QED BY <1>1, <1>9, PairIs

LEMMA WorksStart ==
  ASSUME Works, NEW id, NEW name, NEW r, NEW q, Gains(out, out', ToolTypes, r, q), r.type = "tool_start", r.id = id,
         id \notin DOMAIN piTools, PiToolsGrow, DOMAIN piTools' = DOMAIN piTools \union {id}, piTools'[id] = name,
         DOMAIN running' = DOMAIN running \union {id}, running'[id].name = name,
         \A i \in DOMAIN running : running'[i] = running[i]
  PROVE  Works'
<1> DEFINE S == Mapper!Of(out, {"tool_start"})
           E == Mapper!Of(out, {"tool_end"})
           S2 == Mapper!Of(out', {"tool_start"})
           E2 == Mapper!Of(out', {"tool_end"})
<1>1. Mapper!ToolsPair(out') BY PairsGrow
<1>2. ToolAdded(r, q) BY ToolIsAdded
<1>3. S2 = S \union {q} /\ out'[q] = r /\ (\A i \in S : out'[i] = out[i]) /\ E2 = E /\ \A i \in E : out'[i] = out[i]
  BY <1>2 DEF ToolAdded, Gains, KeepsAll
<1>4. /\ \A i \in DOMAIN running : \E j \in S : out[j].id = i
      /\ \A i \in E : out[i].id \notin DOMAIN running
      /\ \A i \in S : out[i].id \in DOMAIN piTools
      /\ \A i \in E : out[i].id \in DOMAIN piTools
      /\ \A i \in DOMAIN running : i \in DOMAIN piTools /\ running[i].name = piTools[i]
  BY RunIs
<1> HIDE DEF S, E, S2, E2
<1>5. \A i \in DOMAIN running' : \E j \in S2 : out'[j].id = i BY <1>3, <1>4
<1>6. \A i \in E2 : out'[i].id \notin DOMAIN running' BY <1>3, <1>4
<1>7. \A i \in S2 : out'[i].id \in DOMAIN piTools' BY <1>3, <1>4
<1>8. \A i \in DOMAIN running' : i \in DOMAIN piTools' /\ running'[i].name = piTools'[i]
  <2> TAKE i \in DOMAIN running'
  <2>1. CASE i = id BY <2>1
  <2>2. CASE i \in DOMAIN running BY <1>4, <2>2 DEF PiToolsGrow
  <2> QED BY <2>1, <2>2
<1> QED BY <1>1, <1>5, <1>6, <1>7, <1>8 DEF Works, Mapper!ToolsRun, S2, E2

LEMMA WorksUpdate ==
  ASSUME Works, NEW r, NEW q, Gains(out, out', ToolTypes, r, q), r.type = "tool_update", r.id \in DOMAIN running,
         piTools' = piTools,
         DOMAIN running' = DOMAIN running, \A id \in DOMAIN running : running'[id].name = running[id].name
  PROVE  Works'
<1>1. Mapper!ToolsPair(out') BY PairsGrow
<1>2. ToolAdded(r, q) BY ToolIsAdded
<1>3. KeepsAll(out, out', {"tool_start"}) /\ KeepsAll(out, out', {"tool_end"}) BY <1>2 DEF ToolAdded
<1>4. Mapper!ToolsRun' BY <1>3 DEF Works, KeepsAll, Mapper!ToolsRun
<1> QED BY <1>1, <1>4 DEF Works

LEMMA WorksEnd ==
  ASSUME Works, NEW id, NEW r, NEW q, Gains(out, out', ToolTypes, r, q), r.type = "tool_end", r.id = id,
         id \in DOMAIN running, piTools' = piTools,
         DOMAIN running' = DOMAIN running \ {id}, \A i \in DOMAIN running' : running'[i] = running[i]
  PROVE  Works'
<1> DEFINE S == Mapper!Of(out, {"tool_start"})
           E == Mapper!Of(out, {"tool_end"})
           S2 == Mapper!Of(out', {"tool_start"})
           E2 == Mapper!Of(out', {"tool_end"})
<1>1. Mapper!ToolsPair(out') BY PairsGrow
<1>2. ToolAdded(r, q) BY ToolIsAdded
<1>3. E2 = E \union {q} /\ out'[q] = r /\ (\A i \in E : out'[i] = out[i]) /\ S2 = S /\ \A i \in S : out'[i] = out[i]
  BY <1>2 DEF ToolAdded, Gains, KeepsAll
<1>4. /\ \A i \in DOMAIN running : \E j \in S : out[j].id = i
      /\ \A i \in E : out[i].id \notin DOMAIN running
      /\ \A i \in S : out[i].id \in DOMAIN piTools
      /\ \A i \in DOMAIN running : i \in DOMAIN piTools /\ running[i].name = piTools[i]
  BY RunIs
<1> HIDE DEF S, E, S2, E2
<1>5. \A i \in DOMAIN running' : \E j \in S2 : out'[j].id = i BY <1>3, <1>4
<1>6. \A i \in E2 : out'[i].id \notin DOMAIN running' BY <1>3, <1>4
<1>7. \A i \in S2 : out'[i].id \in DOMAIN piTools' BY <1>3, <1>4
<1>8. \A i \in DOMAIN running' : i \in DOMAIN piTools' /\ running'[i].name = piTools'[i] BY <1>4
<1> QED BY <1>1, <1>5, <1>6, <1>7, <1>8 DEF Works, Mapper!ToolsRun, S2, E2

\* Previews.  A tool that runs on is at least as late as before; another is new.
RunsLater ==
  \A id \in DOMAIN running' :
    /\ running'[id].at \in 0 .. now'
    /\ \/ /\ id \in DOMAIN running /\ running[id].at <= running'[id].at
          /\ running[id].updated => running'[id].updated
       \/ \A i \in Mapper!Of(out, {"tool_update"}) : out[i].id # id

LEMMA PreviewsStill ==
  ASSUME Previews, KeepsAll(out, out', {"tool_update"}), RunsLater
  PROVE  Previews'
<1> DEFINE D == Mapper!Of(out, {"tool_update"})
           E == Mapper!Of(out', {"tool_update"})
<1>1. E = D /\ \A i \in D : out'[i] = out[i] BY DEF KeepsAll
<1>2. \A i \in D : out[i].at \in Nat
                   /\ (out[i].id \in DOMAIN running => running[out[i].id].updated /\ out[i].at <= running[out[i].id].at)
  BY DEF Previews, Mapper!UpdatesAreDated
<1>3. \A id \in DOMAIN running : running[id].at \in Int BY DEF Previews, Mapper!UpdatesAreDated
<1>4. Mapper!UpdatesAreThrottled' BY <1>1 DEF Previews, Mapper!UpdatesAreThrottled
<1>5. ASSUME NEW i \in E, out'[i].id \in DOMAIN running'
      PROVE  running'[out'[i].id].updated /\ out'[i].at <= running'[out'[i].id].at
  <2> DEFINE id == out[i].id
  <2>1. i \in D /\ out'[i] = out[i] /\ out[i].at \in Nat BY <1>1, <1>2
  <2>2. id \in DOMAIN running /\ running[id].at <= running'[id].at /\ running'[id].at \in Int
        /\ (running[id].updated => running'[id].updated)
    BY <1>5, <2>1 DEF RunsLater
  <2>3. running[id].updated /\ out[i].at <= running[id].at /\ running[id].at \in Int BY <1>2, <1>3, <2>1, <2>2
  <2> QED BY <2>1, <2>2, <2>3
<1>6. \A i \in E : out'[i].at \in Nat BY <1>1, <1>2
<1>7. \A id \in DOMAIN running' : running'[id].at \in 0 .. now' BY DEF RunsLater
<1> QED BY <1>4, <1>5, <1>6, <1>7 DEF Previews, Mapper!UpdatesAreDated

LEMMA PreviewsMore ==
  ASSUME Previews, NEW id \in DOMAIN running, NEW r, NEW q, Gains(out, out', {"tool_update"}, r, q),
         r.id = id, r.at = now, now \in Nat, now' = now, Throttle \in Nat,
         ~(running[id].updated /\ now - running[id].at < Throttle),
         DOMAIN running' = DOMAIN running, running'[id].updated = TRUE, running'[id].at = now,
         \A i \in DOMAIN running : i # id => running'[i] = running[i]
  PROVE  Previews'
<1> DEFINE D == Mapper!Of(out, {"tool_update"})
           E == Mapper!Of(out', {"tool_update"})
<1>1. E = D \union {q} /\ out'[q] = r /\ q \in Nat /\ \A i \in D : i \in Nat /\ i < q /\ out'[i] = out[i] BY DEF Gains
<1>2. \A i \in D : out[i].at \in Nat
                   /\ (out[i].id \in DOMAIN running => running[out[i].id].updated /\ out[i].at <= running[out[i].id].at)
  BY DEF Previews, Mapper!UpdatesAreDated
<1>3. \A i \in DOMAIN running : running[i].at \in 0 .. now BY DEF Previews, Mapper!UpdatesAreDated
<1>4. \A i, j \in D : i < j /\ out[i].id = out[j].id => out[j].at - out[i].at >= Throttle
  BY DEF Previews, Mapper!UpdatesAreThrottled
<1>5. ASSUME NEW i \in D, out[i].id = id PROVE now - out[i].at >= Throttle /\ out[i].at <= now
  <2> DEFINE at == running[id].at
  <2>1. out[i].at \in Nat /\ running[id].updated /\ out[i].at <= at BY <1>2, <1>5
  <2>2. at \in 0 .. now BY <1>3
  <2>3. ~(now - at < Throttle) BY <2>1
  <2> HIDE DEF at
  <2> QED BY <2>1, <2>2, <2>3
<1> HIDE DEF D, E
<1>6. \A i, j \in E : i < j /\ out'[i].id = out'[j].id => out'[j].at - out'[i].at >= Throttle
  <2> SUFFICES ASSUME NEW i \in E, NEW j \in E, i < j, out'[i].id = out'[j].id PROVE out'[j].at - out'[i].at >= Throttle OBVIOUS
  <2>1. i \in D /\ out'[i] = out[i] BY <1>1
  <2>2. CASE j = q
    <3>1. out[i].id = id /\ out'[j].at = now BY <1>1, <2>1, <2>2
    <3> QED BY <1>5, <2>1, <3>1
  <2>3. CASE j \in D BY <1>1, <1>4, <2>1, <2>3
  <2> QED BY <1>1, <2>2, <2>3
<1>7. ASSUME NEW i \in E
      PROVE  /\ out'[i].at \in Nat
             /\ out'[i].id \in DOMAIN running' => running'[out'[i].id].updated /\ out'[i].at <= running'[out'[i].id].at
  <2>1. CASE i = q BY <1>1, <2>1
  <2>2. CASE i \in D
    <3>1. out'[i] = out[i] BY <1>1, <2>2
    <3>2. CASE out[i].id = id BY <1>2, <1>5, <2>2, <3>1, <3>2
    <3>3. CASE out[i].id # id BY <1>2, <2>2, <3>1, <3>3
    <3> QED BY <3>2, <3>3
  <2> QED BY <1>1, <2>1, <2>2
<1>8. \A i \in DOMAIN running' : running'[i].at \in 0 .. now' BY <1>3
<1>9. Mapper!UpdatesAreThrottled' BY <1>6 DEF Mapper!UpdatesAreThrottled, E
<1>10. Mapper!UpdatesAreDated' BY <1>7, <1>8 DEF Mapper!UpdatesAreDated, E
<1> QED BY <1>9, <1>10 DEF Previews

(* The sum over a sequence.  The library's induction theorems take an operator; that *)
(* a set of numbers has a least member does not.                                         *)

LEMMA NatMin ==
  ASSUME NEW T, T \subseteq Nat, T # {}
  PROVE  \E x \in T : \A y \in T : x <= y
<1> DEFINE R == OpToRel(<, Nat)
<1>1. \E x \in T : \A y \in T : ~(<<y, x>> \in R) BY WFMin, NatLessThanWellFounded
<1>2. \A x, y \in Nat : y < x => <<y, x>> \in R BY DEF OpToRel
<1> HIDE DEF R
<1>3. PICK x \in T : \A y \in T : ~(<<y, x>> \in R) BY <1>1
<1>4. ASSUME NEW y \in T PROVE x <= y
  <2>1. x \in Nat /\ y \in Nat OBVIOUS
  <2>2. ~(y < x) BY <1>2, <1>3, <2>1
  <2> QED BY <2>1, <2>2
<1> QED BY <1>4

LEMMA NatInd ==
  ASSUME NEW T, T \subseteq Nat, 0 \in T, \A n \in T : n + 1 \in T
  PROVE  T = Nat
<1> SUFFICES ASSUME Nat \ T # {} PROVE FALSE OBVIOUS
<1>1. PICK x \in Nat \ T : \A y \in Nat \ T : x <= y BY NatMin
<1>2. x # 0 /\ x - 1 \in Nat OBVIOUS
<1>3. x - 1 \in T BY <1>1, <1>2
<1> QED BY <1>2, <1>3

Sums(s, g) ==
  /\ g \in [0 .. Len(s) -> Nat] /\ g[0] = 0
  /\ \A i \in 1 .. Len(s) : g[i] = s[i] + g[i - 1]

LEMMA SumsExist ==
  ASSUME NEW s \in Seq(Nat)
  PROVE  \E g : Sums(s, g)
<1> DEFINE P(n, g) == g \in [0 .. n -> Nat] /\ g[0] = 0 /\ \A i \in 1 .. n : g[i] = s[i] + g[i - 1]
           T == {n \in Nat : n <= Len(s) => \E g : P(n, g)}
<1>0. Len(s) \in Nat /\ \A i \in 1 .. Len(s) : s[i] \in Nat OBVIOUS
<1>1. 0 \in T
  <2>1. P(0, [i \in 0 .. 0 |-> 0]) OBVIOUS
  <2> HIDE DEF P
  <2> QED BY <2>1
<1>2. ASSUME NEW n \in T PROVE n + 1 \in T
  <2>0. n \in Nat /\ n + 1 \in Nat OBVIOUS
  <2>9. n <= Len(s) => \E g : P(n, g)
    <3> HIDE DEF P
    <3> QED BY <1>2
  <2> SUFFICES ASSUME n + 1 <= Len(s) PROVE \E g : P(n + 1, g)
    <3> HIDE DEF P
    <3> QED BY <2>0
  <2>8. n <= Len(s) BY <1>0, <2>0
  <2>1. PICK g : P(n, g) BY <2>8, <2>9
  <2> DEFINE h == [i \in 0 .. n + 1 |-> IF i = n + 1 THEN s[n + 1] + g[n] ELSE g[i]]
  <2>2. n + 1 \in 1 .. Len(s) /\ s[n + 1] \in Nat /\ g[n] \in Nat BY <1>0, <2>0, <2>1
  <2>3. h \in [0 .. n + 1 -> Nat] BY <2>0, <2>1, <2>2
  <2>4. h[0] = 0 BY <2>0, <2>1
  <2>5. \A i \in 1 .. n + 1 : h[i] = s[i] + h[i - 1]
    <3> TAKE i \in 1 .. n + 1
    <3>1. CASE i = n + 1 BY <2>0, <2>2, <3>1
    <3>2. CASE i # n + 1
      <4>1. i \in 1 .. n /\ i - 1 \in 0 .. n + 1 /\ i - 1 # n + 1 /\ i \in 0 .. n + 1 BY <2>0, <3>2
      <4>2. h[i] = g[i] /\ h[i - 1] = g[i - 1] BY <3>2, <4>1
      <4> QED BY <2>1, <4>1, <4>2
    <3> QED BY <3>1, <3>2
  <2> HIDE DEF h
  <2> QED BY <2>3, <2>4, <2>5
<1>3. T \subseteq Nat OBVIOUS
<1> HIDE DEF T
<1>4. T = Nat BY <1>1, <1>2, <1>3, NatInd
<1> USE DEF T
<1>5. Len(s) \in T BY <1>0, <1>4
<1>6. PICK g : P(Len(s), g) BY <1>0, <1>5
<1> QED BY <1>6 DEF Sums

LEMMA SumsAgree ==
  ASSUME NEW s \in Seq(Nat), NEW t \in Seq(Nat), NEW g, NEW h, Sums(s, g), Sums(t, h),
         NEW n \in Nat, n <= Len(s), n <= Len(t), \A i \in 1 .. n : s[i] = t[i]
  PROVE  \A i \in 0 .. n : g[i] = h[i]
<1> DEFINE T == {k \in Nat : k <= n => g[k] = h[k]}
<1>0. Len(s) \in Nat /\ Len(t) \in Nat OBVIOUS
<1>1. 0 \in T BY DEF Sums
<1>2. ASSUME NEW k \in T PROVE k + 1 \in T
  <2> SUFFICES ASSUME k + 1 <= n PROVE g[k + 1] = h[k + 1] OBVIOUS
  <2>1. k \in Nat /\ g[k] = h[k] OBVIOUS
  <2>2. k + 1 \in 1 .. Len(s) /\ k + 1 \in 1 .. Len(t) /\ k + 1 \in 1 .. n /\ (k + 1) - 1 = k BY <1>0, <2>1
  <2>3. g[k + 1] = s[k + 1] + g[k] /\ h[k + 1] = t[k + 1] + h[k] BY <2>2 DEF Sums
  <2> QED BY <2>1, <2>2, <2>3
<1>3. T \subseteq Nat OBVIOUS
<1> HIDE DEF T
<1>4. T = Nat BY <1>1, <1>2, <1>3, NatInd
<1> QED BY <1>4 DEF T

LEMMA SumIs ==
  ASSUME NEW s \in Seq(Nat), NEW g, Sums(s, g)
  PROVE  Mapper!SumUsage(s) = g[Len(s)] /\ Mapper!SumUsage(s) \in Nat
<1> DEFINE F(f) == [i \in 0 .. Len(s) |-> IF i = 0 THEN 0 ELSE s[i] + f[i - 1]]
           sum == CHOOSE f : f = F(f)
<1>0. Len(s) \in Nat OBVIOUS
<1>1. g = F(g) BY <1>0 DEF Sums
<1> HIDE DEF F
<1>2. sum = F(sum) BY <1>1
<1>3. Mapper!SumUsage(s) = sum[Len(s)] BY Zenon DEF Mapper!SumUsage, F
<1> HIDE DEF sum
<1>4. sum = [i \in 0 .. Len(s) |-> IF i = 0 THEN 0 ELSE s[i] + sum[i - 1]] BY <1>2 DEF F
<1> DEFINE T == {k \in Nat : k <= Len(s) => sum[k] = g[k]}
<1>5. 0 \in T BY <1>0, <1>4 DEF Sums
<1>6. ASSUME NEW k \in T PROVE k + 1 \in T
  <2> SUFFICES ASSUME k + 1 <= Len(s) PROVE sum[k + 1] = g[k + 1] OBVIOUS
  <2>1. k \in Nat /\ sum[k] = g[k] BY <1>0
  <2>2. k + 1 \in 1 .. Len(s) /\ k + 1 \in 0 .. Len(s) /\ k + 1 # 0 /\ (k + 1) - 1 = k BY <1>0, <2>1
  <2>3. sum[k + 1] = s[k + 1] + sum[k] BY <1>4, <2>2
  <2>4. g[k + 1] = s[k + 1] + g[k] BY <2>2 DEF Sums
  <2> QED BY <2>1, <2>3, <2>4
<1>7. T \subseteq Nat OBVIOUS
<1> HIDE DEF T
<1>8. T = Nat BY <1>5, <1>6, <1>7, NatInd
<1>9. sum[Len(s)] = g[Len(s)] BY <1>0, <1>8 DEF T
<1>10. g[Len(s)] \in Nat BY <1>0 DEF Sums
<1> QED BY <1>3, <1>9, <1>10

\* Two sequences that have g and h for sums and agree up to n agree in the sums.
LEMMA SumsSame ==
  ASSUME NEW s \in Seq(Nat), NEW t \in Seq(Nat), NEW g, NEW h, Sums(s, g), Sums(t, h),
         NEW n \in Nat, n <= Len(s), n <= Len(t), \A i \in 1 .. n : s[i] = t[i]
  PROVE  g[n] = h[n]
<1>1. \A i \in 0 .. n : g[i] = h[i] BY SumsAgree, SMTT(40)
<1> QED BY <1>1

LEMMA SumStep ==
  ASSUME NEW s, NEW g, Sums(s, g), NEW i \in 1 .. Len(s)
  PROVE  g[i] = s[i] + g[i - 1]
BY DEF Sums

LEMMA SumMore ==
  ASSUME NEW s \in Seq(Nat)
  PROVE  Mapper!SumUsage(Append(s, 0)) = Mapper!SumUsage(s) /\ Mapper!SumUsage(s) \in Nat
<1> DEFINE t == Append(s, 0)
           n == Len(s)
<1>1. t \in Seq(Nat) /\ Len(t) = n + 1 /\ n \in Nat /\ t[n + 1] = 0 /\ \A i \in 1 .. n : s[i] = t[i] OBVIOUS
<1>2. PICK g : Sums(s, g) BY SumsExist
<1> HIDE DEF t
<1>3. PICK h : Sums(t, h) BY <1>1, SumsExist
<1>6. Mapper!SumUsage(s) = g[n] /\ Mapper!SumUsage(t) = h[Len(t)] /\ Mapper!SumUsage(s) \in Nat BY <1>1, <1>2, <1>3, SumIs
<1>4. g[n] = h[n]
  <2>1. n <= Len(s) OBVIOUS
  <2> HIDE DEF n
  <2>2. n <= Len(t) BY <1>1
  <2> QED BY <1>1, <1>2, <1>3, <2>1, <2>2, SumsSame
<1> HIDE DEF n
<1>5. h[n + 1] = 0 + h[n]
  <2> DEFINE k == n + 1
  <2>1. k \in 1 .. Len(t) /\ k - 1 = n /\ t[k] = 0 BY <1>1
  <2> HIDE DEF k
  <2>2. h[k] = t[k] + h[k - 1] BY <1>3, <2>1, SumStep, Zenon
  <2> QED BY <2>1, <2>2 DEF k
<1> QED BY <1>1, <1>4, <1>5, <1>6 DEF t

LEMMA SumLast ==
  ASSUME NEW s \in Seq(Nat), s # <<>>, NEW v \in Nat, NEW t, t = [s EXCEPT ![Len(s)] = v]
  PROVE  /\ t \in Seq(Nat) /\ Len(t) = Len(s) /\ t[Len(t)] = v /\ t # <<>>
         /\ Mapper!SumUsage(t) = Mapper!SumUsage(s) - s[Len(s)] + v
<1> DEFINE n == Len(s)
           w == t
<1>0. n \in Nat /\ n >= 1 /\ s[n] \in Nat OBVIOUS
<1>1. w \in Seq(Nat) /\ Len(w) = n /\ w[n] = v /\ \A i \in 1 .. n - 1 : s[i] = w[i] BY <1>0
<1> HIDE DEF w
<1>2. PICK g : Sums(s, g) BY SumsExist
<1>3. PICK h : Sums(w, h) BY <1>1, SumsExist
<1>6. Mapper!SumUsage(s) = g[n] /\ Mapper!SumUsage(w) = h[n] BY <1>1, <1>2, <1>3, SumIs
<1>4. g[n - 1] = h[n - 1]
  <2> DEFINE m == n - 1
  <2>1. m <= Len(s) BY <1>0
  <2> HIDE DEF n
  <2>2. m \in Nat /\ m <= Len(w) /\ \A i \in 1 .. m : s[i] = w[i] BY <1>0, <1>1
  <2> HIDE DEF m
  <2>3. g[m] = h[m] BY <1>1, <1>2, <1>3, <2>1, <2>2, SumsSame
  <2> QED BY <2>3 DEF m
<1>5. h[n] = w[n] + h[n - 1] /\ g[n] = s[n] + g[n - 1] /\ g[n - 1] \in Nat
  <2>1. n \in 1 .. Len(s) /\ n - 1 \in 0 .. Len(s) BY <1>0
  <2>2. g[n] = s[n] + g[n - 1] /\ g[n - 1] \in Nat BY <1>2, <2>1 DEF Sums
  <2> HIDE DEF n
  <2>3. n \in 1 .. Len(w) BY <1>0, <1>1
  <2>4. h[n] = w[n] + h[n - 1] BY <1>3, <2>3, SumStep
  <2> QED BY <2>2, <2>4
<1>7. w # <<>> BY <1>0, <1>1
<1>8. Mapper!SumUsage(w) = Mapper!SumUsage(s) - s[n] + v
  <2> HIDE DEF n
  <2> QED BY <1>0, <1>1, <1>4, <1>5, <1>6
<1> QED BY <1>1, <1>7, <1>8 DEF w

(* What a record adds to what was emitted. *)

LEMMA PartIsSeq ==
  ASSUME NEW e, NEW A, From(e, A)
  PROVE  IsSeq(e)
<1>1. CASE e = <<>>
  <2>1. <<>> \in Seq({}) OBVIOUS
  <2> QED BY <1>1, <2>1 DEF IsSeq
<1>2. ASSUME NEW r, e = <<r>> PROVE IsSeq(e)
  <2>1. <<r>> \in Seq({r}) OBVIOUS
  <2> QED BY <1>2, <2>1 DEF IsSeq
<1> QED BY <1>1, <1>2 DEF From

LEMMA AddsOne ==
  ASSUME NEW o, IsSeq(o), NEW x, NEW a, NEW A, From(a, A), x = o \o a
  PROVE  AddsParts(o, x, a, A, <<>>, {}, <<>>, {})
<1>1. IsSeq(x) BY PartContinues
<1>2. x \o <<>> = x BY <1>1, NoneMore
<1> QED BY <1>2 DEF AddsParts, From

LEMMA AddsThree ==
  ASSUME NEW o, IsSeq(o), NEW x, NEW a, NEW A, NEW b, NEW B, NEW c, NEW C, From(a, A), From(b, B), From(c, C),
         x = o \o ((a \o b) \o c)
  PROVE  AddsParts(o, x, a, A, b, B, c, C)
<1>1. IsSeq(a) /\ IsSeq(b) /\ IsSeq(c) BY PartIsSeq
<1>2. PICK S1, S2, S3, S4 : o \in Seq(S1) /\ a \in Seq(S2) /\ b \in Seq(S3) /\ c \in Seq(S4) BY <1>1 DEF IsSeq
<1> DEFINE Z == S1 \union S2 \union S3 \union S4
<1>3. S1 \subseteq Z /\ S2 \subseteq Z /\ S3 \subseteq Z /\ S4 \subseteq Z OBVIOUS
<1> HIDE DEF Z
<1>4. o \in Seq(Z) /\ a \in Seq(Z) /\ b \in Seq(Z) /\ c \in Seq(Z) BY <1>2, <1>3
<1>5. a \o b \in Seq(Z) /\ o \o a \in Seq(Z) BY <1>4, ConcatProperties
<1>6. (o \o a) \o b = o \o (a \o b) BY <1>4, ConcatAssociative
<1>7. ASSUME NEW d \in Seq(Z) PROVE (o \o d) \o c = o \o (d \o c)
  <2>1. o \in Seq(Z) /\ c \in Seq(Z) BY <1>4
  <2> QED BY <2>1, ConcatAssociative
<1> QED BY <1>5, <1>6, <1>7 DEF AddsParts

LEMMA AddsTwo ==
  ASSUME NEW o, IsSeq(o), NEW x, NEW a, NEW A, NEW b, NEW B, From(a, A), From(b, B), x = o \o (a \o b)
  PROVE  AddsParts(o, x, a, A, b, B, <<>>, {})
<1>1. IsSeq(a) /\ IsSeq(b) BY PartIsSeq
<1>2. IsSeq(a \o b)
  <2>1. PICK S2, S3 : a \in Seq(S2) /\ b \in Seq(S3) BY <1>1 DEF IsSeq
  <2> DEFINE Z == S2 \union S3
  <2>2. a \in Seq(Z) /\ b \in Seq(Z) BY <2>1
  <2> HIDE DEF Z
  <2>3. a \o b \in Seq(Z) BY <2>2, ConcatProperties
  <2> QED BY <2>3 DEF IsSeq
<1>3. (a \o b) \o <<>> = a \o b BY <1>2, NoneMore
<1>4. From(<<>>, {}) BY DEF From
<1> QED BY <1>3, <1>4, AddsThree

(* The state before the turn settles, and after it. *)

Tools == [name : {"suggest", "commit"}, updated : BOOLEAN, at : Nat]

MapperTyped ==
  /\ announced \in BOOLEAN /\ now \in Nat /\ blockCount \in Nat
  /\ previous \in Nat /\ response \in Nat /\ total \in Nat /\ emitted \in Nat /\ emitted <= total
  /\ IsSeq(out) /\ IsSeq(dialogs) /\ Len(dialogs) \in Nat
  /\ running \in [DOMAIN running -> Tools] /\ DOMAIN piTools \subseteq Ids

Live ==
  /\ ~settled /\ settled \in BOOLEAN /\ MapperTyped
  /\ Begun /\ AsksDialogs /\ Tells /\ Fills /\ Speaks /\ Works /\ Previews
  /\ Mapper!Of(out, {"settled"}) = {} /\ Mapper!Figures

Over ==
  /\ settled /\ settled \in BOOLEAN /\ MapperTyped
  /\ Begun /\ AsksDialogs /\ Tells /\ Fills /\ Mapper!BlocksEnd(out) /\ Mapper!ToolsPair(out) /\ Mapper!UpdatesAreThrottled
  /\ Mapper!SettlesOnce(out)

MapperHolds == Live \/ Over

LEMMA MapperIs ==
  ASSUME MapperHolds
  PROVE  Mapper!MapperInductive /\ Mapper!UsageIsTheSum
<1>1. Mapper!Of(out, {"settled"}) = {} => Mapper!SettlesOnce(out) BY DEF Mapper!SettlesOnce
<1>2. {previous, response, total, emitted, blockCount} \subseteq Nat BY DEF MapperHolds, Live, Over, MapperTyped
<1>3. Mapper!Contract
  BY <1>1 DEF MapperHolds, Live, Over, Begun, AsksDialogs, Tells, Speaks, Works, Mapper!Contract, Mapper!KeepsContract
<1>4. announced \in BOOLEAN /\ settled \in BOOLEAN /\ now \in Nat /\ emitted <= total
  BY DEF MapperHolds, Live, Over, MapperTyped
<1>9. running \in [DOMAIN running -> Tools] /\ DOMAIN piTools \subseteq Ids BY DEF MapperHolds, Live, Over, MapperTyped
<1>5. Mapper!Opened /\ Mapper!OnlyTheEditFillsTheBuffer /\ Mapper!UpdatesAreThrottled
  BY DEF MapperHolds, Live, Over, Begun, Fills, Previews
<1>6. /\ \A i \in Mapper!Of(out, {"usage"}) : out[i].total \in Nat /\ out[i].total <= emitted
      /\ \A i \in Mapper!Of(out, {"ui_request"}) : out[i].id \in 1 .. Len(dialogs)
      /\ edit # "no" => \A i \in Mapper!Of(out, {"set_buffer"}) : out[i].by \in DOMAIN piTools
  BY DEF MapperHolds, Live, Over, Tells, AsksDialogs, Fills
<1>7. ~settled => /\ Mapper!Of(out, {"settled"}) = {} /\ Mapper!Figures
                  /\ Mapper!BlocksAreOver /\ Mapper!ToolsRun /\ Mapper!UpdatesAreDated
  BY DEF MapperHolds, Live, Over, Speaks, Works, Previews
<1>8. Mapper!UsageIsTheSum BY <1>4, <1>7 DEF Mapper!Figures, Mapper!UsageIsTheSum
<1> QED BY <1>2, <1>3, <1>4, <1>5, <1>6, <1>7, <1>8, <1>9 DEF Mapper!MapperInductive, Tools

(* The start of the turn. *)

LEMMA BeginIs ==
  /\ From(Mapper!Begin, {"turn_start"})
  /\ announced => Mapper!Begin = <<>>
  /\ ~announced => Mapper!Begin = <<Start>>
  /\ Start.type = "turn_start"
<1>1. CASE announced
  <2>1. Mapper!Begin = <<>> BY <1>1 DEF Mapper!Begin
  <2> QED BY <1>1, <2>1 DEF From, Start
<1>2. CASE ~announced BY <1>2 DEF Mapper!Begin, From, Start
<1> QED BY <1>1, <1>2 DEF Start

\* A record that begins the turn.
LEMMA BegunMore ==
  ASSUME IsSeq(out), Begun, ~settled, NEW b, NEW B, NEW c, NEW C, NEW A,
         A = {"turn_start"}, AddsParts(out, out', Mapper!Begin, A, b, B, c, C), (B \union C) \cap {"turn_start"} = {}, announced' = TRUE
  PROVE  Begun'
<1>1. IsSeq(out') /\ Continues(out, out') BY AddsContinue
<1>2. Mapper!StartsOnce(out')
  <2>1. CASE announced
    <3>1. AddsParts(out, out', Mapper!Begin, {}, b, B, c, C) BY <2>1, BeginIs DEF AddsParts, From
    <3>2. KeepsAll(out, out', {"turn_start"}) BY <3>1, AddsKeep
    <3> QED BY <1>1, <3>2, StartKept DEF Begun
  <2>2. CASE ~announced
    <3>1. \A i \in 1 .. Len(out) : out[i].type \in Early BY <2>2 DEF Begun, Mapper!Opened, Early
    <3>2. Gains(out, out', {"turn_start"}, Start, Len(out) + 1)
      <4>1. Mapper!Begin = <<Start>> /\ Start.type \in {"turn_start"} BY <2>2, BeginIs
      <4> QED BY <4>1, FirstGains DEF AddsParts
    <3> QED BY <1>1, <3>1, <3>2, StartFirst
  <2> QED BY <2>1, <2>2
<1> QED BY <1>2 DEF Begun, Mapper!Opened

\* One that does not.
LEMMA BegunStill ==
  ASSUME IsSeq(out), Begun, ~settled, NEW a, NEW A, NEW b, NEW B, NEW c, NEW C, AddsParts(out, out', a, A, b, B, c, C),
         (A \union B \union C) \cap {"turn_start"} = {}, announced' = announced,
         announced \/ A \union B \union C \subseteq Early
  PROVE  Begun'
<1>1. IsSeq(out') /\ Continues(out, out') BY AddsContinue
<1>2. KeepsAll(out, out', {"turn_start"}) BY AddsKeep
<1>3. Mapper!StartsOnce(out') BY <1>1, <1>2, StartKept DEF Begun
<1>4. ~announced => \A i \in 1 .. Len(out') : out'[i].type \in Early
  <2> SUFFICES ASSUME ~announced PROVE \A i \in 1 .. Len(out') : out'[i].type \in Early OBVIOUS
  <2>1. \A i \in 1 .. Len(out) : out[i].type \in Early BY DEF Begun, Mapper!Opened, Early
  <2> QED BY <2>1, AddsTypes
<1> QED BY <1>3, <1>4 DEF Begun, Mapper!Opened, Early

\* Nothing that is emitted before the end is the end.
LEMMA NotSettled ==
  ASSUME NEW a, NEW A, NEW b, NEW B, NEW c, NEW C, IsSeq(out), AddsParts(out, out', a, A, b, B, c, C),
         (A \union B \union C) \cap {"settled"} = {}, Mapper!Of(out, {"settled"}) = {}
  PROVE  Mapper!Of(out', {"settled"}) = {}
<1>1. KeepsAll(out, out', {"settled"}) BY AddsKeep
<1> QED BY <1>1 DEF KeepsAll

(* The figures. *)

LEMMA UsageIs ==
  ASSUME NEW u, NEW final, Mapper!CountUsage(u, final)
  PROVE  \/ Mapper!UsageEvents(u, final) = <<>> /\ emitted' = emitted
         \/ Mapper!UsageEvents(u, final) = <<[type |-> "usage", total |-> emitted']>>
BY DEF Mapper!CountUsage, Mapper!UsageEvents

LEMMA Figured ==
  ASSUME MapperTyped, Mapper!Figures, NEW u \in Nat, NEW final, Mapper!CountUsage(u, final), piMessage = "assistant",
         previous' = previous, piUsage' = [piUsage EXCEPT ![Len(piUsage)] = Mapper!Larger(@, u)]
  PROVE  /\ Mapper!Figures'
         /\ response' \in Nat /\ total' \in Nat /\ emitted' \in Nat /\ emitted <= emitted' /\ emitted' <= total'
<1> DEFINE n == Len(piUsage)
           v == Mapper!Larger(piUsage[n], u)
<1>1. piUsage \in Seq(Nat) /\ piUsage # <<>> /\ response = piUsage[n] /\ total = previous + response
      /\ total = Mapper!SumUsage(piUsage) BY DEF Mapper!Figures
<1>2. previous \in Nat /\ response \in Nat /\ emitted \in Nat /\ emitted <= total BY DEF MapperTyped
<1>3. v \in Nat /\ v = Mapper!Counted(u) /\ response <= v /\ (u = 0 => v = response)
  BY <1>1, <1>2 DEF Mapper!Larger, Mapper!Counted
<1>4. piUsage' = [piUsage EXCEPT ![Len(piUsage)] = v] BY <1>1
<1> HIDE DEF v
<1>5. /\ piUsage' \in Seq(Nat) /\ piUsage' # <<>> /\ piUsage'[Len(piUsage')] = v
      /\ Mapper!SumUsage(piUsage') = Mapper!SumUsage(piUsage) - piUsage[n] + v
  BY <1>1, <1>3, <1>4, SumLast
<1> HIDE DEF n
<1>6. response' = v /\ total' = previous + v /\ (emitted' = emitted \/ emitted' = previous + v)
  <2>1. CASE u = 0
    <3>1. response' = response /\ total' = total /\ emitted' = emitted BY <2>1 DEF Mapper!CountUsage
    <3> QED BY <1>1, <1>3, <2>1, <3>1
  <2>2. CASE u # 0 BY <1>3, <2>2 DEF Mapper!CountUsage
  <2> QED BY <2>1, <2>2
<1>7. total' = Mapper!SumUsage(piUsage') BY <1>1, <1>2, <1>3, <1>5, <1>6, SMTT(40)
<1>8. response' \in Nat /\ total' \in Nat /\ emitted' \in Nat /\ emitted <= emitted' /\ emitted' <= total'
  <2>1. total = previous + response /\ v \in Nat /\ response <= v BY <1>1, <1>3
  <2>2. CASE emitted' = emitted BY <1>2, <1>6, <2>1, <2>2
  <2>3. CASE emitted' = previous + v BY <1>2, <1>6, <2>1, <2>3
  <2> QED BY <1>6, <2>2, <2>3
<1>9. Mapper!SumUsage(piUsage)' = Mapper!SumUsage(piUsage') BY DEF Mapper!SumUsage
<1>10. Mapper!Figures' BY <1>5, <1>6, <1>7, <1>9 DEF Mapper!Figures
<1> QED BY <1>8, <1>10

LEMMA FromOne ==
  ASSUME NEW r, NEW A, r.type \in A
  PROVE  From(<<r>>, A)
BY DEF From

LEMMA FromNone == From(<<>>, {})
BY DEF From

LEMMA ZeroIsLast ==
  ASSUME NEW s \in Seq(Nat), NEW t, t = Append(s, 0)
  PROVE  t \in Seq(Nat) /\ t # <<>> /\ t[Len(t)] = 0
OBVIOUS

\* The events this step adds are of these types.
Adding(U) == \E a, A, b, B, c, C : AddsParts(out, out', a, A, b, B, c, C) /\ A \union B \union C \subseteq U

LEMMA AddingKeeps ==
  ASSUME IsSeq(out), NEW U, Adding(U)
  PROVE  IsSeq(out') /\ \A T : U \cap T = {} => KeepsAll(out, out', T)
<1>1. PICK a, A, b, B, c, C : AddsParts(out, out', a, A, b, B, c, C) /\ A \union B \union C \subseteq U BY DEF Adding
<1>2. IsSeq(out') BY <1>1, AddsContinue
<1>3. ASSUME NEW T, U \cap T = {} PROVE KeepsAll(out, out', T)
  <2>1. (A \union B \union C) \cap T = {} BY <1>1, <1>3
  <2> QED BY <1>1, <2>1, AddsKeep
<1> QED BY <1>2, <1>3

LEMMA AddingNothing ==
  ASSUME IsSeq(out), out' = out
  PROVE  AddsParts(out, out', <<>>, {}, <<>>, {}, <<>>, {}) /\ Adding({})
<1>1. From(<<>>, {}) BY DEF From
<1>2. out' = out \o <<>> BY NoneMore
<1>3. AddsParts(out, out', <<>>, {}, <<>>, {}, <<>>, {}) BY <1>1, <1>2, AddsOne
<1> QED BY <1>3 DEF Adding

LEMMA AddingIs ==
  ASSUME NEW a, NEW A, NEW b, NEW B, NEW c, NEW C, AddsParts(out, out', a, A, b, B, c, C), NEW U, A \union B \union C \subseteq U
  PROVE  Adding(U)
BY DEF Adding

LEMMA RowsAre ==
  ASSUME MapperTyped
  PROVE  \A id \in DOMAIN running : running[id].name \in {"suggest", "commit"} /\ running[id].updated \in BOOLEAN /\ running[id].at \in Nat
BY DEF MapperTyped, Tools

\* What a step leaves alone.
LEMMA Calm ==
  ASSUME Live, NEW U, Adding(U)
  PROVE  /\ IsSeq(out')
         /\ U \cap {"ui_request"} = {} /\ dialogs' = dialogs => AsksDialogs'
         /\ U \cap {"usage"} = {} /\ emitted' = emitted => Tells'
         /\ U \cap {"set_buffer"} = {} /\ edit' = edit /\ PiToolsGrow => Fills'
         /\ U \cap Mapper!Texts = {} /\ blocks' = blocks /\ blockCount' = blockCount /\ piEnded' = piEnded => Speaks'
         /\ U \cap ToolTypes = {} /\ running' = running /\ piTools' = piTools => Works'
         /\ U \cap {"tool_update"} = {} /\ running' = running /\ now' = now => Previews'
         /\ U \cap {"settled"} = {} => Mapper!Of(out', {"settled"}) = {}
<1>1. IsSeq(out') /\ \A T : U \cap T = {} => KeepsAll(out, out', T) BY AddingKeeps DEF Live, MapperTyped
<1>2. AsksDialogs /\ Tells /\ Fills /\ Speaks /\ Works /\ Previews /\ Mapper!Of(out, {"settled"}) = {} BY DEF Live
<1>3. Len(dialogs) \in Nat /\ emitted \in Nat BY DEF Live, MapperTyped
<1>4. U \cap {"ui_request"} = {} /\ dialogs' = dialogs => AsksDialogs' BY <1>1, <1>2, <1>3, AsksStill
<1>5. U \cap {"usage"} = {} /\ emitted' = emitted => Tells' BY <1>1, <1>2, <1>3, TellsStill
<1>6. U \cap {"set_buffer"} = {} /\ edit' = edit /\ PiToolsGrow => Fills' BY <1>1, <1>2, FillsStill DEF PiToolsGrow
<1>7. U \cap Mapper!Texts = {} /\ blocks' = blocks /\ blockCount' = blockCount /\ piEnded' = piEnded => Speaks'
  BY <1>1, <1>2, SpeaksStill
<1>8. U \cap ToolTypes = {} /\ running' = running /\ piTools' = piTools => Works'
  BY <1>1, <1>2, WorksStill DEF PiToolsGrow
<1>9. ASSUME U \cap {"tool_update"} = {}, running' = running, now' = now PROVE Previews'
  <2>1. \A id \in DOMAIN running : running[id].at \in 0 .. now BY <1>2 DEF Previews, Mapper!UpdatesAreDated
  <2>2. \A id \in DOMAIN running : running[id].at <= running[id].at BY RowsAre DEF Live
  <2>3. RunsLater BY <1>9, <2>1, <2>2 DEF RunsLater
  <2> QED BY <1>1, <1>2, <1>9, <2>3, PreviewsStill
<1>10. U \cap {"settled"} = {} => Mapper!Of(out', {"settled"}) = {} BY <1>1, <1>2 DEF KeepsAll
<1> QED BY <1>1, <1>4, <1>5, <1>6, <1>7, <1>8, <1>9, <1>10

LEMMA FiguresStill ==
  ASSUME Mapper!Figures, previous' = previous, response' = response, total' = total, piUsage' = piUsage, piMessage' = piMessage
  PROVE  Mapper!Figures'
<1>1. Mapper!SumUsage(piUsage)' = Mapper!SumUsage(piUsage) BY DEF Mapper!SumUsage
<1> QED BY <1>1 DEF Mapper!Figures

LEMMA TypedStill ==
  ASSUME MapperTyped, IsSeq(out'), announced' \in BOOLEAN, now' = now, blockCount' = blockCount, previous' = previous,
         response' = response, total' = total, emitted' = emitted, dialogs' = dialogs, running' = running, piTools' = piTools
  PROVE  MapperTyped'
BY DEF MapperTyped, IsSeq

\* The start of pi's run, a retry and the like.
LEMMA StartsLive ==
  ASSUME Live, Mapper!AgentStart, settled' = settled, UNCHANGED <<edit, now, piMessage, piEnded, piTools, piUsage>>
  PROVE  Live'
<1>1. IsSeq(out) /\ Begun /\ ~settled BY DEF Live, MapperTyped
<1>2. AddsParts(out, out', Mapper!Begin, {"turn_start"}, <<>>, {}, <<>>, {}) BY <1>1, BeginIs, AddsOne DEF Mapper!AgentStart, Mapper!Emit
<1>3. Adding({"turn_start"}) BY <1>2, AddingIs
<1>4. Begun' BY <1>1, <1>2, BegunMore DEF Mapper!AgentStart
<1>5. /\ AsksDialogs' /\ Tells' /\ Fills' /\ Speaks' /\ Works' /\ Previews' /\ IsSeq(out') /\ Mapper!Of(out', {"settled"}) = {}
  BY <1>3, Calm DEF Mapper!AgentStart, PiToolsGrow, Mapper!Texts, ToolTypes
<1>6. Mapper!Figures' BY FiguresStill DEF Live, Mapper!AgentStart
<1>7. MapperTyped' BY <1>5, TypedStill DEF Live, Mapper!AgentStart
<1> QED BY <1>4, <1>5, <1>6, <1>7 DEF Live

LEMMA ReportsLive ==
  ASSUME Live, NEW begins \in BOOLEAN, Mapper!Report(IF begins THEN "retry" ELSE "notice", begins),
         settled' = settled, UNCHANGED <<edit, now, piMessage, piEnded, piTools, piUsage>>
  PROVE  Live'
<1> DEFINE r == [type |-> IF begins THEN "retry" ELSE "notice"]
           U == {"turn_start", "retry", "notice"}
<1>1. IsSeq(out) /\ Begun /\ ~settled BY DEF Live, MapperTyped
<1>0. announced \in BOOLEAN BY DEF Live, MapperTyped
<1>2. Adding(U) /\ Begun' /\ announced' \in BOOLEAN
  <2>1. CASE begins
    <3>1. out' = out \o (Mapper!Begin \o <<[type |-> "retry"]>>) /\ announced' = TRUE
      BY <2>1 DEF Mapper!Report, Mapper!Emit, Mapper!Events
    <3>2. From(<<[type |-> "retry"]>>, {"retry"}) BY FromOne
    <3>3. AddsParts(out, out', Mapper!Begin, {"turn_start"}, <<[type |-> "retry"]>>, {"retry"}, <<>>, {})
      BY <1>1, <3>1, <3>2, BeginIs, AddsTwo
    <3>4. Begun' BY <1>1, <3>1, <3>3, BegunMore
    <3>5. Adding(U) BY <3>3, AddingIs
    <3> QED BY <3>1, <3>4, <3>5
  <2>2. CASE ~begins
    <3>1. out' = out \o (<<>> \o <<[type |-> "notice"]>>) /\ announced' = announced
      BY <1>0, <2>2 DEF Mapper!Report, Mapper!Emit, Mapper!Events
    <3>2. From(<<[type |-> "notice"]>>, {"notice"}) /\ From(<<>>, {}) BY FromOne, FromNone
    <3>3. AddsParts(out, out', <<>>, {}, <<[type |-> "notice"]>>, {"notice"}, <<>>, {}) BY <1>1, <3>1, <3>2, AddsTwo
    <3>4. Begun' BY <1>1, <3>1, <3>3, BegunStill DEF Early
    <3>5. Adding(U) BY <3>3, AddingIs
    <3> QED BY <1>0, <3>1, <3>4, <3>5
  <2> QED BY <2>1, <2>2
<1>5. /\ AsksDialogs' /\ Tells' /\ Fills' /\ Speaks' /\ Works' /\ Previews' /\ IsSeq(out') /\ Mapper!Of(out', {"settled"}) = {}
  BY <1>2, Calm DEF Mapper!Report, PiToolsGrow, Mapper!Texts, ToolTypes
<1>6. Mapper!Figures' BY FiguresStill DEF Live, Mapper!Report
<1>7. MapperTyped' BY <1>2, <1>5, TypedStill DEF Live, Mapper!Report
<1> QED BY <1>1, <1>2, <1>5, <1>6, <1>7 DEF Live

LEMMA MessagesStartLive ==
  ASSUME Live, NEW role \in {"assistant", "user"}, Mapper!MessageStart(role), settled' = settled,
         UNCHANGED <<edit, now, piTools>>, piMessage' = role, piEnded' = {},
         piUsage' = IF role = "assistant" THEN Append(piUsage, 0) ELSE piUsage
  PROVE  Live'
<1>1. IsSeq(out) /\ Begun /\ ~settled /\ Speaks /\ MapperTyped /\ Mapper!Figures BY DEF Live, MapperTyped
<1>2. out' = out /\ DOMAIN blocks' = {} BY DEF Mapper!MessageStart, Mapper!ForgetBlocks
<1>3. AddsParts(out, out', <<>>, {}, <<>>, {}, <<>>, {}) /\ Adding({}) BY <1>1, <1>2, AddingNothing
<1>4. Begun' BY <1>1, <1>3, BegunStill DEF Mapper!MessageStart
<1>5. AsksDialogs' /\ Tells' /\ Fills' /\ Works' /\ Previews' /\ IsSeq(out') /\ Mapper!Of(out', {"settled"}) = {}
  BY <1>3, Calm DEF Mapper!MessageStart, PiToolsGrow
<1>6. Speaks'
  <2>1. KeepsAll(out, out', Mapper!Texts) BY <1>2 DEF KeepsAll
  <2> QED BY <1>1, <1>2, <2>1, SpeaksAnew DEF Mapper!MessageStart
<1>7. Mapper!Figures' /\ previous' \in Nat /\ response' \in Nat
  <2>1. /\ piUsage \in Seq(Nat) /\ total = previous + response /\ total = Mapper!SumUsage(piUsage) /\ total' = total
        /\ response = IF piUsage = <<>> THEN 0 ELSE piUsage[Len(piUsage)]
        /\ total \in Nat /\ previous \in Nat /\ response \in Nat
    BY <1>1 DEF Mapper!Figures, Mapper!MessageStart, MapperTyped
  <2>2. Mapper!SumUsage(piUsage)' = Mapper!SumUsage(piUsage') BY DEF Mapper!SumUsage
  <2>3. CASE role = "assistant"
    <3>1. previous' = total /\ response' = 0 /\ piUsage' = Append(piUsage, 0) BY <2>3 DEF Mapper!MessageStart, Mapper!RollResponse
    <3>2. Mapper!SumUsage(piUsage') = Mapper!SumUsage(piUsage) BY <2>1, <3>1, SumMore
    <3>3. piUsage' \in Seq(Nat) /\ piUsage' # <<>> /\ piUsage'[Len(piUsage')] = 0 BY <2>1, <3>1, ZeroIsLast
    <3>4. total' = previous' + response' BY <2>1, <3>1
    <3> QED BY <2>1, <2>2, <3>1, <3>2, <3>3, <3>4 DEF Mapper!Figures
  <2>4. CASE role = "user"
    <3>1. previous' = previous /\ response' = response /\ piUsage' = piUsage /\ piMessage' = "user"
      BY <2>4 DEF Mapper!MessageStart, Mapper!RollResponse
    <3> QED BY <2>1, <2>2, <3>1 DEF Mapper!Figures
  <2> QED BY <2>3, <2>4
<1>8. MapperTyped' BY <1>1, <1>2, <1>7 DEF MapperTyped, Mapper!MessageStart, IsSeq
<1> QED BY <1>1, <1>4, <1>5, <1>6, <1>7, <1>8 DEF Live

\* A usage event, or none, behind what begins the turn.
LEMMA TellsOn ==
  ASSUME Live, NEW u, NEW final, Mapper!CountUsage(u, final), NEW a, NEW A, NEW c, NEW C, (A \union C) \cap {"usage"} = {},
         NEW b, b = Mapper!UsageEvents(u, final), AddsParts(out, out', a, A, b, {"usage"}, c, C),
         emitted' \in Nat, emitted <= emitted'
  PROVE  Tells'
<1> DEFINE r == [type |-> "usage", total |-> emitted']
<1>1. IsSeq(out) /\ Tells /\ emitted \in Nat BY DEF Live, MapperTyped
<1>2. CASE b = <<>>
  <2>1. AddsParts(out, out', a, A, b, {}, c, C) BY <1>2, FromNone DEF AddsParts
  <2>2. (A \union {} \union C) \cap {"usage"} = {} OBVIOUS
  <2>3. KeepsAll(out, out', {"usage"}) BY <1>1, <2>1, <2>2, AddsKeep
  <2> QED BY <1>1, <2>3, TellsStill
<1>3. CASE b = <<r>>
  <2>1. r.type \in {"usage"} /\ r.total = emitted' OBVIOUS
  <2>2. From(a, A) /\ From(c, C) /\ out' = ((out \o a) \o <<r>>) \o c BY <1>3 DEF AddsParts
  <2> HIDE DEF r
  <2>3. PICK q : Gains(out, out', {"usage"}, r, q) BY <1>1, <2>1, <2>2, SecondGains
  <2> QED BY <1>1, <2>1, <2>3, TellsMore
<1> QED BY <1>2, <1>3, UsageIs

LEMMA UsageFrom == \A u, final : From(Mapper!UsageEvents(u, final), {"usage"})
<1> SUFFICES ASSUME NEW u, NEW final PROVE From(Mapper!UsageEvents(u, final), {"usage"}) OBVIOUS
<1>1. CASE Mapper!UsageEvents(u, final) = <<>> BY <1>1 DEF From
<1>2. CASE Mapper!UsageEvents(u, final) = <<[type |-> "usage", total |-> previous + Mapper!Counted(u)]>> BY <1>2, FromOne
<1> QED BY <1>1, <1>2 DEF Mapper!UsageEvents

LEMMA MessagesEndLive ==
  ASSUME Live, NEW stopReason, NEW u \in Nat, Mapper!MessageEnd(stopReason, u), settled' = settled,
         UNCHANGED <<edit, now, piTools, piEnded>>, piMessage = "assistant", piMessage' = "none",
         piUsage' = [piUsage EXCEPT ![Len(piUsage)] = Mapper!Larger(@, u)]
  PROVE  Live'
<1> DEFINE b == Mapper!UsageEvents(u, TRUE)
<1>1. IsSeq(out) /\ Begun /\ ~settled /\ MapperTyped /\ Mapper!Figures BY DEF Live, MapperTyped
<1>2. Mapper!CountUsage(u, TRUE) /\ previous' = previous BY DEF Mapper!MessageEnd
<1>3. /\ Mapper!Figures'
      /\ response' \in Nat /\ total' \in Nat /\ emitted' \in Nat /\ emitted <= emitted' /\ emitted' <= total'
  BY <1>1, <1>2, Figured
<1>4. From(b, {"usage"}) BY UsageFrom
<1>5. out' = out \o b BY DEF Mapper!MessageEnd, Mapper!Emit
<1> HIDE DEF b
<1>6. AddsParts(out, out', <<>>, {}, b, {"usage"}, <<>>, {})
  <2>1. out \o <<>> = out BY <1>1, NoneMore
  <2>2. IsSeq(out') BY <1>1, <1>4, <1>5, PartContinues
  <2>3. out' \o <<>> = out' BY <2>2, NoneMore
  <2> QED BY <1>4, <1>5, <2>1, <2>3, FromNone DEF AddsParts
<1>7. Adding({"usage"}) BY <1>6, AddingIs
<1>8. Begun' BY <1>1, <1>6, BegunStill DEF Early, Mapper!MessageEnd
<1>9. Tells'
  <2>1. b = Mapper!UsageEvents(u, TRUE) BY DEF b
  <2>2. ({} \union {}) \cap {"usage"} = {} OBVIOUS
  <2> QED BY <1>2, <1>3, <1>6, <2>1, <2>2, TellsOn
<1>10. /\ AsksDialogs' /\ Fills' /\ Speaks' /\ Works' /\ Previews' /\ IsSeq(out') /\ Mapper!Of(out', {"settled"}) = {}
  BY <1>7, Calm DEF Mapper!MessageEnd, PiToolsGrow, Mapper!Texts, ToolTypes
<1>11. MapperTyped' BY <1>1, <1>2, <1>3, <1>10 DEF MapperTyped, Mapper!MessageEnd, IsSeq
<1> QED BY <1>1, <1>3, <1>8, <1>9, <1>10, <1>11 DEF Live

\* What a record of a message shows of its block.
Shown(type, place) ==
  CASE type \in {"text_delta", "text_end"} -> <<[type |-> type, block |-> Mapper!Block(place)]>>
    [] type = "thinking_delta" -> Mapper!Events(type)
    [] OTHER -> <<>>

LEMMA ShownIs ==
  ASSUME NEW type, NEW place
  PROVE  LET r == [type |-> type, block |-> Mapper!Block(place)] IN
         /\ type \in Mapper!Texts => Shown(type, place) = <<r>> /\ r.type = type /\ r.block = Mapper!Block(place)
         /\ From(Shown(type, place), Mapper!Texts \union {"thinking_delta"})
         /\ type \notin Mapper!Texts => From(Shown(type, place), {"thinking_delta"})
<1> DEFINE r == [type |-> type, block |-> Mapper!Block(place)]
           e == [type |-> "thinking_delta"]
<1>1. CASE type \in {"text_delta", "text_end"}
  <2>1. Shown(type, place) = <<r>> BY <1>1 DEF Shown
  <2>2. r.type = type /\ r.block = Mapper!Block(place) OBVIOUS
  <2>3. r.type \in Mapper!Texts \union {"thinking_delta"} BY <1>1, <2>2 DEF Mapper!Texts
  <2> HIDE DEF r
  <2>4. From(<<r>>, Mapper!Texts \union {"thinking_delta"}) BY <2>3, FromOne
  <2> QED BY <1>1, <2>1, <2>2, <2>4 DEF Mapper!Texts, r
<1>2. CASE type = "thinking_delta"
  <2>1. Shown(type, place) = <<e>> BY <1>2 DEF Shown, Mapper!Events
  <2>2. e.type \in {"thinking_delta"} /\ e.type \in Mapper!Texts \union {"thinking_delta"} OBVIOUS
  <2> HIDE DEF e
  <2>3. From(<<e>>, {"thinking_delta"}) /\ From(<<e>>, Mapper!Texts \union {"thinking_delta"}) BY <2>2, FromOne
  <2> QED BY <1>2, <2>1, <2>3 DEF Mapper!Texts
<1>3. CASE type \notin {"text_delta", "text_end", "thinking_delta"}
  <2>1. Shown(type, place) = <<>> BY <1>3 DEF Shown
  <2> QED BY <1>3, <2>1 DEF From, Mapper!Texts
<1> QED BY <1>1, <1>2, <1>3

LEMMA UpdatesLive ==
  ASSUME Live, NEW type, NEW place, NEW u \in Nat, Mapper!MessageUpdate(type, place, u), settled' = settled,
         UNCHANGED <<edit, now, piTools, piMessage>>, piMessage = "assistant", place \notin piEnded,
         piEnded' = (IF type = "text_end" THEN piEnded \cup {place} ELSE piEnded),
         piUsage' = [piUsage EXCEPT ![Len(piUsage)] = Mapper!Larger(@, u)]
  PROVE  Live'
<1> DEFINE b == Mapper!UsageEvents(u, FALSE)
           c == Shown(type, place)
           C == Mapper!Texts \union {"thinking_delta"}
           r == [type |-> type, block |-> Mapper!Block(place)]
<1>1. IsSeq(out) /\ Begun /\ ~settled /\ MapperTyped /\ Mapper!Figures /\ Speaks BY DEF Live, MapperTyped
<1>2. Mapper!CountUsage(u, FALSE) /\ previous' = previous /\ announced' = TRUE BY DEF Mapper!MessageUpdate
<1>3. /\ Mapper!Figures'
      /\ response' \in Nat /\ total' \in Nat /\ emitted' \in Nat /\ emitted <= emitted' /\ emitted' <= total'
  BY <1>1, <1>2, Figured
<1>4. From(b, {"usage"}) BY UsageFrom
<1>5. From(c, C) /\ (type \notin Mapper!Texts => From(c, {"thinking_delta"}))
      /\ (type \in Mapper!Texts => c = <<r>> /\ r.type = type /\ r.block = Mapper!Block(place))
  BY ShownIs
<1>6. out' = out \o ((Mapper!Begin \o b) \o c) BY DEF Mapper!MessageUpdate, Mapper!Emit, Shown
<1>7. BlockIsFound(place)
  <2>1. piEnded \subseteq piEnded' OBVIOUS
  <2> QED BY <2>1 DEF Mapper!MessageUpdate, BlockIsFound
<1> HIDE DEF b, c, r
<1>8. AddsParts(out, out', Mapper!Begin, {"turn_start"}, b, {"usage"}, c, C) BY <1>1, <1>4, <1>5, <1>6, BeginIs, AddsThree
<1>9. Adding({"turn_start", "usage"} \union C) BY <1>8, AddingIs
<1>10. Begun' BY <1>1, <1>2, <1>8, BegunMore DEF Mapper!Texts
<1>11. Tells'
  <2>1. b = Mapper!UsageEvents(u, FALSE) BY DEF b
  <2>2. ({"turn_start"} \union C) \cap {"usage"} = {} BY DEF Mapper!Texts
  <2> QED BY <1>2, <1>3, <1>8, <2>1, <2>2, TellsOn
<1>12. /\ AsksDialogs' /\ Fills' /\ Works' /\ Previews' /\ IsSeq(out') /\ Mapper!Of(out', {"settled"}) = {}
  BY <1>9, Calm DEF Mapper!MessageUpdate, PiToolsGrow, Mapper!Texts, ToolTypes
<1>13. blockCount \in Nat /\ Mapper!BlocksAreOver BY <1>1 DEF MapperTyped, Speaks
<1>14. Speaks'
  <2>1. CASE type \in Mapper!Texts
    <3>1. r.type \in Mapper!Texts /\ out' = ((out \o Mapper!Begin) \o b) \o <<r>> BY <1>5, <1>8, <2>1 DEF AddsParts
    <3>2. ({"turn_start"} \union {"usage"}) \cap Mapper!Texts = {} BY DEF Mapper!Texts
    <3>3. PICK q : Gains(out, out', Mapper!Texts, r, q) BY <1>1, <1>4, <3>1, <3>2, BeginIs, ThirdGains
    <3>4. r.block = Mapper!Block(place) /\ (r.type = "text_end" => place \in piEnded') BY <1>5, <2>1
    <3> QED BY <1>1, <1>7, <1>13, <3>3, <3>4, SpeaksMore
  <2>2. CASE type \notin Mapper!Texts
    <3>1. AddsParts(out, out', Mapper!Begin, {"turn_start"}, b, {"usage"}, c, {"thinking_delta"}) BY <1>5, <1>8, <2>2 DEF AddsParts
    <3>2. ({"turn_start"} \union {"usage"} \union {"thinking_delta"}) \cap Mapper!Texts = {} BY DEF Mapper!Texts
    <3>3. KeepsAll(out, out', Mapper!Texts) BY <1>1, <3>1, <3>2, AddsKeep
    <3> QED BY <1>1, <1>7, <1>13, <3>3, SpeaksOn
  <2> QED BY <2>1, <2>2
<1>15. blockCount' \in Nat BY <1>7, <1>13, BlockFound
<1>16. MapperTyped' BY <1>1, <1>2, <1>3, <1>12, <1>15 DEF MapperTyped, Mapper!MessageUpdate, IsSeq
<1> QED BY <1>1, <1>3, <1>10, <1>11, <1>12, <1>14, <1>16 DEF Live

\* Every tool event is of a tool pi has started.
LEMMA ToolsAreKnown ==
  ASSUME Works
  PROVE  \A i \in Mapper!Of(out, ToolTypes) : out[i].id \in DOMAIN piTools
<1> DEFINE D == Mapper!Of(out, ToolTypes)
           S == Mapper!Of(out, {"tool_start"})
           E == Mapper!Of(out, {"tool_end"})
<1>1. Paired(out, D, S, E) BY PairedIs
<1>2. Pair(out, D, S, E) BY <1>1, PairIs DEF Works
<1>3. \A i \in S : out[i].id \in DOMAIN piTools BY DEF Works, Mapper!ToolsRun
<1> HIDE DEF D, S, E
<1>4. ASSUME NEW i \in D PROVE out[i].id \in DOMAIN piTools
  <2>1. CASE i \in S BY <1>3, <2>1
  <2>2. CASE i \notin S
    <3>1. PICK j \in S : out[j].id = out[i].id BY <1>2, <2>2 DEF Pair
    <3> QED BY <1>3, <3>1
  <2> QED BY <2>1, <2>2
<1> QED BY <1>4 DEF D

LEMMA UpdatesAreKnown ==
  ASSUME Works
  PROVE  \A i \in Mapper!Of(out, {"tool_update"}) : out[i].id \in DOMAIN piTools
<1>1. Mapper!Of(out, {"tool_update"}) \subseteq Mapper!Of(out, ToolTypes) BY OfIs DEF ToolTypes
<1> QED BY <1>1, ToolsAreKnown

\* A tool runs only after the turn has begun.
LEMMA ToolsComeLater ==
  ASSUME Live, DOMAIN running # {}
  PROVE  announced
<1>1. PICK id \in DOMAIN running : TRUE OBVIOUS
<1>2. PICK i \in Mapper!Of(out, {"tool_start"}) : out[i].id = id BY <1>1 DEF Live, Works, Mapper!ToolsRun
<1>3. i \in 1 .. Len(out) /\ out[i].type = "tool_start" BY OfIs
<1> QED BY <1>3 DEF Live, Begun, Mapper!Opened

LEMMA ToolsStartLive ==
  ASSUME Live, NEW id \in Ids \ DOMAIN piTools, NEW name \in {"suggest", "commit"}, Mapper!ToolStart(id, name),
         settled' = settled, UNCHANGED <<edit, now, piMessage, piEnded, piUsage>>,
         piTools' = [i \in DOMAIN piTools \cup {id} |-> IF i = id THEN name ELSE piTools[i]]
  PROVE  Live'
<1> DEFINE r == [type |-> "tool_start", id |-> id]
           row == [name |-> name, updated |-> FALSE, at |-> now]
<1>1. IsSeq(out) /\ Begun /\ ~settled /\ MapperTyped /\ Works /\ Previews BY DEF Live, MapperTyped
<1>2. out' = out \o (Mapper!Begin \o <<r>>) /\ announced' = TRUE BY DEF Mapper!ToolStart, Mapper!Emit
<1>3. r.type = "tool_start" /\ r.id = id OBVIOUS
<1>4. /\ DOMAIN running' = DOMAIN running \union {id} /\ running'[id] = row
      /\ \A i \in DOMAIN running : i # id => running'[i] = running[i]
  BY DEF Mapper!ToolStart
<1>5. row.name = name /\ row.at = now /\ row \in Tools BY <1>1 DEF MapperTyped, Tools
<1> HIDE DEF r, row
<1>6. From(<<r>>, {"tool_start"}) BY <1>3, FromOne
<1>7. AddsParts(out, out', Mapper!Begin, {"turn_start"}, <<r>>, {"tool_start"}, <<>>, {}) BY <1>1, <1>2, <1>6, BeginIs, AddsTwo
<1>8. Adding({"turn_start", "tool_start"}) BY <1>7, AddingIs
<1>9. Begun' BY <1>1, <1>2, <1>7, BegunMore
<1>10. PiToolsGrow /\ DOMAIN piTools' = DOMAIN piTools \union {id} /\ piTools'[id] = name BY DEF PiToolsGrow
<1>11. /\ AsksDialogs' /\ Tells' /\ Fills' /\ Speaks' /\ IsSeq(out') /\ Mapper!Of(out', {"settled"}) = {}
  BY <1>8, <1>10, Calm DEF Mapper!ToolStart, Mapper!Texts
<1>12. id \notin DOMAIN running BY <1>1 DEF Works, Mapper!ToolsRun
<1>13. \A i \in DOMAIN running : running'[i] = running[i] BY <1>4, <1>12
<1>14. Works'
  <2>1. ({"turn_start"} \union {}) \cap ToolTypes = {} /\ r.type \in ToolTypes BY <1>3 DEF ToolTypes
  <2>2. From(Mapper!Begin, {"turn_start"}) /\ From(<<>>, {}) /\ out' = ((out \o Mapper!Begin) \o <<r>>) \o <<>>
    BY <1>7 DEF AddsParts
  <2>3. PICK q : Gains(out, out', ToolTypes, r, q) BY <1>1, <2>1, <2>2, SecondGains
  <2> QED BY <1>1, <1>3, <1>4, <1>5, <1>10, <1>13, <2>3, WorksStart
<1>15. Previews'
  <2>1. ({"turn_start", "tool_start"}) \cap {"tool_update"} = {} OBVIOUS
  <2>2. KeepsAll(out, out', {"tool_update"}) BY <1>1, <1>8, <2>1, AddingKeeps
  <2>3. \A i \in DOMAIN running : running[i].at \in 0 .. now BY <1>1 DEF Previews, Mapper!UpdatesAreDated
  <2>4. \A i \in DOMAIN running : running[i].at <= running[i].at BY <1>1, RowsAre
  <2>5. \A i \in Mapper!Of(out, {"tool_update"}) : out[i].id # id BY <1>1, UpdatesAreKnown
  <2>6. now' = now /\ now \in 0 .. now BY <1>1 DEF MapperTyped
  <2>7. RunsLater
    <3> SUFFICES ASSUME NEW k \in DOMAIN running'
                 PROVE  /\ running'[k].at \in 0 .. now'
                        /\ \/ /\ k \in DOMAIN running /\ running[k].at <= running'[k].at
                              /\ running[k].updated => running'[k].updated
                           \/ \A i \in Mapper!Of(out, {"tool_update"}) : out[i].id # k
      BY DEF RunsLater
    <3>1. CASE k = id BY <1>4, <1>5, <2>5, <2>6, <3>1
    <3>2. CASE k \in DOMAIN running BY <1>13, <2>3, <2>4, <2>6, <3>2
    <3> QED BY <1>4, <3>1, <3>2
  <2> QED BY <1>1, <2>2, <2>7, PreviewsStill
<1>16. Mapper!Figures' BY FiguresStill DEF Live, Mapper!ToolStart
<1>17. MapperTyped'
  <2>1. running' \in [DOMAIN running' -> Tools]
    <3>1. \A i \in DOMAIN running' : running'[i] \in Tools BY <1>1, <1>4, <1>5, <1>13 DEF MapperTyped
    <3>2. running' = [i \in DOMAIN running' |-> running'[i]] BY DEF Mapper!ToolStart
    <3> QED BY <3>1, <3>2
  <2>2. DOMAIN piTools' \subseteq Ids BY <1>1, <1>10 DEF MapperTyped
  <2> QED BY <1>1, <1>2, <1>11, <2>1, <2>2 DEF MapperTyped, Mapper!ToolStart, IsSeq
<1> QED BY <1>1, <1>9, <1>11, <1>14, <1>15, <1>16, <1>17 DEF Live

\* Nothing shown of a tool.
LEMMA UpdatesQuiet ==
  ASSUME Live, out' = out, settled' = settled, UNCHANGED <<edit, now, piMessage, piEnded, piTools, piUsage>>,
         UNCHANGED <<announced, reason, previous, response, total, emitted, usageAt, dialogs, blocks, blockCount>>,
         DOMAIN running' = DOMAIN running, running' \in [DOMAIN running' -> Tools],
         \A i \in DOMAIN running : /\ running'[i].name = running[i].name /\ running'[i].at \in 0 .. now
                                   /\ running[i].at <= running'[i].at /\ (running[i].updated => running'[i].updated)
  PROVE  Live'
<1>1. IsSeq(out) /\ Begun /\ ~settled /\ MapperTyped /\ Works /\ Previews BY DEF Live, MapperTyped
<1>2. AddsParts(out, out', <<>>, {}, <<>>, {}, <<>>, {}) /\ Adding({}) BY <1>1, AddingNothing
<1>3. Begun' BY <1>1, <1>2, BegunStill
<1>4. PiToolsGrow BY DEF PiToolsGrow
<1>5. AsksDialogs' /\ Tells' /\ Fills' /\ Speaks' /\ IsSeq(out') /\ Mapper!Of(out', {"settled"}) = {}
  BY <1>2, <1>4, Calm
<1>6. \A T : KeepsAll(out, out', T) BY DEF KeepsAll
<1>7. Works' BY <1>1, <1>4, <1>6, WorksStill
<1>8. RunsLater BY DEF RunsLater
<1>9. Previews' BY <1>1, <1>6, <1>8, PreviewsStill
<1>10. Mapper!Figures' BY FiguresStill DEF Live
<1>11. MapperTyped' BY <1>1, <1>5 DEF MapperTyped, IsSeq
<1> QED BY <1>1, <1>3, <1>5, <1>7, <1>9, <1>10, <1>11 DEF Live

\* The row of a tool that has just reported.
LEMMA RowIs ==
  ASSUME MapperTyped, NEW id \in DOMAIN running, running' = [running EXCEPT ![id].updated = TRUE, ![id].at = now]
  PROVE  /\ DOMAIN running' = DOMAIN running /\ running' \in [DOMAIN running' -> Tools]
         /\ running'[id].name = running[id].name /\ running'[id].updated = TRUE /\ running'[id].at = now
         /\ \A i \in DOMAIN running : i # id => running'[i] = running[i]
<1> DEFINE row == [[running[id] EXCEPT !.updated = TRUE] EXCEPT !.at = now]
<1>1. running \in [DOMAIN running -> Tools] /\ now \in Nat BY DEF MapperTyped
<1>2. running[id] \in Tools BY <1>1
<1>3. row \in Tools /\ row.name = running[id].name /\ row.updated = TRUE /\ row.at = now BY <1>1, <1>2 DEF Tools
<1> HIDE DEF row
<1>4. running' = [running EXCEPT ![id] = row] BY DEF row
<1>5. running'[id] = row /\ DOMAIN running' = DOMAIN running /\ \A i \in DOMAIN running : i # id => running'[i] = running[i]
  BY <1>1, <1>4
<1>6. running' \in [DOMAIN running -> Tools] BY <1>1, <1>3, <1>4
<1> QED BY <1>3, <1>5, <1>6

LEMMA ToolsUpdateLive ==
  ASSUME Live, Throttle \in Nat, NEW id, NEW preview, Mapper!ToolUpdate(id, preview),
         settled' = settled, UNCHANGED <<edit, now, piMessage, piEnded, piTools, piUsage>>
  PROVE  Live'
<1> DEFINE r == [type |-> "tool_update", id |-> id, at |-> now]
           Late == id \notin DOMAIN running \/ (running[id].updated /\ now - running[id].at < Throttle)
<1>1. IsSeq(out) /\ Begun /\ ~settled /\ MapperTyped /\ Works /\ Previews BY DEF Live, MapperTyped
<1>2. UNCHANGED <<announced, reason, previous, response, total, emitted, usageAt, dialogs, blocks, blockCount>>
  BY DEF Mapper!ToolUpdate
<1>3. \A i \in DOMAIN running : running[i].at \in 0 .. now /\ running[i].at \in Nat
  BY <1>1, RowsAre DEF Previews, Mapper!UpdatesAreDated
<1>4. CASE Late
  <2>1. running' = running /\ out' = out BY <1>4 DEF Mapper!ToolUpdate
  <2>2. running' \in [DOMAIN running' -> Tools] BY <1>1, <2>1 DEF MapperTyped
  <2> HIDE DEF Late
  <2>3. \A i \in DOMAIN running : /\ running'[i].name = running[i].name /\ running'[i].at \in 0 .. now
                                   /\ running[i].at <= running'[i].at /\ (running[i].updated => running'[i].updated)
    BY <1>3, <2>1
  <2> QED BY <1>2, <2>1, <2>2, <2>3, UpdatesQuiet
<1>5. CASE ~Late
  <2>1. /\ id \in DOMAIN running /\ ~(running[id].updated /\ now - running[id].at < Throttle)
        /\ running' = [running EXCEPT ![id].updated = TRUE, ![id].at = now]
        /\ out' = out \o (IF preview THEN <<r>> ELSE <<>>)
    BY <1>5 DEF Mapper!ToolUpdate, Mapper!Emit
  <2> HIDE DEF Late, r
  <2>2. /\ DOMAIN running' = DOMAIN running /\ running' \in [DOMAIN running' -> Tools]
        /\ running'[id].name = running[id].name /\ running'[id].updated = TRUE /\ running'[id].at = now
        /\ \A i \in DOMAIN running : i # id => running'[i] = running[i]
    BY <1>1, <2>1, RowIs
  <2>3. now \in Nat BY <1>1 DEF MapperTyped
  <2>4. CASE ~preview
    <3>1. out' = out BY <1>1, <2>1, <2>4, NoneMore
    <3>2. \A i \in DOMAIN running : /\ running'[i].name = running[i].name /\ running'[i].at \in 0 .. now
                                   /\ running[i].at <= running'[i].at /\ (running[i].updated => running'[i].updated)
      <4> TAKE i \in DOMAIN running
      <4>1. CASE i = id BY <1>3, <2>2, <2>3, <4>1
      <4>2. CASE i # id BY <1>3, <2>2, <4>2
      <4> QED BY <4>1, <4>2
    <3> QED BY <1>2, <2>2, <3>1, <3>2, UpdatesQuiet
  <2>5. CASE preview
    <3>1. out' = out \o <<r>> BY <2>1, <2>5
    <3>2. r.type = "tool_update" /\ r.id = id /\ r.at = now BY DEF r
    <3>3. From(<<r>>, {"tool_update"}) BY <3>2, FromOne
    <3>4. AddsParts(out, out', <<r>>, {"tool_update"}, <<>>, {}, <<>>, {}) BY <1>1, <3>1, <3>3, AddsOne
    <3>5. Adding({"tool_update"}) BY <3>4, AddingIs
    <3>6. announced /\ announced' = announced BY <1>2, <2>1, ToolsComeLater
    <3>7. Begun' BY <1>1, <3>4, <3>6, BegunStill
    <3>8. PiToolsGrow BY DEF PiToolsGrow
    <3>9. AsksDialogs' /\ Tells' /\ Fills' /\ Speaks' /\ IsSeq(out') /\ Mapper!Of(out', {"settled"}) = {}
      BY <1>2, <3>5, <3>8, Calm DEF Mapper!Texts
    <3>10. Gains(out, out', ToolTypes, r, Len(out) + 1) /\ Gains(out, out', {"tool_update"}, r, Len(out) + 1)
      <4>1. r.type \in ToolTypes /\ r.type \in {"tool_update"} BY <3>2 DEF ToolTypes
      <4> QED BY <1>1, <3>1, <4>1, OneGains
    <3>11. \A i \in DOMAIN running : running'[i].name = running[i].name BY <2>2
    <3>12. Works' BY <1>1, <2>1, <2>2, <3>2, <3>10, <3>11, WorksUpdate
    <3>13. Previews' BY <1>1, <2>1, <2>2, <2>3, <3>2, <3>10, PreviewsMore
    <3>14. Mapper!Figures' BY <1>2, FiguresStill DEF Live
    <3>15. MapperTyped' BY <1>1, <1>2, <2>2, <3>9 DEF MapperTyped, IsSeq
    <3> QED BY <1>1, <3>7, <3>9, <3>12, <3>13, <3>14, <3>15 DEF Live
  <2> QED BY <2>4, <2>5
<1> QED BY <1>4, <1>5

LEMMA ToolsEndLive ==
  ASSUME Live, NEW id \in DOMAIN running, NEW ok \in BOOLEAN, NEW valid \in BOOLEAN, Mapper!ToolEnd(id, ok, valid),
         settled' = settled, UNCHANGED <<edit, now, piMessage, piEnded, piTools, piUsage>>
  PROVE  Live'
<1> DEFINE r == [type |-> "tool_end", id |-> id]
           s == [type |-> "set_buffer", by |-> id]
           fills == ok /\ valid /\ Mapper!Proposes(id)
           e == IF fills THEN <<s>> ELSE <<>>
<1>1. IsSeq(out) /\ Begun /\ ~settled /\ MapperTyped /\ Works /\ Previews /\ Fills BY DEF Live, MapperTyped
<1>2. UNCHANGED <<announced, reason, previous, response, total, emitted, usageAt, dialogs, blocks, blockCount>>
  BY DEF Mapper!ToolEnd
<1>3. /\ DOMAIN running' = DOMAIN running \ {id} /\ \A i \in DOMAIN running' : running'[i] = running[i]
      /\ running' = [i \in DOMAIN running' |-> running'[i]]
  BY DEF Mapper!ToolEnd
<1>4. out' = out \o (<<r>> \o e) BY DEF Mapper!ToolEnd, Mapper!Emit
<1>5. r.type = "tool_end" /\ r.id = id /\ s.type = "set_buffer" /\ s.by = id OBVIOUS
<1>6. fills => edit # "no" /\ id \notin Nested /\ running[id].name = edit BY DEF Mapper!Proposes
<1> HIDE DEF r, s, fills
<1>7. From(<<r>>, {"tool_end"}) BY <1>5, FromOne
<1>8. From(e, {"set_buffer"}) /\ (~fills => From(e, {}))
  <2>1. From(<<s>>, {"set_buffer"}) BY <1>5, FromOne
  <2>2. From(<<>>, {"set_buffer"}) /\ From(<<>>, {}) BY DEF From
  <2> QED BY <2>1, <2>2
<1>9. fills => e = <<s>> OBVIOUS
<1> HIDE DEF e
<1>10. AddsParts(out, out', <<r>>, {"tool_end"}, e, {"set_buffer"}, <<>>, {}) BY <1>1, <1>4, <1>7, <1>8, AddsTwo
<1>11. Adding({"tool_end", "set_buffer"}) BY <1>10, AddingIs
<1>12. announced /\ announced' = announced BY <1>2, ToolsComeLater
<1>13. Begun' BY <1>1, <1>10, <1>12, BegunStill
<1>14. PiToolsGrow BY DEF PiToolsGrow
<1>15. AsksDialogs' /\ Tells' /\ Speaks' /\ IsSeq(out') /\ Mapper!Of(out', {"settled"}) = {} BY <1>2, <1>11, Calm DEF Mapper!Texts
<1>16. Fills'
  <2>1. CASE fills
    <3>1. ({"tool_end"} \union {}) \cap {"set_buffer"} = {} /\ s.type \in {"set_buffer"} BY <1>5
    <3>2. out' = ((out \o <<r>>) \o <<s>>) \o <<>> BY <1>9, <1>10, <2>1 DEF AddsParts
    <3>3. PICK q : Gains(out, out', {"set_buffer"}, s, q) BY <1>1, <1>7, <3>1, <3>2, FromNone, SecondGains
    <3>4. id \in DOMAIN piTools /\ running[id].name = piTools[id] /\ DOMAIN piTools \subseteq Ids
      BY <1>1 DEF Works, Mapper!ToolsRun, MapperTyped
    <3>5. edit # "no" /\ s.by \in Ids \ Nested /\ s.by \in DOMAIN piTools /\ piTools[s.by] = edit
      BY <1>5, <1>6, <2>1, <3>4
    <3> QED BY <1>1, <3>3, <3>5, FillsMore
  <2>2. CASE ~fills
    <3>1. AddsParts(out, out', <<r>>, {"tool_end"}, e, {}, <<>>, {}) BY <1>8, <1>10, <2>2 DEF AddsParts
    <3>2. Adding({"tool_end"}) BY <3>1, AddingIs
    <3> QED BY <1>14, <3>2, Calm
  <2> QED BY <2>1, <2>2
<1>17. Works'
  <2>1. ({"set_buffer"} \union {}) \cap ToolTypes = {} /\ r.type \in ToolTypes BY <1>5 DEF ToolTypes
  <2>2. From(e, {"set_buffer"}) /\ From(<<>>, {}) /\ out' = ((out \o <<r>>) \o e) \o <<>> BY <1>10 DEF AddsParts
  <2>3. Gains(out, out', ToolTypes, r, Len(out) + 1) BY <1>1, <2>1, <2>2, FirstGains
  <2> QED BY <1>1, <1>3, <1>5, <2>3, WorksEnd
<1>18. Previews'
  <2>1. {"tool_end", "set_buffer"} \cap {"tool_update"} = {} OBVIOUS
  <2>2. KeepsAll(out, out', {"tool_update"}) BY <1>1, <1>11, <2>1, AddingKeeps
  <2>3. \A i \in DOMAIN running : running[i].at \in 0 .. now BY <1>1 DEF Previews, Mapper!UpdatesAreDated
  <2>4. \A i \in DOMAIN running : running[i].at <= running[i].at BY <1>1, RowsAre
  <2>5. RunsLater BY <1>3, <2>3, <2>4 DEF RunsLater
  <2> QED BY <1>1, <2>2, <2>5, PreviewsStill
<1>19. Mapper!Figures' BY <1>2, FiguresStill DEF Live
<1>20. MapperTyped'
  <2>1. running' \in [DOMAIN running' -> Tools] BY <1>1, <1>3 DEF MapperTyped
  <2> QED BY <1>1, <1>2, <1>15, <2>1 DEF MapperTyped, IsSeq
<1> QED BY <1>1, <1>13, <1>15, <1>16, <1>17, <1>18, <1>19, <1>20 DEF Live

LEMMA AppendIs ==
  ASSUME NEW s, IsSeq(s), NEW v, NEW t, t = Append(s, v)
  PROVE  IsSeq(t) /\ Len(s) \in Nat /\ Len(t) = Len(s) + 1
<1> PICK S : s \in Seq(S) BY DEF IsSeq
<1>1. S \subseteq S \union {v} OBVIOUS
<1>2. s \in Seq(S \union {v}) BY <1>1
<1>3. t \in Seq(S \union {v}) /\ Len(s) \in Nat /\ Len(t) = Len(s) + 1 BY <1>2
<1> QED BY <1>3 DEF IsSeq

LEMMA UiEventsAre ==
  /\ Mapper!UiEvents("dialog") = <<[type |-> "ui_request", id |-> Len(dialogs) + 1]>>
  /\ Mapper!UiEvents("set_editor_text") = IF edit = "no" THEN <<[type |-> "set_buffer", by |-> "extension"]>> ELSE <<>>
  /\ Mapper!UiEvents("setTitle") = <<>>
BY DEF Mapper!UiEvents

LEMMA DialogsLive ==
  ASSUME Live, NEW method \in {"dialog", "set_editor_text", "setTitle"}, NEW piId, Mapper!UiRequest(method, piId),
         settled' = settled, UNCHANGED <<edit, now, piMessage, piEnded, piTools, piUsage>>
  PROVE  Live'
<1> DEFINE r == [type |-> "ui_request", id |-> Len(dialogs) + 1]
           s == [type |-> "set_buffer", by |-> "extension"]
           e == Mapper!UiEvents(method)
           U == {"turn_start", "ui_request", "set_buffer"}
<1>1. IsSeq(out) /\ Begun /\ ~settled /\ MapperTyped /\ AsksDialogs /\ Fills BY DEF Live, MapperTyped
<1>2. UNCHANGED <<reason, previous, response, total, emitted, usageAt, running, blocks, blockCount>> /\ announced' = TRUE
  BY DEF Mapper!UiRequest
<1>3. out' = out \o (Mapper!Begin \o e) BY DEF Mapper!UiRequest, Mapper!Emit
<1>4. IsSeq(dialogs') /\ Len(dialogs) \in Nat /\ Len(dialogs') = Len(dialogs) + 1
  BY <1>1, AppendIs DEF MapperTyped, Mapper!UiRequest
<1>5. r.type = "ui_request" /\ r.id = Len(dialogs) + 1 /\ s.type = "set_buffer" /\ s.by = "extension" OBVIOUS
<1>6. e = <<>> \/ e = <<r>> \/ (e = <<s>> /\ edit = "no")
  <2>1. CASE method = "dialog" BY <2>1, UiEventsAre
  <2>2. CASE method = "set_editor_text"
    <3>1. e = IF edit = "no" THEN <<s>> ELSE <<>> BY <2>2, UiEventsAre
    <3> HIDE DEF e, s
    <3> QED BY <3>1
  <2>3. CASE method = "setTitle" BY <2>3, UiEventsAre
  <2> QED BY <2>1, <2>2, <2>3
<1> HIDE DEF r, s, e
<1>7. From(<<r>>, {"ui_request"}) /\ From(<<s>>, {"set_buffer"}) /\ From(<<>>, {}) BY <1>5, FromOne, FromNone
<1>8. PiToolsGrow BY DEF PiToolsGrow
<1>9. Begun' /\ AsksDialogs' /\ Fills' /\ Adding(U)
  <2>1. CASE e = <<>>
    <3>1. AddsParts(out, out', Mapper!Begin, {"turn_start"}, e, {}, <<>>, {}) BY <1>1, <1>3, <1>7, <2>1, BeginIs, AddsTwo
    <3>2. Begun' BY <1>1, <1>2, <3>1, BegunMore
    <3>3. Adding(U) /\ Adding({"turn_start"}) BY <3>1, AddingIs
    <3>4. Fills' BY <1>8, <3>3, Calm
    <3>5. {"turn_start"} \cap {"ui_request"} = {} OBVIOUS
    <3>6. KeepsAll(out, out', {"ui_request"}) BY <1>1, <3>3, <3>5, AddingKeeps
    <3>7. AsksDialogs' BY <1>1, <1>4, <3>6, AsksStill
    <3> QED BY <3>2, <3>3, <3>4, <3>7
  <2>2. CASE e = <<r>>
    <3>1. AddsParts(out, out', Mapper!Begin, {"turn_start"}, e, {"ui_request"}, <<>>, {}) BY <1>1, <1>3, <1>7, <2>2, BeginIs, AddsTwo
    <3>2. Begun' BY <1>1, <1>2, <3>1, BegunMore
    <3>3. Adding(U) /\ Adding({"turn_start", "ui_request"}) BY <3>1, AddingIs
    <3>4. Fills' BY <1>8, <3>3, Calm
    <3>5. ({"turn_start"} \union {}) \cap {"ui_request"} = {} /\ r.type \in {"ui_request"} BY <1>5
    <3>6. out' = ((out \o Mapper!Begin) \o <<r>>) \o <<>> BY <2>2, <3>1 DEF AddsParts
    <3>7. PICK q : Gains(out, out', {"ui_request"}, r, q) BY <1>1, <1>7, <3>5, <3>6, BeginIs, SecondGains
    <3>8. AsksDialogs' BY <1>1, <1>4, <1>5, <3>7, AsksMore
    <3> QED BY <3>2, <3>3, <3>4, <3>8
  <2>3. CASE e = <<s>> /\ edit = "no"
    <3>1. AddsParts(out, out', Mapper!Begin, {"turn_start"}, e, {"set_buffer"}, <<>>, {}) BY <1>1, <1>3, <1>7, <2>3, BeginIs, AddsTwo
    <3>2. Begun' BY <1>1, <1>2, <3>1, BegunMore
    <3>3. Adding(U) /\ Adding({"turn_start", "set_buffer"}) BY <3>1, AddingIs
    <3>4. {"turn_start", "set_buffer"} \cap {"ui_request"} = {} OBVIOUS
    <3>5. KeepsAll(out, out', {"ui_request"}) BY <1>1, <3>3, <3>4, AddingKeeps
    <3>6. AsksDialogs' BY <1>1, <1>4, <3>5, AsksStill
    <3>7. ({"turn_start"} \union {}) \cap {"set_buffer"} = {} /\ s.type \in {"set_buffer"} BY <1>5
    <3>8. out' = ((out \o Mapper!Begin) \o <<s>>) \o <<>> BY <2>3, <3>1 DEF AddsParts
    <3>9. PICK q : Gains(out, out', {"set_buffer"}, s, q) BY <1>1, <1>7, <3>7, <3>8, BeginIs, SecondGains
    <3>10. Fills' BY <1>1, <1>5, <2>3, <3>9, FillsMore
    <3> QED BY <3>2, <3>3, <3>6, <3>10
  <2> QED BY <1>6, <2>1, <2>2, <2>3
<1>10. Tells' /\ Speaks' /\ Works' /\ Previews' /\ IsSeq(out') /\ Mapper!Of(out', {"settled"}) = {}
  BY <1>2, <1>9, Calm DEF Mapper!Texts, ToolTypes
<1>11. Mapper!Figures' BY <1>2, FiguresStill DEF Live
<1>12. MapperTyped' BY <1>1, <1>2, <1>4, <1>10 DEF MapperTyped, IsSeq
<1> QED BY <1>1, <1>9, <1>10, <1>11, <1>12 DEF Live

\* The end.
LEMMA SettlesOver ==
  ASSUME Live, NEW why, Mapper!Settle(why)
  PROVE  Over'
<1> DEFINE r == [type |-> "settled", reason |-> IF why = "pi" THEN reason ELSE why]
<1>1. IsSeq(out) /\ Begun /\ ~settled /\ MapperTyped /\ Speaks /\ Works /\ Previews BY DEF Live, MapperTyped
<1>2. UNCHANGED <<announced, reason, previous, response, total, emitted, usageAt, running, dialogs,
                   blocks, blockCount, edit, now, piMessage, piEnded, piTools, piUsage>> /\ settled' = TRUE
  BY DEF Mapper!Settle, Mapper!pi
<1>3. out' = out \o <<r>> /\ r.type = "settled" BY DEF Mapper!Settle, Mapper!Emit
<1> HIDE DEF r
<1>4. From(<<r>>, {"settled"}) BY <1>3, FromOne
<1>5. AddsParts(out, out', <<r>>, {"settled"}, <<>>, {}, <<>>, {}) BY <1>1, <1>3, <1>4, AddsOne
<1>6. Adding({"settled"}) BY <1>5, AddingIs
<1>7. PiToolsGrow BY <1>2 DEF PiToolsGrow
<1>8. AsksDialogs' /\ Tells' /\ Fills' /\ Speaks' /\ Works' /\ Previews' /\ IsSeq(out')
  BY <1>2, <1>6, <1>7, Calm DEF Mapper!Texts, ToolTypes
<1>9. Begun'
  <2>1. IsSeq(out') /\ Continues(out, out') BY <1>1, <1>5, AddsContinue
  <2>2. {"settled"} \cap {"turn_start"} = {} OBVIOUS
  <2>3. KeepsAll(out, out', {"turn_start"}) BY <1>1, <1>6, <2>2, AddingKeeps
  <2>4. Mapper!StartsOnce(out') BY <1>1, <2>1, <2>3, StartKept DEF Begun
  <2> QED BY <1>2, <2>4 DEF Begun, Mapper!Opened
<1>10. Mapper!SettlesOnce(out')
  <2>1. Gains(out, out', {"settled"}, r, Len(out) + 1) BY <1>1, <1>3, OneGains
  <2>2. Len(out') = Len(out) + 1 BY <1>1, <1>3, OneMore
  <2>3. Mapper!Of(out', {"settled"}) = {Len(out')} BY <2>1, <2>2 DEF Gains, Live
  <2> QED BY <2>3 DEF Mapper!SettlesOnce
<1>11. MapperTyped' BY <1>1, <1>2, <1>8 DEF MapperTyped, IsSeq
<1> QED BY <1>2, <1>8, <1>9, <1>10, <1>11 DEF Over, Speaks, Works, Previews

\* After it, the turn's events stay as they are.
LEMMA OverStill ==
  ASSUME Over, settled' = settled, edit' = edit, out' = out, PiToolsGrow, DOMAIN piTools' \subseteq Ids, now' \in Nat,
         UNCHANGED <<announced, previous, response, total, emitted, running, dialogs, blockCount>>
  PROVE  Over'
<1>1. \A T : KeepsAll(out, out', T) BY DEF KeepsAll
<1>2. Len(dialogs) \in Nat /\ emitted \in Nat BY DEF Over, MapperTyped
<1>3. AsksDialogs' BY <1>1, <1>2, AsksStill DEF Over
<1>4. Tells' BY <1>1, <1>2, TellsStill DEF Over
<1>5. Fills' BY <1>1, FillsStill DEF Over, PiToolsGrow
<1>6. MapperTyped' BY DEF Over, MapperTyped, IsSeq
<1>7. Begun' BY DEF Over, Begun, Mapper!Opened
<1>8. Mapper!UpdatesAreThrottled' BY DEF Over, Mapper!UpdatesAreThrottled
<1> QED BY <1>3, <1>4, <1>5, <1>6, <1>7, <1>8 DEF Over

LEMMA TickLive ==
  ASSUME Live, now' = now + 1, UNCHANGED <<edit, announced, settled, reason, previous, response, total, emitted, usageAt,
            running, dialogs, blocks, blockCount, out, piMessage, piEnded, piTools, piUsage>>
  PROVE  Live'
<1>1. IsSeq(out) /\ Begun /\ ~settled /\ MapperTyped /\ Works /\ Previews BY DEF Live, MapperTyped
<1>2. AddsParts(out, out', <<>>, {}, <<>>, {}, <<>>, {}) /\ Adding({}) BY <1>1, AddingNothing
<1>3. Begun' BY <1>1, <1>2, BegunStill
<1>4. PiToolsGrow BY DEF PiToolsGrow
<1>5. AsksDialogs' /\ Tells' /\ Fills' /\ Speaks' /\ Works' /\ IsSeq(out') /\ Mapper!Of(out', {"settled"}) = {} BY <1>2, <1>4, Calm
<1>6. now \in Nat BY <1>1 DEF MapperTyped
<1>7. \A i \in DOMAIN running : running[i].at \in 0 .. now /\ running[i].at <= running[i].at
  BY <1>1, RowsAre DEF Previews, Mapper!UpdatesAreDated
<1>8. \A i \in DOMAIN running : running[i].at \in 0 .. now' BY <1>6, <1>7
<1>9. RunsLater BY <1>7, <1>8 DEF RunsLater
<1>10. KeepsAll(out, out', {"tool_update"}) BY DEF KeepsAll
<1>11. Previews' BY <1>1, <1>9, <1>10, PreviewsStill
<1>12. Mapper!Figures' BY FiguresStill DEF Live
<1>13. MapperTyped' BY <1>1, <1>5, <1>6 DEF MapperTyped, IsSeq
<1> QED BY <1>1, <1>3, <1>5, <1>11, <1>12, <1>13 DEF Live

\* A record that shows a block, and one that ends a message, without the names of their kinds.
Shows ==
  \E type : \E place : \E u \in 0 .. 2 :
    /\ piMessage = "assistant" /\ place \notin piEnded
    /\ Mapper!Guarded(Mapper!MessageUpdate(type, place, u))
    /\ piEnded' = (IF type = "text_end" THEN piEnded \cup {place} ELSE piEnded)
    /\ piUsage' = [piUsage EXCEPT ![Len(piUsage)] = Mapper!Larger(@, u)]
    /\ UNCHANGED <<piMessage, piTools>>
EndsMessage ==
  \E stopReason : \E u \in {0, 2} :
    /\ piMessage = "assistant" /\ piMessage' = "none"
    /\ Mapper!Guarded(Mapper!MessageEnd(stopReason, u))
    /\ piUsage' = [piUsage EXCEPT ![Len(piUsage)] = Mapper!Larger(@, u)]
    /\ UNCHANGED <<piEnded, piTools>>
Says(A) == Mapper!Guarded(A) /\ UNCHANGED <<piMessage, piEnded, piTools, piUsage>>

LEMMA PiWritesIs ==
  ASSUME Mapper!PiWrites
  PROVE  /\ UNCHANGED <<edit, now>>
         /\ \/ Says(Mapper!AgentStart)
            \/ \E role \in {"assistant", "user"} :
                  /\ Mapper!Guarded(Mapper!MessageStart(role)) /\ piMessage' = role /\ piEnded' = {} /\ UNCHANGED piTools
                  /\ piUsage' = IF role = "assistant" THEN Append(piUsage, 0) ELSE piUsage
            \/ Shows
            \/ EndsMessage
            \/ \E id \in Ids \ DOMAIN piTools, name \in {"suggest", "commit"} :
                  /\ Mapper!Guarded(Mapper!ToolStart(id, name))
                  /\ piTools' = [i \in DOMAIN piTools \cup {id} |-> IF i = id THEN name ELSE piTools[i]]
                  /\ UNCHANGED <<piMessage, piEnded, piUsage>>
            \/ \E id \in DOMAIN piTools, preview \in BOOLEAN : Says(Mapper!ToolUpdate(id, preview))
            \/ \E id \in DOMAIN piTools, ok, valid \in BOOLEAN : id \in DOMAIN running /\ Says(Mapper!ToolEnd(id, ok, valid))
            \/ \E method \in {"dialog", "set_editor_text", "setTitle"} : Says(Mapper!UiRequest(method, piCount))
            \/ \E begins \in BOOLEAN : Says(Mapper!Report(IF begins THEN "retry" ELSE "notice", begins))
<1> DEFINE Updates ==
             \E type \in {"text_delta", "text_end", "thinking_delta", "error", ""}, place \in 0..1, u \in 0..2 :
               /\ piMessage = "assistant" /\ place \notin piEnded
               /\ u = 0 \/ type = ""
               /\ place = 0 \/ type \in {"text_delta", "text_end"}
               /\ Mapper!Guarded(Mapper!MessageUpdate(type, place, u))
               /\ piEnded' = IF type = "text_end" THEN piEnded \cup {place} ELSE piEnded
               /\ piUsage' = [piUsage EXCEPT ![Len(piUsage)] = Mapper!Larger(@, u)]
               /\ UNCHANGED <<piMessage, piTools>>
           Stops ==
             \E stopReason \in {"stop", "error"}, u \in {0, 2} :
               /\ piMessage = "assistant" /\ piMessage' = "none"
               /\ Mapper!Guarded(Mapper!MessageEnd(stopReason, u))
               /\ piUsage' = [piUsage EXCEPT ![Len(piUsage)] = Mapper!Larger(@, u)]
               /\ UNCHANGED <<piEnded, piTools>>
<1>1. Updates => Shows BY Zenon DEF Shows
<1>2. Stops => EndsMessage BY Zenon DEF EndsMessage
<1> QED BY <1>1, <1>2, Zenon DEF Mapper!PiWrites, Says

LEMMA GuardedLive ==
  /\ ~settled => (Mapper!Guarded(Mapper!AgentStart) <=> Mapper!AgentStart /\ settled' = settled)
  /\ \A role : ~settled => (Mapper!Guarded(Mapper!MessageStart(role)) <=> Mapper!MessageStart(role) /\ settled' = settled)
  /\ \A t, i, u : ~settled => (Mapper!Guarded(Mapper!MessageUpdate(t, i, u)) <=> Mapper!MessageUpdate(t, i, u) /\ settled' = settled)
  /\ \A w, u : ~settled => (Mapper!Guarded(Mapper!MessageEnd(w, u)) <=> Mapper!MessageEnd(w, u) /\ settled' = settled)
  /\ \A i, n : ~settled => (Mapper!Guarded(Mapper!ToolStart(i, n)) <=> Mapper!ToolStart(i, n) /\ settled' = settled)
  /\ \A i, p : ~settled => (Mapper!Guarded(Mapper!ToolUpdate(i, p)) <=> Mapper!ToolUpdate(i, p) /\ settled' = settled)
  /\ \A i, k, v : ~settled => (Mapper!Guarded(Mapper!ToolEnd(i, k, v)) <=> Mapper!ToolEnd(i, k, v) /\ settled' = settled)
  /\ \A m, p : ~settled => (Mapper!Guarded(Mapper!UiRequest(m, p)) <=> Mapper!UiRequest(m, p) /\ settled' = settled)
  /\ \A t, b : ~settled => (Mapper!Guarded(Mapper!Report(t, b)) <=> Mapper!Report(t, b) /\ settled' = settled)
BY Zenon DEF Mapper!Guarded

LEMMA WritesLive ==
  ASSUME Live, Throttle \in Nat, Mapper!PiWrites
  PROVE  Live'
<1>1. ~settled /\ settled \in BOOLEAN BY DEF Live
<1>2. UNCHANGED <<edit, now>> BY PiWritesIs
<1>3. ASSUME Says(Mapper!AgentStart) PROVE Live'
  BY <1>1, <1>2, <1>3, GuardedLive, StartsLive DEF Says
<1>4. ASSUME NEW role \in {"assistant", "user"}, Mapper!Guarded(Mapper!MessageStart(role)), piMessage' = role, piEnded' = {},
             UNCHANGED piTools, piUsage' = IF role = "assistant" THEN Append(piUsage, 0) ELSE piUsage
      PROVE  Live'
  <2>1. Mapper!MessageStart(role) /\ settled' = settled BY <1>1, <1>4, GuardedLive
  <2> QED BY <1>2, <1>4, <2>1, MessagesStartLive
<1>5. ASSUME Shows PROVE Live'
  <2>1. PICK type : \E place : \E u \in 0 .. 2 :
          /\ piMessage = "assistant" /\ place \notin piEnded
          /\ Mapper!Guarded(Mapper!MessageUpdate(type, place, u))
          /\ piEnded' = (IF type = "text_end" THEN piEnded \cup {place} ELSE piEnded)
          /\ piUsage' = [piUsage EXCEPT ![Len(piUsage)] = Mapper!Larger(@, u)]
          /\ UNCHANGED <<piMessage, piTools>>
    BY <1>5 DEF Shows
  <2>2. PICK place, u :
          /\ u \in 0 .. 2
          /\ piMessage = "assistant" /\ place \notin piEnded
          /\ Mapper!Guarded(Mapper!MessageUpdate(type, place, u))
          /\ piEnded' = (IF type = "text_end" THEN piEnded \cup {place} ELSE piEnded)
          /\ piUsage' = [piUsage EXCEPT ![Len(piUsage)] = Mapper!Larger(@, u)]
          /\ UNCHANGED <<piMessage, piTools>>
    BY <2>1
  <2>3. u \in Nat BY <2>2
  <2>4. Mapper!MessageUpdate(type, place, u) /\ settled' = settled BY <1>1, <2>2, GuardedLive
  <2> QED BY <1>2, <2>2, <2>3, <2>4, UpdatesLive
<1>6. ASSUME EndsMessage PROVE Live'
  <2>1. PICK stopReason : \E u \in {0, 2} :
          /\ piMessage = "assistant" /\ piMessage' = "none"
          /\ Mapper!Guarded(Mapper!MessageEnd(stopReason, u))
          /\ piUsage' = [piUsage EXCEPT ![Len(piUsage)] = Mapper!Larger(@, u)]
          /\ UNCHANGED <<piEnded, piTools>>
    BY <1>6 DEF EndsMessage
  <2>2. PICK u \in {0, 2} :
          /\ piMessage = "assistant" /\ piMessage' = "none"
          /\ Mapper!Guarded(Mapper!MessageEnd(stopReason, u))
          /\ piUsage' = [piUsage EXCEPT ![Len(piUsage)] = Mapper!Larger(@, u)]
          /\ UNCHANGED <<piEnded, piTools>>
    BY <2>1
  <2>3. u \in Nat OBVIOUS
  <2>4. Mapper!MessageEnd(stopReason, u) /\ settled' = settled BY <1>1, <2>2, GuardedLive
  <2> QED BY <1>2, <2>2, <2>3, <2>4, MessagesEndLive
<1>7. ASSUME NEW id \in Ids \ DOMAIN piTools, NEW name \in {"suggest", "commit"}, Mapper!Guarded(Mapper!ToolStart(id, name)),
             piTools' = [i \in DOMAIN piTools \cup {id} |-> IF i = id THEN name ELSE piTools[i]],
             UNCHANGED <<piMessage, piEnded, piUsage>>
      PROVE  Live'
  <2>1. Mapper!ToolStart(id, name) /\ settled' = settled BY <1>1, <1>7, GuardedLive
  <2> QED BY <1>2, <1>7, <2>1, ToolsStartLive
<1>8. ASSUME NEW id \in DOMAIN piTools, NEW preview \in BOOLEAN, Says(Mapper!ToolUpdate(id, preview)) PROVE Live'
  <2>1. Mapper!ToolUpdate(id, preview) /\ settled' = settled /\ UNCHANGED <<piMessage, piEnded, piTools, piUsage>>
    BY <1>1, <1>8, GuardedLive DEF Says
  <2> QED BY <1>2, <2>1, ToolsUpdateLive
<1>9. ASSUME NEW id \in DOMAIN running, NEW ok \in BOOLEAN, NEW valid \in BOOLEAN, Says(Mapper!ToolEnd(id, ok, valid)) PROVE Live'
  <2>1. Mapper!ToolEnd(id, ok, valid) /\ settled' = settled /\ UNCHANGED <<piMessage, piEnded, piTools, piUsage>>
    BY <1>1, <1>9, GuardedLive DEF Says
  <2> QED BY <1>2, <2>1, ToolsEndLive
<1>10. ASSUME NEW method \in {"dialog", "set_editor_text", "setTitle"}, Says(Mapper!UiRequest(method, piCount)) PROVE Live'
  <2>1. Mapper!UiRequest(method, piCount) /\ settled' = settled /\ UNCHANGED <<piMessage, piEnded, piTools, piUsage>>
    BY <1>1, <1>10, GuardedLive DEF Says
  <2> QED BY <1>2, <2>1, DialogsLive
<1>11. ASSUME NEW begins \in BOOLEAN, Says(Mapper!Report(IF begins THEN "retry" ELSE "notice", begins)) PROVE Live'
  <2>1. Mapper!Report(IF begins THEN "retry" ELSE "notice", begins) /\ settled' = settled
        /\ UNCHANGED <<piMessage, piEnded, piTools, piUsage>>
    BY <1>1, <1>11, GuardedLive DEF Says
  <2> QED BY <1>2, <2>1, ReportsLive
<1> QED BY <1>3, <1>4, <1>5, <1>6, <1>7, <1>8, <1>9, <1>10, <1>11, PiWritesIs

\* Whatever pi writes then is passed over.
LEMMA WritesOver ==
  ASSUME Over, Mapper!PiWrites
  PROVE  Over'
<1>1. settled /\ now \in Nat /\ DOMAIN piTools \subseteq Ids BY DEF Over, MapperTyped
<1>2. UNCHANGED <<edit, now>> BY PiWritesIs
<1>4. UNCHANGED Mapper!mapper /\ settled' = settled
  BY <1>1, Zenon, PiWritesIs DEF Mapper!Guarded, Says, Shows, EndsMessage
<1>5. PiToolsGrow /\ DOMAIN piTools' \subseteq Ids
  <2>1. CASE piTools' = piTools BY <1>1, <2>1 DEF PiToolsGrow
  <2>2. ASSUME NEW id \in Ids \ DOMAIN piTools, NEW name,
               piTools' = [i \in DOMAIN piTools \cup {id} |-> IF i = id THEN name ELSE piTools[i]]
        PROVE  PiToolsGrow /\ DOMAIN piTools' \subseteq Ids
    BY <1>1, <2>2 DEF PiToolsGrow
  <2>3. piTools' = piTools \/ \E id \in Ids \ DOMAIN piTools, name \in {"suggest", "commit"} :
          piTools' = [i \in DOMAIN piTools \cup {id} |-> IF i = id THEN name ELSE piTools[i]]
    BY PiWritesIs, Zenon DEF Says, Shows, EndsMessage
  <2> QED BY <2>1, <2>2, <2>3
<1> QED BY <1>1, <1>2, <1>4, <1>5, OverStill DEF Mapper!mapper

LEMMA TickOver ==
  ASSUME Over, Mapper!Tick
  PROVE  Over'
<1>1. now \in Nat /\ DOMAIN piTools \subseteq Ids BY DEF Over, MapperTyped
<1>2. now' \in Nat BY <1>1 DEF Mapper!Tick
<1>3. UNCHANGED <<edit, announced, settled, previous, response, total, emitted, running, dialogs, blockCount, out, piTools>>
  BY DEF Mapper!Tick, Mapper!mapper, Mapper!pi
<1>4. PiToolsGrow BY <1>3 DEF PiToolsGrow
<1> QED BY <1>1, <1>2, <1>3, <1>4, OverStill

LEMMA MapperKeeps ==
  ASSUME MapperHolds, Throttle \in Nat, Mapper!Next
  PROVE  MapperHolds'
<1>1. CASE Mapper!PiWrites BY <1>1, WritesLive, WritesOver DEF MapperHolds
<1>2. CASE Mapper!Tick
  <2>1. Live => Live' BY <1>2, TickLive DEF Mapper!Tick, Mapper!mapper, Mapper!pi
  <2> QED BY <1>2, <2>1, TickOver DEF MapperHolds
<1>3. ASSUME NEW why, Mapper!Settle(why) PROVE MapperHolds'
  <2>1. ~settled BY <1>3 DEF Mapper!Settle
  <2>2. Live BY <2>1 DEF MapperHolds, Over
  <2> QED BY <1>3, <2>2, SettlesOver DEF MapperHolds
<1> QED BY <1>1, <1>2, <1>3 DEF Mapper!Next

LEMMA MapperStays ==
  ASSUME MapperHolds, UNCHANGED mapperVars
  PROVE  MapperHolds'
<1>1. UNCHANGED <<edit, announced, settled, reason, previous, response, total, emitted, usageAt, running,
        dialogs, blocks, blockCount, now, out, piMessage, piEnded, piTools, piCount, piUsage>>
  BY DEF mapperVars
<1>2. Mapper!SumUsage(piUsage)' = Mapper!SumUsage(piUsage) BY <1>1 DEF Mapper!SumUsage
<1>3. \A T : Mapper!Of(out, T)' = Mapper!Of(out, T) BY <1>1
<1>4. CASE Over
  <2>1. PiToolsGrow /\ DOMAIN piTools' \subseteq Ids /\ now' \in Nat BY <1>1, <1>4 DEF PiToolsGrow, Over, MapperTyped
  <2>2. Over' BY <1>1, <1>4, <2>1, OverStill
  <2> QED BY <2>2 DEF MapperHolds
<1>5. CASE Live
  <2>1. IsSeq(out) /\ Begun /\ ~settled /\ MapperTyped /\ Mapper!Figures BY <1>5 DEF Live, MapperTyped
  <2>2. AddsParts(out, out', <<>>, {}, <<>>, {}, <<>>, {}) /\ Adding({}) BY <1>1, <2>1, AddingNothing
  <2>3. Begun' BY <1>1, <2>1, <2>2, BegunStill
  <2>4. PiToolsGrow BY <1>1 DEF PiToolsGrow
  <2>5. AsksDialogs' /\ Tells' /\ Fills' /\ Speaks' /\ Works' /\ Previews' /\ IsSeq(out') /\ Mapper!Of(out', {"settled"}) = {}
    BY <1>1, <1>5, <2>2, <2>4, Calm
  <2>6. Mapper!Figures' BY <1>1, <2>1, FiguresStill
  <2>7. MapperTyped' BY <1>1, <2>1 DEF MapperTyped, IsSeq
  <2>8. Live' BY <1>1, <1>5, <2>3, <2>5, <2>6, <2>7 DEF Live
  <2> QED BY <2>8 DEF MapperHolds
<1> QED BY <1>4, <1>5 DEF MapperHolds

LEMMA NoSum == Mapper!SumUsage(<<>>) = 0
<1>1. <<>> \in Seq(Nat) /\ Len(<<>>) = 0 OBVIOUS
<1>2. PICK g : Sums(<<>>, g) BY <1>1, SumsExist
<1>3. Mapper!SumUsage(<<>>) = g[0] BY <1>1, <1>2, SumIs
<1> QED BY <1>2, <1>3 DEF Sums

LEMMA MapperStarts ==
  ASSUME Mapper!Init
  PROVE  MapperHolds
<1>0. /\ edit \in {"no", "suggest"} /\ announced = FALSE /\ settled = FALSE
      /\ previous = 0 /\ response = 0 /\ total = 0 /\ emitted = 0 /\ blockCount = 0 /\ now = 0
      /\ running = [i \in {} |-> 0] /\ dialogs = <<>> /\ blocks = [i \in {} |-> 0] /\ out = <<>>
      /\ piMessage = "none" /\ piEnded = {} /\ DOMAIN piTools = {} /\ piUsage = <<>>
  BY Zenon DEF Mapper!Init
<1>1. DOMAIN running = {} /\ DOMAIN blocks = {} BY <1>0
<1>2. Len(out) = 0 /\ Len(dialogs) = 0 /\ IsSeq(out) /\ IsSeq(dialogs)
  <2>1. <<>> \in Seq({}) /\ Len(<<>>) = 0 OBVIOUS
  <2> QED BY <1>0, <2>1 DEF IsSeq
<1>3. \A T : Mapper!Of(out, T) = {} BY <1>2, OfIs
<1>4. MapperTyped
  <2>1. running \in [DOMAIN running -> Tools] BY <1>0, <1>1
  <2>2. announced \in BOOLEAN /\ DOMAIN piTools \subseteq Ids BY <1>0
  <2>3. now \in Nat /\ blockCount \in Nat /\ previous \in Nat /\ response \in Nat /\ total \in Nat /\ emitted \in Nat
        /\ emitted <= total
    BY <1>0
  <2> QED BY <1>2, <2>1, <2>2, <2>3 DEF MapperTyped
<1>5. Begun BY <1>2, <1>3 DEF Begun, Mapper!StartsOnce, Mapper!Opened
<1>6. AsksDialogs /\ Tells /\ Fills BY <1>3 DEF AsksDialogs, Tells, Fills, Mapper!DialogsDiffer, Mapper!UsageGrows, Mapper!OnlyTheEditFillsTheBuffer
<1>7. Speaks /\ Works /\ Previews
  BY <1>1, <1>3 DEF Speaks, Works, Previews, Mapper!BlocksEnd, Mapper!BlocksAreOver, Mapper!ToolsPair, Mapper!ToolsRun,
     Mapper!UpdatesAreThrottled, Mapper!UpdatesAreDated
<1>8. Mapper!Figures
  <2>1. piUsage = <<>> /\ <<>> \in Seq(Nat) /\ total = 0 /\ previous = 0 /\ response = 0 /\ piMessage # "assistant" BY <1>0
  <2> QED BY <2>1, NoSum DEF Mapper!Figures
<1> QED BY <1>0, <1>3, <1>4, <1>5, <1>6, <1>7, <1>8 DEF MapperHolds, Live

MapperScene == scene = "mapper" => MapperHolds

LEMMA MapperSteps ==
  ASSUME [Next]_vars, scene = "mapper"
  PROVE  Mapper!Next \/ UNCHANGED mapperVars
BY DEF Next, vars, MapperOnly, QueueOnly, RingOnly, ConvOnly, LineOnly, ConfigOnly, ContextOnly

LEMMA MapperSceneKept ==
  ASSUME MapperScene, [Next]_vars, scene = "mapper"
  PROVE  MapperHolds'
BY MapperSteps, MapperKeeps, MapperStays, ServicesAssumption DEF MapperScene

\* The inductive invariant of the mapper holds (TurnMapper.MapperInductive).
THEOREM MapperInvariance == Spec => [](scene = "mapper" => Mapper!MapperInductive)
<1>1. Init => MapperScene BY MapperStarts DEF Init, MapperScene
<1>2. MapperScene /\ [Next]_vars => MapperScene' BY SceneStays, MapperSceneKept DEF MapperScene
<1>3. MapperScene => (scene = "mapper" => Mapper!MapperInductive) BY MapperIs DEF MapperScene
<1> QED BY <1>1, <1>2, <1>3, PTL DEF Spec

\* Whatever pi writes in a turn and however the turn ends: its events keep the port's
\* contract, its usage is the sum over pi's responses and no event claims more, only
\* the tool of an edit fills the buffer, and updates of a tool keep their distance
\* (mapping.ts).
THEOREM TurnEventsAreInOrder ==
  Spec => [](scene = "mapper" => /\ Mapper!Contract /\ Mapper!UsageIsTheSum
                                 /\ Mapper!OnlyTheEditFillsTheBuffer /\ Mapper!UpdatesAreThrottled)
<1>1. Init => MapperScene BY MapperStarts DEF Init, MapperScene
<1>2. MapperScene /\ [Next]_vars => MapperScene' BY SceneStays, MapperSceneKept DEF MapperScene
<1>3. MapperScene => (scene = "mapper" => /\ Mapper!Contract /\ Mapper!UsageIsTheSum
                                          /\ Mapper!OnlyTheEditFillsTheBuffer /\ Mapper!UpdatesAreThrottled)
  BY MapperIs DEF MapperScene, Mapper!MapperInductive
<1> QED BY <1>1, <1>2, <1>3, PTL DEF Spec

-----------------------------------------------------------------------------
(* The weight of a set, as the folds of the library define it.                *)

One(s) == CHOOSE x \in s : TRUE
Weighs(S, w, g) ==
  g = [s \in SUBSET S |-> IF s = {} THEN 0 ELSE w[One(s)] + g[s \ {One(s)}]]

LEMMA WeightsExist ==
  ASSUME NEW S, IsFiniteSet(S), NEW w
  PROVE  \E g : Weighs(S, w, g)
<1> DEFINE Val(s, g) == IF s = {} THEN 0 ELSE w[One(s)] + g[s \ {One(s)}]
           P(n, g) == \A s \in SUBSET S : Cardinality(s) <= n => g[s] = Val(s, g)
           T == {n \in Nat : \E g : P(n, g)}
<1>0. \A s \in SUBSET S : IsFiniteSet(s) /\ Cardinality(s) \in Nat /\ Cardinality(s) <= Cardinality(S)
  BY FS_Subset, FS_CardinalityType
<1>1. 0 \in T
  <2> DEFINE g == [s \in SUBSET S |-> 0]
  <2>1. \A s \in SUBSET S : Cardinality(s) <= 0 => s = {} BY <1>0, FS_EmptySet
  <2>2. P(0, g) BY <2>1
  <2> HIDE DEF g, P
  <2> QED BY <2>2
<1>2. ASSUME NEW n \in T PROVE n + 1 \in T
  <2>0. n \in Nat OBVIOUS
  <2>1. PICK g : P(n, g) OBVIOUS
  <2> DEFINE h == [s \in SUBSET S |-> Val(s, g)]
  <2>2. ASSUME NEW s \in SUBSET S, Cardinality(s) <= n + 1 PROVE h[s] = Val(s, h)
    <3>1. CASE s = {} BY <3>1
    <3>2. CASE s # {}
      <4> DEFINE t == s \ {One(s)}
      <4>1. One(s) \in s BY <3>2 DEF One
      <4>2. t \in SUBSET S /\ Cardinality(t) = Cardinality(s) - 1 BY <1>0, <4>1, FS_RemoveElement
      <4>3. Cardinality(t) <= n BY <1>0, <2>0, <2>2, <4>2
      <4>4. g[t] = Val(t, g) BY <2>1, <4>2, <4>3
      <4>5. h[t] = g[t] BY <4>2, <4>4
      <4>6. h[s] = w[One(s)] + g[t] BY <3>2
      <4> HIDE DEF h
      <4> QED BY <3>2, <4>5, <4>6
    <3> QED BY <3>1, <3>2
  <2> HIDE DEF h
  <2>3. P(n + 1, h) BY <2>2
  <2> HIDE DEF P
  <2> QED BY <2>0, <2>3
<1>3. T = Nat
  <2>1. T \subseteq Nat OBVIOUS
  <2> HIDE DEF T
  <2> QED BY <1>1, <1>2, <2>1, NatInd
<1>4. Cardinality(S) \in T BY <1>0, <1>3
<1>5. PICK g : P(Cardinality(S), g) BY <1>4
<1> DEFINE h == [s \in SUBSET S |-> g[s]]
<1>6. \A s \in SUBSET S : g[s] = Val(s, g) BY <1>0, <1>5
<1>7. \A s \in SUBSET S : h[s] = Val(s, h)
  <2> TAKE s \in SUBSET S
  <2>1. s \ {One(s)} \in SUBSET S OBVIOUS
  <2> QED BY <1>6, <2>1
<1>8. h = [s \in SUBSET S |-> h[s]] OBVIOUS
<1> HIDE DEF h
<1>9. Weighs(S, w, h)
  <2>1. [s \in SUBSET S |-> h[s]] = [s \in SUBSET S |-> Val(s, h)] BY <1>7
  <2> QED BY <1>8, <2>1 DEF Weighs
<1> QED BY <1>9

\* What a set weighs is at least what each member does, and their number when each weighs one.
LEMMA WeightBounds ==
  ASSUME NEW S, IsFiniteSet(S), NEW w, \A x \in S : w[x] \in Nat, NEW g, Weighs(S, w, g)
  PROVE  /\ g[S] \in Nat
         /\ \A x \in S : w[x] <= g[S]
         /\ (\A x \in S : w[x] = 1) => g[S] = Cardinality(S)
<1> DEFINE P(s) == /\ g[s] \in Nat
                   /\ \A x \in s : w[x] <= g[s]
                   /\ (\A x \in s : w[x] = 1) => g[s] = Cardinality(s)
           T == {n \in Nat : \A s \in SUBSET S : Cardinality(s) = n => P(s)}
<1>0. \A s \in SUBSET S : IsFiniteSet(s) /\ Cardinality(s) \in Nat
  BY FS_Subset, FS_CardinalityType
<1>1. 0 \in T
  <2> SUFFICES ASSUME NEW s \in SUBSET S, Cardinality(s) = 0 PROVE P(s) OBVIOUS
  <2>1. s = {} BY <1>0, FS_EmptySet
  <2>2. g[s] = 0 BY <2>1 DEF Weighs
  <2> QED BY <2>1, <2>2
<1>2. ASSUME NEW n \in T PROVE n + 1 \in T
  <2> SUFFICES ASSUME NEW s \in SUBSET S, Cardinality(s) = n + 1 PROVE P(s) OBVIOUS
  <2>9. n \in Nat /\ Cardinality({}) = 0 BY FS_EmptySet
  <2>0. n \in Nat /\ s # {} BY <2>9
  <2> DEFINE x == One(s)
             t == s \ {x}
  <2>1. x \in s /\ x \in S BY <2>0 DEF One
  <2>2. t \in SUBSET S /\ Cardinality(t) = n
    <3>1. Cardinality(t) = Cardinality(s) - 1 BY <1>0, <2>1, FS_RemoveElement
    <3> HIDE DEF t
    <3>2. Cardinality(t) = n BY <2>0, <3>1
    <3> QED BY <3>2 DEF t
  <2>3. P(t) BY <2>2
  <2>4. g[s] = w[x] + g[t] BY <2>0 DEF Weighs
  <2>5. w[x] \in Nat BY <2>1
  <2>6. \A y \in s : y = x \/ y \in t OBVIOUS
  <2> HIDE DEF x, t
  <2>7. \A y \in s : w[y] \in Nat /\ w[y] <= g[s] BY <2>3, <2>4, <2>5, <2>6
  <2>8. ASSUME \A y \in s : w[y] = 1 PROVE g[s] = Cardinality(s)
    <3>1. \A y \in t : w[y] = 1 BY <2>8 DEF t
    <3> QED BY <2>0, <2>1, <2>2, <2>3, <2>4, <2>8, <3>1
  <2> QED BY <2>3, <2>4, <2>5, <2>7, <2>8
<1>3. T \subseteq Nat OBVIOUS
<1> HIDE DEF P
<1>4. T = Nat
  <2> HIDE DEF T
  <2> QED BY <1>1, <1>2, <1>3, NatInd
<1>5. Cardinality(S) \in T BY <1>0, <1>4
<1> QED BY <1>5 DEF P

\* The fold takes the one there is.
LEMMA FoldIs ==
  ASSUME NEW S, IsFiniteSet(S), NEW w, \A x \in S : w[x] \in Nat
  PROVE  LET iter == CHOOSE g : Weighs(S, w, g) IN
         /\ iter[S] \in Nat
         /\ \A x \in S : w[x] <= iter[S]
         /\ (\A x \in S : w[x] = 1) => iter[S] = Cardinality(S)
<1> DEFINE iter == CHOOSE g : Weighs(S, w, g)
<1>1. Weighs(S, w, iter) BY WeightsExist
<1> HIDE DEF iter
<1> QED BY <1>1, WeightBounds

-----------------------------------------------------------------------------
(* The ring of the daemon.                                                   *)

LEMMA TheRun ==
  ASSUME NEW a \in Int, NEW b \in Int, a <= b + 1
  PROVE  /\ Ring!Run(a, b) \in Seq(a .. b) /\ Len(Ring!Run(a, b)) = b - a + 1
         /\ DOMAIN Ring!Run(a, b) = 1 .. b - a + 1
         /\ \A i \in 1 .. b - a + 1 : Ring!Run(a, b)[i] = a + i - 1
         /\ a = b + 1 <=> Ring!Run(a, b) = <<>>
<1> DEFINE r == Ring!Run(a, b)
           n == b - a + 1
<1>1. n \in Nat OBVIOUS
<1>2. r = [i \in 1 .. n |-> a + i - 1] BY DEF Ring!Run
<1>3. \A i \in 1 .. n : a + i - 1 \in a .. b OBVIOUS
<1> HIDE DEF r
<1>4. r \in [1 .. n -> a .. b] BY <1>2, <1>3
<1>5. r \in Seq(a .. b) /\ Len(r) = n BY <1>1, <1>4
<1>6. n = 0 <=> r = <<>>
  <2> HIDE DEF n
  <2> QED BY <1>5
<1> QED BY <1>2, <1>5, <1>6 DEF r

LEMMA RunOfNothing ==
  ASSUME NEW a \in Int, NEW b \in Int, a > b
  PROVE  Ring!Run(a, b) = <<>>
<1>1. 1 .. b - a + 1 = {} OBVIOUS
<1>2. Ring!Run(a, b) = [i \in {} |-> a + i - 1] BY <1>1 DEF Ring!Run
<1>3. [i \in {} |-> a + i - 1] = <<>> OBVIOUS
<1> QED BY <1>2, <1>3

LEMMA RunGrows ==
  ASSUME NEW a \in Int, NEW b \in Int, a <= b + 1
  PROVE  Append(Ring!Run(a, b), b + 1) = Ring!Run(a, b + 1)
<1> DEFINE r == Ring!Run(a, b)
           s == Ring!Run(a, b + 1)
           t == Append(r, b + 1)
<1>1. r \in Seq(a .. b) /\ Len(r) = b - a + 1 /\ \A i \in 1 .. b - a + 1 : r[i] = a + i - 1 BY TheRun
<1>2. s \in Seq(a .. b + 1) /\ Len(s) = b - a + 2 /\ \A i \in 1 .. b - a + 2 : s[i] = a + i - 1
  <2> DEFINE c == b + 1
  <2>1. c \in Int /\ a <= c + 1 OBVIOUS
  <2>2. s = Ring!Run(a, c) OBVIOUS
  <2> HIDE DEF s, c
  <2>3. s \in Seq(a .. c) /\ Len(s) = c - a + 1 /\ \A i \in 1 .. c - a + 1 : s[i] = a + i - 1 BY <2>1, <2>2, TheRun
  <2> QED BY <2>3 DEF c
<1> HIDE DEF r, s
<1>3. t \in Seq(a .. b + 1) /\ Len(t) = b - a + 2 /\ \A i \in 1 .. b - a + 2 : t[i] = s[i]
  BY <1>1, <1>2
<1> HIDE DEF t
<1>4. t = s BY <1>2, <1>3, SeqEqual
<1> QED BY <1>4 DEF r, s, t

LEMMA RunShrinks ==
  ASSUME NEW a \in Int, NEW b \in Int, a <= b
  PROVE  Tail(Ring!Run(a, b)) = Ring!Run(a + 1, b) /\ Ring!Run(a, b)[1] = a /\ Ring!Run(a, b) # <<>>
<1> DEFINE r == Ring!Run(a, b)
           s == Ring!Run(a + 1, b)
           t == Tail(r)
<1>1. r \in Seq(a .. b) /\ Len(r) = b - a + 1 /\ \A i \in 1 .. b - a + 1 : r[i] = a + i - 1 BY TheRun
<1>2. s \in Seq(a + 1 .. b) /\ Len(s) = b - a /\ \A i \in 1 .. b - a : s[i] = a + i
  <2> DEFINE c == a + 1
  <2>1. c \in Int /\ c <= b + 1 OBVIOUS
  <2>2. s = Ring!Run(c, b) OBVIOUS
  <2> HIDE DEF s, c
  <2>3. s \in Seq(c .. b) /\ Len(s) = b - c + 1 /\ \A i \in 1 .. b - c + 1 : s[i] = c + i - 1 BY <2>1, <2>2, TheRun
  <2> QED BY <2>3 DEF c
<1> HIDE DEF r, s
<1>3. r # <<>> BY <1>1
<1>4. t \in Seq(a .. b) /\ Len(t) = b - a /\ \A i \in 1 .. b - a : t[i] = s[i] BY <1>1, <1>2, <1>3
<1> HIDE DEF t
<1>5. t = s BY <1>2, <1>4, SeqEqual
<1>6. r[1] = a BY <1>1
<1> QED BY <1>3, <1>5, <1>6 DEF r, s, t

\* An event weighs one, or more than the ring can hold.
LEMMA Lengths ==
  ASSUME limitBytes \in Nat, NEW kind \in Ring!Kinds
  PROVE  /\ Ring!Length(kind) \in Nat
         /\ kind = "huge" => Ring!Length(kind) > limitBytes
         /\ kind # "huge" => Ring!Length(kind) = 1
BY DEF Ring!Length

LEMMA TailWeighs ==
  ASSUME limitBytes \in Nat, NEW all \in Seq(Ring!Kinds), NEW S, IsFiniteSet(S),
         NEW f, \A x \in S : f[x] \in DOMAIN all, NEW w, \A x \in S : w[x] = Ring!Length(all[f[x]])
  PROVE  LET iter == CHOOSE g : Weighs(S, w, g) IN
         iter[S] <= limitBytes <=> Cardinality(S) <= limitBytes /\ \A x \in S : all[f[x]] # "huge"
<1> DEFINE iter == CHOOSE g : Weighs(S, w, g)
<1>1. \A x \in S : all[f[x]] \in Ring!Kinds OBVIOUS
<1>2. \A x \in S : w[x] \in Nat BY <1>1, Lengths
<1>3. /\ iter[S] \in Nat
      /\ \A x \in S : w[x] <= iter[S]
      /\ (\A x \in S : w[x] = 1) => iter[S] = Cardinality(S)
  BY <1>2, FoldIs
<1> DEFINE v == iter[S]
<1> HIDE DEF v, iter
<1>4. CASE \A x \in S : all[f[x]] # "huge"
  <2>1. \A x \in S : w[x] = 1 BY <1>1, <1>4, Lengths
  <2>2. iter[S] = Cardinality(S) BY <1>3, <2>1
  <2> QED BY <1>4, <2>2 DEF iter
<1>5. CASE ~\A x \in S : all[f[x]] # "huge"
  <2>1. PICK x \in S : all[f[x]] = "huge" BY <1>5
  <2>2. w[x] > limitBytes BY <1>1, <2>1, Lengths
  <2>3. w[x] \in Nat /\ w[x] <= iter[S] /\ iter[S] \in Nat BY <1>2, <1>3
  <2>4. ~(iter[S] <= limitBytes) BY <2>2, <2>3
  <2> QED BY <1>5, <2>4 DEF iter
<1> QED BY <1>4, <1>5

LEMMA BytesAre ==
  ASSUME limitBytes \in Nat, NEW all \in Seq(Ring!Kinds), NEW a \in Nat \ {0}, a <= Len(all)
  PROVE  Ring!Bytes(all, Ring!Run(a, Len(all))) <= limitBytes <=> Ring!Light(all, a)
<1> DEFINE b == Len(all)
           r == Ring!Run(a, b)
           S == 1 .. b - a + 1
           w == [x \in S |-> Ring!Length(all[r[x]])]
           iter == CHOOSE g : Weighs(S, w, g)
<1>1. DOMAIN r = S /\ \A i \in S : r[i] = a + i - 1
  <2>1. b \in Int /\ a <= b + 1 OBVIOUS
  <2> QED BY <2>1, TheRun
<1>2. IsFiniteSet(S) /\ Cardinality(S) = b - a + 1
  <2>1. b - a + 1 \in Int /\ 1 <= b - a + 1 OBVIOUS
  <2> QED BY <2>1, FS_Interval
<1> HIDE DEF r, S
<1>3. Ring!Bytes(all, r) = iter[S]
  <2>1. Ring!Bytes(all, r) =
          (LET it[s \in SUBSET S] == IF s = {} THEN 0
                                     ELSE Ring!Length(all[r[One(s)]]) + it[s \ {One(s)}]
           IN  it[S])
    BY <1>1 DEF Ring!Bytes, Ring!FoldSeq, Ring!FoldFunction, Ring!FoldFunctionOnSet, Ring!MapThenFoldSet, One
  <2>2. \A s \in SUBSET S : s # {} => w[One(s)] = Ring!Length(all[r[One(s)]]) BY DEF One
  <2> HIDE DEF w
  <2>3. \A g : [s \in SUBSET S |-> IF s = {} THEN 0 ELSE w[One(s)] + g[s \ {One(s)}]]
             = [s \in SUBSET S |-> IF s = {} THEN 0 ELSE Ring!Length(all[r[One(s)]]) + g[s \ {One(s)}]]
    BY <2>2
  <2>4. \A g : Weighs(S, w, g) <=> g = [s \in SUBSET S |-> IF s = {} THEN 0 ELSE Ring!Length(all[r[One(s)]]) + g[s \ {One(s)}]]
    BY <2>3 DEF Weighs
  <2>5. (CHOOSE g : Weighs(S, w, g)) =
        CHOOSE g : g = [s \in SUBSET S |-> IF s = {} THEN 0 ELSE Ring!Length(all[r[One(s)]]) + g[s \ {One(s)}]]
    BY <2>4
  <2> QED BY <2>1, <2>5
<1>4. \A x \in S : r[x] \in DOMAIN all BY <1>1 DEF S
<1>5. iter[S] <= limitBytes <=> Cardinality(S) <= limitBytes /\ \A x \in S : all[r[x]] # "huge"
  BY <1>2, <1>4, TailWeighs
<1>6. (\A x \in S : all[r[x]] # "huge") <=> \A s \in a .. b : all[s] # "huge"
  <2>1. ASSUME \A x \in S : all[r[x]] # "huge", NEW s \in a .. b PROVE all[s] # "huge"
    <3>1. s - a + 1 \in S /\ a + (s - a + 1) - 1 = s BY DEF S
    <3>2. r[s - a + 1] = s BY <1>1, <3>1
    <3> QED BY <2>1, <3>1, <3>2
  <2>2. ASSUME \A s \in a .. b : all[s] # "huge", NEW x \in S PROVE all[r[x]] # "huge"
    <3>1. r[x] \in a .. b BY <1>1 DEF S
    <3> QED BY <2>2, <3>1
  <2> QED BY <2>1, <2>2
<1> HIDE DEF iter
<1> QED BY <1>2, <1>3, <1>5, <1>6 DEF r, Ring!Light

\* What `since` returns.
LEMMA SinceIs ==
  ASSUME NEW a \in Int, NEW b \in Int, a <= b + 1, entries = Ring!Run(a, b), NEW from \in Int
  PROVE  Ring!Since(from) = Ring!Run(IF from > a THEN from ELSE a, b)
<1> DEFINE n == b - a + 1
           c == IF from > a THEN from ELSE a
           Holds(g) == g = [m \in 0 .. n |-> IF m = 0 THEN <<>>
                                             ELSE IF a + m - 1 >= from THEN Append(g[m - 1], a + m - 1) ELSE g[m - 1]]
           h == [m \in 0 .. n |-> Ring!Run(c, a + m - 1)]
<1>0. n \in Nat /\ c \in Int /\ c >= a /\ c >= from /\ (c = a \/ c = from) OBVIOUS
<1>1. Len(entries) = n /\ \A m \in 1 .. n : entries[m] = a + m - 1 BY TheRun
<1>2. Ring!Since(from) = (CHOOSE g : Holds(g))[n]
  <2>1. \A g : [m \in 0 .. n |-> IF m = 0 THEN <<>> ELSE IF entries[m] >= from THEN Append(g[m - 1], entries[m]) ELSE g[m - 1]]
             = [m \in 0 .. n |-> IF m = 0 THEN <<>> ELSE IF a + m - 1 >= from THEN Append(g[m - 1], a + m - 1) ELSE g[m - 1]]
    <3> TAKE g
    <3>1. \A m \in 0 .. n : m # 0 => entries[m] = a + m - 1 BY <1>1
    <3> HIDE DEF n
    <3> QED BY <3>1
  <2> HIDE DEF n
  <2>2. Ring!Since(from) =
          (CHOOSE g : g = [m \in 0 .. n |-> IF m = 0 THEN <<>> ELSE IF entries[m] >= from THEN Append(g[m - 1], entries[m]) ELSE g[m - 1]])[n]
    BY <1>1 DEF Ring!Since
  <2> QED BY <2>1, <2>2
<1> HIDE DEF c
<1>3. ASSUME NEW m \in 1 .. n PROVE /\ a + m - 1 >= from => Ring!Run(c, a + m - 1) = Append(Ring!Run(c, a + m - 2), a + m - 1)
                                    /\ ~(a + m - 1 >= from) => Ring!Run(c, a + m - 1) = Ring!Run(c, a + m - 2)
  <2> DEFINE e == a + m - 2
  <2>0. m \in Int /\ e \in Int /\ a + m - 1 = e + 1 /\ e + 1 >= a BY <1>0
  <2> HIDE DEF e, n
  <2>1. CASE e + 1 >= from
    <3>1. c <= e + 1 BY <1>0, <2>0, <2>1
    <3>2. Append(Ring!Run(c, e), e + 1) = Ring!Run(c, e + 1) BY <1>0, <2>0, <3>1, RunGrows
    <3> QED BY <2>0, <2>1, <3>2 DEF e
  <2>2. CASE ~(e + 1 >= from)
    <3>1. c > e /\ c > e + 1 /\ e + 1 \in Int BY <1>0, <2>0, <2>2
    <3>2. Ring!Run(c, e) = <<>> /\ Ring!Run(c, e + 1) = <<>> BY <1>0, <2>0, <3>1, RunOfNothing
    <3> QED BY <2>0, <2>2, <3>2 DEF e
  <2> QED BY <2>1, <2>2
<1>4. Ring!Run(c, a + 0 - 1) = <<>>
  <2>1. a + 0 - 1 \in Int /\ c > a + 0 - 1 BY <1>0
  <2> HIDE DEF n
  <2> QED BY <1>0, <2>1, RunOfNothing
<1> HIDE DEF n
<1>5. Holds(h)
  <2>1. \A m \in 0 .. n : h[m] = IF m = 0 THEN <<>>
                                 ELSE IF a + m - 1 >= from THEN Append(h[m - 1], a + m - 1) ELSE h[m - 1]
    <3> TAKE m \in 0 .. n
    <3>1. CASE m = 0 BY <1>0, <1>4, <3>1
    <3>2. CASE m # 0
      <4>1. m \in 1 .. n /\ m - 1 \in 0 .. n /\ a + (m - 1) - 1 = a + m - 2 BY <1>0, <3>2
      <4>2. h[m] = Ring!Run(c, a + m - 1) /\ h[m - 1] = Ring!Run(c, a + m - 2) BY <4>1
      <4> HIDE DEF h
      <4> QED BY <1>3, <3>2, <4>1, <4>2
    <3> QED BY <3>1, <3>2
  <2>2. h = [m \in 0 .. n |-> h[m]] OBVIOUS
  <2> HIDE DEF h
  <2>3. [m \in 0 .. n |-> h[m]] = [m \in 0 .. n |-> IF m = 0 THEN <<>>
                                 ELSE IF a + m - 1 >= from THEN Append(h[m - 1], a + m - 1) ELSE h[m - 1]]
    BY <2>1
  <2> QED BY <2>2, <2>3
<1> DEFINE g == CHOOSE k : Holds(k)
<1>6. Holds(g)
  <2> HIDE DEF Holds, h
  <2> QED BY <1>5
<1> HIDE DEF g
<1>7. \A m \in 0 .. n : g[m] = h[m]
  <2> DEFINE T == {m \in Nat : m <= n => g[m] = h[m]}
  <2>1. 0 \in T
    <3>1. 0 \in 0 .. n BY <1>0
    <3>2. g[0] = <<>> BY <1>6, <3>1
    <3>3. h[0] = <<>> BY <1>5, <3>1
    <3> QED BY <3>2, <3>3
  <2>2. ASSUME NEW m \in T PROVE m + 1 \in T
    <3>0. m \in Nat /\ (m <= n => g[m] = h[m]) OBVIOUS
    <3> HIDE DEF T
    <3> SUFFICES ASSUME m + 1 <= n PROVE g[m + 1] = h[m + 1] BY <3>0 DEF T
    <3> DEFINE k == m + 1
    <3>1. k \in 0 .. n /\ k # 0 /\ k - 1 = m /\ m <= n BY <1>0, <3>0
    <3> HIDE DEF k
    <3>2. g[k] = IF a + k - 1 >= from THEN Append(g[k - 1], a + k - 1) ELSE g[k - 1] BY <1>6, <3>1
    <3>3. h[k] = IF a + k - 1 >= from THEN Append(h[k - 1], a + k - 1) ELSE h[k - 1]
      <4> HIDE DEF h
      <4> QED BY <1>5, <3>1
    <3> HIDE DEF h
    <3>4. g[k] = h[k] BY <3>0, <3>1, <3>2, <3>3
    <3> QED BY <3>4 DEF k
  <2>3. T \subseteq Nat OBVIOUS
  <2> HIDE DEF T
  <2>4. T = Nat BY <2>1, <2>2, <2>3, NatInd
  <2> TAKE m \in 0 .. n
  <2>5. m \in Nat /\ m <= n BY <1>0
  <2>6. m \in T BY <2>4, <2>5
  <2> HIDE DEF h
  <2> QED BY <2>5, <2>6 DEF T
<1>8. g[n] = h[n] /\ h[n] = Ring!Run(c, a + n - 1) BY <1>0, <1>7
<1>9. a + n - 1 = b BY DEF n
<1> QED BY <1>2, <1>8, <1>9 DEF g, c

LEMMA DropIs ==
  ASSUME NEW c \in Nat, NEW N \in Nat, c < N, NEW keep \in Int
  PROVE  /\ c # keep => Ring!Drop(Ring!Run(c, N), keep) = Ring!Run(c + 1, N)
         /\ c = keep /\ keep = N - 1 => Ring!Drop(Ring!Run(c, N), keep) = Ring!Run(keep, keep)
<1>1. Tail(Ring!Run(c, N)) = Ring!Run(c + 1, N) /\ Ring!Run(c, N)[1] = c BY RunShrinks
<1>2. CASE c # keep BY <1>1, <1>2 DEF Ring!Drop
<1>3. ASSUME c = keep, keep = N - 1 PROVE Ring!Drop(Ring!Run(c, N), keep) = Ring!Run(keep, keep)
  <2>1. Ring!Run(c + 1, N) = Ring!Run(N, N) BY <1>3
  <2>2. Tail(Ring!Run(N, N)) = Ring!Run(N + 1, N) BY RunShrinks
  <2>3. Ring!Run(N + 1, N) = <<>> BY RunOfNothing
  <2>4. Ring!Drop(Ring!Run(c, N), keep) = <<keep>> \o <<>> BY <1>1, <1>3, <2>1, <2>2, <2>3 DEF Ring!Drop
  <2>5. Append(Ring!Run(keep, keep - 1), (keep - 1) + 1) = Ring!Run(keep, (keep - 1) + 1)
    <3> DEFINE b == keep - 1
    <3>1. b \in Int /\ keep <= b + 1 OBVIOUS
    <3> HIDE DEF b
    <3>2. Append(Ring!Run(keep, b), b + 1) = Ring!Run(keep, b + 1) BY <3>1, RunGrows
    <3> QED BY <3>2 DEF b
  <2>6. Ring!Run(keep, keep - 1) = <<>> BY RunOfNothing
  <2>7. (keep - 1) + 1 = keep OBVIOUS
  <2>8. Append(<<>>, keep) = Ring!Run(keep, keep) BY <2>5, <2>6, <2>7
  <2>9. Append(<<>>, keep) = <<keep>> /\ <<keep>> \o <<>> = <<keep>> OBVIOUS
  <2> QED BY <2>4, <2>8, <2>9
<1> QED BY <1>1, <1>2, <1>3 DEF Ring!Drop

\* What push leaves of the run from a to N: the one from c, or the settle alone.
LeavesRun(all, a, N, keep, c) ==
  /\ \A f \in a .. c - 1 : ~Ring!Light(all, f)
  /\ IF keep # 0 /\ keep = N - 1 /\ c = N
       THEN Ring!Trimmed(all, Ring!Run(a, N), keep) = Ring!Run(keep, keep)
       ELSE /\ Ring!Trimmed(all, Ring!Run(a, N), keep) = Ring!Run(c, N)
            /\ Ring!Light(all, c) \/ c = N

\* The loop of push drops from the front until the rest fits, and leaves one entry: the
\* settle, or else the newest.
LEMMA TrimmedIs ==
  ASSUME limitBytes \in Nat, NEW all \in Seq(Ring!Kinds), NEW N \in Nat, N = Len(all), NEW a \in Nat \ {0}, a <= N,
         NEW keep \in Nat, keep \in {0, N} \/ (keep = N - 1 /\ a <= keep)
  PROVE  \E c \in a .. N : LeavesRun(all, a, N, keep, c)
<1> DEFINE L == N - a
           moved == keep # 0 /\ keep = N - 1
           seqs == Ring!Run(a, N)
           h == [k \in 0 .. L |-> IF moved /\ k = L THEN Ring!Run(keep, keep) ELSE Ring!Run(a + k, N)]
           Holds(g) == g = [k \in 0 .. L |-> IF k = 0 THEN seqs ELSE Ring!Drop(g[k - 1], keep)]
           after == CHOOSE g : Holds(g)
           enough == {k \in 0 .. L : Ring!Bytes(all, after[k]) <= limitBytes}
           kk == IF enough = {} THEN L ELSE Ring!Min(enough)
<1>0. L \in Nat /\ moved \in BOOLEAN /\ (moved => a <= N - 1 /\ L >= 1) /\ Len(seqs) - 1 = L
  <2>1. Len(seqs) = N - a + 1 BY TheRun
  <2> HIDE DEF seqs
  <2> QED BY <2>1
<1>1. Ring!Trimmed(all, seqs, keep) = after[kk]
  <2> HIDE DEF L, seqs
  <2> QED BY <1>0 DEF Ring!Trimmed
<1>2. Holds(h)
  <2>1. ASSUME NEW k \in 0 .. L PROVE h[k] = IF k = 0 THEN seqs ELSE Ring!Drop(h[k - 1], keep)
    <3>1. CASE k = 0
      <4>1. ~(moved /\ k = L) BY <1>0, <3>1
      <4>2. a + k = a BY <3>1
      <4> HIDE DEF moved, L
      <4> QED BY <3>1, <4>1, <4>2
    <3>2. CASE k # 0
      <4> DEFINE c == a + (k - 1)
      <4>1. k - 1 \in 0 .. L /\ k - 1 # L /\ c \in Nat /\ c < N /\ c + 1 = a + k BY <3>2
      <4>2. h[k - 1] = Ring!Run(c, N)
        <5> HIDE DEF moved, L
        <5> QED BY <4>1
      <4> HIDE DEF c
      <4>3. CASE moved /\ k = L
        <5>1. c = keep /\ keep = N - 1 BY <4>3 DEF c
        <5>2. Ring!Drop(Ring!Run(c, N), keep) = Ring!Run(keep, keep) BY <4>1, <5>1, DropIs, SMTT(40)
        <5>3. h[k] = Ring!Run(keep, keep)
          <6> HIDE DEF moved, L
          <6> QED BY <4>3
        <5> HIDE DEF h
        <5> QED BY <3>2, <4>2, <5>2, <5>3
      <4>4. CASE ~(moved /\ k = L)
        <5>1. c # keep
          <6>1. c = a + (k - 1) /\ k \in 1 .. L /\ L = N - a /\ c >= 1 /\ c < N BY <3>2, <4>1 DEF c
          <6>2. CASE keep = N - 1 /\ a <= keep
            <7>1. moved /\ k # L BY <4>4, <6>2
            <7> HIDE DEF moved, L
            <7> QED BY <6>1, <6>2, <7>1
          <6>3. CASE keep \in {0, N} BY <6>1, <6>3
          <6> QED BY <6>2, <6>3
        <5>2. Ring!Drop(Ring!Run(c, N), keep) = Ring!Run(c + 1, N) BY <4>1, <5>1, DropIs
        <5>3. h[k] = Ring!Run(a + k, N)
          <6> HIDE DEF moved, L
          <6> QED BY <4>4
        <5> HIDE DEF h
        <5> QED BY <3>2, <4>1, <4>2, <5>2, <5>3
      <4> QED BY <4>3, <4>4
    <3> QED BY <3>1, <3>2
  <2>2. h = [k \in 0 .. L |-> h[k]] OBVIOUS
  <2> HIDE DEF h
  <2>3. [k \in 0 .. L |-> h[k]] = [k \in 0 .. L |-> IF k = 0 THEN seqs ELSE Ring!Drop(h[k - 1], keep)] BY <2>1
  <2> QED BY <2>2, <2>3
<1>3. Holds(after)
  <2> HIDE DEF Holds, h
  <2> QED BY <1>2
<1>4. \A k \in 0 .. L : after[k] = h[k]
  <2> HIDE DEF after, L, seqs
  <2> DEFINE T == {k \in Nat : k <= L => after[k] = h[k]}
  <2>1. 0 \in T
    <3>1. 0 \in 0 .. L BY <1>0
    <3>2. after[0] = seqs BY <1>3, <3>1
    <3> HIDE DEF h
    <3>3. h[0] = seqs BY <1>2, <3>1
    <3> QED BY <3>2, <3>3
  <2>2. ASSUME NEW m \in T PROVE m + 1 \in T
    <3>0. m \in Nat /\ (m <= L => after[m] = h[m]) OBVIOUS
    <3> HIDE DEF T
    <3> SUFFICES ASSUME m + 1 <= L PROVE after[m + 1] = h[m + 1] BY <3>0 DEF T
    <3> DEFINE k == m + 1
    <3>1. k \in 0 .. L /\ k # 0 /\ k - 1 = m /\ m <= L BY <1>0, <3>0
    <3> HIDE DEF k, h
    <3>2. after[k] = Ring!Drop(after[k - 1], keep) BY <1>3, <3>1
    <3>3. h[k] = Ring!Drop(h[k - 1], keep) BY <1>2, <3>1
    <3>4. after[k] = h[k] BY <3>0, <3>1, <3>2, <3>3
    <3> QED BY <3>4 DEF k
  <2>3. T \subseteq Nat OBVIOUS
  <2> HIDE DEF T
  <2>4. T = Nat BY <2>1, <2>2, <2>3, NatInd
  <2> TAKE k \in 0 .. L
  <2>5. k \in Nat /\ k <= L BY <1>0
  <2>6. k \in T BY <2>4, <2>5
  <2> HIDE DEF h
  <2> QED BY <2>5, <2>6 DEF T
<1>5. kk \in 0 .. L /\ (\A k \in 0 .. kk - 1 : k \notin enough) /\ (kk \in enough \/ kk = L)
  <2> HIDE DEF after, L
  <2>0. enough \subseteq 0 .. L OBVIOUS
  <2> HIDE DEF enough
  <2>1. CASE enough = {} BY <1>0, <2>1
  <2>2. CASE enough # {}
    <3>1. enough \subseteq Nat BY <1>0, <2>0
    <3>2. \E x \in enough : \A y \in enough : x <= y BY <2>2, <3>1, NatMin
    <3>3. kk \in enough /\ \A y \in enough : kk <= y BY <2>2, <3>2 DEF Ring!Min
    <3> HIDE DEF kk
    <3>4. kk \in 0 .. L /\ kk \in Nat BY <2>0, <3>1, <3>3
    <3>5. \A k \in 0 .. kk - 1 : k \notin enough BY <3>3, <3>4
    <3> QED BY <3>3, <3>4, <3>5
  <2> QED BY <2>1, <2>2
<1> DEFINE c == a + kk
<1> HIDE DEF after, kk
<1>6. c \in a .. N BY <1>5
<1>7. \A k \in 0 .. L : ~(moved /\ k = L) => (k \in enough <=> Ring!Light(all, a + k)) /\ after[k] = Ring!Run(a + k, N)
  <2> TAKE k \in 0 .. L
  <2> SUFFICES ASSUME ~(moved /\ k = L) PROVE (k \in enough <=> Ring!Light(all, a + k)) /\ after[k] = Ring!Run(a + k, N)
    OBVIOUS
  <2>1. after[k] = Ring!Run(a + k, N)
    <3> HIDE DEF moved, L
    <3> QED BY <1>4
  <2>2. a + k \in Nat \ {0} /\ a + k <= Len(all) OBVIOUS
  <2>3. Ring!Bytes(all, Ring!Run(a + k, Len(all))) <= limitBytes <=> Ring!Light(all, a + k) BY <2>2, BytesAre
  <2>4. k \in enough <=> Ring!Light(all, a + k) BY <2>1, <2>3
  <2> QED BY <2>1, <2>4
<1> HIDE DEF enough
<1>8. ASSUME NEW f \in a .. c - 1 PROVE ~Ring!Light(all, f)
  <2> DEFINE k == f - a
  <2>1. k \in 0 .. kk - 1 /\ k \in 0 .. L /\ k # L /\ a + k = f BY <1>0, <1>5
  <2> HIDE DEF k, c, L, moved
  <2>2. k \notin enough BY <1>5, <2>1
  <2>3. k \in enough <=> Ring!Light(all, a + k) BY <1>7, <2>1
  <2> QED BY <2>1, <2>2, <2>3
<1>9. CASE moved /\ c = N
  <2>1. kk = L BY <1>0, <1>5, <1>9
  <2>2. after[kk] = Ring!Run(keep, keep)
    <3> HIDE DEF moved, L, c
    <3> QED BY <1>4, <1>5, <1>9, <2>1
  <2> HIDE DEF c
  <2> QED BY <1>1, <1>6, <1>8, <1>9, <2>2 DEF LeavesRun
<1>10. CASE ~(moved /\ c = N)
  <2>1. ~(moved /\ kk = L) /\ (kk = L => c = N) BY <1>0, <1>5, <1>10
  <2>2. after[kk] = Ring!Run(c, N) /\ (Ring!Light(all, c) \/ c = N)
    <3>1. (kk \in enough <=> Ring!Light(all, a + kk)) /\ after[kk] = Ring!Run(a + kk, N)
      <4> HIDE DEF moved, L, c
      <4> QED BY <1>5, <1>7, <2>1
    <3> QED BY <1>5, <2>1, <3>1
  <2> HIDE DEF c
  <2> QED BY <1>1, <1>6, <1>8, <1>10, <2>2 DEF LeavesRun
<1> QED BY <1>9, <1>10

Increases(s) == \A i \in 1 .. Len(s) - 1 : s[i] < s[i + 1]
NewestOf(s) == IF s = <<>> THEN 0 ELSE Ring!Last(s)

\* What a reader was sent, one event later.
LEMMA SentGrows ==
  ASSUME NEW n \in Nat, NEW g \in Seq(1 .. n), Increases(g), NEW m \in Nat, m > NewestOf(g)
  PROVE  /\ Increases(Append(g, m)) /\ Append(g, m) # <<>> /\ Ring!Last(Append(g, m)) = m
         /\ Ring!ToSet(Append(g, m)) = Ring!ToSet(g) \union {m}
<1> DEFINE h == Append(g, m)
           k == Len(g)
<1>1. k \in Nat /\ DOMAIN g = 1 .. k /\ \A i \in 1 .. k : g[i] \in Nat OBVIOUS
<1>2. Len(h) = k + 1 /\ DOMAIN h = 1 .. k + 1 /\ h[k + 1] = m /\ \A i \in 1 .. k : h[i] = g[i] OBVIOUS
<1>3. h # <<>> /\ Ring!Last(h) = m BY <1>1, <1>2 DEF Ring!Last
<1>4. k # 0 => g # <<>> /\ g[k] < m BY DEF NewestOf, Ring!Last
<1> HIDE DEF h
<1>5. Increases(h)
  <2> SUFFICES ASSUME NEW i \in 1 .. Len(h) - 1 PROVE h[i] < h[i + 1] BY DEF Increases
  <2> HIDE DEF k
  <2>1. CASE i = k BY <1>1, <1>2, <1>4, <2>1
  <2>2. CASE i # k
    <3>1. i \in 1 .. k - 1 /\ i \in 1 .. k /\ i + 1 \in 1 .. k BY <1>1, <1>2, <2>2
    <3>2. g[i] < g[i + 1] BY <3>1 DEF Increases, k
    <3> QED BY <1>2, <3>1, <3>2
  <2> QED BY <2>1, <2>2
<1>6. Ring!ToSet(h) = Ring!ToSet(g) \union {m}
  <2> HIDE DEF k
  <2>1. Ring!ToSet(h) = {h[i] : i \in 1 .. k + 1} /\ Ring!ToSet(g) = {g[i] : i \in 1 .. k} BY <1>1, <1>2 DEF Ring!ToSet
  <2>2. 1 .. k + 1 = 1 .. k \union {k + 1} BY <1>1
  <2>3. {h[i] : i \in 1 .. k + 1} = {h[i] : i \in 1 .. k} \union {m} BY <1>2, <2>2
  <2>4. {h[i] : i \in 1 .. k} = {g[i] : i \in 1 .. k} BY <1>2
  <2> QED BY <2>1, <2>3, <2>4
<1> QED BY <1>3, <1>5, <1>6 DEF h

\* All that was sent is of the turn.
LEMMA SentIsPushed ==
  ASSUME NEW n \in Nat, NEW g \in Seq(1 .. n)
  PROVE  /\ NewestOf(g) \in 0 .. n /\ Ring!ToSet(g) \subseteq 1 .. n
         /\ g # <<>> => NewestOf(g) = Ring!Last(g) /\ NewestOf(g) \in Ring!ToSet(g)
<1>1. g # <<>> => Len(g) \in 1 .. Len(g) OBVIOUS
<1> QED BY <1>1 DEF NewestOf, Ring!Last, Ring!ToSet

\* A longer tail of a longer turn does not fit either.
LEMMA HeavyStays ==
  ASSUME limitBytes \in Nat, NEW all \in Seq(Ring!Kinds), NEW kind \in Ring!Kinds, NEW f \in Nat \ {0},
         ~Ring!Light(all, f)
  PROVE  ~Ring!Light(Append(all, kind), f)
<1> DEFINE n == Len(all)
           more == Append(all, kind)
<1>1. n \in Nat /\ Len(more) = n + 1 /\ \A s \in 1 .. n : more[s] = all[s] OBVIOUS
<1> HIDE DEF more
<1> SUFFICES ASSUME Ring!Light(more, f) PROVE FALSE BY DEF more
<1>2. (n + 1) - f + 1 <= limitBytes /\ \A s \in f .. n + 1 : more[s] # "huge" BY <1>1 DEF Ring!Light
<1>3. n - f + 1 <= limitBytes BY <1>1, <1>2
<1>4. \A s \in f .. n : all[s] # "huge" BY <1>1, <1>2
<1> QED BY <1>3, <1>4 DEF Ring!Light

RingTypes ==
    /\ limitBytes \in RingSizes /\ log \in Seq(Ring!Kinds) /\ pinned \in 0 .. Len(log)
    /\ got \in Seq(1 .. Len(log)) /\ wanted \in Nat /\ cursor \in Nat
    /\ reader \in {"none", "tap", "follow"} /\ over \in BOOLEAN /\ closed \in BOOLEAN /\ summary \in BOOLEAN
    /\ (over => pinned # 0) /\ (summary => over) /\ (closed => over)

LEMMA RingIs ==
  Ring!RingInductive <=> RingTypes /\ \E a \in 1 .. Len(log) + 1, b \in 0 .. Len(log) : Ring!RingHolds(a, b) /\ Ring!ReaderHas(a, b)
BY DEF Ring!RingInductive, RingTypes

\* Before a push the ring ends with the newest event.
LEMMA NewestIsThere ==
  ASSUME RingTypes, NEW a \in 1 .. Len(log) + 1, NEW b \in 0 .. Len(log), Ring!RingHolds(a, b),
         NEW kind, Ring!Push(kind)
  PROVE  b = Len(log) /\ (pinned # 0 => pinned = Len(log) /\ a <= pinned)
<1>1. Len(log) \in Nat /\ pinned \in Nat BY DEF RingTypes
<1>2. pinned # 0 => Ring!Last(log) # "notice" BY DEF Ring!Push
<1>3. pinned # 0 => pinned = Len(log) /\ pinned \in a .. b BY <1>2 DEF Ring!RingHolds
<1>4. b = Len(log) \/ (b = Len(log) - 1 /\ a = b /\ pinned = b) BY DEF Ring!RingHolds
<1> QED BY <1>1, <1>3, <1>4

\* push: what the ring holds afterwards.
LEMMA PushHolds ==
  ASSUME RingTypes, NEW n, n = Len(log), NEW a \in 1 .. n + 1, NEW b \in 0 .. n, Ring!RingHolds(a, b),
         NEW kind \in Ring!Kinds, Ring!Push(kind)
  PROVE  \E c \in a .. n + 1, d \in {n, n + 1} : Ring!RingHolds(c, d)'
<1> DEFINE N == n + 1
           all == Append(log, kind)
           keep == IF kind = "settled" THEN N ELSE pinned
<1>1. limitBytes \in Nat /\ log \in Seq(Ring!Kinds) /\ n \in Nat /\ pinned \in 0 .. n /\ N \in Nat /\ a \in Nat \ {0} /\ a <= N
  BY ServicesAssumption DEF RingTypes
<1>2. b = n /\ (pinned # 0 => pinned = n /\ a <= pinned) BY NewestIsThere
<1>3. all \in Seq(Ring!Kinds) /\ Len(all) = N /\ Ring!Last(all) = kind /\ all # <<>> BY <1>1 DEF Ring!Last
<1>4. keep \in Nat /\ (keep \in {0, N} \/ (keep = N - 1 /\ a <= keep)) BY <1>1, <1>2
<1>5. Append(entries, N) = Ring!Run(a, N)
  <2>1. entries = Ring!Run(a, n) BY <1>2 DEF Ring!RingHolds
  <2>2. N = n + 1 /\ n \in Int /\ a \in Int /\ a <= n + 1 BY <1>1
  <2> HIDE DEF N
  <2>3. Append(Ring!Run(a, n), n + 1) = Ring!Run(a, n + 1) BY <2>2, RunGrows
  <2> QED BY <2>1, <2>2, <2>3
<1>6. log' = all /\ pinned' = keep /\ entries' = Ring!Trimmed(all, Ring!Run(a, N), keep) /\ limitBytes' = limitBytes
      /\ (pinned # 0 => kind = "notice")
  BY <1>5 DEF Ring!Push
<1>7. \A f \in 1 .. a - 1 : ~Ring!Light(all, f)
  <2>1. \A f \in 1 .. a - 1 : ~Ring!Light(log, f) BY <1>1, <1>2 DEF Ring!RingHolds
  <2> SUFFICES ASSUME NEW f \in 1 .. a - 1 PROVE ~Ring!Light(all, f) OBVIOUS
  <2>2. f \in Nat \ {0} /\ ~Ring!Light(log, f) BY <2>1
  <2> QED BY <1>1, <2>2, HeavyStays
<1> HIDE DEF all, keep, N
<1>8. PICK c \in a .. N : LeavesRun(all, a, N, keep, c)
  <2>1. limitBytes \in Nat /\ N \in Nat /\ a \in Nat \ {0} /\ a <= N BY <1>1
  <2>2. all \in Seq(Ring!Kinds) /\ N = Len(all) BY <1>3
  <2> QED BY <2>1, <2>2, <1>4, TrimmedIs
<1>9. \A f \in 1 .. c - 1 : ~Ring!Light(all, f) BY <1>1, <1>7, <1>8 DEF LeavesRun
<1>10. \A f : Ring!Light(log, f)' <=> Ring!Light(all, f) BY <1>6 DEF Ring!Light
<1>11. Len(log') = N /\ log' # <<>> /\ Ring!Last(log)' = kind BY <1>3, <1>6 DEF Ring!Last
<1>12. CASE keep # 0 /\ keep = N - 1 /\ c = N
  <2>1. n = N - 1 /\ keep = n /\ keep = pinned /\ kind = "notice" BY <1>1, <1>6, <1>12 DEF keep, N
  <2>2. entries' = Ring!Run(n, n) BY <1>6, <1>8, <1>12, <2>1 DEF LeavesRun
  <2>3. n \in a .. N /\ n \in {n, N} BY <1>1, <1>2, <1>12, <2>1
  <2>4. Ring!RingHolds(n, n)'
    <3>1. \A f \in 1 .. n - 1 + (N - n) : ~Ring!Light(log, f)' BY <1>1, <1>9, <1>10, <1>12, <2>1
    <3>2. pinned' # 0 /\ pinned' = N - 1 /\ pinned' = n /\ Ring!Last(log)' = "notice" /\ n # N BY <1>1, <1>6, <1>11, <1>12, <2>1
    <3>3. n <= n /\ n \in n .. n BY <1>1
    <3> QED BY <1>11, <2>1, <2>2, <3>1, <3>2, <3>3 DEF Ring!RingHolds
  <2> QED BY <2>3, <2>4 DEF N
<1>13. CASE ~(keep # 0 /\ keep = N - 1 /\ c = N)
  <2>1. entries' = Ring!Run(c, N) /\ (Ring!Light(all, c) \/ c = N) BY <1>6, <1>8, <1>13 DEF LeavesRun
  <2>2. c \in a .. N /\ N \in {n, N} /\ c <= N /\ c \in Nat BY <1>1, <1>8
  <2>3. keep # 0 => /\ keep \in c .. N
                    /\ (keep = N /\ kind # "notice") \/ (keep = N - 1 /\ kind = "notice")
    BY <1>1, <1>2, <1>6, <1>8, <1>13 DEF keep, N
  <2>4. Ring!RingHolds(c, N)'
    <3>1. \A f \in 1 .. c - 1 + (N - N) : ~Ring!Light(log, f)' BY <1>1, <1>9, <1>10, <2>2
    <3>2. Ring!Light(log, c)' \/ c = N BY <1>10, <2>1
    <3> QED BY <1>6, <1>11, <2>1, <2>2, <2>3, <3>1, <3>2 DEF Ring!RingHolds
  <2> QED BY <2>2, <2>4 DEF N
<1> QED BY <1>12, <1>13

\* push: the follower whom no replay serves is sent the event, nobody else is.
LEMMA PushReads ==
  ASSUME RingTypes, NEW n, n = Len(log), NEW a \in 1 .. n + 1, Ring!ReaderHas(a, n),
         NEW kind \in Ring!Kinds, Ring!Push(kind), NEW c \in a .. n + 1, NEW d \in {n, n + 1}
  PROVE  RingTypes' /\ Ring!ReaderHas(c, d)'
<1>1. /\ n \in Nat /\ log \in Seq(Ring!Kinds) /\ got \in Seq(1 .. n) /\ wanted \in Nat /\ cursor \in Nat
      /\ pinned \in 0 .. n /\ reader \in {"none", "tap", "follow"} /\ Increases(got)
  BY DEF RingTypes, Ring!ReaderHas, Increases
<1>2. NewestOf(got) \in 0 .. n /\ Ring!ToSet(got) \subseteq 1 .. n
      /\ (got # <<>> => NewestOf(got) = Ring!Last(got) /\ NewestOf(got) \in Ring!ToSet(got))
  BY <1>1, SentIsPushed
<1>3. /\ Len(log') = n + 1 /\ log' \in Seq(Ring!Kinds) /\ pinned' \in 0 .. n + 1
      /\ limitBytes' = limitBytes /\ over' = over /\ ~over /\ reader' = reader /\ cursor' = cursor /\ batch' = batch
      /\ summary' = summary /\ wanted' = wanted /\ closed' = closed
  BY <1>1 DEF Ring!Push
<1>4. \A s \in c .. d : s \in a .. n \/ (s = n + 1 /\ d = n + 1) BY <1>1
<1>5. \A s \in a .. n : s \in wanted .. NewestOf(got) => s \in Ring!ToSet(got)
  BY DEF Ring!ReaderHas, Ring!Newest, Ring!Sent, NewestOf
<1>6. CASE reader = "follow" /\ cursor = 0
  <2>1. got' = Append(got, n + 1) BY <1>6 DEF Ring!Push
  <2>2. n + 1 \in Nat /\ n + 1 > NewestOf(got) BY <1>1, <1>2
  <2>3. /\ Increases(got') /\ got' # <<>> /\ Ring!Last(got') = n + 1
        /\ Ring!ToSet(got') = Ring!ToSet(got) \union {n + 1}
    <3> DEFINE m == n + 1
    <3> HIDE DEF m
    <3>1. m \in Nat /\ m > NewestOf(got) /\ got' = Append(got, m) BY <2>1, <2>2 DEF m
    <3>2. /\ Increases(Append(got, m)) /\ Append(got, m) # <<>> /\ Ring!Last(Append(got, m)) = m
          /\ Ring!ToSet(Append(got, m)) = Ring!ToSet(got) \union {m}
      BY <1>1, <3>1, SentGrows
    <3> QED BY <3>1, <3>2 DEF m
  <2>4. got' \in Seq(1 .. n + 1) BY <1>1, <2>1
  <2>5. \A s \in a .. n : s >= wanted => s \in Ring!ToSet(got) BY <1>6 DEF Ring!ReaderHas, Ring!Sent
  <2>6. \A s \in c .. d : s >= wanted => s \in Ring!ToSet(got') BY <1>1, <1>4, <2>3, <2>5
  <2>7. \A s \in c .. d : s \in wanted .. (n + 1) => s \in Ring!ToSet(got') BY <1>1, <2>6
  <2>8. RingTypes' BY <1>3, <2>4 DEF RingTypes
  <2>9. Ring!ReaderHas(c, d)'
    BY <1>3, <1>6, <2>3, <2>6, <2>7 DEF Ring!ReaderHas, Ring!Newest, Ring!Sent, Increases, NewestOf
  <2> QED BY <2>8, <2>9
<1>7. CASE ~(reader = "follow" /\ cursor = 0)
  <2>1. got' = got BY <1>7 DEF Ring!Push
  <2>2. got' \in Seq(1 .. n + 1) BY <1>1, <2>1
  <2>3. \A s \in c .. d : s \in wanted .. NewestOf(got) => s \in Ring!ToSet(got) BY <1>1, <1>2, <1>4, <1>5
  <2>4. cursor # 0 => /\ got # <<>> /\ cursor = Ring!Last(got) + 1 /\ ~closed
                      /\ \E y \in cursor - 1 .. n + 1 : batch = Ring!Run(cursor, y)
    <3> SUFFICES ASSUME cursor # 0 PROVE /\ got # <<>> /\ cursor = Ring!Last(got) + 1 /\ ~closed
                                         /\ \E y \in cursor - 1 .. n + 1 : batch = Ring!Run(cursor, y)
      OBVIOUS
    <3>1. PICK y \in cursor - 1 .. n : batch = Ring!Run(cursor, y) BY DEF Ring!ReaderHas
    <3>2. y \in cursor - 1 .. n + 1 BY <1>1
    <3> QED BY <3>1, <3>2 DEF Ring!ReaderHas
  <2>5. reader = "none" => got = <<>> /\ wanted = 0 /\ cursor = 0 /\ ~closed BY DEF Ring!ReaderHas
  <2>6. RingTypes' BY <1>3, <2>2 DEF RingTypes
  <2>7. Ring!ReaderHas(c, d)'
    BY <1>1, <1>3, <1>7, <2>1, <2>3, <2>4, <2>5 DEF Ring!ReaderHas, Ring!Newest, Ring!Sent, Increases, NewestOf
  <2> QED BY <2>6, <2>7
<1> QED BY <1>6, <1>7

\* The end of the turn reaches whom no replay serves.
LEMMA FinishReads ==
  ASSUME RingTypes, NEW a, NEW b, Ring!RingHolds(a, b), Ring!ReaderHas(a, b), Ring!Finish
  PROVE  RingTypes' /\ Ring!RingHolds(a, b)' /\ Ring!ReaderHas(a, b)'
<1>1. /\ pinned # 0 /\ over' = TRUE /\ closed' = (closed \/ (reader = "follow" /\ cursor = 0))
      /\ UNCHANGED <<limitBytes, log, entries, pinned, reader, cursor, batch, summary, got, told, wanted>>
  BY DEF Ring!Finish
<1>2. closed' \in BOOLEAN BY <1>1
<1>3. RingTypes' BY <1>1, <1>2 DEF RingTypes
<1>4. Ring!RingHolds(a, b)' BY <1>1 DEF Ring!RingHolds, Ring!Light
<1>5. /\ reader = "none" => ~closed'
      /\ cursor # 0 => ~closed'
  BY <1>1 DEF Ring!ReaderHas
<1>6. Ring!ReaderHas(a, b)' BY <1>1, <1>5 DEF Ring!ReaderHas, Ring!Newest, Ring!Sent
<1> QED BY <1>3, <1>4, <1>6

\* What a replay may go on with: everything of the ring from its cursor on.
LEMMA Served ==
  ASSUME RingTypes, NEW n, n = Len(log), NEW a \in 1 .. n + 1, NEW b \in 0 .. n, Ring!RingHolds(a, b),
         Increases(got), NEW w \in Nat,
         \A s \in a .. b : s \in w .. NewestOf(got) => s \in Ring!ToSet(got),
         NEW m \in Nat, NEW z \in Int, z <= n, m > NewestOf(got), m >= 1,
         NEW ended, Ring!Serve(Ring!Run(m, z), ended),
         \A s \in a .. b : s >= w /\ s > NewestOf(got) => s >= m,
         ended => over, ended \in BOOLEAN, ~closed,
         reader' \in {"tap", "follow"}, wanted' = w, UNCHANGED Ring!ringVars, summary' \in BOOLEAN, summary' => over,
         reader' = "follow" /\ m > z => \A s \in a .. b : s < m
  PROVE  RingTypes' /\ Ring!RingHolds(a, b)' /\ Ring!ReaderHas(a, b)'
<1>1. /\ n \in Nat /\ got \in Seq(1 .. n) /\ a \in Nat /\ b \in Nat /\ z \in Int
      /\ NewestOf(got) \in 0 .. n /\ Ring!ToSet(got) \subseteq 1 .. n
      /\ (got # <<>> => NewestOf(got) = Ring!Last(got) /\ NewestOf(got) \in Ring!ToSet(got))
  <2>1. n \in Nat /\ got \in Seq(1 .. n) BY DEF RingTypes
  <2>2. /\ NewestOf(got) \in 0 .. n /\ Ring!ToSet(got) \subseteq 1 .. n
        /\ (got # <<>> => NewestOf(got) = Ring!Last(got) /\ NewestOf(got) \in Ring!ToSet(got))
    BY <2>1, SentIsPushed
  <2> QED BY <2>1, <2>2
<1>2. /\ limitBytes' = limitBytes /\ log' = log /\ entries' = entries /\ pinned' = pinned /\ over' = over
  BY DEF Ring!ringVars
<1>3. Ring!RingHolds(a, b)' BY <1>2 DEF Ring!RingHolds, Ring!Light
<1>4. CASE m <= z
  <2>1. Tail(Ring!Run(m, z)) = Ring!Run(m + 1, z) /\ Ring!Run(m, z)[1] = m /\ Ring!Run(m, z) # <<>>
    BY <1>1, <1>4, RunShrinks
  <2>2. got' = Append(got, m) /\ cursor' = m + 1 /\ batch' = Ring!Run(m + 1, z) /\ closed' = closed
    BY <2>1 DEF Ring!Serve
  <2>3. /\ Increases(got') /\ got' # <<>> /\ Ring!Last(got') = m
        /\ Ring!ToSet(got') = Ring!ToSet(got) \union {m}
    BY <1>1, <2>2, SentGrows
  <2>4. m \in 1 .. n /\ z \in (m + 1) - 1 .. n BY <1>1, <1>4
  <2>5. got' \in Seq(1 .. n) BY <1>1, <2>2, <2>4
  <2>6. \A s \in a .. b : s \in w .. m => s \in Ring!ToSet(got')
    <3> SUFFICES ASSUME NEW s \in a .. b, s \in w .. m PROVE s \in Ring!ToSet(got') OBVIOUS
    <3>1. s \in Int /\ s <= m /\ s >= w BY <1>1
    <3>2. CASE s <= NewestOf(got)
      <4>1. s \in w .. NewestOf(got) BY <1>1, <3>1, <3>2
      <4> QED BY <2>3, <4>1
    <3>3. CASE s > NewestOf(got) BY <1>1, <2>3, <3>1, <3>3
    <3> QED BY <1>1, <3>1, <3>2, <3>3
  <2>7. RingTypes' BY <1>2, <2>2, <2>4, <2>5 DEF RingTypes
  <2>9. \E y \in cursor' - 1 .. Len(log') : batch' = Ring!Run(cursor', y)
    BY <1>1, <1>2, <2>2, <2>4
  <2>10. NewestOf(got') = m /\ reader' # "none" /\ cursor' # 0 /\ cursor' = m + 1 /\ ~closed'
    BY <2>2, <2>3 DEF NewestOf
  <2>8. Ring!ReaderHas(a, b)'
    BY <2>3, <2>6, <2>9, <2>10 DEF Ring!ReaderHas, Ring!Newest, Ring!Sent, Increases, NewestOf
  <2> QED BY <1>3, <2>7, <2>8
<1>5. CASE m > z
  <2>1. Ring!Run(m, z) = <<>> BY <1>1, <1>5, RunOfNothing
  <2>2. cursor' = 0 /\ closed' = ended /\ got' = got /\ batch' = batch BY <2>1 DEF Ring!Serve
  <2>3. \A s \in a .. b : reader' = "follow" /\ s >= w => s \in Ring!ToSet(got)
    <3> SUFFICES ASSUME NEW s \in a .. b, reader' = "follow", s >= w PROVE s \in Ring!ToSet(got) OBVIOUS
    <3>0. \A t \in a .. b : t < m BY <1>5
    <3>1. s < m BY <3>0, Zenon
    <3>4. s \in Int BY <1>1
    <3>2. s <= NewestOf(got) BY <1>1, <3>1, <3>4
    <3>3. s \in w .. NewestOf(got) BY <1>1, <3>2, <3>4
    <3> QED BY <3>3
  <2>4. RingTypes' BY <1>2, <2>2 DEF RingTypes
  <2>5. Ring!ReaderHas(a, b)'
    BY <1>2, <2>2, <2>3, <1>1 DEF Ring!ReaderHas, Ring!Newest, Ring!Sent, Increases, NewestOf
  <2> QED BY <1>3, <2>4, <2>5
<1> QED BY <1>1, <1>4, <1>5

LEMMA AttachReads ==
  ASSUME RingTypes, NEW n, n = Len(log), NEW a \in 1 .. n + 1, NEW b \in 0 .. n, Ring!RingHolds(a, b), Ring!ReaderHas(a, b),
         NEW who \in {"tap", "follow"}, NEW from \in 0 .. MaxPushed + 1, Ring!Attach(who, from)
  PROVE  RingTypes' /\ Ring!RingHolds(a, b)' /\ Ring!ReaderHas(a, b)'
<1> DEFINE w == Ring!Max({1, from})
           m == IF w > a THEN w ELSE a
<1>0. n \in Nat /\ a \in Nat /\ b \in Int /\ from \in Nat BY ServicesAssumption DEF RingTypes
<1>1. w \in Nat /\ w >= 1
  <2>1. \E x \in {1, from} : \A y \in {1, from} : x >= y
    <3>1. CASE from >= 1 BY <1>0, <3>1
    <3>2. CASE ~(from >= 1) BY <1>0, <3>2
    <3> QED BY <3>1, <3>2
  <2>2. w \in {1, from} /\ \A y \in {1, from} : w >= y BY <2>1 DEF Ring!Max
  <2> HIDE DEF w
  <2> QED BY <1>0, <2>2
<1>2. /\ got = <<>> /\ ~closed /\ reader' = who /\ wanted' = w /\ summary' = over
      /\ Ring!Serve(Ring!Since(w), over) /\ UNCHANGED Ring!ringVars
  BY DEF Ring!Attach, Ring!ReaderHas
<1> HIDE DEF w
<1>3. Ring!Since(w) = Ring!Run(m, b)
  <2>1. entries = Ring!Run(a, b) /\ a <= b + 1 /\ w \in Int BY <1>0, <1>1 DEF Ring!RingHolds, RingTypes
  <2> QED BY <1>0, <2>1, SinceIs
<1>4. Increases(got) /\ NewestOf(got) = 0 BY <1>2 DEF Increases, NewestOf
<1>5. m \in Nat /\ m >= 1 /\ m > 0 /\ b <= n /\ (m = w \/ m = a) /\ m >= a BY <1>0, <1>1
<1> HIDE DEF m
<1>6. \A s \in a .. b : s \in w .. NewestOf(got) => s \in Ring!ToSet(got) BY <1>0, <1>1, <1>4
<1>7. \A s \in a .. b : s >= w /\ s > NewestOf(got) => s >= m BY <1>0, <1>5
<1>8. m > b => \A s \in a .. b : s < m BY <1>0, <1>5
<1>9. over \in BOOLEAN /\ summary' \in BOOLEAN /\ (summary' => over) /\ reader' \in {"tap", "follow"}
  BY <1>2 DEF RingTypes
<1>10. Ring!Serve(Ring!Run(m, b), over) BY <1>2, <1>3
<1>11. reader' = "follow" /\ m > b => \A s \in a .. b : s < m BY <1>8
<1> QED BY <1>0, <1>1, <1>2, <1>4, <1>5, <1>6, <1>7, <1>9, <1>10, <1>11, Served

LEMMA ReplayReads ==
  ASSUME RingTypes, NEW n, n = Len(log), NEW a \in 1 .. n + 1, NEW b \in 0 .. n, Ring!RingHolds(a, b), Ring!ReaderHas(a, b),
         Ring!ReplayGoesOn
  PROVE  RingTypes' /\ Ring!RingHolds(a, b)' /\ Ring!ReaderHas(a, b)'
<1> DEFINE next == IF batch = <<>> /\ reader = "follow" THEN Ring!Since(cursor) ELSE batch
           ended == IF reader = "follow" THEN over ELSE summary
<1>0. n \in Nat /\ a \in Nat /\ a >= 1 /\ b \in Int /\ b <= n /\ cursor \in Nat /\ cursor # 0 /\ wanted \in Nat
  BY DEF RingTypes, Ring!ReplayGoesOn
<1>1. /\ got # <<>> /\ cursor = Ring!Last(got) + 1 /\ ~closed /\ Increases(got)
      /\ \A s \in a .. b : s \in wanted .. NewestOf(got) => s \in Ring!ToSet(got)
  BY <1>0 DEF Ring!ReaderHas, Ring!Newest, Ring!Sent, NewestOf, Increases
<1>2. cursor = NewestOf(got) + 1 /\ NewestOf(got) \in Nat
  <2>1. got \in Seq(1 .. n) BY DEF RingTypes
  <2>2. NewestOf(got) \in 0 .. n /\ NewestOf(got) = Ring!Last(got) BY <1>0, <1>1, <2>1, SentIsPushed
  <2> QED BY <1>0, <1>1, <2>2
<1>3. /\ reader' = reader /\ wanted' = wanted /\ summary' = summary
      /\ Ring!Serve(next, ended) /\ UNCHANGED Ring!ringVars
  BY DEF Ring!ReplayGoesOn
<1>4. PICK y \in cursor - 1 .. n : batch = Ring!Run(cursor, y) BY <1>0 DEF Ring!ReaderHas
<1>5. reader \in {"tap", "follow"} /\ reader' \in {"tap", "follow"} BY <1>0, <1>3 DEF RingTypes, Ring!ReaderHas
<1>6. ended \in BOOLEAN /\ (ended => over) /\ summary' \in BOOLEAN /\ (summary' => over) BY <1>3 DEF RingTypes
<1> HIDE DEF ended
<1>7. CASE batch = <<>> /\ reader = "follow"
  <2> DEFINE m == IF cursor > a THEN cursor ELSE a
  <2>1. next = Ring!Run(m, b)
    <3>1. entries = Ring!Run(a, b) /\ a <= b + 1 BY <1>0 DEF Ring!RingHolds, RingTypes
    <3>2. Ring!Since(cursor) = Ring!Run(m, b) BY <1>0, <3>1, SinceIs
    <3> QED BY <1>7, <3>2
  <2>2. m \in Nat /\ m >= 1 /\ m > NewestOf(got) /\ (m = cursor \/ m = a) /\ m >= a BY <1>0, <1>2
  <2> HIDE DEF m, next
  <2>3. \A s \in a .. b : s >= wanted /\ s > NewestOf(got) => s >= m BY <1>0, <1>2, <2>2
  <2>4. m > b => \A s \in a .. b : s < m BY <1>0, <2>2
  <2>5. Ring!Serve(Ring!Run(m, b), ended) BY <1>3, <2>1
  <2> QED BY <1>0, <1>1, <1>3, <1>5, <1>6, <2>2, <2>3, <2>4, <2>5, Served
<1>8. CASE ~(batch = <<>> /\ reader = "follow")
  <2> DEFINE m == cursor
  <2>1. next = Ring!Run(m, y) BY <1>4, <1>8
  <2>2. m \in Nat /\ m >= 1 /\ m > NewestOf(got) BY <1>0, <1>2
  <2>3. \A s \in a .. b : s >= wanted /\ s > NewestOf(got) => s >= m BY <1>0, <1>2, <2>2
  <2>4. y \in Int /\ y <= n BY <1>0
  <2>5. reader' = "follow" /\ m > y => \A s \in a .. b : s < m
    <3>1. m > y => batch = <<>> BY <1>0, <1>4, <2>4, RunOfNothing
    <3> QED BY <1>3, <1>8, <3>1
  <2> HIDE DEF m, next
  <2>6. Ring!Serve(Ring!Run(m, y), ended) BY <1>3, <2>1
  <2> QED BY <1>0, <1>1, <1>3, <1>5, <1>6, <2>2, <2>3, <2>4, <2>5, <2>6, Served
<1> QED BY <1>7, <1>8

LEMMA RingStarts == Ring!RingInit => Ring!RingInductive
<1> SUFFICES ASSUME Ring!RingInit PROVE Ring!RingInductive OBVIOUS
<1>1. /\ limitBytes \in RingSizes /\ limitBytes \in Nat
      /\ log = <<>> /\ entries = <<>> /\ pinned = 0 /\ over = FALSE
      /\ reader = "none" /\ cursor = 0 /\ batch = <<>> /\ summary = FALSE
      /\ got = <<>> /\ told = 0 /\ wanted = 0 /\ closed = FALSE
  BY ServicesAssumption DEF Ring!RingInit
<1>2. RingTypes
  <2>1. log \in Seq(Ring!Kinds) /\ got \in Seq(1 .. Len(log)) /\ Len(log) = 0 BY <1>1
  <2>2. pinned \in 0 .. Len(log) /\ wanted \in Nat /\ cursor \in Nat BY <1>1, <2>1
  <2>3. reader \in {"none", "tap", "follow"} /\ over \in BOOLEAN /\ closed \in BOOLEAN /\ summary \in BOOLEAN
        /\ ~over /\ ~summary /\ ~closed
    BY <1>1
  <2> QED BY <1>1, <2>1, <2>2, <2>3 DEF RingTypes
<1>3. entries = Ring!Run(1, 0) BY <1>1, RunOfNothing
<1>4. Ring!Light(log, 1) BY <1>1 DEF Ring!Light
<1>5. Len(log) = 0 BY <1>1
<1>6. \A first \in 1 .. 1 - 1 + (Len(log) - 0) : ~Ring!Light(log, first) BY <1>5
<1>7. Ring!RingHolds(1, 0) BY <1>1, <1>3, <1>4, <1>5, <1>6 DEF Ring!RingHolds
<1>8. Ring!ReaderHas(1, 0) BY <1>1 DEF Ring!ReaderHas
<1>9. 1 \in 1 .. Len(log) + 1 /\ 0 \in 0 .. Len(log) BY <1>5
<1> QED BY <1>2, <1>7, <1>8, <1>9, RingIs

LEMMA RingGoesOn == Ring!RingInductive /\ Ring!RingNext => Ring!RingInductive'
<1> SUFFICES ASSUME Ring!RingInductive, Ring!RingNext PROVE Ring!RingInductive' OBVIOUS
<1>0. RingTypes /\ Len(log) \in Nat BY RingIs DEF RingTypes
<1>1. PICK n : n = Len(log) OBVIOUS
<1>2. PICK a \in 1 .. n + 1, b \in 0 .. n : Ring!RingHolds(a, b) /\ Ring!ReaderHas(a, b) BY <1>1, RingIs
<1>3. ASSUME NEW c \in 1 .. Len(log') + 1, NEW d \in 0 .. Len(log'), RingTypes', Ring!RingHolds(c, d)', Ring!ReaderHas(c, d)'
      PROVE  Ring!RingInductive'
  BY <1>3 DEF Ring!RingInductive, RingTypes
<1>4. ASSUME NEW kind \in Ring!Kinds, Ring!Push(kind) PROVE Ring!RingInductive'
  <2>1. b = n BY <1>0, <1>1, <1>2, <1>4, NewestIsThere
  <2>2. PICK c \in a .. n + 1, d \in {n, n + 1} : Ring!RingHolds(c, d)' BY <1>0, <1>1, <1>2, <1>4, PushHolds
  <2>3. RingTypes' /\ Ring!ReaderHas(c, d)' BY <1>0, <1>1, <1>2, <1>4, <2>1, PushReads
  <2>4. Len(log') = n + 1 BY <1>0, <1>1, <1>4 DEF Ring!Push, RingTypes
  <2>5. c \in 1 .. Len(log') + 1 /\ d \in 0 .. Len(log') BY <1>0, <1>1, <2>4
  <2> QED BY <1>3, <2>2, <2>3, <2>5
<1>5. ASSUME UNCHANGED log, RingTypes', Ring!RingHolds(a, b)', Ring!ReaderHas(a, b)' PROVE Ring!RingInductive'
  BY <1>1, <1>3, <1>5
<1>6. CASE Ring!Finish
  <2>1. RingTypes' /\ Ring!RingHolds(a, b)' /\ Ring!ReaderHas(a, b)' BY <1>0, <1>2, <1>6, FinishReads
  <2> QED BY <1>5, <1>6, <2>1 DEF Ring!Finish
<1>7. ASSUME NEW who \in {"tap", "follow"}, NEW from \in 0 .. MaxPushed + 1, Ring!Attach(who, from) PROVE Ring!RingInductive'
  <2>1. RingTypes' /\ Ring!RingHolds(a, b)' /\ Ring!ReaderHas(a, b)' BY <1>0, <1>1, <1>2, <1>7, AttachReads
  <2> QED BY <1>5, <1>7, <2>1 DEF Ring!Attach, Ring!ringVars
<1>8. CASE Ring!ReplayGoesOn
  <2>1. RingTypes' /\ Ring!RingHolds(a, b)' /\ Ring!ReaderHas(a, b)' BY <1>0, <1>1, <1>2, <1>8, ReplayReads
  <2> QED BY <1>5, <1>8, <2>1 DEF Ring!ReplayGoesOn, Ring!ringVars
<1> QED BY <1>4, <1>6, <1>7, <1>8 DEF Ring!RingNext

\* Whether a tail fits is decided by its length and by the events too long for any ring.
LEMMA FitsIs ==
  ASSUME limitBytes \in Nat, log \in Seq(Ring!Kinds), NEW x \in 1 .. Len(log), NEW first, Ring!TailOf(first) = x .. Len(log)
  PROVE  (Ring!Fits(first) <=> Ring!Light(log, x)) /\ Cardinality(Ring!TailOf(first)) = Len(log) - x + 1
<1> DEFINE n == Len(log)
           S == x .. n
           f == [s \in S |-> s]
           w == [s \in S |-> Ring!Length(log[s])]
           iter == CHOOSE g : Weighs(S, w, g)
<1>1. n \in Nat /\ x \in Nat /\ x <= n /\ DOMAIN log = 1 .. n OBVIOUS
<1>2. IsFiniteSet(S) /\ Cardinality(S) = n - x + 1
  <2> HIDE DEF n
  <2> QED BY <1>1, FS_Interval
<1>3. (\A s \in S : f[s] \in DOMAIN log) /\ \A s \in S : w[s] = Ring!Length(log[f[s]]) BY <1>1
<1>4. \A s \in S : f[s] = s OBVIOUS
<1> HIDE DEF S
<1>5. Ring!Fits(first) <=> iter[S] <= limitBytes
  <2>1. Ring!TailOf(first) = S BY DEF S
  <2>2. Ring!MapThenSumSet(LAMBDA seq : Ring!Length(log[seq]), S) =
          (LET it[s \in SUBSET S] == IF s = {} THEN 0 ELSE Ring!Length(log[One(s)]) + it[s \ {One(s)}]
           IN  it[S])
    BY DEF Ring!MapThenSumSet, Ring!MapThenFoldSet, One
  <2>3. \A s \in SUBSET S : s # {} => w[One(s)] = Ring!Length(log[One(s)]) BY DEF One
  <2> HIDE DEF w
  <2>4. \A g : [s \in SUBSET S |-> IF s = {} THEN 0 ELSE w[One(s)] + g[s \ {One(s)}]]
             = [s \in SUBSET S |-> IF s = {} THEN 0 ELSE Ring!Length(log[One(s)]) + g[s \ {One(s)}]]
    BY <2>3
  <2>5. \A g : Weighs(S, w, g) <=> g = [s \in SUBSET S |-> IF s = {} THEN 0 ELSE Ring!Length(log[One(s)]) + g[s \ {One(s)}]]
    BY <2>4 DEF Weighs
  <2>6. (CHOOSE g : Weighs(S, w, g)) =
        CHOOSE g : g = [s \in SUBSET S |-> IF s = {} THEN 0 ELSE Ring!Length(log[One(s)]) + g[s \ {One(s)}]]
    BY <2>5
  <2>7. Ring!MapThenSumSet(LAMBDA seq : Ring!Length(log[seq]), S) = iter[S] BY <2>2, <2>6
  <2> QED BY <2>1, <2>7 DEF Ring!Fits
<1> HIDE DEF f, w
<1>6. iter[S] <= limitBytes <=> Cardinality(S) <= limitBytes /\ \A s \in S : log[f[s]] # "huge"
  BY <1>2, <1>3, TailWeighs
<1> HIDE DEF iter
<1>7. Ring!Fits(first) <=> n - x + 1 <= limitBytes /\ \A s \in S : log[s] # "huge" BY <1>2, <1>4, <1>5, <1>6
<1> QED BY <1>2, <1>7 DEF S, Ring!Light

\* The ring holds the longest tail that fits.
LEMMA TailHolds ==
  ASSUME RingTypes, NEW n, n = Len(log), NEW a \in 1 .. n + 1, NEW b \in 0 .. n, Ring!RingHolds(a, b)
  PROVE  Ring!RingHoldsTheTail
<1> DEFINE Starts == {first \in 1 .. n + 1 : Ring!Fits(first) \/ Cardinality(Ring!TailOf(first)) = 1}
           q == IF b = n THEN a ELSE n + 1
<1> SUFFICES ASSUME log # <<>> PROVE Ring!RingHoldsTheTail BY DEF Ring!RingHoldsTheTail
<1>0. /\ limitBytes \in Nat /\ log \in Seq(Ring!Kinds) /\ n \in Nat /\ n >= 1 /\ a \in Nat /\ b \in Nat /\ pinned \in 0 .. n
      /\ a >= 1 /\ a <= b /\ b <= n
  <2>1. limitBytes \in Nat /\ log \in Seq(Ring!Kinds) /\ n \in Nat /\ pinned \in 0 .. n BY ServicesAssumption DEF RingTypes
  <2>2. n # 0 BY <2>1
  <2>3. a <= b BY DEF Ring!RingHolds
  <2> QED BY <2>1, <2>2, <2>3
<1>1. /\ entries = Ring!Run(a, b) /\ (b = n \/ (b = n - 1 /\ a = b /\ pinned = b))
      /\ (pinned # 0 => pinned \in a .. b /\ (pinned = n \/ pinned = n - 1))
      /\ \A first \in 1 .. a - 1 + (n - b) : ~Ring!Light(log, first)
      /\ (b = n => Ring!Light(log, a) \/ a = b)
  BY DEF Ring!RingHolds
<1>3. ASSUME NEW first \in 1 .. n, pinned = 0 \/ first <= pinned
      PROVE  /\ Ring!TailOf(first) = first .. n /\ (Ring!Fits(first) <=> Ring!Light(log, first))
             /\ Cardinality(Ring!TailOf(first)) = n - first + 1
  <2>1. Ring!TailOf(first) = first .. n BY <1>0, <1>3 DEF Ring!TailOf
  <2> QED BY <1>0, <2>1, FitsIs
<1>4. ASSUME b = n PROVE Ring!TailOf(q) = a .. b /\ q \in Starts /\ \A first \in Starts : q <= first
  <2>1. q = a /\ a \in 1 .. n /\ (pinned = 0 \/ a <= pinned) BY <1>0, <1>1, <1>4
  <2>2. /\ Ring!TailOf(a) = a .. n /\ (Ring!Fits(a) <=> Ring!Light(log, a)) /\ Cardinality(Ring!TailOf(a)) = n - a + 1
    BY <1>3, <2>1
  <2>3. a \in Starts BY <1>0, <1>1, <1>4, <2>2
  <2>4. ASSUME NEW first \in 1 .. n + 1, first < a PROVE first \notin Starts
    <3>1. first \in 1 .. n /\ first \in 1 .. a - 1 + (n - b) /\ (pinned = 0 \/ first <= pinned) BY <1>0, <1>4, <2>1, <2>4
    <3>2. (Ring!Fits(first) <=> Ring!Light(log, first)) /\ Cardinality(Ring!TailOf(first)) = n - first + 1 BY <1>3, <3>1
    <3>3. n - first + 1 # 1 BY <1>0, <2>1, <2>4
    <3> QED BY <1>1, <3>1, <3>2, <3>3
  <2>5. Ring!TailOf(q) = a .. b /\ q \in Starts /\ \A first \in Starts : q <= first
    <3>1. \A first \in Starts : a <= first BY <1>0, <2>4
    <3> HIDE DEF Starts, q
    <3> QED BY <1>4, <2>1, <2>2, <2>3, <3>1
  <2> QED BY <2>5
<1>5. ASSUME b # n PROVE Ring!TailOf(q) = a .. b /\ q \in Starts /\ \A first \in Starts : q <= first
  <2>1. q = n + 1 /\ b = n - 1 /\ a = b /\ pinned = b /\ n - 1 >= 1 BY <1>0, <1>1, <1>5
  <2>2. Ring!TailOf(n + 1) = a .. b BY <1>0, <2>1 DEF Ring!TailOf
  <2>3. Cardinality(Ring!TailOf(n + 1)) = 1
    <3>1. a .. b = {a} BY <1>0, <2>1
    <3> QED BY <2>2, <3>1, FS_Singleton
  <2>4. q \in Starts BY <1>0, <2>1, <2>3
  <2>5. ASSUME NEW first \in 1 .. n PROVE first \notin Starts
    <3>1. CASE first # n
      <4>1. first <= pinned /\ first \in 1 .. a - 1 + (n - b) BY <1>0, <2>1, <3>1
      <4>2. (Ring!Fits(first) <=> Ring!Light(log, first)) /\ Cardinality(Ring!TailOf(first)) = n - first + 1 BY <1>3, <4>1
      <4>3. n - first + 1 # 1 BY <1>0, <3>1
      <4> QED BY <1>1, <4>1, <4>2, <4>3
    <3>2. CASE first = n
      <4>1. Ring!TailOf(first) = a .. n BY <1>0, <2>1, <3>2 DEF Ring!TailOf
      <4>2. (Ring!Fits(first) <=> Ring!Light(log, a)) /\ Cardinality(Ring!TailOf(first)) = n - a + 1
        <5>1. a \in 1 .. n BY <1>0
        <5> QED BY <1>0, <4>1, <5>1, FitsIs
      <4>3. a \in 1 .. a - 1 + (n - b) /\ n - a + 1 # 1 BY <1>0, <2>1
      <4> QED BY <1>1, <4>2, <4>3
    <3> QED BY <3>1, <3>2
  <2>6. \A first \in Starts : q <= first BY <1>0, <2>1, <2>5
  <2> QED BY <2>1, <2>2, <2>4, <2>6
<1>6. Ring!TailOf(q) = a .. b /\ q \in Starts /\ (\A first \in Starts : q <= first) /\ Starts \subseteq Int BY <1>4, <1>5
<1>7. Ring!Start = q
  <2>0. Starts = {first \in 1 .. Len(log) + 1 : Ring!Fits(first) \/ Cardinality(Ring!TailOf(first)) = 1} OBVIOUS
  <2> HIDE DEF Starts, q
  <2>6. \A S : Ring!Cardinality(S) = Cardinality(S) BY DEF Ring!Cardinality, Cardinality
  <2>1. Ring!Start = Ring!Min(Starts)
    <3>1. {first \in 1 .. Len(log) + 1 : Ring!Fits(first) \/ Ring!Cardinality(Ring!TailOf(first)) = 1} = Starts
      BY <2>0, <2>6
    <3> QED BY <3>1 DEF Ring!Start
  <2>2. Ring!Min(Starts) \in Starts /\ \A first \in Starts : Ring!Min(Starts) <= first BY <1>6 DEF Ring!Min
  <2> DEFINE m == Ring!Min(Starts)
  <2> HIDE DEF m
  <2>4. m \in Starts /\ \A first \in Starts : m <= first BY <2>2 DEF m
  <2>5. m <= q /\ q <= m /\ m \in Int /\ q \in Int BY <1>6, <2>4
  <2>3. m = q BY <2>5
  <2> QED BY <2>1, <2>3 DEF m
<1> HIDE DEF q
<1>8. /\ Len(entries) = b - a + 1 /\ DOMAIN entries = 1 .. b - a + 1 /\ \A i \in 1 .. b - a + 1 : entries[i] = a + i - 1
  <2>1. a \in Int /\ b \in Int /\ a <= b + 1 /\ entries = Ring!Run(a, b) BY <1>0, <1>1
  <2> QED BY <2>1, TheRun
<1>9. Ring!ToSet(entries) = a .. b
  <2>1. \A i \in DOMAIN entries : entries[i] \in a .. b BY <1>0, <1>8
  <2>2. ASSUME NEW s \in a .. b PROVE \E i \in DOMAIN entries : entries[i] = s
    <3>1. s - a + 1 \in 1 .. b - a + 1 /\ a + (s - a + 1) - 1 = s BY <1>0
    <3> QED BY <1>8, <3>1
  <2> QED BY <2>1, <2>2 DEF Ring!ToSet
<1>10. \A i \in 1 .. Len(entries) - 1 : entries[i] < entries[i + 1]
  <2> TAKE i \in 1 .. Len(entries) - 1
  <2>1. i \in 1 .. b - a + 1 /\ i + 1 \in 1 .. b - a + 1 BY <1>0, <1>8
  <2>2. entries[i] = a + i - 1 /\ entries[i + 1] = a + (i + 1) - 1 BY <1>8, <2>1
  <2> QED BY <1>0, <2>1, <2>2
<1> QED BY <1>6, <1>7, <1>9, <1>10 DEF Ring!RingHoldsTheTail

\* What the ring promises.
LEMMA RingTellsAll ==
  ASSUME Ring!RingInductive
  PROVE  Ring!RingHoldsTheTail /\ Ring!ReaderMissesOnlyTheDropped /\ Ring!FollowerSeesTheSettle
<1>0. RingTypes /\ Len(log) \in Nat BY RingIs DEF RingTypes
<1>1. PICK n : n = Len(log) OBVIOUS
<1>2. PICK a \in 1 .. n + 1, b \in 0 .. n : Ring!RingHolds(a, b) /\ Ring!ReaderHas(a, b) BY <1>1, RingIs
<1>3. Ring!RingHoldsTheTail BY <1>0, <1>1, <1>2, TailHolds
<1>4. a \in Int /\ b \in Int /\ a <= b + 1 /\ entries = Ring!Run(a, b) BY <1>0, <1>1, <1>2 DEF Ring!RingHolds
<1>5. \A i \in DOMAIN entries : entries[i] \in a .. b
  <2>1. DOMAIN entries = 1 .. b - a + 1 /\ \A i \in 1 .. b - a + 1 : entries[i] = a + i - 1 BY <1>4, TheRun
  <2> QED BY <1>4, <2>1
<1>6. closed => cursor = 0 BY <1>2 DEF Ring!ReaderHas
<1>7. Ring!ReaderMissesOnlyTheDropped BY <1>2, <1>5, <1>6 DEF Ring!ReaderMissesOnlyTheDropped, Ring!ReaderHas
<1>8. closed => pinned \in a .. b BY <1>0, <1>2 DEF RingTypes, Ring!RingHolds
<1>9. pinned \in Nat /\ wanted \in Nat BY <1>0, <1>1 DEF RingTypes
<1>10. Ring!FollowerSeesTheSettle BY <1>2, <1>6, <1>8, <1>9 DEF Ring!FollowerSeesTheSettle, Ring!ReaderHas
<1> QED BY <1>3, <1>7, <1>10

LEMMA RingSceneKept ==
  ASSUME scene = "ring" => Ring!RingInductive, [Next]_vars, scene = "ring"
  PROVE  Ring!RingInductive'
<1>1. Ring!RingInductive OBVIOUS
<1>2. CASE RingOnly /\ Ring!RingNext BY <1>1, <1>2, RingGoesOn
<1>3. CASE UNCHANGED ringAll
  BY <1>1, <1>3 DEF ringAll, Ring!RingInductive, Ring!RingHolds, Ring!ReaderHas, Ring!Light, Ring!Newest, Ring!Sent
<1>4. (RingOnly /\ Ring!RingNext) \/ UNCHANGED ringAll
  BY DEF Next, vars, MapperOnly, QueueOnly, RingOnly, ConvOnly, LineOnly, ConfigOnly, ContextOnly
<1> QED BY <1>2, <1>3, <1>4


\* The inductive invariant of the ring and of who reads it holds (EventRing.RingInductive).
THEOREM RingInvariance == Spec => [](scene = "ring" => Ring!RingInductive)
<1>1. Init => (scene = "ring" => Ring!RingInductive) BY RingStarts DEF Init
<1>2. (scene = "ring" => Ring!RingInductive) /\ [Next]_vars => (scene = "ring" => Ring!RingInductive)'
  BY SceneStays, RingSceneKept
<1> QED BY <1>1, <1>2, PTL DEF Spec

\* The way of a turn's events, end to end: the mapping keeps the port's contract, its
\* usage is the sum over pi's responses, only the tool of an edit fills the buffer and
\* updates keep their distance; the queue of the stream gives every read its item; the
\* ring holds the settle and the longest tail that fits, a reader misses only what was
\* dropped, and a follower always sees the settle (mapping.ts, async-queue.ts, turns.ts).
THEOREM EventsAreTold == Spec => []EventsTellTheTurn
<1>1. ASSUME scene = "ring" => Ring!RingInductive
      PROVE  scene = "ring" => /\ Ring!RingHoldsTheTail /\ Ring!ReaderMissesOnlyTheDropped
                               /\ Ring!FollowerSeesTheSettle
  BY <1>1, RingTellsAll
<1>2. /\ scene = "mapper" => /\ Mapper!Contract /\ Mapper!UsageIsTheSum
                             /\ Mapper!OnlyTheEditFillsTheBuffer /\ Mapper!UpdatesAreThrottled
      /\ scene = "queue" => Queue!EachReadGetsItsItem
      /\ scene = "ring" => Ring!RingInductive
      => EventsTellTheTurn
  BY <1>1 DEF EventsTellTheTurn
<1> QED BY <1>2, TurnEventsAreInOrder, ReadsGetTheirItems, RingInvariance, PTL
===============================================================================
