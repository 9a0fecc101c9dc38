----------------------------- MODULE AsyncQueue -----------------------------
(***************************************************************************)
(* core/async-queue.ts: values pushed from callbacks, iterated by one      *)
(* consumer, which core/abort.ts lets stop waiting and leave.  A value is  *)
(* its number, a call of next() likewise; a call is one step, since the    *)
(* queue never awaits.                                                     *)
(***************************************************************************)
EXTENDS Naturals, Sequences

CONSTANTS MaxValues, MaxReads

VARIABLES
  accepted,   \* how many values were pushed while the queue was open
  buffered,   \* the values nobody has read
  waiting,    \* the parked calls of next()
  state,      \* "open", "closed" or "failed"
  answer,     \* per call of next() what it was answered
  signal,     \* the consumer's abort signal has fired
  left        \* the consumer has called return()

queueVars == <<accepted, buffered, waiting, state, answer, signal, left>>

Done == "done"      \* the answers that are no value; values are numbers
Failed == "failed"
Parked == "parked"
Value(v) == [is |-> "value", v |-> v]
End(how) == [is |-> how, v |-> 0]

QueueInit ==
  /\ accepted = 0 /\ buffered = <<>> /\ waiting = <<>>
  /\ state = "open" /\ answer = <<>> /\ signal = FALSE /\ left = FALSE

\* Every parked call is answered the same.
AnswerAll(how) ==
  /\ answer' = [i \in DOMAIN answer |->
                  IF answer[i] = End(Parked) THEN End(how) ELSE answer[i]]
  /\ waiting' = <<>>

\* push: to the call that waits longest, or into the buffer.
Push ==
  /\ accepted < MaxValues
  /\ IF state # "open" THEN UNCHANGED <<accepted, buffered, waiting, answer>>
     ELSE /\ accepted' = accepted + 1
          /\ IF waiting = <<>>
               THEN /\ buffered' = Append(buffered, accepted + 1)
                    /\ UNCHANGED <<waiting, answer>>
               ELSE /\ answer' = [answer EXCEPT ![Head(waiting)] = Value(accepted + 1)]
                    /\ waiting' = Tail(waiting) /\ UNCHANGED buffered
  /\ UNCHANGED <<state, signal, left>>

\* close and fail: the parked calls learn of it at once.
Close ==
  /\ state = "open" /\ state' = "closed" /\ AnswerAll(Done)
  /\ UNCHANGED <<accepted, buffered, signal, left>>
Fail ==
  /\ state = "open" /\ state' = "failed" /\ AnswerAll(Failed)
  /\ UNCHANGED <<accepted, buffered, signal, left>>

\* next: a buffered value, else the end, else the call is parked.
Next ==
  /\ ~left /\ Len(answer) < MaxReads
  /\ LET call == Len(answer) + 1 IN
     \/ /\ buffered # <<>>
        /\ answer' = Append(answer, Value(Head(buffered)))
        /\ buffered' = Tail(buffered) /\ UNCHANGED waiting
     \/ /\ buffered = <<>> /\ state # "open"
        /\ answer' = Append(answer, End(IF state = "closed" THEN Done ELSE Failed))
        /\ UNCHANGED <<buffered, waiting>>
     \/ /\ buffered = <<>> /\ state = "open"
        /\ answer' = Append(answer, End(Parked))
        /\ waiting' = Append(waiting, call) /\ UNCHANGED buffered
  /\ UNCHANGED <<accepted, state, signal, left>>

\* return: the buffer is dropped and whoever still waits is told it is over.
Return ==
  /\ ~left /\ left' = TRUE /\ signal
  /\ buffered' = <<>> /\ AnswerAll(Done)
  /\ UNCHANGED <<accepted, state, signal>>

\* raceAbort lets the consumer go on, and leave, though its call is parked.
Abort ==
  /\ ~signal /\ signal' = TRUE
  /\ UNCHANGED <<accepted, buffered, waiting, state, answer, left>>

QueueNext == Push \/ Close \/ Fail \/ Next \/ Return \/ Abort
QueueSpec == QueueInit /\ [][QueueNext]_queueVars

-----------------------------------------------------------------------------
\* The i-th call gets the i-th value, whether it came before the value or after;
\* calls beyond the last value wait while more can come and then learn how it
\* ended; and what was pushed before the end is read before it.
EachReadGetsItsItem ==
  /\ \A i \in DOMAIN answer :
       \/ answer[i] = IF i <= accepted THEN Value(i)
                      ELSE End(CASE state = "open" -> Parked
                                 [] state = "closed" -> Done
                                 [] OTHER -> Failed)
       \/ left /\ answer[i] = End(Done)
  /\ left => \A i \in DOMAIN answer : answer[i] # End(Parked)
-----------------------------------------------------------------------------
(* Why it holds. *)

Answers == [is : {"value", Done, Failed, Parked}, v : Nat]

\* Until the reader leaves, the buffer has what its calls so far have not taken, and the
\* calls that wait are those that came before their value.
InLine ==
  ~left =>
    /\ Len(buffered) = IF Len(answer) < accepted THEN accepted - Len(answer) ELSE 0
    /\ \A k \in DOMAIN buffered : buffered[k] = Len(answer) + k
    /\ Len(waiting) = IF state = "open" /\ accepted < Len(answer) THEN Len(answer) - accepted ELSE 0
    /\ \A k \in DOMAIN waiting : waiting[k] = accepted + k

\* Inductive.
QueueInductive ==
  /\ accepted \in Nat /\ state \in {"open", "closed", "failed"} /\ left \in BOOLEAN
  /\ buffered \in Seq(Nat) /\ waiting \in Seq(Nat) /\ answer \in Seq(Answers)
  /\ left => waiting = <<>>
  /\ InLine /\ EachReadGetsItsItem
=============================================================================
