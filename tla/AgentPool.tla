----------------------------- MODULE AgentPool -----------------------------
(***************************************************************************)
(* The agent pool of the prefaix daemon (pool.ts) with the callers that    *)
(* make it hard: turns, model queries, removal of a conversation, the idle *)
(* sweep, pre-warming and shutdown.                                        *)
(*                                                                         *)
(* #mutate runs one operation at a time.  Between two awaits an operation  *)
(* runs alone; what follows in the same microtasks (the caller it answers, *)
(* the next operation of the queue) runs before anything else.  Ready says *)
(* that nothing of the kind is left, and guards everything from outside.   *)
(***************************************************************************)
EXTENDS Integers, FiniteSets, Sequences

CONSTANTS
    Conv,           \* conversation ids
    Place,          \* pairs of a workspace root and an environment fingerprint
    Persona,        \* personas, NoPersona among them
    NoPersona,
    Keep,           \* the persona of a request that leaves it as it is
    Max,            \* max(1, pool.max_children)
    PreWarm,        \* pool.spare
    LivePersonas,   \* capabilities.personasWithoutRespawn
    MaxSpawns,      \* bound: children opened
    MaxOps,         \* bound: operations asked of the pool
    MaxAsks,        \* bound: model queries among them
    MaxTemps        \* bound: children opened for command lists

Child == 1..MaxSpawns       \* in the order they are opened
NoChild == 0
Asked == -1                 \* a child a model query waits for

ASSUME PoolAssumption ==
    /\ Max \in Nat \ {0} /\ IsFiniteSet(Conv)
    /\ MaxSpawns \in Nat /\ MaxOps \in Nat /\ MaxAsks \in Nat /\ MaxTemps \in Nat
    /\ PreWarm \in BOOLEAN /\ LivePersonas \in BOOLEAN
    /\ Place # {} /\ NoPersona \in Persona /\ Keep \notin Persona

VARIABLES
    child,          \* the life of each child process
    native,         \* the transcript a child writes, named by its first child
    place,          \* Binding.root and .envHash, Spare.root and .envHash
    persona,        \* Binding.persona, and what the child enforces
    closed,         \* children whose Binding or Spare is marked closed
    observed,       \* children with crashObserved
    bindings,       \* #bindings
    spare,          \* #spare
    queue,          \* operations chained on #pending, not yet begun
    op,             \* the operation that runs
    at,             \* where it is
    target,         \* the child it waits for
    after,          \* where it goes when a close succeeds
    failed,         \* children close() could not close
    closing,        \* #closing
    closePromise,   \* #closePromise
    turn,           \* where each conversation's turn is; "idle" is not busy
    hands,          \* the child its turn works with
    want,           \* the place and persona its turn asked for
    asking,         \* the child a model query got, or that it waits for one
    removing,       \* where conv.remove of the conversation is
    records,        \* conversations in the store
    recNative,      \* record.native, NoChild when empty
    story,          \* history: transcripts turns of the conversation prompted
    temp,           \* the child of a commands.list without a conversation
    used            \* bookkeeping of the bounds

childVars == <<child, native, place, persona, closed, observed>>
poolVars == <<bindings, spare>>
opVars == <<op, at, target, after, failed>>
closeVars == <<closing, closePromise>>
turnVars == <<turn, hands, want>>
callerVars == <<turnVars, asking, removing>>
storeVars == <<records, recNative, story>>
vars == <<childVars, poolVars, queue, opVars, closeVars, callerVars, storeVars, temp, used>>

AcquireOp == [by : {"turn", "model"}, conv : Conv, place : Place,
              persona : Persona \cup {Keep}, native : Child \cup {NoChild}]
ReleaseOp == [by : {"removal", "restore"}, conv : Conv]
WarmOp == [by : {"warm"}, place : Place]
PlainOp == [by : {"sweep", "close"}]
Op == AcquireOp \cup ReleaseOp \cup WarmOp \cup PlainOp
NoOp == [by |-> "nobody"]
AnyPlace == CHOOSE p \in Place : TRUE       \* of a child or turn that is not there
NoWant == [place |-> AnyPlace, persona |-> NoPersona]

Awaits == {"close", "open", "persona", "adopt"}
Stages == Awaits \cup {"idle", "acquire", "room", "start", "giveup", "release", "sweep",
                       "warm", "shut"}

ChildTypes ==
    /\ child \in [Child -> {"unborn", "opening", "alive", "dead"}]
    /\ native \in [Child -> Child \cup {NoChild}]
    /\ place \in [Child -> Place] /\ persona \in [Child -> Persona]
    /\ closed \subseteq Child /\ observed \subseteq Child
    /\ temp \in Child \cup {NoChild}

PoolTypes ==
    /\ bindings \in [Conv -> Child \cup {NoChild}] /\ spare \in Child \cup {NoChild}
    /\ closing \in BOOLEAN /\ closePromise \in {"none", "pending", "resolved"}

OpTypes ==
    /\ queue \in Seq(Op) /\ op \in Op \cup {NoOp}
    /\ at \in Stages /\ after \in Stages
    /\ target \in Child \cup {NoChild} /\ failed \subseteq Child
    /\ used \in [ops : Nat, asks : Nat, temps : Nat]

CallerTypes ==
    /\ turn \in [Conv -> {"idle", "claimed", "waiting", "acquired", "running", "restoring",
                          "stranded"}]
    /\ hands \in [Conv -> Child \cup {NoChild}]
    /\ want \in [Conv -> [place : Place, persona : Persona]]
    /\ asking \in [Conv -> Child \cup {NoChild, Asked}]
    /\ removing \in [Conv -> {"no", "waiting", "released"}]
    /\ records \subseteq Conv /\ recNative \in [Conv -> Child \cup {NoChild}]
    /\ story \in [Conv -> SUBSET (Child \cup {NoChild})]

TypeOK == ChildTypes /\ PoolTypes /\ OpTypes /\ CallerTypes

Init ==
    /\ child = [c \in Child |-> "unborn"] /\ native = [c \in Child |-> NoChild]
    /\ place = [c \in Child |-> AnyPlace] /\ persona = [c \in Child |-> NoPersona]
    /\ closed = {} /\ observed = {}
    /\ bindings = [k \in Conv |-> NoChild] /\ spare = NoChild
    /\ queue = <<>> /\ op = NoOp
    /\ at = "idle" /\ after = "idle" /\ target = NoChild /\ failed = {}
    /\ closing = FALSE /\ closePromise = "none"
    /\ turn = [k \in Conv |-> "idle"] /\ hands = [k \in Conv |-> NoChild]
    /\ want = [k \in Conv |-> NoWant]
    /\ asking = [k \in Conv |-> NoChild] /\ removing = [k \in Conv |-> "no"]
    /\ records = Conv /\ recNative = [k \in Conv |-> NoChild]
    /\ story = [k \in Conv |-> {}]
    /\ temp = NoChild
    /\ used = [ops |-> 0, asks |-> 0, temps |-> 0]

-----------------------------------------------------------------------------

Bound(k) == bindings[k] # NoChild
Open(k) == Bound(k) /\ bindings[k] \notin closed
OpenOnes == {k \in Conv : Open(k)}
Children == Cardinality(OpenOnes)                           \* #opening is 0 here
Busy(k) == turn[k] # "idle"

\* pool.session: the child that serves k, if it is there and alive.
Session(k) == IF Open(k) /\ child[bindings[k]] = "alive" THEN bindings[k] ELSE NoChild

\* No microtask is pending: the running operation awaits something, or there
\* is none.
Ready == at \in Awaits \/ (at = "idle" /\ queue = <<>>)

Enqueue(o) ==
    /\ queue' = Append(queue, o)
    /\ used' = [used EXCEPT !.ops = @ + 1]
MayAsk == Ready /\ used.ops < MaxOps

-----------------------------------------------------------------------------
(* Running one operation.                                                  *)

FirstStage(o) ==
    CASE o.by \in {"turn", "model"} -> "acquire"
      [] o.by \in {"removal", "restore"} -> "release"
      [] o.by = "close" -> "shut"
      [] OTHER -> o.by

\* Mutant: shutdown drops what is queued.
DequeueUnlessClosing ==
    /\ at = "idle" /\ queue # <<>>
    /\ ~closing \/ Head(queue).by = "close"
    /\ op' = Head(queue) /\ queue' = Tail(queue)
    /\ at' = FirstStage(Head(queue))
    /\ UNCHANGED <<childVars, poolVars, target, after, failed, closeVars, callerVars,
                   storeVars, temp, used>>

\* The next operation of the queue, whatever became of the one before.
Dequeue ==
    /\ at = "idle" /\ queue # <<>>
    /\ op' = Head(queue) /\ queue' = Tail(queue)
    /\ at' = FirstStage(Head(queue))
    /\ UNCHANGED <<childVars, poolVars, target, after, failed, closeVars, callerVars,
                   storeVars, temp, used>>

\* The operation ends.
Over == at' = "idle" /\ op' = NoOp /\ target' = NoChild /\ after' = "idle" /\ failed' = {}

\* It goes on to `stage', or waits for c there.
Goto(stage) == at' = stage /\ target' = NoChild /\ after' = "idle" /\ UNCHANGED <<op, failed>>
Await(stage, c) == at' = stage /\ target' = c /\ after' = "idle" /\ UNCHANGED <<op, failed>>
AwaitClose(c, next) == at' = "close" /\ target' = c /\ after' = next /\ UNCHANGED <<op, failed>>

\* The conversation is not busy any more.
TurnOver(k) ==
    /\ turn' = [turn EXCEPT ![k] = "idle"]
    /\ hands' = [hands EXCEPT ![k] = NoChild]
    /\ want' = [want EXCEPT ![k] = NoWant]

\* What the caller of the running operation sees when it rejects: a startup
\* fails, and #pump itself rejects when it cannot evict the child.
Rejected ==
    /\ CASE op.by = "turn" -> TurnOver(op.conv)
         [] op.by = "restore" -> /\ turn' = [turn EXCEPT ![op.conv] = "stranded"]
                                 /\ UNCHANGED <<hands, want>>
         [] OTHER -> UNCHANGED turnVars
    /\ asking' = IF op.by = "model" THEN [asking EXCEPT ![op.conv] = NoChild] ELSE asking
    /\ removing' = IF op.by = "removal" THEN [removing EXCEPT ![op.conv] = "no"] ELSE removing

\* acquire returns c.
Returned(c) ==
    /\ IF op.by = "turn"
       THEN /\ turn' = [turn EXCEPT ![op.conv] = "acquired"]
            /\ hands' = [hands EXCEPT ![op.conv] = c]
            /\ UNCHANGED asking
       ELSE /\ asking' = [asking EXCEPT ![op.conv] = c]
            /\ UNCHANGED <<turn, hands>>
    /\ UNCHANGED <<want, removing>>

\* #assertOpen, then c is the answer.
ReturnIfOpen(c) == Over /\ IF closing THEN Rejected ELSE Returned(c)

Reject ==
    /\ Over /\ Rejected
    /\ UNCHANGED <<childVars, poolVars, queue, closeVars, storeVars, temp, used>>

\* The child dies of its own accord.
Dies(c) ==
    /\ Ready
    /\ child[c] = "alive"
    /\ child' = [child EXCEPT ![c] = "dead"]
    /\ UNCHANGED <<native, place, persona, closed, observed, poolVars, queue, opVars, closeVars,
                   callerVars, storeVars, temp, used>>

-----------------------------------------------------------------------------
(* acquire.                                                                *)

WantedPersona == IF op.persona = Keep THEN persona[bindings[op.conv]] ELSE op.persona

NeedsRespawnUnlessAlive ==                                  \* mutant
    LET c == bindings[op.conv] IN c \in closed \cup observed \/ child[c] # "alive"
\* The binding cannot serve this request with the child it has.
NeedsRespawn ==
    LET c == bindings[op.conv]
    IN \/ c \in closed \cup observed
       \/ child[c] # "alive"
       \/ place[c] # op.place
       \/ WantedPersona # persona[c] /\ ~LivePersonas

\* A binding exists: its child is used, told its persona, or replaced.
AcquireBound ==
    LET c == bindings[op.conv]
    IN /\ at = "acquire" /\ Bound(op.conv)
       /\ IF closing THEN Over /\ Rejected /\ UNCHANGED observed
          ELSE IF NeedsRespawn
          THEN /\ observed' = IF c \notin closed /\ child[c] # "alive"
                              THEN observed \cup {c} ELSE observed
               /\ IF c \in closed THEN Goto("room") ELSE AwaitClose(c, "room")
               /\ UNCHANGED callerVars
          ELSE IF WantedPersona # persona[c]
          THEN Await("persona", c) /\ UNCHANGED <<observed, callerVars>>
          ELSE Over /\ Returned(c) /\ UNCHANGED observed
       /\ UNCHANGED <<child, native, place, persona, closed, poolVars, queue, closeVars,
                      storeVars, temp, used>>

\* setPersona resolves, says UNSUPPORTED, or rejects with something else.
PersonaSet ==
    /\ at = "persona"
    /\ persona' = [persona EXCEPT ![target] = WantedPersona]
    /\ ReturnIfOpen(target)
    /\ UNCHANGED <<child, native, place, closed, observed, poolVars, queue, closeVars,
                   storeVars, temp, used>>
PersonaUnsupported ==
    /\ at = "persona"
    /\ AwaitClose(target, "room")
    /\ UNCHANGED <<childVars, poolVars, queue, closeVars, callerVars, storeVars, temp, used>>
PersonaFails == at = "persona" /\ Reject

Adoptable ==
    /\ spare # NoChild /\ child[spare] = "alive"
    /\ place[spare] = op.place /\ op.native = NoChild
    /\ op.persona \in {Keep, NoPersona}

\* No binding: the spare is adopted, or closed to make place for a new child.
AcquireFresh ==
    /\ at = "acquire" /\ ~Bound(op.conv)
    /\ IF closing THEN Over /\ Rejected
       ELSE /\ IF Adoptable THEN Await("adopt", spare)
               ELSE IF spare # NoChild THEN AwaitClose(spare, "room")
               ELSE Goto("room")
            /\ UNCHANGED callerVars
    /\ UNCHANGED <<childVars, poolVars, queue, closeVars, storeVars, temp, used>>

\* The spare has taken the request's title, model and thinking, or has not.
Adopted ==
    /\ at = "adopt"
    /\ IF closing THEN UNCHANGED poolVars
       ELSE /\ bindings' = [bindings EXCEPT ![op.conv] = spare]
            /\ spare' = NoChild
    /\ ReturnIfOpen(spare)
    /\ UNCHANGED <<childVars, queue, closeVars, storeVars, temp, used>>
AdoptFails ==
    /\ at = "adopt"
    /\ AwaitClose(spare, "giveup")
    /\ UNCHANGED <<childVars, poolVars, queue, closeVars, callerVars, storeVars, temp, used>>
GiveUp == at = "giveup" /\ Reject

-----------------------------------------------------------------------------
(* Room for one more child, and the child.                                 *)

HasRoomAtTheLimit ==                                        \* mutant
    Children + (IF spare = NoChild THEN 0 ELSE 1) <= Max
HasRoom == Children + (IF spare = NoChild THEN 0 ELSE 1) < Max

\* Bindings that may be evicted.  Which of them is the least recently used is
\* left open.
VictimsOfAnyKind == {k \in Conv : Open(k)}                  \* mutant
Victims == {k \in Conv : Open(k) /\ ~Busy(k)}

MakeRoom ==
    /\ at = "room"
    /\ \/ HasRoom /\ Goto("start") /\ UNCHANGED callerVars
       \/ ~HasRoom /\ spare # NoChild /\ AwaitClose(spare, "room") /\ UNCHANGED callerVars
       \/ /\ ~HasRoom /\ spare = NoChild
          /\ \E k \in Victims : AwaitClose(bindings[k], "start")
          /\ UNCHANGED callerVars
       \/ ~HasRoom /\ spare = NoChild /\ Victims = {} /\ Over /\ Rejected
    /\ UNCHANGED <<childVars, poolVars, queue, closeVars, storeVars, temp, used>>

\* backend.open, for a binding or for the spare.
Spawn(c, p, m, n) ==
    /\ child[c] = "unborn" /\ \A d \in Child : d < c => child[d] # "unborn"
    /\ child' = [child EXCEPT ![c] = "opening"]
    /\ native' = [native EXCEPT ![c] = IF n = NoChild THEN c ELSE n]
    /\ place' = [place EXCEPT ![c] = p]
    /\ persona' = [persona EXCEPT ![c] = m]
    /\ Await("open", c)
    /\ UNCHANGED <<closed, observed>>

\* The transcript to resume: the one the binding has, else the one asked for.
Resume == IF Bound(op.conv) THEN native[bindings[op.conv]] ELSE op.native

StartOpen ==
    /\ at = "start"
    /\ IF closing
       THEN Over /\ Rejected /\ UNCHANGED childVars
       ELSE /\ \E c \in Child :
                   Spawn(c, op.place,
                         IF op.persona # Keep THEN op.persona
                         ELSE IF Bound(op.conv) THEN persona[bindings[op.conv]] ELSE NoPersona,
                         Resume)
            /\ UNCHANGED callerVars
    /\ UNCHANGED <<poolVars, queue, closeVars, storeVars, temp, used>>

\* Mutant: the pool is seen to be closing before the child is bound.
OpenedThenBound ==
    /\ at = "open" /\ op.by # "warm"
    /\ child' = [child EXCEPT ![target] = "alive"]
    /\ bindings' = IF closing THEN bindings ELSE [bindings EXCEPT ![op.conv] = target]
    /\ ReturnIfOpen(target)
    /\ UNCHANGED <<native, place, persona, closed, observed, spare, queue, closeVars,
                   storeVars, temp, used>>

\* The new child is bound before anybody looks whether the pool is closing.
Opened ==
    /\ at = "open" /\ op.by # "warm"
    /\ child' = [child EXCEPT ![target] = "alive"]
    /\ bindings' = [bindings EXCEPT ![op.conv] = target]
    /\ ReturnIfOpen(target)
    /\ UNCHANGED <<native, place, persona, closed, observed, spare, queue, closeVars,
                   storeVars, temp, used>>
OpenFails ==
    /\ at = "open" /\ op.by # "warm"
    /\ child' = [child EXCEPT ![target] = "dead"]
    /\ Over /\ Rejected
    /\ UNCHANGED <<native, place, persona, closed, observed, poolVars, queue, closeVars,
                   storeVars, temp, used>>

-----------------------------------------------------------------------------
(* #closeSession, as any operation awaits it.                              *)

\* The bindings without the one that has c.
Without(c) == [k \in Conv |-> IF bindings[k] = c THEN NoChild ELSE bindings[k]]

\* The child is gone.  A binding that is to be replaced stays, closed, until
\* its successor is bound; any other leaves the map, and the spare its slot.
CloseDone ==
    /\ at = "close"
    /\ child' = [child EXCEPT ![target] = "dead"]
    /\ closed' = closed \cup {target}
    /\ bindings' = IF after = "room" THEN bindings ELSE Without(target)
    /\ spare' = IF spare = target THEN NoChild ELSE spare
    /\ Goto(after)
    /\ UNCHANGED <<native, place, persona, observed, queue, closeVars, callerVars, storeVars,
                   temp, used>>

\* close() rejects, or resolves, and the child is still alive: it stays owned.
\* Only shutdown goes on to the next one.
CloseFails ==
    /\ at = "close" /\ child[target] = "alive"
    /\ IF after = "shut"
       THEN /\ at' = "shut" /\ failed' = failed \cup {target}
            /\ target' = NoChild /\ after' = "idle" /\ UNCHANGED <<op, callerVars>>
       ELSE Over /\ Rejected
    /\ UNCHANGED <<childVars, poolVars, queue, closeVars, storeVars, temp, used>>

-----------------------------------------------------------------------------
(* release, sweepIdle, warmSpare, close.                                   *)

\* release resolves.
Released ==
    /\ removing' = IF op.by = "removal" THEN [removing EXCEPT ![op.conv] = "released"]
                   ELSE removing
    /\ turn' = IF op.by = "restore" THEN [turn EXCEPT ![op.conv] = "running"] ELSE turn
    /\ UNCHANGED <<hands, want, asking>>

Release ==
    /\ at = "release"
    /\ IF Open(op.conv)
       THEN AwaitClose(bindings[op.conv], "release") /\ UNCHANGED <<bindings, callerVars>>
       ELSE Over /\ Released /\ bindings' = [bindings EXCEPT ![op.conv] = NoChild]
    /\ UNCHANGED <<childVars, spare, queue, closeVars, storeVars, temp, used>>

\* Which bindings have been idle for long is left open; a busy one is not.
Stale == {k \in Conv : Bound(k) /\ ~Busy(k)}

SweepIdle ==
    /\ at = "sweep"
    /\ \/ \E k \in Stale :
             IF Open(k) THEN AwaitClose(bindings[k], "sweep") /\ UNCHANGED bindings
             ELSE Goto("sweep") /\ bindings' = [bindings EXCEPT ![k] = NoChild]
       \/ spare # NoChild /\ AwaitClose(spare, "sweep") /\ UNCHANGED bindings
       \/ Over /\ UNCHANGED bindings
    /\ UNCHANGED <<childVars, spare, queue, closeVars, callerVars, storeVars, temp, used>>

\* Pre-warming takes a free slot and never evicts.
WarmSpare ==
    LET suits == spare # NoChild /\ place[spare] = op.place /\ child[spare] = "alive"
    IN /\ at = "warm"
       /\ IF closing \/ suits \/ (spare = NoChild /\ Children >= Max)
          THEN Over /\ UNCHANGED <<childVars, spare>>
          ELSE IF spare # NoChild
          THEN AwaitClose(spare, "warm") /\ UNCHANGED <<childVars, spare>>
          ELSE \E c \in Child : Spawn(c, op.place, NoPersona, NoChild) /\ spare' = c
       /\ UNCHANGED <<bindings, queue, closeVars, callerVars, storeVars, temp, used>>

SpareOpened ==
    /\ at = "open" /\ op.by = "warm"
    /\ child' = [child EXCEPT ![target] = "alive"]
    /\ Over
    /\ UNCHANGED <<native, place, persona, closed, observed, poolVars, queue, closeVars,
                   callerVars, storeVars, temp, used>>
SpareFails ==
    /\ at = "open" /\ op.by = "warm"
    /\ child' = [child EXCEPT ![target] = "dead"]
    /\ spare' = NoChild
    /\ Over
    /\ UNCHANGED <<native, place, persona, closed, observed, bindings, queue, closeVars,
                   callerVars, storeVars, temp, used>>

\* Bindings shutdown has still to try.
Untried == {k \in Conv : Bound(k) /\ bindings[k] \notin failed}

Shut ==
    /\ at = "shut"
    /\ IF Untried # {}
       THEN /\ \E k \in Untried :
                  IF Open(k) THEN AwaitClose(bindings[k], "shut") /\ UNCHANGED bindings
                  ELSE Goto("shut") /\ bindings' = [bindings EXCEPT ![k] = NoChild]
            /\ UNCHANGED closePromise
       ELSE IF spare # NoChild /\ spare \notin failed
       THEN AwaitClose(spare, "shut") /\ UNCHANGED <<bindings, closePromise>>
       ELSE /\ Over /\ UNCHANGED bindings
            /\ closePromise' = IF failed = {} THEN "resolved" ELSE "none"
    /\ UNCHANGED <<childVars, spare, queue, closing, callerVars, storeVars, temp, used>>

-----------------------------------------------------------------------------
(* The callers.                                                            *)

\* #startTurn claims the conversation, and reads its record again.
Claim(k, p, m) ==
    /\ MayAsk /\ ~closing
    /\ k \in records /\ ~Busy(k)
    /\ turn' = [turn EXCEPT ![k] = "claimed"]
    /\ want' = [want EXCEPT ![k] = [place |-> p, persona |-> m]]
    /\ UNCHANGED <<childVars, poolVars, queue, opVars, closeVars, hands, asking, removing,
                   storeVars, temp, used>>

\* It asks for a child that goes on with the conversation's transcript.
TurnAcquires(k) ==
    /\ MayAsk /\ ~closing
    /\ turn[k] = "claimed" /\ k \in records
    /\ Enqueue([by |-> "turn", conv |-> k, place |-> want[k].place, persona |-> want[k].persona,
                native |-> IF Session(k) # NoChild THEN native[Session(k)] ELSE recNative[k]])
    /\ turn' = [turn EXCEPT ![k] = "waiting"]
    /\ UNCHANGED <<childVars, poolVars, opVars, closeVars, hands, want, asking, removing,
                   storeVars, temp>>

\* Startup fails: the record is gone or cannot be written, or the daemon stops.
StartupFails(k) ==
    /\ Ready
    /\ turn[k] \in {"claimed", "acquired"}
    /\ TurnOver(k)
    /\ UNCHANGED <<childVars, poolVars, queue, opVars, closeVars, asking, removing, storeVars,
                   temp, used>>

\* The transcript is durable, and the prompt is sent.
Prompt(k) ==
    LET n == native[hands[k]]
    IN /\ Ready /\ ~closing
       /\ turn[k] = "acquired"
       /\ k \in records \/ recNative[k] = n
       /\ turn' = [turn EXCEPT ![k] = "running"]
       /\ recNative' = IF k \in records THEN [recNative EXCEPT ![k] = n] ELSE recNative
       /\ story' = [story EXCEPT ![k] = @ \cup {n}]
       /\ UNCHANGED <<childVars, poolVars, queue, opVars, closeVars, hands, want, asking,
                      removing, records, temp, used>>

\* The model could not be restored after :suggest: the child is evicted.
TurnReleases(k) ==
    /\ MayAsk
    /\ turn[k] = "running"
    /\ Enqueue([by |-> "restore", conv |-> k])
    /\ turn' = [turn EXCEPT ![k] = "restoring"]
    /\ UNCHANGED <<childVars, poolVars, opVars, closeVars, hands, want, asking, removing,
                   storeVars, temp>>

\* The turn is over, and a spare for its place is asked for.
TurnEnds(k) ==
    /\ Ready
    /\ turn[k] = "running"
    /\ TurnOver(k)
    /\ IF PreWarm /\ ~closing /\ used.ops < MaxOps
       THEN Enqueue([by |-> "warm", place |-> want[k].place]) ELSE UNCHANGED <<queue, used>>
    /\ UNCHANGED <<childVars, poolVars, opVars, closeVars, asking, removing, storeVars, temp>>

\* #modelSession for a conversation without a live child.  model.list and
\* commands.list ask even when it is busy, model.set when it was not.
ModelAsks(k, p) ==
    /\ MayAsk /\ ~closing /\ used.asks < MaxAsks
    /\ k \in records /\ asking[k] = NoChild /\ Session(k) = NoChild
    /\ queue' = Append(queue, [by |-> "model", conv |-> k, place |-> p, persona |-> Keep,
                               native |-> recNative[k]])
    /\ used' = [used EXCEPT !.ops = @ + 1, !.asks = @ + 1]
    /\ asking' = [asking EXCEPT ![k] = Asked]
    /\ UNCHANGED <<childVars, poolVars, opVars, closeVars, turnVars, removing, storeVars, temp>>

\* It saves the transcript of the child it got.
ModelSaves(k) ==
    /\ Ready
    /\ asking[k] \in Child
    /\ asking' = [asking EXCEPT ![k] = NoChild]
    /\ recNative' = IF k \in records THEN [recNative EXCEPT ![k] = native[asking[k]]]
                    ELSE recNative
    /\ UNCHANGED <<childVars, poolVars, queue, opVars, closeVars, turnVars, removing, records,
                   story, temp, used>>

\* conv.remove of an idle conversation: its child first, then its record.
Remove(k) ==
    /\ MayAsk /\ ~closing
    /\ k \in records /\ ~Busy(k) /\ removing[k] = "no"
    /\ Enqueue([by |-> "removal", conv |-> k])
    /\ removing' = [removing EXCEPT ![k] = "waiting"]
    /\ UNCHANGED <<childVars, poolVars, opVars, closeVars, turnVars, asking, storeVars, temp>>
RecordRemoved(k) ==
    /\ Ready
    /\ removing[k] = "released"
    /\ removing' = [removing EXCEPT ![k] = "no"]
    /\ records' = records \ {k}
    /\ UNCHANGED <<childVars, poolVars, queue, opVars, closeVars, turnVars, asking, recNative,
                   story, temp, used>>

\* The 30-second tick.
Sweep ==
    /\ MayAsk
    /\ Enqueue([by |-> "sweep"])
    /\ UNCHANGED <<childVars, poolVars, opVars, closeVars, callerVars, storeVars, temp>>

\* close(), the first time or after it failed.
Close ==
    /\ MayAsk
    /\ closePromise = "none"
    /\ closing' = TRUE /\ closePromise' = "pending"
    /\ Enqueue([by |-> "close"])
    /\ UNCHANGED <<childVars, poolVars, opVars, callerVars, storeVars, temp>>

\* commands.list without a conversation opens a child the pool never sees.
TempOpens(c, p) ==
    /\ Ready
    /\ temp = NoChild /\ used.temps < MaxTemps
    /\ child[c] = "unborn" /\ \A d \in Child : d < c => child[d] # "unborn"
    /\ child' = [child EXCEPT ![c] = "alive"]
    /\ native' = [native EXCEPT ![c] = c] /\ place' = [place EXCEPT ![c] = p]
    /\ temp' = c /\ used' = [used EXCEPT !.temps = @ + 1]
    /\ UNCHANGED <<persona, closed, observed, poolVars, queue, opVars, closeVars, callerVars,
                   storeVars>>
TempCloses ==
    /\ Ready
    /\ temp # NoChild
    /\ child' = [child EXCEPT ![temp] = "dead"]
    /\ temp' = NoChild
    /\ UNCHANGED <<native, place, persona, closed, observed, poolVars, queue, opVars, closeVars,
                   callerVars, storeVars, used>>

-----------------------------------------------------------------------------

OpStep ==
    \/ Dequeue \/ AcquireBound \/ AcquireFresh \/ GiveUp \/ MakeRoom \/ StartOpen
    \/ Release \/ SweepIdle \/ WarmSpare \/ Shut

\* What the running operation awaits comes back.
Answer ==
    \/ PersonaSet \/ PersonaUnsupported \/ PersonaFails \/ Adopted \/ AdoptFails
    \/ Opened \/ OpenFails \/ SpareOpened \/ SpareFails \/ CloseDone \/ CloseFails

TurnNext ==
    \E k \in Conv :
        \/ \E p \in Place, m \in Persona : Claim(k, p, m)
        \/ TurnAcquires(k) \/ StartupFails(k) \/ Prompt(k) \/ TurnReleases(k) \/ TurnEnds(k)

OthersNext ==
    \/ \E k \in Conv : ModelSaves(k) \/ Remove(k) \/ RecordRemoved(k)
    \/ \E k \in Conv, p \in Place : ModelAsks(k, p)
    \/ \E c \in Child : Dies(c) \/ \E p \in Place : TempOpens(c, p)
    \/ Sweep \/ Close \/ TempCloses

Next == OpStep \/ Answer \/ TurnNext \/ OthersNext

Spec == Init /\ [][Next]_vars

\* Opening, closing and RPCs all have timeouts, and microtasks run.
FairSpec == Spec /\ WF_vars(OpStep) /\ WF_vars(Answer)

-----------------------------------------------------------------------------
(* Properties.                                                             *)

Processes == {c \in Child : child[c] \in {"opening", "alive"}}

\* There are never more agent processes than pool.max_children, those opening
\* and closing and the spare included; the children of commands.list, which the
\* pool does not know, are not.
Capacity == Cardinality(Processes \ {temp}) <= Max

\* No child is lost: every process is the spare, the one being opened, or bound
\* to one conversation, and is only one of those things, whatever failed.
EveryProcessHasOneOwner ==
    \A c \in Processes \ {temp} :
        \/ c = spare /\ ~\E k \in Conv : bindings[k] = c
        \/ at = "open" /\ target = c /\ c # spare /\ ~\E k \in Conv : bindings[k] = c
        \/ c # spare /\ \E k \in Conv : bindings[k] = c /\ c \notin closed
                                        /\ \A j \in Conv : bindings[j] = c => j = k

\* Two processes never write the same transcript: a replacement is opened only
\* when its predecessor is gone.
OneWriter == \A c, d \in Processes : native[c] = native[d] => c = d

\* The child a turn works with runs in the turn's workspace and environment and
\* enforces the turn's persona, adopted, warm, re-configured or respawned.
TurnGetsWhatItAsked ==
    \A k \in Conv : turn[k] \in {"acquired", "running"} =>
        place[hands[k]] = want[k].place /\ persona[hands[k]] = want[k].persona

\* Until its turn ends the child of a turn is neither closed nor bound to
\* something else: neither the sweep, nor an eviction that began before the
\* turn, nor a model query takes it.  Shutdown does.
RunningTurnKeepsItsChild ==
    \A k \in Conv :
        turn[k] \in {"acquired", "running"} /\ ~closing /\ child[hands[k]] = "alive" =>
            bindings[k] = hands[k] /\ ~(at = "close" /\ target = hands[k])

\* All turns of a conversation prompt one transcript, through evictions,
\* crashes, respawns and adoptions.
OneTranscript == \A k \in Conv : Cardinality(story[k]) <= 1

\* When close() has resolved no process is left, and none comes back.
ClosedPoolIsEmpty == closePromise = "resolved" => Processes \subseteq {temp}

\* No process is an orphan, while the pool works and when it is closed.
NoOrphans == EveryProcessHasOneOwner /\ ClosedPoolIsEmpty

\* A transcript has one writer, a conversation one transcript, and a turn its child
\* until it ends.
ChildrenServeTheirTurns == OneWriter /\ OneTranscript /\ RunningTurnKeepsItsChild

\* Every acquire is answered: a failed operation does not block the queue.
EveryAcquireIsAnswered ==
    \A k \in Conv : turn[k] = "waiting" ~> turn[k] # "waiting"

(* Why the first ones hold: an inductive invariant.                        *)

\* The operation is one of those that have the stage s.
Fits(s) ==
    /\ s \in {"acquire", "persona", "adopt", "room", "start", "giveup"} => op \in AcquireOp
    /\ s = "open" => op \in AcquireOp \cup WarmOp
    /\ s = "release" => op \in ReleaseOp
    /\ s = "warm" => op \in WarmOp
    /\ s \in {"sweep", "shut"} => op \in PlainOp
Staged ==
    /\ Fits(at)
    /\ at \in Awaits => target \in Child
    /\ at = "close" => after \notin Awaits \cup {"idle"} /\ Fits(after)

\* Who owns what: no child has two owners, no owner has a child that is unborn,
\* no process is without an owner, and an operation that will bind a new child
\* does not overwrite a binding that is still open.
Owned ==
    /\ \A c \in Processes : \/ c = temp \/ c = spare \/ (at = "open" /\ target = c)
                            \/ \E k \in Conv : bindings[k] = c
    /\ \A j, k \in Conv : bindings[j] = bindings[k] /\ Bound(j) => j = k
    /\ \A k \in Conv : Bound(k) => /\ bindings[k] # spare /\ bindings[k] # temp
                                  /\ child[bindings[k]] \in {"alive", "dead"}
    /\ spare # NoChild => /\ spare # temp /\ spare \notin closed
                          /\ \/ child[spare] \in {"alive", "dead"}
                             \/ at = "open" /\ target = spare
    /\ temp # NoChild => child[temp] \in {"alive", "dead"}
    /\ \A c \in closed : child[c] = "dead"
    /\ at = "open" => /\ child[target] = "opening" /\ (target = spare <=> op.by = "warm")
    /\ at = "close" => target \notin closed /\ (target = spare \/ \E k \in Conv : bindings[k] = target)
    /\ at = "adopt" => target = spare /\ ~Bound(op.conv)
    /\ at = "persona" => target = bindings[op.conv] /\ target \notin closed
    /\ at \in {"room", "start"} \/ (at = "open" /\ op.by # "warm") => ~Open(op.conv)
    /\ at = "close" /\ after \in {"room", "start"} /\ Open(op.conv) => target = bindings[op.conv]

\* The slots that are taken, the one of the child being opened included.
Slots == Children + (IF spare = NoChild THEN 0 ELSE 1)
                  + (IF at = "open" /\ op.by # "warm" THEN 1 ELSE 0)
Counted ==
    /\ Slots <= Max /\ (at = "start" => Slots < Max)
    /\ at = "close" /\ after = "start" => spare = NoChild

\* Only close() shuts the pool, and it says so first.
Announced ==
    /\ \A i \in 1..Len(queue) : queue[i].by = "close" => closing
    /\ at = "shut" \/ (at = "close" /\ after = "shut") => closing

Emptied ==
    closePromise = "resolved" =>
        /\ closing /\ spare = NoChild /\ \A k \in Conv : ~Bound(k)
        /\ at \in {"idle", "acquire", "release", "sweep", "warm", "shut"}

Handed == \A k \in Conv : turn[k] = "acquired" => hands[k] \in Child

\* All of it is inductive with TypeOK.
Inductive == Handed /\ Staged /\ Owned /\ Counted /\ Announced /\ Emptied

(* Why a turn gets the child it asked for and keeps it, and a conversation *)
(* its transcript: more of the invariant.                                  *)

Working == {k \in Conv : turn[k] \in {"acquired", "running", "restoring"}}

\* The turn of k waits for the operation o.
TurnWaits(k, o) == o.by \in {"turn", "restore"} /\ o.conv = k

\* What a caller asked still stands when its operation runs.
Stands(o) ==
    /\ o.by = "turn" => /\ turn[o.conv] = "waiting"
                        /\ o.place = want[o.conv].place /\ o.persona = want[o.conv].persona
    /\ o.by = "restore" => turn[o.conv] = "restoring"
    /\ o.by = "model" => o.persona = Keep /\ used.asks > 0

\* A turn waits for one operation at a time.
Requested ==
    /\ Stands(op) /\ \A i \in 1..Len(queue) : Stands(queue[i])
    /\ \A i \in 1..Len(queue), k \in Conv : TurnWaits(k, queue[i]) =>
          ~TurnWaits(k, op) /\ \A j \in 1..Len(queue) : TurnWaits(k, queue[j]) => i = j

\* A removal was asked of an idle conversation: it comes before what a turn
\* has asked since.
Removals ==
    /\ op.by = "removal" => op.conv \notin Working
    /\ \A i \in 1..Len(queue) : queue[i].by = "removal" =>
          /\ queue[i].conv \notin Working /\ ~TurnWaits(queue[i].conv, op)
          /\ \A j \in 1..(i - 1) : ~TurnWaits(queue[i].conv, queue[j])

\* The child of a turn is its own, and as the turn asked; so is the one that is
\* prepared for it.
Fitting ==
    /\ \A k \in Conv : \A c \in {hands[k], asking[k]} \cap Child : child[c] \in {"alive", "dead"}
    /\ \A k \in Working :
          /\ hands[k] \in Child /\ hands[k] # spare /\ \A j \in Conv : bindings[j] = hands[k] => j = k
          /\ place[hands[k]] = want[k].place /\ persona[hands[k]] = want[k].persona
    /\ spare # NoChild => persona[spare] = NoPersona
    /\ at = "persona" => place[target] = op.place
    /\ at = "adopt" => /\ place[spare] = op.place /\ op.native = NoChild
                       /\ op.persona \in {Keep, NoPersona}
    /\ at = "open" /\ op.by = "turn" => place[target] = op.place /\ persona[target] = op.persona

\* The transcript n is, or was, or will be that of k.
Has(k, n) ==
    \/ n = recNative[k] \/ n \in story[k]
    \/ \E c \in {bindings[k], hands[k], asking[k]} \cap Child : native[c] = n
    \/ op \in AcquireOp /\ op.conv = k /\ (op.native = n \/ (at = "open" /\ native[target] = n))
    \/ \E i \in 1..Len(queue) : queue[i] \in AcquireOp /\ queue[i].conv = k /\ queue[i].native = n

\* A transcript belongs to one conversation, or to a child that has none yet.
Private ==
    /\ \A c \in Child : child[c] # "unborn" => native[c] \in Child
    /\ \A c \in {spare, temp} \cap Child : native[c] = c
    /\ \A n \in Child, k \in Conv : Has(k, n) =>
          /\ child[n] # "unborn"
          /\ n \notin {spare, temp}
          /\ \A j \in Conv : Has(j, n) => j = k

\* Before the first model query: the child of a turn stays bound, until the
\* turn itself or shutdown closes it.
Undisturbed ==
    used.asks = 0 =>
        /\ \A k \in Conv : asking[k] = NoChild
        /\ \A k \in Working :
              /\ bindings[k] \in {hands[k], NoChild}
              /\ bindings[k] = NoChild => closing \/ child[hands[k]] = "dead"
              /\ at = "close" /\ target = hands[k] => closing \/ TurnWaits(k, op)

\* Before the first model query: whoever works for a conversation goes on with
\* the transcript its record names.
OneStory ==
    used.asks = 0 =>
        \A k \in Conv :
            /\ story[k] \subseteq {recNative[k]} \ {NoChild}
            /\ recNative[k] # NoChild =>
                  /\ Bound(k) => native[bindings[k]] = recNative[k]
                  /\ k \in Working => native[hands[k]] = recNative[k]
                  /\ op \in AcquireOp /\ op.conv = k =>
                        op.native = recNative[k] /\ (at = "open" => native[target] = recNative[k])
                  /\ \A i \in 1..Len(queue) : queue[i] \in AcquireOp /\ queue[i].conv = k =>
                        queue[i].native = recNative[k]

\* Inductive with TypeOK and Inductive.
Serving == Requested /\ Removals /\ Fitting /\ Private /\ Undisturbed /\ OneStory

-----------------------------------------------------------------------------
(* What the documentation says and the code does not do.                   *)

\* operations.ts:327: "The warm child is released with it, or it would keep
\* writing a transcript that nothing points at any more".  Also when a turn is
\* started while the child is being released?
RemovedConversationHasNoChild == \A k \in Conv \ records : Session(k) = NoChild

\* DESIGN 4.3.4: "pool.max_children includes the optional spare and children
\* opening or closing".  Also the child of a command list?
EveryProcessCounts == Cardinality(Processes) <= Max

\* DESIGN 6.4: "Restore failure evicts the child and persists only the original
\* selection".  Also when the eviction fails?
NoTurnIsStranded == \A k \in Conv : turn[k] # "stranded"
=============================================================================
