---------------------------- MODULE Conversations ----------------------------
(***************************************************************************)
(* What two shells do to the conversations they share, through             *)
(* daemon/operations.ts: ask, plan, execute a plan, ask for a command with *)
(* a borrowed model, choose a model, remove a conversation.  Every await   *)
(* of an operation is a step boundary; a call of the store or of the pool  *)
(* is one step (RecordStore and AgentPool model what it does inside).      *)
(***************************************************************************)
EXTENDS Integers, FiniteSets

CONSTANTS Shells, Roots, MaxConversations, MaxOperations, MaxCrashes

VARIABLES
  policy,     \* config.workspace.cwdPolicy
  index,      \* the stored records, a function on the ids that exist
  warm,       \* per id the model its child uses, NoModel without a child
  running,    \* per id the shell whose turn the TurnManager holds, or NoShell
  op,         \* per shell the operation it waits for
  plan,       \* history: the root of the completed plan nobody executed yet
  chosen,     \* history: the model the user chose last
  finished,   \* history: completed turns whose end a client was told of
  spent,      \* history: what the turns of a conversation cost together
  made, begun, crashes        \* counters, bounded by the constants

convVars == <<policy, index, warm, running, op, plan, chosen, finished, spent,
              made, begun, crashes>>

Numbers     == 1 .. MaxConversations
Models  == {"default", "other"}
Suggest == "cheap"                  \* config.commands.suggest.model
NoModel == "none"
NoShell == "nobody"
NoRoot  == "nowhere"
Turns   == {"ask", "plan", "go", "suggest"}

Idle == [pc |-> "idle", kind |-> "none", conv |-> 0, cwd |-> NoRoot,
         root |-> NoRoot, back |-> NoModel, out |-> "none"]

\* newRecord: no persona, no plan, the backend's own model.
Fresh(root) == [root |-> root, persona |-> "none", ready |-> FALSE,
                model |-> "default", turns |-> 0, cost |-> 0]

ConvInit ==
  /\ policy \in {"follow", "split", "stay"}
  /\ \E planned \in BOOLEAN : LET r == CHOOSE r \in Roots : TRUE IN
       /\ index = [c \in {1} |-> IF planned
                      THEN [Fresh(r) EXCEPT !.persona = "plan", !.ready = TRUE] ELSE Fresh(r)]
       /\ plan = [c \in Numbers |-> IF planned /\ c = 1 THEN r ELSE NoRoot]
  /\ warm = [c \in Numbers |-> NoModel]
  /\ running = [c \in Numbers |-> NoShell]
  /\ op = [s \in Shells |-> Idle]
  /\ chosen = [c \in Numbers |-> "default"]
  /\ finished = [c \in Numbers |-> 0]
  /\ spent = [c \in Numbers |-> 0]
  /\ made = 1 /\ begun = 0 /\ crashes = 0

history == <<plan, chosen, finished, spent>>
At(s, pc) == op[s].pc = pc
Conv(s)   == op[s].conv
Goes(s)   == op[s].kind = "go"
Stored(c) == c \in DOMAIN index

\* store.update and store.save; update refuses a record that is gone.
Put(c, r) == index' = [x \in DOMAIN index \union {c} |-> IF x = c THEN r ELSE index[x]]
To(s, pc) == op' = [op EXCEPT ![s].pc = pc]

-----------------------------------------------------------------------------
(* Starting a turn: #startTurn. *)

\* #resolveConversation: the record that was asked for, or a new one.
Ask(s) == \E kind \in Turns, cwd \in Roots, c \in Numbers :
  /\ At(s, "idle") /\ begun < MaxOperations
  /\ begun' = begun + 1
  /\ \/ /\ Stored(c)
        /\ op' = [op EXCEPT ![s] = [Idle EXCEPT !.pc = "route", !.kind = kind,
                     !.conv = c, !.cwd = cwd, !.root = index[c].root]]
        /\ UNCHANGED <<index, made>>
     \/ /\ kind # "go" /\ c = made + 1
        /\ Put(c, Fresh(cwd)) /\ made' = c
        /\ op' = [op EXCEPT ![s] = [Idle EXCEPT !.pc = "route", !.kind = kind,
                     !.conv = c, !.cwd = cwd, !.root = cwd]]
  /\ UNCHANGED <<policy, warm, running, history, crashes>>

\* The workspace of :go and #applyCwdPolicy.  What is found is a snapshot.
Route(s) ==
  /\ At(s, "route")
  /\ LET here == op[s].root = op[s].cwd
         there == {c \in DOMAIN index : index[c].root = op[s].cwd} IN
     \/ /\ Goes(s) /\ ~here /\ op' = [op EXCEPT ![s] = Idle]
        /\ UNCHANGED <<index, made>>
     \/ /\ here \/ (policy = "stay" /\ ~Goes(s))
        /\ To(s, "claim") /\ UNCHANGED <<index, made>>
     \/ /\ ~Goes(s) /\ ~here /\ policy = "follow"
        /\ op' = [op EXCEPT ![s].pc = "claim", ![s].root = op[s].cwd]
        /\ UNCHANGED <<index, made>>
     \/ /\ ~Goes(s) /\ ~here /\ policy = "split"
        /\ \/ \E c \in there :
                /\ op' = [op EXCEPT ![s].pc = "claim", ![s].conv = c, ![s].root = op[s].cwd]
                /\ UNCHANGED <<index, made>>
           \/ /\ there = {} /\ made < MaxConversations
              /\ Put(made + 1, Fresh(op[s].cwd)) /\ made' = made + 1
              /\ op' = [op EXCEPT ![s].pc = "claim", ![s].conv = made + 1, ![s].root = op[s].cwd]
  /\ UNCHANGED <<policy, warm, running, history, begun, crashes>>

\* turns.start refuses a busy conversation and claims a free one.
Claim(s) ==
  /\ At(s, "claim")
  /\ IF running[Conv(s)] = NoShell
       THEN running' = [running EXCEPT ![Conv(s)] = s] /\ To(s, "check")
       ELSE op' = [op EXCEPT ![s] = Idle] /\ UNCHANGED running
  /\ UNCHANGED <<policy, index, warm, history, made, begun, crashes>>

\* The catch of #startTurn.
Fails(s) ==
  /\ running' = [running EXCEPT ![Conv(s)] = NoShell]
  /\ op' = [op EXCEPT ![s] = Idle]

\* What a :go wants of the record, read again after the claim.
MayGo(s, r) == r.persona = "plan" /\ r.ready /\ r.root = op[s].root

Check(s) ==
  /\ At(s, "check")
  /\ IF Stored(Conv(s)) /\ (Goes(s) => MayGo(s, index[Conv(s)]))
       THEN To(s, "consume") /\ UNCHANGED running
       ELSE Fails(s)
  /\ UNCHANGED <<policy, index, warm, history, made, begun, crashes>>

\* Mutant of Patched: the plan is used up by the outcome alone.
PatchedLate(s, r) ==
  [r EXCEPT !.root = IF policy = "follow" /\ ~Goes(s) THEN op[s].root ELSE @]

\* The record with the startup patch: the plan is used up, and under follow the
\* conversation moves to the caller's workspace.
Patched(s, r) ==
  [r EXCEPT !.ready = FALSE,
            !.root = IF policy = "follow" /\ ~Goes(s) THEN op[s].root ELSE @]

Consume(s) ==
  /\ At(s, "consume")
  /\ \/ /\ Stored(Conv(s))
        /\ Put(Conv(s), Patched(s, index[Conv(s)]))
        /\ op' = [op EXCEPT ![s].pc = "acquire", ![s].root = Patched(s, index[Conv(s)]).root]
        /\ UNCHANGED running
     \/ ~Stored(Conv(s)) /\ Fails(s) /\ UNCHANGED index
  /\ UNCHANGED <<policy, warm, history, made, begun, crashes>>

PersonaOf(s, kept) == CASE op[s].kind = "plan" -> "plan"
                        [] op[s].kind = "go" -> "none"
                        [] OTHER -> kept

\* pool.acquire with the record's model, and the persona that is kept.
Acquire(s) ==
  /\ At(s, "acquire")
  /\ \/ /\ Stored(Conv(s))
        /\ warm' = [warm EXCEPT ![Conv(s)] = IF @ = NoModel THEN index[Conv(s)].model ELSE @]
        /\ Put(Conv(s), [index[Conv(s)] EXCEPT !.persona = PersonaOf(s, @)])
        /\ To(s, IF op[s].kind = "suggest" THEN "borrow" ELSE "prompt")
        /\ UNCHANGED running
     \/ Fails(s) /\ UNCHANGED <<index, warm>>
  /\ UNCHANGED <<policy, history, made, begun, crashes>>

-----------------------------------------------------------------------------
(* Running it: #pump and #recordOutcome. *)

\* The model the child has is remembered, then the configured one is set.
Borrow(s) ==
  /\ At(s, "borrow") /\ warm[Conv(s)] # NoModel
  /\ op' = [op EXCEPT ![s].pc = "lend", ![s].back = warm[Conv(s)]]
  /\ UNCHANGED <<policy, index, warm, running, history, made, begun, crashes>>

Lend(s) ==
  /\ At(s, "lend") /\ warm[Conv(s)] # NoModel
  /\ warm' = [warm EXCEPT ![Conv(s)] = Suggest] /\ To(s, "prompt")
  /\ UNCHANGED <<policy, index, running, history, made, begun, crashes>>

\* The prompt goes out; a :go has used the plan from here on.
Prompt(s) ==
  /\ At(s, "prompt") /\ To(s, "run")
  /\ plan' = [plan EXCEPT ![Conv(s)] = NoRoot]
  /\ UNCHANGED <<policy, index, warm, running, chosen, finished, spent, made, begun, crashes>>

\* The turn is over in one of three ways; a child that died is not warm.
Settles(s) == \E out \in {"stop", "aborted", "error"}, dies \in BOOLEAN :
  /\ At(s, "run") /\ (dies => out = "error")
  /\ op' = [op EXCEPT ![s].pc = IF op[s].back = NoModel THEN "record" ELSE "restore",
                      ![s].out = out]
  /\ warm' = IF dies THEN [warm EXCEPT ![Conv(s)] = NoModel] ELSE warm
  /\ spent' = IF out = "stop" THEN [spent EXCEPT ![Conv(s)] = @ + 1] ELSE spent
  /\ UNCHANGED <<policy, index, running, plan, chosen, finished, made, begun, crashes>>

\* Mutant of LetGo: a child that could not be put back stays warm.
LetGoNever(s) == warm

\* The finally of #pump: a child whose model cannot be put back is let go.
Restored(s) ==
  [warm EXCEPT ![Conv(s)] = IF @ = NoModel THEN NoModel ELSE op[s].back]
LetGo(s) == [warm EXCEPT ![Conv(s)] = NoModel]

Restore(s) ==
  /\ At(s, "restore")
  /\ \/ /\ warm' = Restored(s) /\ To(s, "record")
     \/ /\ warm' = LetGo(s)
        /\ op' = [op EXCEPT ![s].pc = "record",
                            ![s].out = IF @ = "aborted" THEN @ ELSE "error"]
  /\ UNCHANGED <<policy, index, running, history, made, begun, crashes>>

\* The record the outcome leaves: the counters, the plan, the model that was on.
Outcome(s, r) ==
  LET stop == op[s].out = "stop"
      on   == IF op[s].back # NoModel THEN op[s].back ELSE warm[Conv(s)] IN
  [r EXCEPT !.turns = IF stop THEN @ + 1 ELSE @,
            !.cost  = IF warm[Conv(s)] = NoModel THEN @ ELSE @ + spent[Conv(s)],
            !.ready = stop /\ op[s].kind # "suggest" /\ r.persona = "plan",
            !.model = IF on = NoModel THEN @ ELSE on]

\* What the client will be told when the record could not be written.
Told(out) == "error"

Record(s) ==
  /\ At(s, "record")
  /\ \/ /\ Stored(Conv(s))
        /\ LET r == Outcome(s, index[Conv(s)]) IN
           /\ Put(Conv(s), r)
           /\ plan' = IF r.ready THEN [plan EXCEPT ![Conv(s)] = r.root] ELSE plan
        /\ To(s, "end")
     \/ /\ Stored(Conv(s))
        /\ op' = [op EXCEPT ![s].pc = "end", ![s].out = Told(op[s].out)]
        /\ UNCHANGED <<index, plan>>
     \/ ~Stored(Conv(s)) /\ To(s, "end") /\ UNCHANGED <<index, plan>>
  /\ UNCHANGED <<policy, warm, running, chosen, finished, spent, made, begun, crashes>>

End(s) ==
  /\ At(s, "end")
  /\ finished' = IF op[s].out = "stop" THEN [finished EXCEPT ![Conv(s)] = @ + 1] ELSE finished
  /\ Fails(s)
  /\ UNCHANGED <<policy, index, warm, plan, chosen, spent, made, begun, crashes>>

-----------------------------------------------------------------------------
(* The other operations. *)

\* A conversation a turn runs on is neither removed nor given a model.
Free(c) == running[c] = NoShell

\* convRemove and modelSet find the record and no turn.
Other(s) == \E kind \in {"remove"} \union Models, c \in DOMAIN index :
  /\ At(s, "idle") /\ begun < MaxOperations /\ Free(c)
  /\ begun' = begun + 1
  /\ op' = [op EXCEPT ![s] = [Idle EXCEPT !.conv = c, !.kind = kind,
                                !.pc = IF kind = "remove" THEN "release" ELSE "choose"]]
  /\ UNCHANGED <<policy, index, warm, running, history, made, crashes>>

\* pool.release, then store.remove.
Release(s) ==
  /\ At(s, "release") /\ To(s, "forget")
  /\ warm' = [warm EXCEPT ![Conv(s)] = NoModel]
  /\ UNCHANGED <<policy, index, running, history, made, begun, crashes>>
Forget(s) ==
  /\ At(s, "forget") /\ op' = [op EXCEPT ![s] = Idle]
  /\ index' = [c \in DOMAIN index \ {Conv(s)} |-> index[c]]
  /\ UNCHANGED <<policy, warm, running, history, made, begun, crashes>>

\* #modelSession and setModel, then store.update.
Choose(s) ==
  /\ At(s, "choose")
  /\ warm' = [warm EXCEPT ![Conv(s)] = op[s].kind] /\ To(s, "keep")
  /\ UNCHANGED <<policy, index, running, history, made, begun, crashes>>
Keep(s) ==
  /\ At(s, "keep") /\ op' = [op EXCEPT ![s] = Idle]
  /\ IF Stored(Conv(s))
       THEN /\ Put(Conv(s), [index[Conv(s)] EXCEPT !.model = op[s].kind])
            /\ chosen' = [chosen EXCEPT ![Conv(s)] = op[s].kind]
       ELSE UNCHANGED <<index, chosen>>
  /\ UNCHANGED <<policy, warm, running, plan, finished, spent, made, begun, crashes>>

\* The pool's idle timer ends a child nobody uses.
Evict == \E c \in Numbers :
  /\ warm[c] # NoModel /\ running[c] = NoShell
  /\ \A s \in Shells : Conv(s) = c => At(s, "idle")
  /\ warm' = [warm EXCEPT ![c] = NoModel]
  /\ UNCHANGED <<policy, index, running, op, history, made, begun, crashes>>

\* The daemon dies and a new one finds the records.
Crash ==
  /\ crashes < MaxCrashes /\ crashes' = crashes + 1
  /\ \E s \in Shells : ~At(s, "idle")
  /\ op' = [s \in Shells |-> Idle]
  /\ warm' = [c \in Numbers |-> NoModel] /\ running' = [c \in Numbers |-> NoShell]
  /\ UNCHANGED <<policy, index, history, made, begun>>

-----------------------------------------------------------------------------
\* Nobody removes this conversation or chooses its model right now.
Alone(s, c) == \A t \in Shells \ {s} :
  Conv(t) = c => op[t].kind \notin {"remove"} \union Models

Steps(s) == Ask(s) \/ Route(s) \/ Check(s) \/ Consume(s) \/ Acquire(s) \/ Borrow(s)
              \/ Lend(s) \/ Prompt(s) \/ Settles(s) \/ Restore(s) \/ Record(s) \/ End(s)
              \/ Release(s) \/ Forget(s) \/ Choose(s) \/ Keep(s)

\* The removal and the choice of a model look for a turn before they wait; a turn
\* that starts, or a second such call, while they wait is LooseConvNext's.
ConvNext ==
  \/ Evict \/ Crash
  \/ \E s \in Shells :
       \/ Steps(s)
       \/ Alone(s, Conv(s)) /\ Claim(s)
       \/ Other(s) /\ Alone(s, op'[s].conv)

LooseConvNext ==
  \/ Evict \/ Crash
  \/ \E s \in Shells : Steps(s) \/ Claim(s) \/ Other(s)

ConvSpec == ConvInit /\ [][ConvNext]_convVars

-----------------------------------------------------------------------------
(* Properties *)

\* A completed plan is executed at most once, in the workspace it was made for,
\* whichever shells ask for it and wherever the daemon dies.
ExecutesItsPlan ==
  \A s \in Shells : At(s, "prompt") /\ op'[s].pc = "run" /\ Goes(s) =>
     plan[Conv(s)] = op[s].cwd
PlanRunsOnce == [][ExecutesItsPlan]_convVars

\* A turn runs where the policy says, though another shell moved the conversation.
RunsWhereAsked ==
  \A s \in Shells : op[s].pc \in {"prompt", "run"} /\ policy # "stay" /\ Stored(Conv(s)) =>
    index[Conv(s)].root = op[s].cwd

Busy(c) == \E s \in Shells : Conv(s) = c

\* A command suggestion leaves the model as the user chose it, in the record and
\* in the child, also when it was aborted or could not be undone.
ModelIsTheChosen ==
  \A c \in DOMAIN index : ~Busy(c) =>
    /\ index[c].model = chosen[c]
    /\ warm[c] \in {NoModel, chosen[c]}

\* A removed conversation has no child that goes on writing its transcript.
RemovedIsGone == \A c \in Numbers \ DOMAIN index : warm[c] = NoModel

\* A turn a client saw complete is counted in the stored record.
SeenIsStored == \A c \in DOMAIN index : finished[c] <= index[c].turns

\* What a conversation is said to have cost is what its turns cost.
CostIsSpent == \A c \in DOMAIN index : index[c].cost <= spent[c]

-----------------------------------------------------------------------------
(* Why they hold. *)

InTurn  == {"check", "consume", "acquire", "borrow", "lend", "prompt", "run", "restore", "record", "end"}
InOther == {"release", "forget", "choose", "keep"}
Operations == [pc : {"idle", "route", "claim"} \union InTurn \union InOther,
               kind : Turns \union {"none", "remove"} \union Models, conv : Numbers \union {0},
               cwd : Roots \union {NoRoot}, root : Roots \union {NoRoot},
               back : Models \union {Suggest, NoModel}, out : {"none", "stop", "aborted", "error"}]
Records == [root : Roots, persona : {"none", "plan"}, ready : BOOLEAN,
            model : Models \union {Suggest}, turns : Nat, cost : Nat]

\* Every value keeps its type.
ConvTypes ==
  /\ policy \in {"follow", "split", "stay"}
  /\ made \in Numbers /\ begun \in Nat /\ crashes \in Nat
  /\ DOMAIN index \subseteq 1 .. made
  /\ \A c \in DOMAIN index : index[c] \in Records
  /\ warm \in [Numbers -> Models \union {Suggest, NoModel}]
  /\ running \in [Numbers -> Shells \union {NoShell}]
  /\ op \in [Shells -> Operations]
  /\ plan \in [Numbers -> Roots \union {NoRoot}]
  /\ chosen \in [Numbers -> Models]
  /\ finished \in [Numbers -> Nat] /\ spent \in [Numbers -> Nat]

\* What a shell waits for is of its kind, and about a conversation there was.
Kinds ==
  \A s \in Shells :
    /\ At(s, "idle") => Conv(s) = 0
    /\ ~At(s, "idle") => Conv(s) \in 1 .. made
    /\ op[s].pc \in InOther => op[s].kind \in {"remove"} \union Models
    /\ op[s].pc \in {"choose", "keep"} => op[s].kind \in Models
    /\ op[s].pc \in {"route", "claim"} \union InTurn =>
         op[s].kind \in Turns /\ op[s].cwd \in Roots /\ op[s].root \in Roots
    /\ op[s].pc \in {"borrow", "lend"} => op[s].kind = "suggest"
    /\ op[s].back # NoModel => op[s].pc \in InTurn /\ op[s].kind = "suggest"

\* The TurnManager names the shells that run a turn, and whose turn it is.
Claims ==
  /\ \A s \in Shells : op[s].pc \in InTurn => running[Conv(s)] = s
  /\ \A c \in Numbers : running[c] # NoShell => op[running[c]].pc \in InTurn /\ Conv(running[c]) = c

\* A removal or a choice has the conversation to itself.
Lone ==
  \A s \in Shells : op[s].pc \in InOther =>
    /\ running[Conv(s)] = NoShell /\ Stored(Conv(s))
    /\ \A t \in Shells : op[t].pc \in InOther /\ Conv(t) = Conv(s) => t = s

\* Hence a turn that was checked keeps its record.
Kept == \A s \in Shells : op[s].pc \in InTurn \ {"check"} => Stored(Conv(s))

\* A conversation nobody has made yet has no history.
Unmade ==
  \A c \in Numbers : c > made => warm[c] = NoModel /\ chosen[c] = "default" /\ finished[c] = 0

\* A model is borrowed by a turn that remembers the user's, or just being chosen.
Borrowed(s, c) ==
  /\ Conv(s) = c
  /\ \/ At(s, "keep")
     \/ op[s].pc \in {"prompt", "run", "restore"} /\ op[s].back # NoModel
ModelsAreKept ==
  /\ \A c \in DOMAIN index : index[c].model = chosen[c]
  /\ \A c \in Numbers : warm[c] \in {NoModel, chosen[c]} \/ \E s \in Shells : Borrowed(s, c)
  /\ \A s \in Shells : /\ op[s].back # NoModel => op[s].back = chosen[Conv(s)]
                       /\ At(s, "lend") => op[s].back # NoModel
                       /\ op[s].pc \in {"choose", "keep"} => op[s].back = NoModel
                       /\ At(s, "keep") => warm[Conv(s)] = op[s].kind

\* No child is left when its record is forgotten.
Childless ==
  /\ RemovedIsGone
  /\ \A s \in Shells : At(s, "forget") => warm[Conv(s)] = NoModel

\* The turn whose end a client is about to hear of is in the record already.
Counted ==
  /\ SeenIsStored
  /\ \A s \in Shells : At(s, "end") /\ op[s].out = "stop" =>
       finished[Conv(s)] + 1 <= index[Conv(s)].turns

\* Where a turn is, by what it has done of its way there.
Placed ==
  \A s \in Shells :
    /\ op[s].pc \in {"claim"} \union InTurn /\ (policy # "stay" \/ Goes(s)) => op[s].root = op[s].cwd
    /\ op[s].pc \in {"route", "claim"} \union InTurn /\ policy = "split" /\ Stored(Conv(s)) =>
         index[Conv(s)].root = op[s].root
    /\ At(s, "consume") /\ Goes(s) => index[Conv(s)].root = op[s].root
    /\ op[s].pc \in InTurn \ {"check", "consume"} => index[Conv(s)].root = op[s].root

\* A plan is ready in the record until a turn begins, and with that turn if it is a go.
Planned ==
  /\ \A c \in DOMAIN index : index[c].ready => plan[c] = index[c].root
  /\ \A s \in Shells :
       /\ op[s].pc \in InTurn \ {"check", "consume", "end"} => ~index[Conv(s)].ready
       /\ op[s].pc \in {"consume", "acquire", "prompt"} /\ Goes(s) => plan[Conv(s)] = op[s].root

\* Inductive with ConvTypes.
ConvInductive ==
  Kinds /\ Claims /\ Lone /\ Kept /\ Unmade /\ ModelsAreKept /\ Childless /\ Counted /\ Placed /\ Planned
=============================================================================
