---------------------------- MODULE ServicesProofs ----------------------------
(* Proofs about the parts of MCServices.                                       *)
EXTENDS MCServices, SequenceTheorems, TLAPS

-----------------------------------------------------------------------------
(* Conversations: what each step of an operation does.                      *)

ConvStep(s) == \/ Conv!Steps(s)
               \/ Conv!Alone(s, Conv!Conv(s)) /\ Conv!Claim(s)
               \/ Conv!Other(s) /\ Conv!Alone(s, op'[s].conv)

Pcs == {"idle", "route", "claim"} \union Conv!InTurn \union Conv!InOther
AllKinds == Conv!Turns \union {"none", "remove"} \union Conv!Models
Convs == Conv!Numbers \union {0}
Places == Roots \union {Conv!NoRoot}
Backs == Conv!Models \union {Conv!Suggest, Conv!NoModel}
Outs == {"none", "stop", "aborted", "error"}
Personas == {"none", "plan"}
Named == Conv!Models \union {Conv!Suggest}
Records == [root : Roots, persona : Personas, ready : BOOLEAN, model : Named, turns : Nat, cost : Nat]
Operations == [pc : Pcs, kind : AllKinds, conv : Convs, cwd : Places, root : Places, back : Backs, out : Outs]

\* The types, of all but the policy.
ConvTyped ==
  /\ made \in Conv!Numbers /\ begun \in Nat /\ crashes \in Nat
  /\ DOMAIN index \subseteq 1 .. made
  /\ \A c \in DOMAIN index : index[c] \in Records
  /\ warm \in [Conv!Numbers -> Backs]
  /\ holder \in [Conv!Numbers -> Shells \union {Conv!NoShell}]
  /\ op \in [Shells -> Operations]
  /\ plan \in [Conv!Numbers -> Places]
  /\ chosen \in [Conv!Numbers -> Conv!Models]
  /\ finished \in [Conv!Numbers -> Nat] /\ spent \in [Conv!Numbers -> Nat]

LEMMA TypesAre == Conv!ConvTypes <=> policy \in {"follow", "split", "stay"} /\ ConvTyped
BY DEF Conv!ConvTypes, ConvTyped, Conv!Operations, Conv!Records, Records, Operations, Pcs, AllKinds, Convs, Places,
       Backs, Outs, Personas, Named

LEMMA Names ==
  /\ "idle" \in Pcs /\ "route" \in Pcs /\ "claim" \in Pcs
  /\ "check" \in Pcs /\ "consume" \in Pcs /\ "acquire" \in Pcs /\ "borrow" \in Pcs /\ "lend" \in Pcs
  /\ "prompt" \in Pcs /\ "run" \in Pcs /\ "restore" \in Pcs /\ "record" \in Pcs /\ "end" \in Pcs
  /\ "release" \in Pcs /\ "forget" \in Pcs /\ "choose" \in Pcs /\ "keep" \in Pcs
BY DEF Pcs, Conv!InTurn, Conv!InOther

LEMMA Sets ==
  /\ Conv!Turns \subseteq AllKinds /\ Conv!Models \subseteq AllKinds /\ "none" \in AllKinds /\ "remove" \in AllKinds
  /\ Roots \subseteq Places /\ Conv!NoRoot \in Places
  /\ Conv!Numbers \subseteq Convs /\ 0 \in Convs
  /\ Conv!NoModel \in Backs /\ Conv!Models \subseteq Backs /\ Conv!Suggest \in Backs /\ Named \subseteq Backs
  /\ \A m \in Backs : m # Conv!NoModel => m \in Named
  /\ Conv!Models \subseteq Named
  /\ "none" \in Outs /\ "stop" \in Outs /\ "aborted" \in Outs /\ "error" \in Outs
  /\ "none" \in Personas /\ "plan" \in Personas
  /\ "default" \in Conv!Models
BY DEF AllKinds, Places, Convs, Backs, Outs, Personas, Named, Conv!Models

\* Shell s goes on to this operation, the others stay where they are.
Now(s, p, k, c, w, r, b, o) ==
  /\ op' \in [Shells -> Operations]
  /\ op'[s].pc = p /\ op'[s].kind = k /\ op'[s].conv = c /\ op'[s].cwd = w /\ op'[s].root = r
  /\ op'[s].back = b /\ op'[s].out = o
  /\ \A t \in Shells : t # s => op'[t] = op[t]
\* It is somewhere else in the same operation.
On(s, p) == Now(s, p, op[s].kind, op[s].conv, op[s].cwd, op[s].root, op[s].back, op[s].out)
Idles(s) == Now(s, "idle", "none", 0, Conv!NoRoot, Conv!NoRoot, Conv!NoModel, "none")

LEMMA OpFields ==
  ASSUME ConvTyped, NEW s \in Shells
  PROVE  /\ op[s] \in Operations
         /\ op[s].pc \in Pcs /\ op[s].kind \in AllKinds /\ op[s].conv \in Convs /\ op[s].cwd \in Places
         /\ op[s].root \in Places /\ op[s].back \in Backs /\ op[s].out \in Outs
BY DEF ConvTyped, Operations

LEMMA NowIs ==
  ASSUME ConvTyped, NEW s \in Shells, NEW p \in Pcs, NEW k \in AllKinds, NEW c \in Convs, NEW w \in Places,
         NEW r \in Places, NEW b \in Backs, NEW o \in Outs,
         op' = [op EXCEPT ![s] = [pc |-> p, kind |-> k, conv |-> c, cwd |-> w, root |-> r, back |-> b, out |-> o]]
  PROVE  Now(s, p, k, c, w, r, b, o)
<1>1. [pc |-> p, kind |-> k, conv |-> c, cwd |-> w, root |-> r, back |-> b, out |-> o] \in Operations BY DEF Operations
<1>2. op' \in [Shells -> Operations] BY <1>1 DEF ConvTyped
<1> QED BY <1>1, <1>2 DEF ConvTyped, Now

LEMMA ToIs ==
  ASSUME ConvTyped, NEW s \in Shells, NEW p \in Pcs, Conv!To(s, p)
  PROVE  On(s, p)
<1>1. op[s] \in Operations BY OpFields
<1>2. [op[s] EXCEPT !.pc = p] \in Operations BY <1>1 DEF Operations
<1>3. op' \in [Shells -> Operations] BY <1>2 DEF ConvTyped, Conv!To
<1> QED BY <1>1, <1>3 DEF ConvTyped, On, Now, Operations, Conv!To

LEMMA ToRoot ==
  ASSUME ConvTyped, NEW s \in Shells, NEW p \in Pcs, NEW r \in Places,
         op' = [op EXCEPT ![s].pc = p, ![s].root = r]
  PROVE  Now(s, p, op[s].kind, op[s].conv, op[s].cwd, r, op[s].back, op[s].out)
<1>1. op[s] \in Operations BY OpFields
<1>a. [op[s] EXCEPT !.pc = p] \in Operations BY <1>1 DEF Operations
<1>b. [[op[s] EXCEPT !.pc = p] EXCEPT !.root = r] \in Operations BY <1>a DEF Operations
<1>2. op'[s] = [op[s] EXCEPT !.pc = p, !.root = r] BY DEF ConvTyped
<1>3. op'[s] \in Operations BY <1>b, <1>2
<1>4. op' \in [Shells -> Operations] BY <1>3 DEF ConvTyped
<1> QED BY <1>1, <1>2, <1>4 DEF ConvTyped, Now, Operations

LEMMA ToConv ==
  ASSUME ConvTyped, NEW s \in Shells, NEW p \in Pcs, NEW c \in Convs, NEW r \in Places,
         op' = [op EXCEPT ![s].pc = p, ![s].conv = c, ![s].root = r]
  PROVE  Now(s, p, op[s].kind, c, op[s].cwd, r, op[s].back, op[s].out)
<1>1. op[s] \in Operations BY OpFields
<1>a. [op[s] EXCEPT !.pc = p] \in Operations BY <1>1 DEF Operations
<1>b. [[op[s] EXCEPT !.pc = p] EXCEPT !.conv = c] \in Operations BY <1>a DEF Operations
<1>c. [[[op[s] EXCEPT !.pc = p] EXCEPT !.conv = c] EXCEPT !.root = r] \in Operations BY <1>b DEF Operations
<1>2. op'[s] = [op[s] EXCEPT !.pc = p, !.conv = c, !.root = r] BY DEF ConvTyped
<1>3. op'[s] \in Operations BY <1>c, <1>2
<1>4. op' \in [Shells -> Operations] BY <1>3 DEF ConvTyped
<1> QED BY <1>1, <1>2, <1>4 DEF ConvTyped, Now, Operations

LEMMA ToBack ==
  ASSUME ConvTyped, NEW s \in Shells, NEW p \in Pcs, NEW b \in Backs,
         op' = [op EXCEPT ![s].pc = p, ![s].back = b]
  PROVE  Now(s, p, op[s].kind, op[s].conv, op[s].cwd, op[s].root, b, op[s].out)
<1>1. op[s] \in Operations BY OpFields
<1>a. [op[s] EXCEPT !.pc = p] \in Operations BY <1>1 DEF Operations
<1>b. [[op[s] EXCEPT !.pc = p] EXCEPT !.back = b] \in Operations BY <1>a DEF Operations
<1>2. op'[s] = [op[s] EXCEPT !.pc = p, !.back = b] BY DEF ConvTyped
<1>3. op'[s] \in Operations BY <1>b, <1>2
<1>4. op' \in [Shells -> Operations] BY <1>3 DEF ConvTyped
<1> QED BY <1>1, <1>2, <1>4 DEF ConvTyped, Now, Operations

LEMMA ToOut ==
  ASSUME ConvTyped, NEW s \in Shells, NEW p \in Pcs, NEW o \in Outs,
         op' = [op EXCEPT ![s].pc = p, ![s].out = o]
  PROVE  Now(s, p, op[s].kind, op[s].conv, op[s].cwd, op[s].root, op[s].back, o)
<1>1. op[s] \in Operations BY OpFields
<1>a. [op[s] EXCEPT !.pc = p] \in Operations BY <1>1 DEF Operations
<1>b. [[op[s] EXCEPT !.pc = p] EXCEPT !.out = o] \in Operations BY <1>a DEF Operations
<1>2. op'[s] = [op[s] EXCEPT !.pc = p, !.out = o] BY DEF ConvTyped
<1>3. op'[s] \in Operations BY <1>b, <1>2
<1>4. op' \in [Shells -> Operations] BY <1>3 DEF ConvTyped
<1> QED BY <1>1, <1>2, <1>4 DEF ConvTyped, Now, Operations

LEMMA IdleIs ==
  ASSUME ConvTyped, NEW s \in Shells, op' = [op EXCEPT ![s] = Conv!Idle]
  PROVE  Idles(s)
BY NowIs, Names, Sets DEF Idles, Conv!Idle

\* The record of c is written: its workspace, plan, model and turns are these.
Writes(c, r, y, m, n) ==
  /\ c \in DOMAIN index /\ DOMAIN index' = DOMAIN index
  /\ index'[c] \in Records
  /\ index'[c].root = r /\ index'[c].ready = y /\ index'[c].model = m /\ index'[c].turns = n
  /\ \A d \in DOMAIN index : d # c => index'[d] = index[d]
Adds(r) ==
  /\ made + 1 \in Conv!Numbers /\ made' = made + 1
  /\ DOMAIN index' = DOMAIN index \union {made + 1}
  /\ index'[made + 1] \in Records
  /\ index'[made + 1].root = r /\ index'[made + 1].ready = FALSE
  /\ index'[made + 1].model = "default" /\ index'[made + 1].turns = 0
  /\ \A d \in DOMAIN index : index'[d] = index[d]

LEMMA RecordFields ==
  ASSUME NEW e \in Records
  PROVE  /\ e.root \in Roots /\ e.persona \in Personas /\ e.ready \in BOOLEAN /\ e.model \in Named
         /\ e.turns \in Nat /\ e.cost \in Nat
BY DEF Records

LEMMA PutIs ==
  ASSUME ConvTyped, NEW c \in DOMAIN index, NEW r \in Records, Conv!Put(c, r)
  PROVE  Writes(c, r.root, r.ready, r.model, r.turns)
BY DEF Conv!Put, Writes
LEMMA AddIs ==
  ASSUME ConvTyped, NEW r \in Roots, Conv!Put(made + 1, Conv!Fresh(r)), made + 1 \in Conv!Numbers, made' = made + 1
  PROVE  Adds(r)
<1>1. made + 1 \notin DOMAIN index BY ServicesAssumption DEF ConvTyped, Conv!Numbers
<1>2. Conv!Fresh(r) \in Records BY Sets DEF Conv!Fresh, Records
<1>3. /\ Conv!Fresh(r).root = r /\ Conv!Fresh(r).ready = FALSE
      /\ Conv!Fresh(r).model = "default" /\ Conv!Fresh(r).turns = 0
  BY DEF Conv!Fresh
<1> QED BY <1>1, <1>2, <1>3 DEF Conv!Put, Adds

\* A shell that waits for something waits for something about a conversation.
LEMMA About ==
  ASSUME ConvTyped, Conv!Kinds, NEW s \in Shells
  PROVE  /\ op[s].pc # "idle" => op[s].conv \in Conv!Numbers /\ op[s].conv \in 1..made
         /\ op[s].pc \in {"route", "claim", "consume"} => op[s].cwd \in Roots /\ op[s].root \in Roots
         /\ op[s].pc \in {"choose", "keep"} => op[s].kind \in Conv!Models
BY ServicesAssumption DEF ConvTyped, Conv!Kinds, Conv!At, Conv!Conv, Conv!Numbers, Conv!InTurn

-----------------------------------------------------------------------------
(* The steps of an operation, one by one.                                   *)

history == <<plan, chosen, finished, spent>>

AskDoes(s) ==
  /\ op[s].pc = "idle" /\ UNCHANGED <<warm, holder, history>>
  /\ \E kind \in Conv!Turns, cwd \in Roots, c \in Conv!Numbers :
       \/ /\ c \in DOMAIN index /\ Now(s, "route", kind, c, cwd, index[c].root, Conv!NoModel, "none")
          /\ index' = index /\ made' = made
       \/ /\ kind # "go" /\ c = made + 1 /\ Now(s, "route", kind, c, cwd, cwd, Conv!NoModel, "none")
          /\ Adds(cwd)
LEMMA Asks ==
  ASSUME ConvTyped, NEW s \in Shells, Conv!Ask(s)
  PROVE  AskDoes(s)
<1> USE DEF Conv!At, Conv!Stored, Conv!history, Conv!Conv
<1>0. PICK kind \in Conv!Turns, cwd \in Roots, c \in Conv!Numbers :
        \/ /\ c \in DOMAIN index
           /\ op' = [op EXCEPT ![s] = [Conv!Idle EXCEPT !.pc = "route", !.kind = kind, !.conv = c, !.cwd = cwd, !.root = index[c].root]]
           /\ UNCHANGED <<index, made>>
        \/ /\ kind # "go" /\ c = made + 1
           /\ Conv!Put(c, Conv!Fresh(cwd)) /\ made' = c
           /\ op' = [op EXCEPT ![s] = [Conv!Idle EXCEPT !.pc = "route", !.kind = kind, !.conv = c, !.cwd = cwd, !.root = cwd]]
  BY DEF Conv!Ask
<1>1. op[s].pc = "idle" /\ UNCHANGED <<warm, holder, history>> BY DEF Conv!Ask, history
<1>2. \A r \in Places :
        op' = [op EXCEPT ![s] = [Conv!Idle EXCEPT !.pc = "route", !.kind = kind, !.conv = c, !.cwd = cwd, !.root = r]]
          => Now(s, "route", kind, c, cwd, r, Conv!NoModel, "none")
  <2>1. SUFFICES ASSUME NEW r \in Places,
          op' = [op EXCEPT ![s] = [Conv!Idle EXCEPT !.pc = "route", !.kind = kind, !.conv = c, !.cwd = cwd, !.root = r]]
        PROVE  Now(s, "route", kind, c, cwd, r, Conv!NoModel, "none")
    OBVIOUS
  <2>2. Conv!Idle \in Operations BY Names, Sets DEF Conv!Idle, Operations
  <2>3. [Conv!Idle EXCEPT !.pc = "route"] \in Operations BY <2>2, Names DEF Operations
  <2>4. [[Conv!Idle EXCEPT !.pc = "route"] EXCEPT !.kind = kind] \in Operations BY <2>3, Sets DEF Operations
  <2>5. [[[Conv!Idle EXCEPT !.pc = "route"] EXCEPT !.kind = kind] EXCEPT !.conv = c] \in Operations
    BY <2>4, Sets DEF Operations
  <2>6. [[[[Conv!Idle EXCEPT !.pc = "route"] EXCEPT !.kind = kind] EXCEPT !.conv = c] EXCEPT !.cwd = cwd] \in Operations
    BY <2>5, Sets DEF Operations
  <2>7. [[[[[Conv!Idle EXCEPT !.pc = "route"] EXCEPT !.kind = kind] EXCEPT !.conv = c] EXCEPT !.cwd = cwd] EXCEPT !.root = r] \in Operations
    BY <2>6, Sets DEF Operations
  <2>8. op' \in [Shells -> Operations] BY <2>1, <2>7 DEF ConvTyped
  <2>9. op'[s] = [Conv!Idle EXCEPT !.pc = "route", !.kind = kind, !.conv = c, !.cwd = cwd, !.root = r] BY <2>1 DEF ConvTyped
  <2>10. Conv!Idle.back = Conv!NoModel /\ Conv!Idle.out = "none" BY DEF Conv!Idle
  <2>11. \A t \in Shells : t # s => op'[t] = op[t] BY <2>1 DEF ConvTyped
  <2> QED BY <2>2, <2>8, <2>9, <2>10, <2>11 DEF Now, Operations
<1>3. kind \in AllKinds /\ c \in Convs /\ cwd \in Places BY Sets
<1>4. CASE c \in DOMAIN index /\ op' = [op EXCEPT ![s] = [Conv!Idle EXCEPT !.pc = "route", !.kind = kind, !.conv = c, !.cwd = cwd, !.root = index[c].root]]
           /\ UNCHANGED <<index, made>>
  <2>1. index[c].root \in Places BY <1>4, RecordFields, Sets DEF ConvTyped
  <2>2. Now(s, "route", kind, c, cwd, index[c].root, Conv!NoModel, "none")
    BY <1>2, <1>4, <2>1
  <2> QED BY <1>1, <1>4, <2>2 DEF AskDoes
<1>5. CASE /\ kind # "go" /\ c = made + 1
           /\ Conv!Put(c, Conv!Fresh(cwd)) /\ made' = c
           /\ op' = [op EXCEPT ![s] = [Conv!Idle EXCEPT !.pc = "route", !.kind = kind, !.conv = c, !.cwd = cwd, !.root = cwd]]
  <2>1. Now(s, "route", kind, c, cwd, cwd, Conv!NoModel, "none")
    BY <1>2, <1>3, <1>5
  <2>2. Adds(cwd) BY <1>5, AddIs
  <2> QED BY <1>1, <1>5, <2>1, <2>2 DEF AskDoes
<1> QED BY <1>0, <1>4, <1>5

RouteDoes(s) ==
  /\ op[s].pc = "route" /\ UNCHANGED <<warm, holder, history>>
  /\ \/ Idles(s) /\ index' = index /\ made' = made
     \/ /\ On(s, "claim") /\ index' = index /\ made' = made
        /\ op[s].root = op[s].cwd \/ (policy = "stay" /\ op[s].kind # "go")
     \/ /\ policy = "follow" /\ op[s].kind # "go" /\ index' = index /\ made' = made
        /\ Now(s, "claim", op[s].kind, op[s].conv, op[s].cwd, op[s].cwd, op[s].back, op[s].out)
     \/ /\ policy = "split" /\ op[s].kind # "go" /\ index' = index /\ made' = made
        /\ \E c \in DOMAIN index : /\ index[c].root = op[s].cwd
                                   /\ Now(s, "claim", op[s].kind, c, op[s].cwd, op[s].cwd, op[s].back, op[s].out)
     \/ /\ policy = "split" /\ op[s].kind # "go" /\ Adds(op[s].cwd)
        /\ Now(s, "claim", op[s].kind, made + 1, op[s].cwd, op[s].cwd, op[s].back, op[s].out)
LEMMA Routes ==
  ASSUME ConvTyped, Conv!Kinds, NEW s \in Shells, Conv!Route(s)
  PROVE  RouteDoes(s)
<1> USE DEF Conv!At, Conv!Stored, Conv!history, Conv!Conv, Conv!Goes
<1>1. op[s].pc = "route" /\ UNCHANGED <<warm, holder, history>> BY DEF Conv!Route, history
<1>2. op[s].cwd \in Roots /\ op[s].cwd \in Places BY <1>1, About, Sets
<1>3. DOMAIN index \subseteq Convs /\ \A d \in Conv!Numbers : d \in Convs
  BY ServicesAssumption, Sets DEF ConvTyped, Conv!Numbers
<1>4. CASE op' = [op EXCEPT ![s] = Conv!Idle] /\ UNCHANGED <<index, made>>
  BY <1>1, <1>4, IdleIs DEF RouteDoes
<1>5. CASE /\ op[s].root = op[s].cwd \/ (policy = "stay" /\ op[s].kind # "go")
           /\ Conv!To(s, "claim") /\ UNCHANGED <<index, made>>
  BY <1>1, <1>5, ToIs, Names DEF RouteDoes
<1>6. CASE /\ op[s].kind # "go" /\ policy = "follow" /\ UNCHANGED <<index, made>>
           /\ op' = [op EXCEPT ![s].pc = "claim", ![s].root = op[s].cwd]
  BY <1>1, <1>2, <1>6, ToRoot, Names DEF RouteDoes
<1>7. ASSUME NEW c \in DOMAIN index, op[s].kind # "go", policy = "split", index[c].root = op[s].cwd, UNCHANGED <<index, made>>,
             op' = [op EXCEPT ![s].pc = "claim", ![s].conv = c, ![s].root = op[s].cwd]
      PROVE  RouteDoes(s)
  <2>1. Now(s, "claim", op[s].kind, c, op[s].cwd, op[s].cwd, op[s].back, op[s].out)
    BY <1>2, <1>3, <1>7, ToConv, Names
  <2> QED BY <1>1, <1>7, <2>1 DEF RouteDoes
<1>8. CASE /\ op[s].kind # "go" /\ policy = "split" /\ made < MaxConversations
           /\ Conv!Put(made + 1, Conv!Fresh(op[s].cwd)) /\ made' = made + 1
           /\ op' = [op EXCEPT ![s].pc = "claim", ![s].conv = made + 1, ![s].root = op[s].cwd]
  <2>1. made + 1 \in Conv!Numbers BY <1>8, ServicesAssumption DEF ConvTyped, Conv!Numbers
  <2>2. Now(s, "claim", op[s].kind, made + 1, op[s].cwd, op[s].cwd, op[s].back, op[s].out)
    BY <1>2, <1>3, <1>8, <2>1, ToConv, Names
  <2> QED BY <1>1, <1>2, <1>8, <2>1, <2>2, AddIs DEF RouteDoes
<1> QED BY <1>4, <1>5, <1>6, <1>7, <1>8 DEF Conv!Route

Quits(s) == holder' = [holder EXCEPT ![op[s].conv] = Conv!NoShell] /\ Idles(s)

ClaimDoes(s) ==
  /\ op[s].pc = "claim" /\ UNCHANGED <<index, made, warm, history>>
  /\ \/ /\ holder[op[s].conv] = Conv!NoShell /\ holder' = [holder EXCEPT ![op[s].conv] = s]
        /\ On(s, "check")
     \/ holder' = holder /\ Idles(s)
LEMMA ClaimsIt ==
  ASSUME ConvTyped, NEW s \in Shells, Conv!Claim(s)
  PROVE  ClaimDoes(s)
BY ToIs, IdleIs, Names DEF Conv!Claim, Conv!At, Conv!Conv, Conv!history, history, ClaimDoes

CheckDoes(s) ==
  /\ op[s].pc = "check" /\ UNCHANGED <<index, made, warm, history>>
  /\ \/ /\ op[s].conv \in DOMAIN index /\ holder' = holder /\ On(s, "consume")
        /\ op[s].kind = "go" => index[op[s].conv].ready /\ index[op[s].conv].root = op[s].root
     \/ Quits(s)
LEMMA Checks ==
  ASSUME ConvTyped, NEW s \in Shells, Conv!Check(s)
  PROVE  CheckDoes(s)
BY ToIs, IdleIs, Names
   DEF Conv!Check, Conv!At, Conv!Conv, Conv!Goes, Conv!Stored, Conv!MayGo, Conv!Fails, Conv!history, history, CheckDoes, Quits

ConsumeDoes(s) ==
  /\ op[s].pc = "consume" /\ UNCHANGED <<made, warm, history>>
  /\ \/ \E r \in Roots :
          /\ r = IF policy = "follow" /\ op[s].kind # "go" THEN op[s].root ELSE index[op[s].conv].root
          /\ Writes(op[s].conv, r, FALSE, index[op[s].conv].model, index[op[s].conv].turns)
          /\ Now(s, "acquire", op[s].kind, op[s].conv, op[s].cwd, r, op[s].back, op[s].out)
          /\ holder' = holder
     \/ index' = index /\ Quits(s)
LEMMA Consumes ==
  ASSUME ConvTyped, Conv!Kinds, NEW s \in Shells, Conv!Consume(s)
  PROVE  ConsumeDoes(s)
<1> USE DEF Conv!At, Conv!Conv, Conv!Goes, Conv!Stored
<1>1. op[s].pc = "consume" /\ UNCHANGED <<made, warm, history>> BY DEF Conv!Consume, Conv!history, history
<1>2. CASE ~Conv!Stored(Conv!Conv(s)) /\ Conv!Fails(s) /\ UNCHANGED index
  BY <1>1, <1>2, IdleIs DEF ConsumeDoes, Conv!Fails, Quits
<1>3. CASE /\ Conv!Stored(Conv!Conv(s))
           /\ Conv!Put(Conv!Conv(s), Conv!Patched(s, index[Conv!Conv(s)]))
           /\ op' = [op EXCEPT ![s].pc = "acquire", ![s].root = Conv!Patched(s, index[Conv!Conv(s)]).root]
           /\ UNCHANGED holder
  <2> DEFINE e == index[op[s].conv]
             r == IF policy = "follow" /\ op[s].kind # "go" THEN op[s].root ELSE index[op[s].conv].root
             n == Conv!Patched(s, e)
  <2>1. e \in Records BY <1>3 DEF ConvTyped
  <2>2. r \in Roots /\ op[s].root \in Roots BY <1>1, <2>1, About, RecordFields
  <2>3. [e EXCEPT !.ready = FALSE] \in Records BY <2>1 DEF Records
  <2>4. n = [[e EXCEPT !.ready = FALSE] EXCEPT !.root = r] BY <2>1 DEF Conv!Patched, Records
  <2>5. n \in Records BY <2>2, <2>3, <2>4 DEF Records
  <2>6. n.root = r /\ n.ready = FALSE /\ n.model = e.model /\ n.turns = e.turns BY <2>1, <2>4 DEF Records
  <2>7. Writes(op[s].conv, r, FALSE, e.model, e.turns) BY <1>3, <2>5, <2>6, PutIs
  <2>8. Now(s, "acquire", op[s].kind, op[s].conv, op[s].cwd, r, op[s].back, op[s].out)
    BY <1>3, <2>2, <2>6, ToRoot, Names, Sets
  <2>9. r = IF policy = "follow" /\ op[s].kind # "go" THEN op[s].root ELSE index[op[s].conv].root OBVIOUS
  <2>10. holder' = holder BY <1>3
  <2> HIDE DEF r
  <2> QED BY <1>1, <2>2, <2>7, <2>8, <2>9, <2>10 DEF ConsumeDoes
<1> QED BY <1>2, <1>3 DEF Conv!Consume

AcquireDoes(s) ==
  /\ op[s].pc = "acquire" /\ UNCHANGED <<made, history>>
  /\ \/ /\ warm' = [warm EXCEPT ![op[s].conv] = IF @ = Conv!NoModel THEN index[op[s].conv].model ELSE @]
        /\ Writes(op[s].conv, index[op[s].conv].root, index[op[s].conv].ready, index[op[s].conv].model, index[op[s].conv].turns)
        /\ On(s, IF op[s].kind = "suggest" THEN "borrow" ELSE "prompt")
        /\ holder' = holder
     \/ UNCHANGED <<index, warm>> /\ Quits(s)
LEMMA Acquires ==
  ASSUME ConvTyped, NEW s \in Shells, Conv!Acquire(s)
  PROVE  AcquireDoes(s)
<1> USE DEF Conv!At, Conv!Conv, Conv!Stored
<1>1. op[s].pc = "acquire" /\ UNCHANGED <<made, history>> BY DEF Conv!Acquire, Conv!history, history
<1>2. CASE Conv!Fails(s) /\ UNCHANGED <<index, warm>>
  BY <1>1, <1>2, IdleIs DEF AcquireDoes, Conv!Fails, Quits
<1>3. CASE /\ Conv!Stored(Conv!Conv(s))
           /\ warm' = [warm EXCEPT ![Conv!Conv(s)] = IF @ = Conv!NoModel THEN index[Conv!Conv(s)].model ELSE @]
           /\ Conv!Put(Conv!Conv(s), [index[Conv!Conv(s)] EXCEPT !.persona = Conv!PersonaOf(s, @)])
           /\ Conv!To(s, IF op[s].kind = "suggest" THEN "borrow" ELSE "prompt")
           /\ UNCHANGED holder
  <2> DEFINE e == index[op[s].conv]
             n == [e EXCEPT !.persona = Conv!PersonaOf(s, e.persona)]
  <2>1. e \in Records BY <1>3 DEF ConvTyped
  <2>2. Conv!PersonaOf(s, e.persona) \in Personas BY <2>1, RecordFields, Sets DEF Conv!PersonaOf
  <2>3. n \in Records BY <2>1, <2>2 DEF Records
  <2>4. n.root = e.root /\ n.ready = e.ready /\ n.model = e.model /\ n.turns = e.turns BY <2>1 DEF Records
  <2>5. Conv!Put(op[s].conv, n) /\ op[s].conv \in DOMAIN index BY <1>3
  <2> HIDE DEF n
  <2>6. Writes(op[s].conv, e.root, e.ready, e.model, e.turns) BY <2>3, <2>4, <2>5, PutIs
  <2>7. On(s, IF op[s].kind = "suggest" THEN "borrow" ELSE "prompt") BY <1>3, ToIs, Names
  <2> QED BY <1>1, <1>3, <2>6, <2>7 DEF AcquireDoes
<1> QED BY <1>2, <1>3 DEF Conv!Acquire

BorrowDoes(s) ==
  /\ op[s].pc = "borrow" /\ UNCHANGED <<index, made, warm, holder, history>> /\ warm[op[s].conv] # Conv!NoModel
  /\ Now(s, "lend", op[s].kind, op[s].conv, op[s].cwd, op[s].root, warm[op[s].conv], op[s].out)
LendDoes(s) ==
  /\ op[s].pc = "lend" /\ UNCHANGED <<index, made, holder, history>> /\ warm[op[s].conv] # Conv!NoModel
  /\ warm' = [warm EXCEPT ![op[s].conv] = Conv!Suggest] /\ On(s, "prompt")
PromptDoes(s) ==
  /\ op[s].pc = "prompt" /\ UNCHANGED <<index, made, warm, holder, chosen, finished, spent>>
  /\ plan' = [plan EXCEPT ![op[s].conv] = Conv!NoRoot] /\ On(s, "run")
LEMMA Borrows ==
  ASSUME ConvTyped, Conv!Kinds, NEW s \in Shells, Conv!Borrow(s)
  PROVE  BorrowDoes(s)
<1>1. op[s].pc = "borrow" BY DEF Conv!Borrow, Conv!At
<1>2. warm[op[s].conv] \in Backs BY <1>1, About DEF ConvTyped
<1> QED BY <1>1, <1>2, ToBack, Names DEF Conv!Borrow, Conv!At, Conv!Conv, Conv!history, history, BorrowDoes
LEMMA Lends ==
  ASSUME ConvTyped, NEW s \in Shells, Conv!Lend(s)
  PROVE  LendDoes(s)
BY ToIs, Names DEF Conv!Lend, Conv!At, Conv!Conv, Conv!history, history, LendDoes
LEMMA Prompts ==
  ASSUME ConvTyped, NEW s \in Shells, Conv!Prompt(s)
  PROVE  PromptDoes(s)
BY ToIs, Names DEF Conv!Prompt, Conv!At, Conv!Conv, PromptDoes

SettlesDoes(s) ==
  /\ op[s].pc = "run" /\ UNCHANGED <<index, made, holder, plan, chosen, finished>>
  /\ \E out1 \in Outs :
       /\ Now(s, IF op[s].back = Conv!NoModel THEN "record" ELSE "restore", op[s].kind, op[s].conv, op[s].cwd,
              op[s].root, op[s].back, out1)
       /\ \/ warm' = [warm EXCEPT ![op[s].conv] = Conv!NoModel]
          \/ warm' = warm
  /\ \/ spent' = [spent EXCEPT ![op[s].conv] = @ + 1]
     \/ spent' = spent
LEMMA SettlesIt ==
  ASSUME ConvTyped, NEW s \in Shells, Conv!Settles(s)
  PROVE  SettlesDoes(s)
<1> USE DEF Conv!At, Conv!Conv
<1>1. op[s].pc = "run" /\ UNCHANGED <<index, made, holder, plan, chosen, finished>> BY DEF Conv!Settles
<1>2. PICK o \in {"stop", "aborted", "error"}, dies \in BOOLEAN :
        /\ op' = [op EXCEPT ![s].pc = IF op[s].back = Conv!NoModel THEN "record" ELSE "restore", ![s].out = o]
        /\ warm' = IF dies THEN [warm EXCEPT ![Conv!Conv(s)] = Conv!NoModel] ELSE warm
        /\ spent' = IF o = "stop" THEN [spent EXCEPT ![Conv!Conv(s)] = @ + 1] ELSE spent
  BY DEF Conv!Settles
<1>3. o \in Outs BY Sets
<1>4. (IF op[s].back = Conv!NoModel THEN "record" ELSE "restore") \in Pcs BY Names
<1>5. Now(s, IF op[s].back = Conv!NoModel THEN "record" ELSE "restore", op[s].kind, op[s].conv, op[s].cwd,
          op[s].root, op[s].back, o)
  BY <1>2, <1>3, <1>4, ToOut
<1> QED BY <1>1, <1>2, <1>3, <1>5 DEF SettlesDoes

RestoreDoes(s) ==
  /\ op[s].pc = "restore" /\ UNCHANGED <<index, made, holder, history>>
  /\ \/ warm' = [warm EXCEPT ![op[s].conv] = Conv!NoModel]
     \/ warm' = [warm EXCEPT ![op[s].conv] = op[s].back]
  /\ \E out1 \in Outs :
       Now(s, "record", op[s].kind, op[s].conv, op[s].cwd, op[s].root, op[s].back, out1)
LEMMA Restores ==
  ASSUME ConvTyped, NEW s \in Shells, Conv!Restore(s)
  PROVE  RestoreDoes(s)
<1> USE DEF Conv!At, Conv!Conv
<1>1. op[s].pc = "restore" /\ UNCHANGED <<index, made, holder, history>> BY DEF Conv!Restore, Conv!history, history
<1>2. op[s].out \in Outs BY OpFields
<1>3. CASE warm' = Conv!Restored(s) /\ Conv!To(s, "record")
  <2>1. On(s, "record") BY <1>3, ToIs, Names
  <2>2. \/ warm' = [warm EXCEPT ![op[s].conv] = Conv!NoModel]
        \/ warm' = [warm EXCEPT ![op[s].conv] = op[s].back]
    BY <1>3 DEF Conv!Restored, ConvTyped
  <2> QED BY <1>1, <1>2, <2>1, <2>2 DEF RestoreDoes, On
<1>4. CASE /\ warm' = Conv!LetGo(s)
           /\ op' = [op EXCEPT ![s].pc = "record", ![s].out = IF @ = "aborted" THEN @ ELSE "error"]
  <2> DEFINE o == IF op[s].out = "aborted" THEN op[s].out ELSE "error"
  <2>1. o \in Outs BY <1>2, Sets
  <2>2. op[s] \in Operations BY OpFields
  <2>3. [op EXCEPT ![s].pc = "record"][s].out = op[s].out BY <2>2 DEF ConvTyped, Operations
  <2>4. op' = [op EXCEPT ![s].pc = "record", ![s].out = o] BY <1>4, <2>3
  <2> HIDE DEF o
  <2>5. Now(s, "record", op[s].kind, op[s].conv, op[s].cwd, op[s].root, op[s].back, o)
    BY <2>1, <2>4, ToOut, Names
  <2> QED BY <1>1, <1>4, <2>1, <2>5 DEF RestoreDoes, Conv!LetGo
<1> QED BY <1>3, <1>4 DEF Conv!Restore

RecordDoes(s) ==
  /\ op[s].pc = "record" /\ UNCHANGED <<made, warm, holder, chosen, finished, spent>>
  /\ \/ /\ \E y \in BOOLEAN :
             /\ Writes(op[s].conv, index[op[s].conv].root, y,
                  IF op[s].back # Conv!NoModel THEN op[s].back
                  ELSE IF warm[op[s].conv] # Conv!NoModel THEN warm[op[s].conv] ELSE index[op[s].conv].model,
                  IF op[s].out = "stop" THEN index[op[s].conv].turns + 1 ELSE index[op[s].conv].turns)
             /\ plan' = IF y THEN [plan EXCEPT ![op[s].conv] = index[op[s].conv].root] ELSE plan
        /\ On(s, "end")
     \/ /\ index' = index /\ plan' = plan
        /\ Now(s, "end", op[s].kind, op[s].conv, op[s].cwd, op[s].root, op[s].back, "error")
     \/ index' = index /\ plan' = plan /\ On(s, "end") /\ op[s].conv \notin DOMAIN index
LEMMA RecordsIt ==
  ASSUME ConvTyped, Conv!Kinds, NEW s \in Shells, Conv!Record(s)
  PROVE  RecordDoes(s)
<1> USE DEF Conv!At, Conv!Conv, Conv!Stored
<1>1. op[s].pc = "record" /\ UNCHANGED <<made, warm, holder, chosen, finished, spent>> BY DEF Conv!Record
<1>2. CASE ~Conv!Stored(Conv!Conv(s)) /\ Conv!To(s, "end") /\ UNCHANGED <<index, plan>>
  BY <1>1, <1>2, ToIs, Names DEF RecordDoes
<1>3. CASE /\ op' = [op EXCEPT ![s].pc = "end", ![s].out = Conv!Told(op[s].out)]
           /\ UNCHANGED <<index, plan>>
  BY <1>1, <1>3, ToOut, Names, Sets DEF RecordDoes, Conv!Told
<1>4. CASE /\ Conv!Stored(Conv!Conv(s))
           /\ Conv!Put(Conv!Conv(s), Conv!Outcome(s, index[Conv!Conv(s)]))
           /\ plan' = IF Conv!Outcome(s, index[Conv!Conv(s)]).ready
                      THEN [plan EXCEPT ![Conv!Conv(s)] = Conv!Outcome(s, index[Conv!Conv(s)]).root] ELSE plan
           /\ Conv!To(s, "end")
  <2> DEFINE e == index[op[s].conv]
             n == Conv!Outcome(s, e)
             t == IF op[s].out = "stop" THEN e.turns + 1 ELSE e.turns
             k == IF warm[op[s].conv] = Conv!NoModel THEN e.cost ELSE e.cost + spent[op[s].conv]
             y == op[s].out = "stop" /\ op[s].kind # "suggest" /\ e.persona = "plan"
             m == IF op[s].back # Conv!NoModel THEN op[s].back
                  ELSE IF warm[op[s].conv] # Conv!NoModel THEN warm[op[s].conv] ELSE e.model
  <2>1. e \in Records BY <1>4 DEF ConvTyped
  <2>2. op[s].conv \in Conv!Numbers BY <1>1, About
  <2>3. t \in Nat BY <2>1, RecordFields
  <2>4. k \in Nat BY <2>1, <2>2, RecordFields DEF ConvTyped
  <2>5. y \in BOOLEAN OBVIOUS
  <2>6. m \in Named
    <3>1. op[s].back \in Backs /\ warm[op[s].conv] \in Backs /\ e.model \in Named
      BY <2>1, <2>2, OpFields, RecordFields DEF ConvTyped
    <3> QED BY <3>1, Sets
  <2>7. n = [[[[e EXCEPT !.turns = t] EXCEPT !.cost = k] EXCEPT !.ready = y] EXCEPT !.model = m]
    <3>1. e.model = [[[e EXCEPT !.turns = t] EXCEPT !.cost = k] EXCEPT !.ready = y].model
          /\ e.cost = [e EXCEPT !.turns = t].cost
      BY <2>1 DEF Records
    <3> QED BY <2>1, <3>1 DEF Conv!Outcome, Records
  <2> HIDE DEF t, k, y, m
  <2>8. [e EXCEPT !.turns = t] \in Records BY <2>1, <2>3 DEF Records
  <2>9. [[e EXCEPT !.turns = t] EXCEPT !.cost = k] \in Records BY <2>8, <2>4 DEF Records
  <2>10. [[[e EXCEPT !.turns = t] EXCEPT !.cost = k] EXCEPT !.ready = y] \in Records BY <2>9, <2>5 DEF Records
  <2>11. [[[[e EXCEPT !.turns = t] EXCEPT !.cost = k] EXCEPT !.ready = y] EXCEPT !.model = m] \in Records
    BY <2>10, <2>6 DEF Records
  <2>12. n.root = e.root /\ n.ready = y /\ n.model = m /\ n.turns = t BY <2>1, <2>7 DEF Records
  <2>13. Conv!Put(op[s].conv, n) /\ n \in Records /\ op[s].conv \in DOMAIN index BY <1>4, <2>7, <2>11
  <2>14. plan' = IF n.ready THEN [plan EXCEPT ![op[s].conv] = n.root] ELSE plan BY <1>4
  <2> HIDE DEF n
  <2>15. Writes(op[s].conv, e.root, y, m, t) BY <2>12, <2>13, PutIs
  <2>16. plan' = IF y THEN [plan EXCEPT ![op[s].conv] = e.root] ELSE plan BY <2>12, <2>14
  <2>17. On(s, "end") BY <1>4, ToIs, Names
  <2>18. Writes(op[s].conv, e.root, y,
                  IF op[s].back # Conv!NoModel THEN op[s].back
                  ELSE IF warm[op[s].conv] # Conv!NoModel THEN warm[op[s].conv] ELSE e.model,
                  IF op[s].out = "stop" THEN e.turns + 1 ELSE e.turns)
    BY <2>15 DEF m, t
  <2> QED BY <1>1, <2>5, <2>16, <2>17, <2>18 DEF RecordDoes
<1> QED BY <1>2, <1>3, <1>4 DEF Conv!Record

EndDoes(s) ==
  /\ op[s].pc = "end" /\ UNCHANGED <<index, made, warm, plan, chosen, spent>> /\ Quits(s)
  /\ finished' = IF op[s].out = "stop" THEN [finished EXCEPT ![op[s].conv] = @ + 1] ELSE finished
LEMMA Ends ==
  ASSUME ConvTyped, NEW s \in Shells, Conv!End(s)
  PROVE  EndDoes(s)
BY IdleIs DEF Conv!End, Conv!At, Conv!Conv, Conv!Fails, EndDoes, Quits

\* Nobody removes the conversation of s or chooses its model.
Undisturbed(s, c) == \A t \in Shells : t # s /\ op[t].conv = c => op[t].kind \notin {"remove"} \union Conv!Models

OtherDoes(s) ==
  /\ op[s].pc = "idle" /\ UNCHANGED <<index, made, warm, holder, history>>
  /\ \E kind \in {"remove"} \union Conv!Models, c \in DOMAIN index :
       /\ holder[c] = Conv!NoShell /\ Undisturbed(s, c)
       /\ Now(s, IF kind = "remove" THEN "release" ELSE "choose", kind, c, Conv!NoRoot, Conv!NoRoot, Conv!NoModel, "none")
LEMMA Others ==
  ASSUME ConvTyped, NEW s \in Shells, Conv!Other(s), Conv!Alone(s, op'[s].conv)
  PROVE  OtherDoes(s)
<1>1. op[s].pc = "idle" /\ UNCHANGED <<index, made, warm, holder, history>> BY DEF Conv!Other, Conv!At, Conv!history, history
<1>2. PICK kind \in {"remove"} \union Conv!Models, c \in DOMAIN index :
        /\ holder[c] = Conv!NoShell
        /\ op' = [op EXCEPT ![s] = [Conv!Idle EXCEPT !.conv = c, !.kind = kind, !.pc = IF kind = "remove" THEN "release" ELSE "choose"]]
  BY DEF Conv!Other, Conv!Free
<1> DEFINE p == IF kind = "remove" THEN "release" ELSE "choose"
<1>3. p \in Pcs /\ kind \in AllKinds /\ c \in Convs BY ServicesAssumption, Names, Sets DEF ConvTyped, Conv!Numbers
<1>d. op' = [op EXCEPT ![s] = [Conv!Idle EXCEPT !.conv = c, !.kind = kind, !.pc = p]] BY <1>2
<1> HIDE DEF p
<1>4. Conv!Idle \in Operations BY Names, Sets DEF Conv!Idle, Operations
<1>a. [Conv!Idle EXCEPT !.conv = c] \in Operations BY <1>3, <1>4 DEF Operations
<1>b. [[Conv!Idle EXCEPT !.conv = c] EXCEPT !.kind = kind] \in Operations BY <1>3, <1>a DEF Operations
<1>c. [[[Conv!Idle EXCEPT !.conv = c] EXCEPT !.kind = kind] EXCEPT !.pc = p] \in Operations BY <1>3, <1>b DEF Operations
<1>5. op' \in [Shells -> Operations] /\ op'[s] = [Conv!Idle EXCEPT !.conv = c, !.kind = kind, !.pc = p]
  BY <1>c, <1>d DEF ConvTyped
<1>e. Conv!Idle.back = Conv!NoModel /\ Conv!Idle.out = "none" /\ Conv!Idle.cwd = Conv!NoRoot /\ Conv!Idle.root = Conv!NoRoot
  BY DEF Conv!Idle
<1>6. Now(s, p, kind, c, Conv!NoRoot, Conv!NoRoot, Conv!NoModel, "none")
  BY <1>d, <1>e, <1>4, <1>5 DEF Now, Operations, ConvTyped
<1>7. \A t \in Shells : t # s => op'[t] = op[t] BY <1>6 DEF Now
<1>8. Undisturbed(s, c) BY <1>6, <1>7 DEF Now, Undisturbed, Conv!Alone, Conv!Conv
<1> QED BY <1>1, <1>2, <1>6, <1>8 DEF OtherDoes, p

ReleaseDoes(s) ==
  /\ op[s].pc = "release" /\ UNCHANGED <<index, made, holder, history>> /\ On(s, "forget")
  /\ warm' = [warm EXCEPT ![op[s].conv] = Conv!NoModel]
ForgetDoes(s) ==
  /\ op[s].pc = "forget" /\ UNCHANGED <<made, warm, holder, history>> /\ Idles(s)
  /\ DOMAIN index' = DOMAIN index \ {op[s].conv}
  /\ \A d \in DOMAIN index' : index'[d] = index[d]
ChooseDoes(s) ==
  /\ op[s].pc = "choose" /\ UNCHANGED <<index, made, holder, history>> /\ On(s, "keep")
  /\ warm' = [warm EXCEPT ![op[s].conv] = op[s].kind]
KeepDoes(s) ==
  /\ op[s].pc = "keep" /\ UNCHANGED <<made, warm, holder, plan, finished, spent>> /\ Idles(s)
  /\ \/ /\ chosen' = [chosen EXCEPT ![op[s].conv] = op[s].kind]
        /\ Writes(op[s].conv, index[op[s].conv].root, index[op[s].conv].ready, op[s].kind, index[op[s].conv].turns)
     \/ op[s].conv \notin DOMAIN index /\ index' = index /\ chosen' = chosen
LEMMA Releases ==
  ASSUME ConvTyped, NEW s \in Shells, Conv!Release(s)
  PROVE  ReleaseDoes(s)
BY ToIs, Names DEF Conv!Release, Conv!At, Conv!Conv, Conv!history, history, ReleaseDoes
LEMMA Forgets ==
  ASSUME ConvTyped, NEW s \in Shells, Conv!Forget(s)
  PROVE  ForgetDoes(s)
BY IdleIs DEF Conv!Forget, Conv!At, Conv!Conv, Conv!history, history, ForgetDoes
LEMMA Chooses ==
  ASSUME ConvTyped, NEW s \in Shells, Conv!Choose(s)
  PROVE  ChooseDoes(s)
BY ToIs, Names DEF Conv!Choose, Conv!At, Conv!Conv, Conv!history, history, ChooseDoes
LEMMA Keeps ==
  ASSUME ConvTyped, Conv!Kinds, NEW s \in Shells, Conv!Keep(s)
  PROVE  KeepDoes(s)
<1> USE DEF Conv!At, Conv!Conv, Conv!Stored
<1>1. op[s].pc = "keep" /\ UNCHANGED <<made, warm, holder, plan, finished, spent>> /\ Idles(s) BY IdleIs DEF Conv!Keep
<1>2. CASE op[s].conv \notin DOMAIN index /\ UNCHANGED <<index, chosen>>
  BY <1>1, <1>2 DEF KeepDoes
<1>3. CASE /\ op[s].conv \in DOMAIN index
           /\ Conv!Put(op[s].conv, [index[op[s].conv] EXCEPT !.model = op[s].kind])
           /\ chosen' = [chosen EXCEPT ![op[s].conv] = op[s].kind]
  <2> DEFINE e == index[op[s].conv]
             n == [e EXCEPT !.model = op[s].kind]
  <2>1. e \in Records BY <1>3 DEF ConvTyped
  <2>2. op[s].kind \in Named BY <1>1, About, Sets
  <2>3. n \in Records BY <2>1, <2>2 DEF Records
  <2>4. n.root = e.root /\ n.ready = e.ready /\ n.model = op[s].kind /\ n.turns = e.turns BY <2>1 DEF Records
  <2>5. Conv!Put(op[s].conv, n) /\ op[s].conv \in DOMAIN index BY <1>3
  <2> HIDE DEF n
  <2>6. Writes(op[s].conv, e.root, e.ready, op[s].kind, e.turns) BY <2>3, <2>4, <2>5, PutIs
  <2> QED BY <1>1, <1>3, <2>6 DEF KeepDoes
<1> QED BY <1>2, <1>3 DEF Conv!Keep

-----------------------------------------------------------------------------
(* Every step is one of these.                                              *)

Does(s) ==
  \/ AskDoes(s) \/ RouteDoes(s) \/ (ClaimDoes(s) /\ Undisturbed(s, op[s].conv)) \/ CheckDoes(s) \/ ConsumeDoes(s)
  \/ AcquireDoes(s) \/ BorrowDoes(s) \/ LendDoes(s) \/ PromptDoes(s) \/ SettlesDoes(s) \/ RestoreDoes(s)
  \/ RecordDoes(s) \/ EndDoes(s) \/ OtherDoes(s) \/ ReleaseDoes(s) \/ ForgetDoes(s) \/ ChooseDoes(s) \/ KeepDoes(s)
EvictDoes ==
  /\ UNCHANGED <<made, index, holder, op, history>>
  /\ \E c \in Conv!Numbers : /\ warm' = [warm EXCEPT ![c] = Conv!NoModel]
                             /\ \A s \in Shells : op[s].conv = c => op[s].pc = "idle"
CrashDoes ==
  /\ UNCHANGED <<made, index, history>> /\ op' \in [Shells -> Operations]
  /\ \A s \in Shells : op'[s].pc = "idle" /\ op'[s].conv = 0 /\ op'[s].back = Conv!NoModel
  /\ warm' \in [Conv!Numbers -> {Conv!NoModel}] /\ holder' \in [Conv!Numbers -> {Conv!NoShell}]

LEMMA StepDoes ==
  ASSUME ConvTyped, Conv!Kinds, NEW s \in Shells, ConvStep(s)
  PROVE  Does(s)
<1>1. CASE Conv!Alone(s, Conv!Conv(s)) /\ Conv!Claim(s)
  BY <1>1, ClaimsIt DEF Does, Undisturbed, Conv!Alone, Conv!Conv
<1>2. CASE Conv!Other(s) /\ Conv!Alone(s, op'[s].conv) BY <1>2, Others DEF Does
<1>3. CASE Conv!Steps(s)
  <2>1. Conv!Ask(s) => Does(s) BY Asks DEF Does
  <2>2. Conv!Route(s) => Does(s) BY Routes DEF Does
  <2>3. Conv!Check(s) => Does(s) BY Checks DEF Does
  <2>4. Conv!Consume(s) => Does(s) BY Consumes DEF Does
  <2>5. Conv!Acquire(s) => Does(s) BY Acquires DEF Does
  <2>6. Conv!Borrow(s) => Does(s) BY Borrows DEF Does
  <2>7. Conv!Lend(s) => Does(s) BY Lends DEF Does
  <2>8. Conv!Prompt(s) => Does(s) BY Prompts DEF Does
  <2>9. Conv!Settles(s) => Does(s) BY SettlesIt DEF Does
  <2>10. Conv!Restore(s) => Does(s) BY Restores DEF Does
  <2>11. Conv!Record(s) => Does(s) BY RecordsIt DEF Does
  <2>12. Conv!End(s) => Does(s) BY Ends DEF Does
  <2>13. Conv!Release(s) => Does(s) BY Releases DEF Does
  <2>14. Conv!Forget(s) => Does(s) BY Forgets DEF Does
  <2>15. Conv!Choose(s) => Does(s) BY Chooses DEF Does
  <2>16. Conv!Keep(s) => Does(s) BY Keeps DEF Does
  <2> QED BY <1>3, <2>1, <2>2, <2>3, <2>4, <2>5, <2>6, <2>7, <2>8, <2>9, <2>10, <2>11, <2>12, <2>13, <2>14, <2>15, <2>16 DEF Conv!Steps
<1> QED BY <1>1, <1>2, <1>3 DEF ConvStep

LEMMA EvictIs ==
  ASSUME ConvTyped, Conv!Evict
  PROVE  EvictDoes
BY DEF Conv!Evict, EvictDoes, Conv!history, history, Conv!Conv, Conv!At

LEMMA CrashIs ==
  ASSUME ConvTyped, Conv!Crash
  PROVE  CrashDoes
<1>1. \A s \in Shells : Conv!Idle \in Operations /\ op'[s] = Conv!Idle
  BY Names, Sets DEF Conv!Crash, Conv!Idle, Operations
<1>2. op' \in [Shells -> Operations] BY <1>1 DEF Conv!Crash
<1>3. Conv!Idle.pc = "idle" /\ Conv!Idle.conv = 0 /\ Conv!Idle.back = Conv!NoModel BY DEF Conv!Idle
<1> QED BY <1>1, <1>2, <1>3 DEF Conv!Crash, CrashDoes, Conv!history, history

LEMMA Counters ==
  ASSUME ConvTyped, \/ \E s \in Shells : ConvStep(s)
                    \/ Conv!Evict \/ Conv!Crash
  PROVE  begun' \in Nat /\ crashes' \in Nat /\ policy' = policy
<1>1. ASSUME NEW s \in Shells, ConvStep(s) PROVE begun' \in {begun, begun + 1} /\ crashes' = crashes /\ policy' = policy
  <2>1. Conv!Ask(s) => begun' \in {begun, begun + 1} /\ crashes' = crashes /\ policy' = policy BY DEF Conv!Ask
  <2>2. Conv!Route(s) => begun' \in {begun, begun + 1} /\ crashes' = crashes /\ policy' = policy BY DEF Conv!Route
  <2>3. Conv!Check(s) => begun' \in {begun, begun + 1} /\ crashes' = crashes /\ policy' = policy BY DEF Conv!Check
  <2>4. Conv!Consume(s) => begun' \in {begun, begun + 1} /\ crashes' = crashes /\ policy' = policy BY DEF Conv!Consume
  <2>5. Conv!Acquire(s) => begun' \in {begun, begun + 1} /\ crashes' = crashes /\ policy' = policy BY DEF Conv!Acquire
  <2>6. Conv!Borrow(s) => begun' \in {begun, begun + 1} /\ crashes' = crashes /\ policy' = policy BY DEF Conv!Borrow
  <2>7. Conv!Lend(s) => begun' \in {begun, begun + 1} /\ crashes' = crashes /\ policy' = policy BY DEF Conv!Lend
  <2>8. Conv!Prompt(s) => begun' \in {begun, begun + 1} /\ crashes' = crashes /\ policy' = policy BY DEF Conv!Prompt
  <2>9. Conv!Settles(s) => begun' \in {begun, begun + 1} /\ crashes' = crashes /\ policy' = policy BY DEF Conv!Settles
  <2>10. Conv!Restore(s) => begun' \in {begun, begun + 1} /\ crashes' = crashes /\ policy' = policy BY DEF Conv!Restore
  <2>11. Conv!Record(s) => begun' \in {begun, begun + 1} /\ crashes' = crashes /\ policy' = policy BY DEF Conv!Record
  <2>12. Conv!End(s) => begun' \in {begun, begun + 1} /\ crashes' = crashes /\ policy' = policy BY DEF Conv!End
  <2>13. Conv!Release(s) => begun' \in {begun, begun + 1} /\ crashes' = crashes /\ policy' = policy BY DEF Conv!Release
  <2>14. Conv!Forget(s) => begun' \in {begun, begun + 1} /\ crashes' = crashes /\ policy' = policy BY DEF Conv!Forget
  <2>15. Conv!Choose(s) => begun' \in {begun, begun + 1} /\ crashes' = crashes /\ policy' = policy BY DEF Conv!Choose
  <2>16. Conv!Keep(s) => begun' \in {begun, begun + 1} /\ crashes' = crashes /\ policy' = policy BY DEF Conv!Keep
  <2>17. Conv!Claim(s) => begun' \in {begun, begun + 1} /\ crashes' = crashes /\ policy' = policy BY DEF Conv!Claim
  <2>18. Conv!Other(s) => begun' \in {begun, begun + 1} /\ crashes' = crashes /\ policy' = policy BY DEF Conv!Other
  <2> QED BY <1>1, <2>1, <2>2, <2>3, <2>4, <2>5, <2>6, <2>7, <2>8, <2>9, <2>10, <2>11, <2>12, <2>13, <2>14, <2>15, <2>16, <2>17, <2>18 DEF ConvStep, Conv!Steps
<1>2. Conv!Evict => begun' = begun /\ crashes' = crashes /\ policy' = policy BY DEF Conv!Evict
<1>3. Conv!Crash => begun' = begun /\ crashes' = crashes + 1 /\ policy' = policy BY DEF Conv!Crash
<1> QED BY <1>1, <1>2, <1>3 DEF ConvTyped

-----------------------------------------------------------------------------
(* Every step keeps the types.                                              *)

\* What the index and the number of the last conversation are.
Indexed == /\ made \in Conv!Numbers /\ DOMAIN index \subseteq 1 .. made
           /\ \A c \in DOMAIN index : index[c] \in Records
LEMMA AddsTyped ==
  ASSUME ConvTyped, NEW r, Adds(r)
  PROVE  Indexed'
BY ServicesAssumption DEF ConvTyped, Adds, Indexed, Conv!Numbers
LEMMA SameTyped ==
  ASSUME ConvTyped, index' = index, made' = made
  PROVE  Indexed'
BY DEF ConvTyped, Indexed

LEMMA StepTyped ==
  ASSUME ConvTyped, Conv!Kinds, NEW s \in Shells, Does(s), begun' \in Nat, crashes' \in Nat
  PROVE  ConvTyped'
<1>0. op[s].back \in Backs /\ op[s].kind \in AllKinds BY OpFields
<1>1. CASE AskDoes(s)
  <2>1. op' \in [Shells -> Operations] BY <1>1 DEF AskDoes, Now, On, Idles
  <2>2. Indexed' BY <1>1, AddsTyped, SameTyped DEF AskDoes
  <2> QED BY <1>1, <2>1, <2>2 DEF ConvTyped, Indexed, AskDoes, history
<1>2. CASE RouteDoes(s)
  <2>1. op' \in [Shells -> Operations] BY <1>2 DEF RouteDoes, Now, On, Idles
  <2>2. Indexed' BY <1>2, AddsTyped, SameTyped DEF RouteDoes
  <2> QED BY <1>2, <2>1, <2>2 DEF ConvTyped, Indexed, RouteDoes, history
<1>3. CASE ClaimDoes(s) /\ Undisturbed(s, op[s].conv)
  BY <1>3, <1>0, RecordFields, Sets, About DEF ClaimDoes, Undisturbed, ConvTyped, history, Now, On, Idles, Quits, Writes, Adds
<1>4. CASE CheckDoes(s)
  BY <1>4, <1>0, RecordFields, Sets, About DEF CheckDoes, ConvTyped, history, Now, On, Idles, Quits, Writes, Adds
<1>5. CASE ConsumeDoes(s)
  BY <1>5, <1>0, RecordFields, Sets, About DEF ConsumeDoes, ConvTyped, history, Now, On, Idles, Quits, Writes, Adds
<1>6. CASE AcquireDoes(s)
  BY <1>6, <1>0, RecordFields, Sets, About DEF AcquireDoes, ConvTyped, history, Now, On, Idles, Quits, Writes, Adds
<1>7. CASE BorrowDoes(s)
  BY <1>7, <1>0, RecordFields, Sets, About DEF BorrowDoes, ConvTyped, history, Now, On, Idles, Quits, Writes, Adds
<1>8. CASE LendDoes(s)
  BY <1>8, <1>0, RecordFields, Sets, About DEF LendDoes, ConvTyped, history, Now, On, Idles, Quits, Writes, Adds
<1>9. CASE PromptDoes(s)
  BY <1>9, <1>0, RecordFields, Sets, About DEF PromptDoes, ConvTyped, history, Now, On, Idles, Quits, Writes, Adds
<1>10. CASE SettlesDoes(s)
  BY <1>10, <1>0, RecordFields, Sets, About DEF SettlesDoes, ConvTyped, history, Now, On, Idles, Quits, Writes, Adds
<1>11. CASE RestoreDoes(s)
  BY <1>11, <1>0, RecordFields, Sets, About DEF RestoreDoes, ConvTyped, history, Now, On, Idles, Quits, Writes, Adds
<1>12. CASE RecordDoes(s)
  BY <1>12, <1>0, RecordFields, Sets, About DEF RecordDoes, ConvTyped, history, Now, On, Idles, Quits, Writes, Adds
<1>13. CASE EndDoes(s)
  BY <1>13, <1>0, RecordFields, Sets, About DEF EndDoes, ConvTyped, history, Now, On, Idles, Quits, Writes, Adds
<1>14. CASE OtherDoes(s)
  BY <1>14, <1>0, RecordFields, Sets, About DEF OtherDoes, Undisturbed, ConvTyped, history, Now, On, Idles, Quits, Writes, Adds
<1>15. CASE ReleaseDoes(s)
  BY <1>15, <1>0, RecordFields, Sets, About DEF ReleaseDoes, ConvTyped, history, Now, On, Idles, Quits, Writes, Adds
<1>16. CASE ForgetDoes(s)
  BY <1>16, <1>0, RecordFields, Sets, About DEF ForgetDoes, ConvTyped, history, Now, On, Idles, Quits, Writes, Adds
<1>17. CASE ChooseDoes(s)
  BY <1>17, <1>0, RecordFields, Sets, About DEF ChooseDoes, ConvTyped, history, Now, On, Idles, Quits, Writes, Adds
<1>18. CASE KeepDoes(s)
  BY <1>18, <1>0, RecordFields, Sets, About DEF KeepDoes, ConvTyped, history, Now, On, Idles, Quits, Writes, Adds
<1> QED BY <1>1, <1>2, <1>3, <1>4, <1>5, <1>6, <1>7, <1>8, <1>9, <1>10, <1>11, <1>12, <1>13, <1>14, <1>15, <1>16, <1>17, <1>18 DEF Does

LEMMA OthersTyped ==
  ASSUME ConvTyped, EvictDoes \/ CrashDoes, begun' \in Nat, crashes' \in Nat
  PROVE  ConvTyped'
BY Sets DEF ConvTyped, EvictDoes, CrashDoes, history

-----------------------------------------------------------------------------
(* Every step keeps what makes the conversations true.                      *)

KindOf(t) ==
  /\ op[t].pc = "idle" => op[t].conv = 0
  /\ op[t].pc # "idle" => op[t].conv \in 1 .. made
  /\ op[t].pc \in Conv!InOther => op[t].kind \in {"remove"} \union Conv!Models
  /\ op[t].pc \in {"choose", "keep"} => op[t].kind \in Conv!Models
  /\ op[t].pc \in {"route", "claim"} \union Conv!InTurn =>
       op[t].kind \in Conv!Turns /\ op[t].cwd \in Roots /\ op[t].root \in Roots
  /\ op[t].pc \in {"borrow", "lend"} => op[t].kind = "suggest"
  /\ op[t].back # Conv!NoModel => op[t].pc \in Conv!InTurn /\ op[t].kind = "suggest"
LEMMA KindsAre == Conv!Kinds <=> \A t \in Shells : KindOf(t)
BY DEF Conv!Kinds, KindOf, Conv!At, Conv!Conv

\* No step takes a number back, and none is another shell's.
LEMMA MadeGrows ==
  ASSUME ConvTyped, NEW s \in Shells, Does(s)
  PROVE  made' \in Nat /\ made \in Nat /\ made' >= made
<1>0. made \in Nat BY ServicesAssumption DEF ConvTyped, Conv!Numbers
<1>1. made' = made \/ made' = made + 1
  <2>1. CASE AskDoes(s)
    BY <2>1 DEF AskDoes, Adds
  <2>2. CASE RouteDoes(s)
    BY <2>2 DEF RouteDoes, Adds
  <2>3. CASE ClaimDoes(s) /\ Undisturbed(s, op[s].conv)
    BY <2>3 DEF ClaimDoes, Undisturbed, Adds
  <2>4. CASE CheckDoes(s)
    BY <2>4 DEF CheckDoes, Adds
  <2>5. CASE ConsumeDoes(s)
    BY <2>5 DEF ConsumeDoes, Adds
  <2>6. CASE AcquireDoes(s)
    BY <2>6 DEF AcquireDoes, Adds
  <2>7. CASE BorrowDoes(s)
    BY <2>7 DEF BorrowDoes, Adds
  <2>8. CASE LendDoes(s)
    BY <2>8 DEF LendDoes, Adds
  <2>9. CASE PromptDoes(s)
    BY <2>9 DEF PromptDoes, Adds
  <2>10. CASE SettlesDoes(s)
    BY <2>10 DEF SettlesDoes, Adds
  <2>11. CASE RestoreDoes(s)
    BY <2>11 DEF RestoreDoes, Adds
  <2>12. CASE RecordDoes(s)
    BY <2>12 DEF RecordDoes, Adds
  <2>13. CASE EndDoes(s)
    BY <2>13 DEF EndDoes, Adds
  <2>14. CASE OtherDoes(s)
    BY <2>14 DEF OtherDoes, Undisturbed, Adds
  <2>15. CASE ReleaseDoes(s)
    BY <2>15 DEF ReleaseDoes, Adds
  <2>16. CASE ForgetDoes(s)
    BY <2>16 DEF ForgetDoes, Adds
  <2>17. CASE ChooseDoes(s)
    BY <2>17 DEF ChooseDoes, Adds
  <2>18. CASE KeepDoes(s)
    BY <2>18 DEF KeepDoes, Adds
  <2> QED BY <2>1, <2>2, <2>3, <2>4, <2>5, <2>6, <2>7, <2>8, <2>9, <2>10, <2>11, <2>12, <2>13, <2>14, <2>15, <2>16, <2>17, <2>18 DEF Does
<1> QED BY <1>0, <1>1
LEMMA OthersStay ==
  ASSUME ConvTyped, NEW s \in Shells, Does(s), NEW t \in Shells, t # s
  PROVE  op'[t] = op[t]
BY DEF Does, AskDoes, RouteDoes, ClaimDoes, CheckDoes, ConsumeDoes, AcquireDoes, BorrowDoes, LendDoes, PromptDoes,
   SettlesDoes, RestoreDoes, RecordDoes, EndDoes, OtherDoes, ReleaseDoes, ForgetDoes, ChooseDoes, KeepDoes, Now, On, Idles, Quits

LEMMA KindsKept ==
  ASSUME ConvTyped, ConvTyped', Conv!Kinds, NEW s \in Shells, Does(s)
  PROVE  Conv!Kinds'
<1>1. made' \in Nat /\ made \in Nat /\ made' >= made BY MadeGrows
<1>2. \A t \in Shells : KindOf(t) BY KindsAre
<1>3. ASSUME NEW t \in Shells, t # s PROVE KindOf(t)'
  <2>1. op'[t] = op[t] BY <1>3, OthersStay
  <2>2. KindOf(t) BY <1>2
  <2> QED BY <1>1, <2>1, <2>2, OpFields DEF KindOf, Convs, Conv!Numbers
<1>4. KindOf(s)'
  <2>1. CASE AskDoes(s)
    BY <2>1, <1>2, RecordFields, Sets DEF AskDoes, ConvTyped, KindOf, Conv!InTurn, Conv!InOther, history, Now, On, Idles, Quits, Writes, Adds
  <2>2. CASE RouteDoes(s)
    BY <2>2, <1>2, RecordFields, Sets DEF RouteDoes, ConvTyped, KindOf, Conv!InTurn, Conv!InOther, history, Now, On, Idles, Quits, Writes, Adds
  <2>3. CASE ClaimDoes(s) /\ Undisturbed(s, op[s].conv)
    BY <2>3, <1>2, RecordFields, Sets DEF ClaimDoes, Undisturbed, ConvTyped, KindOf, Conv!InTurn, Conv!InOther, history, Now, On, Idles, Quits, Writes, Adds
  <2>4. CASE CheckDoes(s)
    BY <2>4, <1>2, RecordFields, Sets DEF CheckDoes, ConvTyped, KindOf, Conv!InTurn, Conv!InOther, history, Now, On, Idles, Quits, Writes, Adds
  <2>5. CASE ConsumeDoes(s)
    BY <2>5, <1>2, RecordFields, Sets DEF ConsumeDoes, ConvTyped, KindOf, Conv!InTurn, Conv!InOther, history, Now, On, Idles, Quits, Writes, Adds
  <2>6. CASE AcquireDoes(s)
    BY <2>6, <1>2, RecordFields, Sets DEF AcquireDoes, ConvTyped, KindOf, Conv!InTurn, Conv!InOther, history, Now, On, Idles, Quits, Writes, Adds
  <2>7. CASE BorrowDoes(s)
    BY <2>7, <1>2, RecordFields, Sets DEF BorrowDoes, ConvTyped, KindOf, Conv!InTurn, Conv!InOther, history, Now, On, Idles, Quits, Writes, Adds
  <2>8. CASE LendDoes(s)
    BY <2>8, <1>2, RecordFields, Sets DEF LendDoes, ConvTyped, KindOf, Conv!InTurn, Conv!InOther, history, Now, On, Idles, Quits, Writes, Adds
  <2>9. CASE PromptDoes(s)
    BY <2>9, <1>2, RecordFields, Sets DEF PromptDoes, ConvTyped, KindOf, Conv!InTurn, Conv!InOther, history, Now, On, Idles, Quits, Writes, Adds
  <2>10. CASE SettlesDoes(s)
    BY <2>10, <1>2, RecordFields, Sets DEF SettlesDoes, ConvTyped, KindOf, Conv!InTurn, Conv!InOther, history, Now, On, Idles, Quits, Writes, Adds
  <2>11. CASE RestoreDoes(s)
    BY <2>11, <1>2, RecordFields, Sets DEF RestoreDoes, ConvTyped, KindOf, Conv!InTurn, Conv!InOther, history, Now, On, Idles, Quits, Writes, Adds
  <2>12. CASE RecordDoes(s)
    BY <2>12, <1>2, RecordFields, Sets DEF RecordDoes, ConvTyped, KindOf, Conv!InTurn, Conv!InOther, history, Now, On, Idles, Quits, Writes, Adds
  <2>13. CASE EndDoes(s)
    BY <2>13, <1>2, RecordFields, Sets DEF EndDoes, ConvTyped, KindOf, Conv!InTurn, Conv!InOther, history, Now, On, Idles, Quits, Writes, Adds
  <2>14. CASE OtherDoes(s)
    BY <2>14, <1>2, RecordFields, Sets DEF OtherDoes, Undisturbed, ConvTyped, KindOf, Conv!InTurn, Conv!InOther, history, Now, On, Idles, Quits, Writes, Adds
  <2>15. CASE ReleaseDoes(s)
    BY <2>15, <1>2, RecordFields, Sets DEF ReleaseDoes, ConvTyped, KindOf, Conv!InTurn, Conv!InOther, history, Now, On, Idles, Quits, Writes, Adds
  <2>16. CASE ForgetDoes(s)
    BY <2>16, <1>2, RecordFields, Sets DEF ForgetDoes, ConvTyped, KindOf, Conv!InTurn, Conv!InOther, history, Now, On, Idles, Quits, Writes, Adds
  <2>17. CASE ChooseDoes(s)
    BY <2>17, <1>2, RecordFields, Sets DEF ChooseDoes, ConvTyped, KindOf, Conv!InTurn, Conv!InOther, history, Now, On, Idles, Quits, Writes, Adds
  <2>18. CASE KeepDoes(s)
    BY <2>18, <1>2, RecordFields, Sets DEF KeepDoes, ConvTyped, KindOf, Conv!InTurn, Conv!InOther, history, Now, On, Idles, Quits, Writes, Adds
  <2> QED BY <2>1, <2>2, <2>3, <2>4, <2>5, <2>6, <2>7, <2>8, <2>9, <2>10, <2>11, <2>12, <2>13, <2>14, <2>15, <2>16, <2>17, <2>18 DEF Does
<1> QED BY <1>3, <1>4 DEF Conv!Kinds, KindOf, Conv!At, Conv!Conv

\* A turn that ends lets its conversation go.
LEMMA QuitsFrees ==
  ASSUME ConvTyped, Conv!Kinds, NEW s \in Shells, op[s].pc # "idle", Quits(s)
  PROVE  /\ op[s].conv \in Conv!Numbers /\ holder'[op[s].conv] = Conv!NoShell
         /\ \A c \in Conv!Numbers : c # op[s].conv => holder'[c] = holder[c]
         /\ op'[s].pc = "idle" /\ op'[s].conv = 0 /\ op'[s].back = Conv!NoModel
         /\ \A t \in Shells : t # s => op'[t] = op[t]
BY About DEF Quits, Idles, Now, ConvTyped
LEMMA QuitsClaims ==
  ASSUME ConvTyped, ConvTyped', Conv!Kinds, Conv!Claims, NEW s \in Shells, op[s].pc \in Conv!InTurn, Quits(s)
  PROVE  Conv!Claims'
<1>1. op[s].pc # "idle" BY DEF Conv!InTurn
<1>2. holder[op[s].conv] = s BY DEF Conv!Claims, Conv!Conv
<1>3. ASSUME NEW t \in Shells, op'[t].pc \in Conv!InTurn PROVE holder'[op'[t].conv] = t
  <2>1. t # s /\ op'[t] = op[t] BY <1>1, <1>3, QuitsFrees DEF Conv!InTurn
  <2>2. op[t].pc # "idle" /\ op[t].conv \in Conv!Numbers BY <1>3, <2>1, About DEF Conv!InTurn
  <2>3. holder[op[t].conv] = t BY <1>3, <2>1 DEF Conv!Claims, Conv!Conv
  <2> QED BY <1>1, <1>2, <2>1, <2>2, <2>3, QuitsFrees
<1>4. ASSUME NEW c \in Conv!Numbers, holder'[c] # Conv!NoShell
      PROVE  op'[holder'[c]].pc \in Conv!InTurn /\ op'[holder'[c]].conv = c
  <2>1. c # op[s].conv /\ holder'[c] = holder[c] BY <1>1, <1>4, QuitsFrees
  <2>2. holder[c] \in Shells BY <1>4, <2>1 DEF ConvTyped
  <2>3. op[holder[c]].pc \in Conv!InTurn /\ op[holder[c]].conv = c BY <1>4, <2>1 DEF Conv!Claims, Conv!Conv
  <2> QED BY <1>1, <2>1, <2>2, <2>3, QuitsFrees
<1> QED BY <1>3, <1>4 DEF Conv!Claims, Conv!Conv
LEMMA StaysClaims ==
  ASSUME ConvTyped, ConvTyped', Conv!Claims, NEW s \in Shells, op[s].pc \in Conv!InTurn, holder' = holder,
         op'[s].pc \in Conv!InTurn, op'[s].conv = op[s].conv, \A t \in Shells : t # s => op'[t] = op[t]
  PROVE  Conv!Claims'
BY DEF Conv!Claims, Conv!Conv, ConvTyped

LEMMA ClaimsKept ==
  ASSUME ConvTyped, ConvTyped', Conv!Kinds, Conv!Claims, NEW s \in Shells, Does(s)
  PROVE  Conv!Claims'
<1>0. /\ op[s].pc # "idle" => op[s].conv \in Conv!Numbers
      /\ op[s].pc \in Pcs
  BY About, OpFields
<1>1. CASE AskDoes(s)
  BY <1>1, <1>0, ServicesAssumption DEF AskDoes, ConvTyped, Conv!Claims, Conv!Conv, Conv!InTurn, Now, On, Idles, Quits, Writes, Adds
<1>2. CASE RouteDoes(s)
  BY <1>2, <1>0, ServicesAssumption DEF RouteDoes, ConvTyped, Conv!Claims, Conv!Conv, Conv!InTurn, Now, On, Idles, Quits, Writes, Adds
<1>3. CASE ClaimDoes(s) /\ Undisturbed(s, op[s].conv)
  <2>1. op[s].conv \in Conv!Numbers BY <1>0, <1>3 DEF ClaimDoes
  <2>2. \A t \in Shells : t # s => op'[t] = op[t] BY OthersStay
  <2>3. op[s].pc \notin Conv!InTurn BY <1>3 DEF ClaimDoes, Conv!InTurn
  <2>4. CASE holder' = holder /\ Idles(s)
    BY <2>2, <2>3, <2>4, ServicesAssumption DEF Idles, Now, Conv!Claims, Conv!Conv, Conv!InTurn, ConvTyped
  <2>5. CASE /\ holder[op[s].conv] = Conv!NoShell /\ holder' = [holder EXCEPT ![op[s].conv] = s] /\ On(s, "check")
    <3>1. op'[s].pc \in Conv!InTurn /\ op'[s].conv = op[s].conv BY <2>5 DEF On, Now, Conv!InTurn
    <3>2. holder'[op[s].conv] = s /\ \A c \in Conv!Numbers : c # op[s].conv => holder'[c] = holder[c]
      BY <2>1, <2>5 DEF ConvTyped
    <3>3. ASSUME NEW t \in Shells, op'[t].pc \in Conv!InTurn PROVE holder'[op'[t].conv] = t
      <4>1. CASE t = s BY <3>1, <3>2, <4>1
      <4>2. CASE t # s
        <5>1. op[t].pc # "idle" /\ op[t].conv \in Conv!Numbers BY <2>2, <3>3, <4>2, About DEF Conv!InTurn
        <5>2. holder[op[t].conv] = t BY <2>2, <3>3, <4>2 DEF Conv!Claims, Conv!Conv
        <5>3. op[t].conv # op[s].conv BY <2>5, <5>2, ServicesAssumption
        <5> QED BY <2>2, <3>2, <4>2, <5>1, <5>2, <5>3
      <4> QED BY <4>1, <4>2
    <3>4. ASSUME NEW c \in Conv!Numbers, holder'[c] # Conv!NoShell
          PROVE  op'[holder'[c]].pc \in Conv!InTurn /\ op'[holder'[c]].conv = c
      <4>1. CASE c = op[s].conv BY <3>1, <3>2, <4>1
      <4>2. CASE c # op[s].conv
        <5>1. holder'[c] = holder[c] /\ holder[c] \in Shells BY <3>2, <3>4, <4>2 DEF ConvTyped
        <5>2. op[holder[c]].pc \in Conv!InTurn /\ op[holder[c]].conv = c BY <3>4, <5>1 DEF Conv!Claims, Conv!Conv
        <5> QED BY <2>2, <2>3, <5>1, <5>2
      <4> QED BY <4>1, <4>2
    <3> QED BY <3>3, <3>4 DEF Conv!Claims, Conv!Conv
  <2> QED BY <1>3, <2>4, <2>5 DEF ClaimDoes
<1>4. CASE CheckDoes(s)
  <2>1. op[s].pc \in Conv!InTurn BY <1>4 DEF CheckDoes, Conv!InTurn
  <2>2. CASE Quits(s) BY <2>1, <2>2, QuitsClaims
  <2>3. CASE ~Quits(s)
    <3>1. holder' = holder /\ op'[s].pc \in Conv!InTurn /\ op'[s].conv = op[s].conv
      BY <1>4, <2>3 DEF CheckDoes, On, Now, Conv!InTurn
    <3> QED BY <2>1, <3>1, OthersStay, StaysClaims
  <2> QED BY <2>2, <2>3
<1>5. CASE ConsumeDoes(s)
  <2>1. op[s].pc \in Conv!InTurn BY <1>5 DEF ConsumeDoes, Conv!InTurn
  <2>2. CASE Quits(s) BY <2>1, <2>2, QuitsClaims
  <2>3. CASE ~Quits(s)
    <3>1. holder' = holder /\ op'[s].pc \in Conv!InTurn /\ op'[s].conv = op[s].conv
      BY <1>5, <2>3 DEF ConsumeDoes, On, Now, Conv!InTurn
    <3> QED BY <2>1, <3>1, OthersStay, StaysClaims
  <2> QED BY <2>2, <2>3
<1>6. CASE AcquireDoes(s)
  <2>1. op[s].pc \in Conv!InTurn BY <1>6 DEF AcquireDoes, Conv!InTurn
  <2>2. CASE Quits(s) BY <2>1, <2>2, QuitsClaims
  <2>3. CASE ~Quits(s)
    <3>1. holder' = holder /\ op'[s].pc \in Conv!InTurn /\ op'[s].conv = op[s].conv
      BY <1>6, <2>3 DEF AcquireDoes, On, Now, Conv!InTurn
    <3> QED BY <2>1, <3>1, OthersStay, StaysClaims
  <2> QED BY <2>2, <2>3
<1>7. CASE BorrowDoes(s)
  BY <1>7, <1>0, ServicesAssumption DEF BorrowDoes, ConvTyped, Conv!Claims, Conv!Conv, Conv!InTurn, Now, On, Idles, Quits, Writes, Adds
<1>8. CASE LendDoes(s)
  BY <1>8, <1>0, ServicesAssumption DEF LendDoes, ConvTyped, Conv!Claims, Conv!Conv, Conv!InTurn, Now, On, Idles, Quits, Writes, Adds
<1>9. CASE PromptDoes(s)
  BY <1>9, <1>0, ServicesAssumption DEF PromptDoes, ConvTyped, Conv!Claims, Conv!Conv, Conv!InTurn, Now, On, Idles, Quits, Writes, Adds
<1>10. CASE SettlesDoes(s)
  BY <1>10, <1>0, ServicesAssumption DEF SettlesDoes, ConvTyped, Conv!Claims, Conv!Conv, Conv!InTurn, Now, On, Idles, Quits, Writes, Adds
<1>11. CASE RestoreDoes(s)
  BY <1>11, <1>0, ServicesAssumption DEF RestoreDoes, ConvTyped, Conv!Claims, Conv!Conv, Conv!InTurn, Now, On, Idles, Quits, Writes, Adds
<1>12. CASE RecordDoes(s)
  BY <1>12, <1>0, ServicesAssumption DEF RecordDoes, ConvTyped, Conv!Claims, Conv!Conv, Conv!InTurn, Now, On, Idles, Quits, Writes, Adds
<1>13. CASE EndDoes(s)
  <2>1. op[s].pc \in Conv!InTurn BY <1>13 DEF EndDoes, Conv!InTurn
  <2>2. CASE Quits(s) BY <2>1, <2>2, QuitsClaims
  <2> QED BY <1>13, <2>2 DEF EndDoes
<1>14. CASE OtherDoes(s)
  BY <1>14, <1>0, ServicesAssumption DEF OtherDoes, Undisturbed, ConvTyped, Conv!Claims, Conv!Conv, Conv!InTurn, Now, On, Idles, Quits, Writes, Adds
<1>15. CASE ReleaseDoes(s)
  BY <1>15, <1>0, ServicesAssumption DEF ReleaseDoes, ConvTyped, Conv!Claims, Conv!Conv, Conv!InTurn, Now, On, Idles, Quits, Writes, Adds
<1>16. CASE ForgetDoes(s)
  BY <1>16, <1>0, ServicesAssumption DEF ForgetDoes, ConvTyped, Conv!Claims, Conv!Conv, Conv!InTurn, Now, On, Idles, Quits, Writes, Adds
<1>17. CASE ChooseDoes(s)
  BY <1>17, <1>0, ServicesAssumption DEF ChooseDoes, ConvTyped, Conv!Claims, Conv!Conv, Conv!InTurn, Now, On, Idles, Quits, Writes, Adds
<1>18. CASE KeepDoes(s)
  BY <1>18, <1>0, ServicesAssumption DEF KeepDoes, ConvTyped, Conv!Claims, Conv!Conv, Conv!InTurn, Now, On, Idles, Quits, Writes, Adds
<1> QED BY <1>1, <1>2, <1>3, <1>4, <1>5, <1>6, <1>7, <1>8, <1>9, <1>10, <1>11, <1>12, <1>13, <1>14, <1>15, <1>16, <1>17, <1>18 DEF Does

\* A removal or a choice of another shell is where it was.
LEMMA LoneStays ==
  ASSUME ConvTyped, ConvTyped', Conv!Kinds, Conv!Claims, Conv!Lone, NEW s \in Shells, op'[s].pc \notin Conv!InOther,
         \A t \in Shells : t # s => op'[t] = op[t], DOMAIN index \subseteq DOMAIN index',
         \A c \in Conv!Numbers : holder'[c] = Conv!NoShell \/ holder'[c] = holder[c]
  PROVE  Conv!Lone'
<1>1. ASSUME NEW t \in Shells, op'[t].pc \in Conv!InOther
      PROVE  /\ holder'[op'[t].conv] = Conv!NoShell /\ op'[t].conv \in DOMAIN index'
             /\ \A u \in Shells : op'[u].pc \in Conv!InOther /\ op'[u].conv = op'[t].conv => u = t
  <2>1. t # s /\ op'[t] = op[t] BY <1>1
  <2>2. op[t].conv \in Conv!Numbers BY <1>1, <2>1, About DEF Conv!InOther
  <2>3. holder[op[t].conv] = Conv!NoShell /\ op[t].conv \in DOMAIN index BY <1>1, <2>1 DEF Conv!Lone, Conv!Conv, Conv!Stored
  <2>4. ASSUME NEW u \in Shells, op'[u].pc \in Conv!InOther, op'[u].conv = op'[t].conv PROVE u = t
    <3>1. u # s /\ op'[u] = op[u] BY <2>4
    <3> QED BY <1>1, <2>1, <2>4, <3>1 DEF Conv!Lone, Conv!Conv
  <2> QED BY <2>1, <2>2, <2>3, <2>4
<1> QED BY <1>1 DEF Conv!Lone, Conv!Conv, Conv!Stored

LEMMA LoneKept ==
  ASSUME ConvTyped, ConvTyped', Conv!Kinds, Conv!Kinds', Conv!Claims, Conv!Lone, NEW s \in Shells, Does(s)
  PROVE  Conv!Lone'
<1>0. /\ op[s].pc # "idle" => op[s].conv \in Conv!Numbers
      /\ op[s].pc \in Pcs
  BY About, OpFields
<1>1. CASE AskDoes(s)
  BY <1>1, <1>0, ServicesAssumption DEF AskDoes, ConvTyped, Conv!Kinds, Conv!Claims, Conv!Lone, Conv!Conv, Conv!Stored, Conv!InTurn, Conv!InOther, Now, On, Idles, Quits, Writes, Adds
<1>2. CASE RouteDoes(s)
  BY <1>2, <1>0, ServicesAssumption DEF RouteDoes, ConvTyped, Conv!Kinds, Conv!Claims, Conv!Lone, Conv!Conv, Conv!Stored, Conv!InTurn, Conv!InOther, Now, On, Idles, Quits, Writes, Adds
<1>3. CASE ClaimDoes(s) /\ Undisturbed(s, op[s].conv)
  <2>1. CASE holder' = holder /\ Idles(s)
    <3>1. op'[s].pc \notin Conv!InOther BY <2>1 DEF Idles, Now, Conv!InOther
    <3> QED BY <1>3, <2>1, <3>1, OthersStay, LoneStays DEF ClaimDoes
  <2>2. CASE holder' = [holder EXCEPT ![op[s].conv] = s] /\ On(s, "check")
    <3>1. ASSUME NEW t \in Shells, op'[t].pc \in Conv!InOther
          PROVE  /\ holder'[op'[t].conv] = Conv!NoShell /\ op'[t].conv \in DOMAIN index'
                 /\ \A u \in Shells : op'[u].pc \in Conv!InOther /\ op'[u].conv = op'[t].conv => u = t
      <4>1. op'[s].pc \notin Conv!InOther BY <2>2 DEF On, Now, Conv!InOther
      <4>2. t # s /\ op'[t] = op[t] BY <3>1, <4>1, OthersStay
      <4>3. op[t].kind \in {"remove"} \union Conv!Models BY <3>1, <4>2 DEF Conv!Kinds
      <4>4. op[t].conv # op[s].conv BY <1>3, <4>2, <4>3 DEF Undisturbed
      <4>5. op[t].conv \in Conv!Numbers BY <3>1, <4>2, About DEF Conv!InOther
      <4>6. holder'[op[t].conv] = holder[op[t].conv] BY <2>2, <4>4, <4>5 DEF ConvTyped
      <4>7. holder[op[t].conv] = Conv!NoShell /\ op[t].conv \in DOMAIN index BY <3>1, <4>2 DEF Conv!Lone, Conv!Conv, Conv!Stored
      <4>8. ASSUME NEW u \in Shells, op'[u].pc \in Conv!InOther, op'[u].conv = op'[t].conv PROVE u = t
        <5>1. u # s /\ op'[u] = op[u] BY <4>1, <4>8, OthersStay
        <5> QED BY <3>1, <4>2, <4>8, <5>1 DEF Conv!Lone, Conv!Conv
      <4> QED BY <1>3, <4>2, <4>6, <4>7, <4>8 DEF ClaimDoes
    <3> QED BY <3>1 DEF Conv!Lone, Conv!Conv, Conv!Stored
  <2> QED BY <1>3, <2>1, <2>2 DEF ClaimDoes
<1>4. CASE CheckDoes(s)
  <2>1. op'[s].pc \notin Conv!InOther BY <1>4 DEF CheckDoes, On, Now, Quits, Idles, Conv!InOther
  <2>2. DOMAIN index' = DOMAIN index BY <1>4 DEF CheckDoes, Writes
  <2>3. \A c \in Conv!Numbers : holder'[c] = Conv!NoShell \/ holder'[c] = holder[c]
    BY <1>4 DEF CheckDoes, Quits, ConvTyped
  <2> QED BY <2>1, <2>2, <2>3, OthersStay, LoneStays
<1>5. CASE ConsumeDoes(s)
  <2>1. op'[s].pc \notin Conv!InOther BY <1>5 DEF ConsumeDoes, On, Now, Quits, Idles, Conv!InOther
  <2>2. DOMAIN index' = DOMAIN index BY <1>5 DEF ConsumeDoes, Writes
  <2>3. \A c \in Conv!Numbers : holder'[c] = Conv!NoShell \/ holder'[c] = holder[c]
    BY <1>5 DEF ConsumeDoes, Quits, ConvTyped
  <2> QED BY <2>1, <2>2, <2>3, OthersStay, LoneStays
<1>6. CASE AcquireDoes(s)
  <2>1. op'[s].pc \notin Conv!InOther BY <1>6 DEF AcquireDoes, On, Now, Quits, Idles, Conv!InOther
  <2>2. DOMAIN index' = DOMAIN index BY <1>6 DEF AcquireDoes, Writes
  <2>3. \A c \in Conv!Numbers : holder'[c] = Conv!NoShell \/ holder'[c] = holder[c]
    BY <1>6 DEF AcquireDoes, Quits, ConvTyped
  <2> QED BY <2>1, <2>2, <2>3, OthersStay, LoneStays
<1>7. CASE BorrowDoes(s)
  BY <1>7, <1>0, ServicesAssumption DEF BorrowDoes, ConvTyped, Conv!Kinds, Conv!Claims, Conv!Lone, Conv!Conv, Conv!Stored, Conv!InTurn, Conv!InOther, Now, On, Idles, Quits, Writes, Adds
<1>8. CASE LendDoes(s)
  BY <1>8, <1>0, ServicesAssumption DEF LendDoes, ConvTyped, Conv!Kinds, Conv!Claims, Conv!Lone, Conv!Conv, Conv!Stored, Conv!InTurn, Conv!InOther, Now, On, Idles, Quits, Writes, Adds
<1>9. CASE PromptDoes(s)
  BY <1>9, <1>0, ServicesAssumption DEF PromptDoes, ConvTyped, Conv!Kinds, Conv!Claims, Conv!Lone, Conv!Conv, Conv!Stored, Conv!InTurn, Conv!InOther, Now, On, Idles, Quits, Writes, Adds
<1>10. CASE SettlesDoes(s)
  BY <1>10, <1>0, ServicesAssumption DEF SettlesDoes, ConvTyped, Conv!Kinds, Conv!Claims, Conv!Lone, Conv!Conv, Conv!Stored, Conv!InTurn, Conv!InOther, Now, On, Idles, Quits, Writes, Adds
<1>11. CASE RestoreDoes(s)
  BY <1>11, <1>0, ServicesAssumption DEF RestoreDoes, ConvTyped, Conv!Kinds, Conv!Claims, Conv!Lone, Conv!Conv, Conv!Stored, Conv!InTurn, Conv!InOther, Now, On, Idles, Quits, Writes, Adds
<1>12. CASE RecordDoes(s)
  BY <1>12, <1>0, ServicesAssumption DEF RecordDoes, ConvTyped, Conv!Kinds, Conv!Claims, Conv!Lone, Conv!Conv, Conv!Stored, Conv!InTurn, Conv!InOther, Now, On, Idles, Quits, Writes, Adds
<1>13. CASE EndDoes(s)
  BY <1>13, <1>0, ServicesAssumption DEF EndDoes, ConvTyped, Conv!Kinds, Conv!Claims, Conv!Lone, Conv!Conv, Conv!Stored, Conv!InTurn, Conv!InOther, Now, On, Idles, Quits, Writes, Adds
<1>14. CASE OtherDoes(s)
  BY <1>14, <1>0, ServicesAssumption DEF OtherDoes, Undisturbed, ConvTyped, Conv!Kinds, Conv!Claims, Conv!Lone, Conv!Conv, Conv!Stored, Conv!InTurn, Conv!InOther, Now, On, Idles, Quits, Writes, Adds
<1>15. CASE ReleaseDoes(s)
  BY <1>15, <1>0, ServicesAssumption DEF ReleaseDoes, ConvTyped, Conv!Kinds, Conv!Claims, Conv!Lone, Conv!Conv, Conv!Stored, Conv!InTurn, Conv!InOther, Now, On, Idles, Quits, Writes, Adds
<1>16. CASE ForgetDoes(s)
  BY <1>16, <1>0, ServicesAssumption DEF ForgetDoes, ConvTyped, Conv!Kinds, Conv!Claims, Conv!Lone, Conv!Conv, Conv!Stored, Conv!InTurn, Conv!InOther, Now, On, Idles, Quits, Writes, Adds
<1>17. CASE ChooseDoes(s)
  BY <1>17, <1>0, ServicesAssumption, SMTT(40) DEF ChooseDoes, ConvTyped, Conv!Kinds, Conv!Claims, Conv!Lone, Conv!Conv, Conv!Stored, Conv!InTurn, Conv!InOther, Now, On, Idles, Quits, Writes, Adds
<1>18. CASE KeepDoes(s)
  BY <1>18, <1>0, ServicesAssumption DEF KeepDoes, ConvTyped, Conv!Kinds, Conv!Claims, Conv!Lone, Conv!Conv, Conv!Stored, Conv!InTurn, Conv!InOther, Now, On, Idles, Quits, Writes, Adds
<1> QED BY <1>1, <1>2, <1>3, <1>4, <1>5, <1>6, <1>7, <1>8, <1>9, <1>10, <1>11, <1>12, <1>13, <1>14, <1>15, <1>16, <1>17, <1>18 DEF Does

LEMMA KeptKept ==
  ASSUME ConvTyped, ConvTyped', Conv!Kinds, Conv!Claims, Conv!Lone, Conv!Kept, NEW s \in Shells, Does(s)
  PROVE  Conv!Kept'
<1>0. /\ op[s].pc # "idle" => op[s].conv \in Conv!Numbers
      /\ op[s].pc \in Pcs
  BY About, OpFields
<1>1. CASE AskDoes(s)
  BY <1>1, <1>0, ServicesAssumption DEF AskDoes, ConvTyped, Conv!Claims, Conv!Lone, Conv!Kept, Conv!Conv, Conv!Stored, Conv!InTurn, Conv!InOther, Now, On, Idles, Quits, Writes, Adds
<1>2. CASE RouteDoes(s)
  BY <1>2, <1>0, ServicesAssumption DEF RouteDoes, ConvTyped, Conv!Claims, Conv!Lone, Conv!Kept, Conv!Conv, Conv!Stored, Conv!InTurn, Conv!InOther, Now, On, Idles, Quits, Writes, Adds
<1>3. CASE ClaimDoes(s) /\ Undisturbed(s, op[s].conv)
  BY <1>3, <1>0, ServicesAssumption DEF ClaimDoes, Undisturbed, ConvTyped, Conv!Claims, Conv!Lone, Conv!Kept, Conv!Conv, Conv!Stored, Conv!InTurn, Conv!InOther, Now, On, Idles, Quits, Writes, Adds
<1>4. CASE CheckDoes(s)
  BY <1>4, <1>0, ServicesAssumption DEF CheckDoes, ConvTyped, Conv!Claims, Conv!Lone, Conv!Kept, Conv!Conv, Conv!Stored, Conv!InTurn, Conv!InOther, Now, On, Idles, Quits, Writes, Adds
<1>5. CASE ConsumeDoes(s)
  BY <1>5, <1>0, ServicesAssumption DEF ConsumeDoes, ConvTyped, Conv!Claims, Conv!Lone, Conv!Kept, Conv!Conv, Conv!Stored, Conv!InTurn, Conv!InOther, Now, On, Idles, Quits, Writes, Adds
<1>6. CASE AcquireDoes(s)
  BY <1>6, <1>0, ServicesAssumption DEF AcquireDoes, ConvTyped, Conv!Claims, Conv!Lone, Conv!Kept, Conv!Conv, Conv!Stored, Conv!InTurn, Conv!InOther, Now, On, Idles, Quits, Writes, Adds
<1>7. CASE BorrowDoes(s)
  BY <1>7, <1>0, ServicesAssumption DEF BorrowDoes, ConvTyped, Conv!Claims, Conv!Lone, Conv!Kept, Conv!Conv, Conv!Stored, Conv!InTurn, Conv!InOther, Now, On, Idles, Quits, Writes, Adds
<1>8. CASE LendDoes(s)
  BY <1>8, <1>0, ServicesAssumption DEF LendDoes, ConvTyped, Conv!Claims, Conv!Lone, Conv!Kept, Conv!Conv, Conv!Stored, Conv!InTurn, Conv!InOther, Now, On, Idles, Quits, Writes, Adds
<1>9. CASE PromptDoes(s)
  BY <1>9, <1>0, ServicesAssumption DEF PromptDoes, ConvTyped, Conv!Claims, Conv!Lone, Conv!Kept, Conv!Conv, Conv!Stored, Conv!InTurn, Conv!InOther, Now, On, Idles, Quits, Writes, Adds
<1>10. CASE SettlesDoes(s)
  BY <1>10, <1>0, ServicesAssumption DEF SettlesDoes, ConvTyped, Conv!Claims, Conv!Lone, Conv!Kept, Conv!Conv, Conv!Stored, Conv!InTurn, Conv!InOther, Now, On, Idles, Quits, Writes, Adds
<1>11. CASE RestoreDoes(s)
  BY <1>11, <1>0, ServicesAssumption DEF RestoreDoes, ConvTyped, Conv!Claims, Conv!Lone, Conv!Kept, Conv!Conv, Conv!Stored, Conv!InTurn, Conv!InOther, Now, On, Idles, Quits, Writes, Adds
<1>12. CASE RecordDoes(s)
  BY <1>12, <1>0, ServicesAssumption DEF RecordDoes, ConvTyped, Conv!Claims, Conv!Lone, Conv!Kept, Conv!Conv, Conv!Stored, Conv!InTurn, Conv!InOther, Now, On, Idles, Quits, Writes, Adds
<1>13. CASE EndDoes(s)
  BY <1>13, <1>0, ServicesAssumption DEF EndDoes, ConvTyped, Conv!Claims, Conv!Lone, Conv!Kept, Conv!Conv, Conv!Stored, Conv!InTurn, Conv!InOther, Now, On, Idles, Quits, Writes, Adds
<1>14. CASE OtherDoes(s)
  BY <1>14, <1>0, ServicesAssumption DEF OtherDoes, Undisturbed, ConvTyped, Conv!Claims, Conv!Lone, Conv!Kept, Conv!Conv, Conv!Stored, Conv!InTurn, Conv!InOther, Now, On, Idles, Quits, Writes, Adds
<1>15. CASE ReleaseDoes(s)
  BY <1>15, <1>0, ServicesAssumption DEF ReleaseDoes, ConvTyped, Conv!Claims, Conv!Lone, Conv!Kept, Conv!Conv, Conv!Stored, Conv!InTurn, Conv!InOther, Now, On, Idles, Quits, Writes, Adds
<1>16. CASE ForgetDoes(s)
  BY <1>16, <1>0, ServicesAssumption DEF ForgetDoes, ConvTyped, Conv!Claims, Conv!Lone, Conv!Kept, Conv!Conv, Conv!Stored, Conv!InTurn, Conv!InOther, Now, On, Idles, Quits, Writes, Adds
<1>17. CASE ChooseDoes(s)
  BY <1>17, <1>0, ServicesAssumption DEF ChooseDoes, ConvTyped, Conv!Claims, Conv!Lone, Conv!Kept, Conv!Conv, Conv!Stored, Conv!InTurn, Conv!InOther, Now, On, Idles, Quits, Writes, Adds
<1>18. CASE KeepDoes(s)
  BY <1>18, <1>0, ServicesAssumption DEF KeepDoes, ConvTyped, Conv!Claims, Conv!Lone, Conv!Kept, Conv!Conv, Conv!Stored, Conv!InTurn, Conv!InOther, Now, On, Idles, Quits, Writes, Adds
<1> QED BY <1>1, <1>2, <1>3, <1>4, <1>5, <1>6, <1>7, <1>8, <1>9, <1>10, <1>11, <1>12, <1>13, <1>14, <1>15, <1>16, <1>17, <1>18 DEF Does

\* What two operations that wait have to do with one another.
LEMMA Apart ==
  ASSUME ConvTyped, Conv!Kinds, Conv!Claims, Conv!Lone, Conv!Kept, NEW s \in Shells, Does(s)
  PROVE  /\ op[s].pc # "idle" => op[s].conv \in Conv!Numbers
         /\ op[s].pc \in Pcs
         /\ op[s].pc \in Conv!InTurn \ {"check"} => op[s].conv \in DOMAIN index
         /\ op[s].pc \in Conv!InOther => op[s].conv \in DOMAIN index
         /\ \A t \in Shells : t # s /\ op[t].pc \in Conv!InOther /\ op[s].pc \in Conv!InTurn \union Conv!InOther => op[t].conv # op[s].conv
         /\ \A t \in Shells : t # s /\ op[t].pc \in Conv!InTurn /\ op[s].pc \in Conv!InTurn \union Conv!InOther => op[t].conv # op[s].conv
         /\ \A t \in Shells : t # s => op'[t] = op[t]
<1>1. op[s].pc # "idle" => op[s].conv \in Conv!Numbers BY About
<1>2. op[s].pc \in Pcs BY OpFields
<1>3. op[s].pc \in Conv!InTurn \ {"check"} => op[s].conv \in DOMAIN index BY DEF Conv!Kept, Conv!Conv, Conv!Stored
<1>4. op[s].pc \in Conv!InOther => op[s].conv \in DOMAIN index BY DEF Conv!Lone, Conv!Conv, Conv!Stored
<1>5. ASSUME NEW t \in Shells, t # s, op[t].pc \in Conv!InTurn \union Conv!InOther, op[s].pc \in Conv!InTurn \union Conv!InOther
      PROVE  op[t].conv # op[s].conv
  <2>1. \A u \in Shells : op[u].pc \in Conv!InTurn => holder[op[u].conv] = u BY DEF Conv!Claims, Conv!Conv
  <2>2. \A u \in Shells : op[u].pc \in Conv!InOther => holder[op[u].conv] = Conv!NoShell BY DEF Conv!Lone, Conv!Conv
  <2>3. op[t].pc \in Conv!InOther /\ op[s].pc \in Conv!InOther => op[t].conv # op[s].conv BY <1>5 DEF Conv!Lone, Conv!Conv
  <2> QED BY <1>5, <2>1, <2>2, <2>3, ServicesAssumption
<1> QED BY <1>1, <1>2, <1>3, <1>4, <1>5, OthersStay

\* A step leaves the conversations it is not about alone, but for one it makes.
LEMMA Elsewhere ==
  ASSUME ConvTyped, Conv!Kinds, NEW s \in Shells, Does(s), NEW c \in Conv!Numbers,
         c # op[s].conv \/ op[s].pc \in {"idle", "route", "claim"}
  PROVE  /\ warm'[c] = warm[c] /\ chosen'[c] = chosen[c] /\ finished'[c] = finished[c] /\ plan'[c] = plan[c]
         /\ c \in DOMAIN index => c \in DOMAIN index' /\ index'[c] = index[c]
         /\ c \in DOMAIN index' /\ c \notin DOMAIN index =>
              /\ c = made + 1 /\ index'[c].model = "default" /\ index'[c].turns = 0 /\ index'[c].ready = FALSE
<1>0. op[s].pc # "idle" => op[s].conv \in Conv!Numbers BY About
<1>a. c # made + 1 \/ made + 1 \notin Conv!Numbers \/ made + 1 \notin DOMAIN index
  BY ServicesAssumption DEF ConvTyped, Conv!Numbers
<1>1. CASE AskDoes(s)
  BY <1>1, <1>0, <1>a, ServicesAssumption DEF AskDoes, ConvTyped, Conv!InTurn, Conv!InOther, history, Now, On, Idles, Quits, Writes, Adds
<1>2. CASE RouteDoes(s)
  BY <1>2, <1>0, <1>a, ServicesAssumption DEF RouteDoes, ConvTyped, Conv!InTurn, Conv!InOther, history, Now, On, Idles, Quits, Writes, Adds
<1>3. CASE ClaimDoes(s) /\ Undisturbed(s, op[s].conv)
  BY <1>3, <1>0, <1>a, ServicesAssumption DEF ClaimDoes, Undisturbed, ConvTyped, Conv!InTurn, Conv!InOther, history, Now, On, Idles, Quits, Writes, Adds
<1>4. CASE CheckDoes(s)
  BY <1>4, <1>0, <1>a, ServicesAssumption DEF CheckDoes, ConvTyped, Conv!InTurn, Conv!InOther, history, Now, On, Idles, Quits, Writes, Adds
<1>5. CASE ConsumeDoes(s)
  BY <1>5, <1>0, <1>a, ServicesAssumption DEF ConsumeDoes, ConvTyped, Conv!InTurn, Conv!InOther, history, Now, On, Idles, Quits, Writes, Adds
<1>6. CASE AcquireDoes(s)
  BY <1>6, <1>0, <1>a, ServicesAssumption DEF AcquireDoes, ConvTyped, Conv!InTurn, Conv!InOther, history, Now, On, Idles, Quits, Writes, Adds
<1>7. CASE BorrowDoes(s)
  BY <1>7, <1>0, <1>a, ServicesAssumption DEF BorrowDoes, ConvTyped, Conv!InTurn, Conv!InOther, history, Now, On, Idles, Quits, Writes, Adds
<1>8. CASE LendDoes(s)
  BY <1>8, <1>0, <1>a, ServicesAssumption DEF LendDoes, ConvTyped, Conv!InTurn, Conv!InOther, history, Now, On, Idles, Quits, Writes, Adds
<1>9. CASE PromptDoes(s)
  BY <1>9, <1>0, <1>a, ServicesAssumption DEF PromptDoes, ConvTyped, Conv!InTurn, Conv!InOther, history, Now, On, Idles, Quits, Writes, Adds
<1>10. CASE SettlesDoes(s)
  BY <1>10, <1>0, <1>a, ServicesAssumption DEF SettlesDoes, ConvTyped, Conv!InTurn, Conv!InOther, history, Now, On, Idles, Quits, Writes, Adds
<1>11. CASE RestoreDoes(s)
  BY <1>11, <1>0, <1>a, ServicesAssumption DEF RestoreDoes, ConvTyped, Conv!InTurn, Conv!InOther, history, Now, On, Idles, Quits, Writes, Adds
<1>12. CASE RecordDoes(s)
  BY <1>12, <1>0, <1>a, ServicesAssumption DEF RecordDoes, ConvTyped, Conv!InTurn, Conv!InOther, history, Now, On, Idles, Quits, Writes, Adds
<1>13. CASE EndDoes(s)
  BY <1>13, <1>0, <1>a, ServicesAssumption DEF EndDoes, ConvTyped, Conv!InTurn, Conv!InOther, history, Now, On, Idles, Quits, Writes, Adds
<1>14. CASE OtherDoes(s)
  BY <1>14, <1>0, <1>a, ServicesAssumption DEF OtherDoes, Undisturbed, ConvTyped, Conv!InTurn, Conv!InOther, history, Now, On, Idles, Quits, Writes, Adds
<1>15. CASE ReleaseDoes(s)
  BY <1>15, <1>0, <1>a, ServicesAssumption DEF ReleaseDoes, ConvTyped, Conv!InTurn, Conv!InOther, history, Now, On, Idles, Quits, Writes, Adds
<1>16. CASE ForgetDoes(s)
  BY <1>16, <1>0, <1>a, ServicesAssumption DEF ForgetDoes, ConvTyped, Conv!InTurn, Conv!InOther, history, Now, On, Idles, Quits, Writes, Adds
<1>17. CASE ChooseDoes(s)
  BY <1>17, <1>0, <1>a, ServicesAssumption DEF ChooseDoes, ConvTyped, Conv!InTurn, Conv!InOther, history, Now, On, Idles, Quits, Writes, Adds
<1>18. CASE KeepDoes(s)
  BY <1>18, <1>0, <1>a, ServicesAssumption DEF KeepDoes, ConvTyped, Conv!InTurn, Conv!InOther, history, Now, On, Idles, Quits, Writes, Adds
<1> QED BY <1>1, <1>2, <1>3, <1>4, <1>5, <1>6, <1>7, <1>8, <1>9, <1>10, <1>11, <1>12, <1>13, <1>14, <1>15, <1>16, <1>17, <1>18 DEF Does

LEMMA UnmadeKept ==
  ASSUME ConvTyped, Conv!Kinds, Conv!Unmade, NEW s \in Shells, Does(s)
  PROVE  Conv!Unmade'
<1>1. ASSUME NEW c \in Conv!Numbers, c > made'
      PROVE  warm'[c] = Conv!NoModel /\ chosen'[c] = "default" /\ finished'[c] = 0
  <2>1. made \in Nat /\ made' \in Nat /\ made' >= made BY MadeGrows
  <2>2. c > made BY <1>1, <2>1, ServicesAssumption DEF Conv!Numbers
  <2>3. op[s].pc # "idle" => op[s].conv \in 1 .. made BY About
  <2>4. c # op[s].conv \/ op[s].pc \in {"idle", "route", "claim"} BY <2>1, <2>2, <2>3
  <2>5. warm'[c] = warm[c] /\ chosen'[c] = chosen[c] /\ finished'[c] = finished[c] BY <2>4, Elsewhere
  <2> QED BY <2>2, <2>5 DEF Conv!Unmade
<1> QED BY <1>1 DEF Conv!Unmade, Conv!Numbers

LEMMA ChildlessKept ==
  ASSUME ConvTyped, ConvTyped', Conv!Kinds, Conv!Claims, Conv!Lone, Conv!Kept, Conv!Childless, NEW s \in Shells, Does(s)
  PROVE  Conv!Childless'
<1>1. op[s].pc \in {"idle", "route", "claim"} \/ op[s].pc \in Conv!InTurn \union Conv!InOther BY OpFields DEF Pcs
<1>2. ASSUME NEW c \in Conv!Numbers, c \notin DOMAIN index' PROVE warm'[c] = Conv!NoModel
  <2>1. CASE c # op[s].conv \/ op[s].pc \in {"idle", "route", "claim"}
    BY <1>2, <2>1, Elsewhere DEF Conv!Childless, Conv!RemovedIsGone
  <2>2. CASE c = op[s].conv /\ op[s].pc \in Conv!InTurn \union Conv!InOther
    <3>0. /\ op[s].pc \in Conv!InTurn \union Conv!InOther
          /\ c \notin DOMAIN index => warm[c] = Conv!NoModel
          /\ op[s].pc \in (Conv!InTurn \ {"check"}) \union Conv!InOther => c \in DOMAIN index
          /\ op[s].pc = "forget" => warm[c] = Conv!NoModel
      BY <2>2, Apart DEF Conv!Childless, Conv!RemovedIsGone, Conv!At, Conv!Conv
    <3>1. CASE AskDoes(s)
      BY <3>1, <1>2, <2>2, <3>0 DEF AskDoes, ConvTyped, Conv!InTurn, Conv!InOther, Now, On, Idles, Quits, Writes, Adds
    <3>2. CASE RouteDoes(s)
      BY <3>2, <1>2, <2>2, <3>0 DEF RouteDoes, ConvTyped, Conv!InTurn, Conv!InOther, Now, On, Idles, Quits, Writes, Adds
    <3>3. CASE ClaimDoes(s) /\ Undisturbed(s, op[s].conv)
      BY <3>3, <1>2, <2>2, <3>0 DEF ClaimDoes, Undisturbed, ConvTyped, Conv!InTurn, Conv!InOther, Now, On, Idles, Quits, Writes, Adds
    <3>4. CASE CheckDoes(s)
      BY <3>4, <1>2, <2>2, <3>0 DEF CheckDoes, ConvTyped, Conv!InTurn, Conv!InOther, Now, On, Idles, Quits, Writes, Adds
    <3>5. CASE ConsumeDoes(s)
      BY <3>5, <1>2, <2>2, <3>0 DEF ConsumeDoes, ConvTyped, Conv!InTurn, Conv!InOther, Now, On, Idles, Quits, Writes, Adds
    <3>6. CASE AcquireDoes(s)
      BY <3>6, <1>2, <2>2, <3>0 DEF AcquireDoes, ConvTyped, Conv!InTurn, Conv!InOther, Now, On, Idles, Quits, Writes, Adds
    <3>7. CASE BorrowDoes(s)
      BY <3>7, <1>2, <2>2, <3>0 DEF BorrowDoes, ConvTyped, Conv!InTurn, Conv!InOther, Now, On, Idles, Quits, Writes, Adds
    <3>8. CASE LendDoes(s)
      BY <3>8, <1>2, <2>2, <3>0 DEF LendDoes, ConvTyped, Conv!InTurn, Conv!InOther, Now, On, Idles, Quits, Writes, Adds
    <3>9. CASE PromptDoes(s)
      BY <3>9, <1>2, <2>2, <3>0 DEF PromptDoes, ConvTyped, Conv!InTurn, Conv!InOther, Now, On, Idles, Quits, Writes, Adds
    <3>10. CASE SettlesDoes(s)
      BY <3>10, <1>2, <2>2, <3>0 DEF SettlesDoes, ConvTyped, Conv!InTurn, Conv!InOther, Now, On, Idles, Quits, Writes, Adds
    <3>11. CASE RestoreDoes(s)
      BY <3>11, <1>2, <2>2, <3>0 DEF RestoreDoes, ConvTyped, Conv!InTurn, Conv!InOther, Now, On, Idles, Quits, Writes, Adds
    <3>12. CASE RecordDoes(s)
      BY <3>12, <1>2, <2>2, <3>0 DEF RecordDoes, ConvTyped, Conv!InTurn, Conv!InOther, Now, On, Idles, Quits, Writes, Adds
    <3>13. CASE EndDoes(s)
      BY <3>13, <1>2, <2>2, <3>0 DEF EndDoes, ConvTyped, Conv!InTurn, Conv!InOther, Now, On, Idles, Quits, Writes, Adds
    <3>14. CASE OtherDoes(s)
      BY <3>14, <1>2, <2>2, <3>0 DEF OtherDoes, Undisturbed, ConvTyped, Conv!InTurn, Conv!InOther, Now, On, Idles, Quits, Writes, Adds
    <3>15. CASE ReleaseDoes(s)
      BY <3>15, <1>2, <2>2, <3>0 DEF ReleaseDoes, ConvTyped, Conv!InTurn, Conv!InOther, Now, On, Idles, Quits, Writes, Adds
    <3>16. CASE ForgetDoes(s)
      BY <3>16, <1>2, <2>2, <3>0 DEF ForgetDoes, ConvTyped, Conv!InTurn, Conv!InOther, Now, On, Idles, Quits, Writes, Adds
    <3>17. CASE ChooseDoes(s)
      BY <3>17, <1>2, <2>2, <3>0 DEF ChooseDoes, ConvTyped, Conv!InTurn, Conv!InOther, Now, On, Idles, Quits, Writes, Adds
    <3>18. CASE KeepDoes(s)
      BY <3>18, <1>2, <2>2, <3>0 DEF KeepDoes, ConvTyped, Conv!InTurn, Conv!InOther, Now, On, Idles, Quits, Writes, Adds
    <3> QED BY <3>1, <3>2, <3>3, <3>4, <3>5, <3>6, <3>7, <3>8, <3>9, <3>10, <3>11, <3>12, <3>13, <3>14, <3>15, <3>16, <3>17, <3>18 DEF Does
  <2> QED BY <1>1, <2>1, <2>2
<1>3. ASSUME NEW t \in Shells, op'[t].pc = "forget" PROVE warm'[op'[t].conv] = Conv!NoModel
  <2>1. CASE t = s
    <3>0. op[s].pc # "idle" => op[s].conv \in Conv!Numbers BY About
    <3>1. CASE AskDoes(s)
      BY <3>1, <1>3, <2>1, <3>0 DEF AskDoes, ConvTyped, Now, On, Idles, Quits, Writes, Adds
    <3>2. CASE RouteDoes(s)
      BY <3>2, <1>3, <2>1, <3>0 DEF RouteDoes, ConvTyped, Now, On, Idles, Quits, Writes, Adds
    <3>3. CASE ClaimDoes(s) /\ Undisturbed(s, op[s].conv)
      BY <3>3, <1>3, <2>1, <3>0 DEF ClaimDoes, Undisturbed, ConvTyped, Now, On, Idles, Quits, Writes, Adds
    <3>4. CASE CheckDoes(s)
      BY <3>4, <1>3, <2>1, <3>0 DEF CheckDoes, ConvTyped, Now, On, Idles, Quits, Writes, Adds
    <3>5. CASE ConsumeDoes(s)
      BY <3>5, <1>3, <2>1, <3>0 DEF ConsumeDoes, ConvTyped, Now, On, Idles, Quits, Writes, Adds
    <3>6. CASE AcquireDoes(s)
      BY <3>6, <1>3, <2>1, <3>0 DEF AcquireDoes, ConvTyped, Now, On, Idles, Quits, Writes, Adds
    <3>7. CASE BorrowDoes(s)
      BY <3>7, <1>3, <2>1, <3>0 DEF BorrowDoes, ConvTyped, Now, On, Idles, Quits, Writes, Adds
    <3>8. CASE LendDoes(s)
      BY <3>8, <1>3, <2>1, <3>0 DEF LendDoes, ConvTyped, Now, On, Idles, Quits, Writes, Adds
    <3>9. CASE PromptDoes(s)
      BY <3>9, <1>3, <2>1, <3>0 DEF PromptDoes, ConvTyped, Now, On, Idles, Quits, Writes, Adds
    <3>10. CASE SettlesDoes(s)
      BY <3>10, <1>3, <2>1, <3>0 DEF SettlesDoes, ConvTyped, Now, On, Idles, Quits, Writes, Adds
    <3>11. CASE RestoreDoes(s)
      BY <3>11, <1>3, <2>1, <3>0 DEF RestoreDoes, ConvTyped, Now, On, Idles, Quits, Writes, Adds
    <3>12. CASE RecordDoes(s)
      BY <3>12, <1>3, <2>1, <3>0 DEF RecordDoes, ConvTyped, Now, On, Idles, Quits, Writes, Adds
    <3>13. CASE EndDoes(s)
      BY <3>13, <1>3, <2>1, <3>0 DEF EndDoes, ConvTyped, Now, On, Idles, Quits, Writes, Adds
    <3>14. CASE OtherDoes(s)
      BY <3>14, <1>3, <2>1, <3>0 DEF OtherDoes, Undisturbed, ConvTyped, Now, On, Idles, Quits, Writes, Adds
    <3>15. CASE ReleaseDoes(s)
      BY <3>15, <1>3, <2>1, <3>0 DEF ReleaseDoes, ConvTyped, Now, On, Idles, Quits, Writes, Adds
    <3>16. CASE ForgetDoes(s)
      BY <3>16, <1>3, <2>1, <3>0 DEF ForgetDoes, ConvTyped, Now, On, Idles, Quits, Writes, Adds
    <3>17. CASE ChooseDoes(s)
      BY <3>17, <1>3, <2>1, <3>0 DEF ChooseDoes, ConvTyped, Now, On, Idles, Quits, Writes, Adds
    <3>18. CASE KeepDoes(s)
      BY <3>18, <1>3, <2>1, <3>0 DEF KeepDoes, ConvTyped, Now, On, Idles, Quits, Writes, Adds
    <3> QED BY <3>1, <3>2, <3>3, <3>4, <3>5, <3>6, <3>7, <3>8, <3>9, <3>10, <3>11, <3>12, <3>13, <3>14, <3>15, <3>16, <3>17, <3>18 DEF Does
  <2>2. CASE t # s
    <3>1. op'[t] = op[t] /\ op[t].pc = "forget" /\ op[t].conv \in Conv!Numbers BY <1>3, <2>2, OthersStay, About
    <3>2. op[t].conv # op[s].conv \/ op[s].pc \in {"idle", "route", "claim"} BY <1>1, <2>2, <3>1, Apart DEF Conv!InOther
    <3>3. warm[op[t].conv] = Conv!NoModel BY <3>1 DEF Conv!Childless, Conv!At, Conv!Conv
    <3>4. warm'[op[t].conv] = warm[op[t].conv] BY <3>1, <3>2, Elsewhere
    <3> QED BY <3>1, <3>3, <3>4
  <2> QED BY <2>1, <2>2
<1> QED BY <1>2, <1>3 DEF Conv!Childless, Conv!RemovedIsGone, Conv!At, Conv!Conv, Conv!Numbers

LEMMA CountedKept ==
  ASSUME ConvTyped, ConvTyped', Conv!Kinds, Conv!Claims, Conv!Lone, Conv!Kept, Conv!Unmade, Conv!Counted, NEW s \in Shells, Does(s)
  PROVE  Conv!Counted'
<1>1. op[s].pc \in {"idle", "route", "claim"} \/ op[s].pc \in Conv!InTurn \union Conv!InOther BY OpFields DEF Pcs
<1>2. DOMAIN index \subseteq Conv!Numbers /\ DOMAIN index' \subseteq Conv!Numbers
  <2>1. made \in Conv!Numbers /\ DOMAIN index \subseteq 1 .. made BY DEF ConvTyped
  <2>2. made' \in Conv!Numbers /\ DOMAIN index' \subseteq 1 .. made' BY DEF ConvTyped
  <2>3. \A n \in Conv!Numbers : 1 .. n \subseteq Conv!Numbers BY ServicesAssumption DEF Conv!Numbers
  <2> QED BY <2>1, <2>2, <2>3
<1>3. ASSUME NEW c \in DOMAIN index' PROVE finished'[c] <= index'[c].turns
  <2>1. CASE c # op[s].conv \/ op[s].pc \in {"idle", "route", "claim"}
    <3>1. CASE c \in DOMAIN index BY <1>2, <2>1, <3>1, Elsewhere DEF Conv!Counted, Conv!SeenIsStored
    <3>2. CASE c \notin DOMAIN index
      <4>1. c = made + 1 /\ index'[c].turns = 0 /\ finished'[c] = finished[c] BY <1>2, <2>1, <3>2, Elsewhere
      <4>2. finished[c] = 0 BY <1>2, <4>1, ServicesAssumption DEF Conv!Unmade, ConvTyped, Conv!Numbers
      <4> QED BY <4>1, <4>2
    <3> QED BY <3>1, <3>2
  <2>2. CASE c = op[s].conv /\ op[s].pc \in Conv!InTurn \union Conv!InOther
    <3>0. /\ c \in Conv!Numbers /\ finished[c] \in Nat
          /\ c \in DOMAIN index => finished[c] <= index[c].turns /\ index[c].turns \in Nat
          /\ op[s].pc \in (Conv!InTurn \ {"check"}) \union Conv!InOther => c \in DOMAIN index
          /\ op[s].pc = "end" /\ op[s].out = "stop" => finished[c] + 1 <= index[c].turns
      BY <1>2, <2>2, Apart, RecordFields DEF ConvTyped, Conv!Counted, Conv!SeenIsStored, Conv!At, Conv!Conv
    <3>1. CASE AskDoes(s)
      BY <3>1, <1>2, <2>2, <3>0 DEF AskDoes, ConvTyped, Conv!InTurn, Conv!InOther, history, Now, On, Idles, Quits, Writes, Adds
    <3>2. CASE RouteDoes(s)
      BY <3>2, <1>2, <2>2, <3>0 DEF RouteDoes, ConvTyped, Conv!InTurn, Conv!InOther, history, Now, On, Idles, Quits, Writes, Adds
    <3>3. CASE ClaimDoes(s) /\ Undisturbed(s, op[s].conv)
      BY <3>3, <1>2, <2>2, <3>0 DEF ClaimDoes, Undisturbed, ConvTyped, Conv!InTurn, Conv!InOther, history, Now, On, Idles, Quits, Writes, Adds
    <3>4. CASE CheckDoes(s)
      BY <3>4, <1>2, <2>2, <3>0 DEF CheckDoes, ConvTyped, Conv!InTurn, Conv!InOther, history, Now, On, Idles, Quits, Writes, Adds
    <3>5. CASE ConsumeDoes(s)
      BY <3>5, <1>2, <2>2, <3>0 DEF ConsumeDoes, ConvTyped, Conv!InTurn, Conv!InOther, history, Now, On, Idles, Quits, Writes, Adds
    <3>6. CASE AcquireDoes(s)
      BY <3>6, <1>2, <2>2, <3>0 DEF AcquireDoes, ConvTyped, Conv!InTurn, Conv!InOther, history, Now, On, Idles, Quits, Writes, Adds
    <3>7. CASE BorrowDoes(s)
      BY <3>7, <1>2, <2>2, <3>0 DEF BorrowDoes, ConvTyped, Conv!InTurn, Conv!InOther, history, Now, On, Idles, Quits, Writes, Adds
    <3>8. CASE LendDoes(s)
      BY <3>8, <1>2, <2>2, <3>0 DEF LendDoes, ConvTyped, Conv!InTurn, Conv!InOther, history, Now, On, Idles, Quits, Writes, Adds
    <3>9. CASE PromptDoes(s)
      BY <3>9, <1>2, <2>2, <3>0 DEF PromptDoes, ConvTyped, Conv!InTurn, Conv!InOther, history, Now, On, Idles, Quits, Writes, Adds
    <3>10. CASE SettlesDoes(s)
      BY <3>10, <1>2, <2>2, <3>0 DEF SettlesDoes, ConvTyped, Conv!InTurn, Conv!InOther, history, Now, On, Idles, Quits, Writes, Adds
    <3>11. CASE RestoreDoes(s)
      BY <3>11, <1>2, <2>2, <3>0 DEF RestoreDoes, ConvTyped, Conv!InTurn, Conv!InOther, history, Now, On, Idles, Quits, Writes, Adds
    <3>12. CASE RecordDoes(s)
      BY <3>12, <1>2, <2>2, <3>0 DEF RecordDoes, ConvTyped, Conv!InTurn, Conv!InOther, history, Now, On, Idles, Quits, Writes, Adds
    <3>13. CASE EndDoes(s)
      BY <3>13, <1>2, <2>2, <3>0 DEF EndDoes, ConvTyped, Conv!InTurn, Conv!InOther, history, Now, On, Idles, Quits, Writes, Adds
    <3>14. CASE OtherDoes(s)
      BY <3>14, <1>2, <2>2, <3>0 DEF OtherDoes, Undisturbed, ConvTyped, Conv!InTurn, Conv!InOther, history, Now, On, Idles, Quits, Writes, Adds
    <3>15. CASE ReleaseDoes(s)
      BY <3>15, <1>2, <2>2, <3>0 DEF ReleaseDoes, ConvTyped, Conv!InTurn, Conv!InOther, history, Now, On, Idles, Quits, Writes, Adds
    <3>16. CASE ForgetDoes(s)
      BY <3>16, <1>2, <2>2, <3>0 DEF ForgetDoes, ConvTyped, Conv!InTurn, Conv!InOther, history, Now, On, Idles, Quits, Writes, Adds
    <3>17. CASE ChooseDoes(s)
      BY <3>17, <1>2, <2>2, <3>0 DEF ChooseDoes, ConvTyped, Conv!InTurn, Conv!InOther, history, Now, On, Idles, Quits, Writes, Adds
    <3>18. CASE KeepDoes(s)
      BY <3>18, <1>2, <2>2, <3>0 DEF KeepDoes, ConvTyped, Conv!InTurn, Conv!InOther, history, Now, On, Idles, Quits, Writes, Adds
    <3> QED BY <3>1, <3>2, <3>3, <3>4, <3>5, <3>6, <3>7, <3>8, <3>9, <3>10, <3>11, <3>12, <3>13, <3>14, <3>15, <3>16, <3>17, <3>18 DEF Does
  <2> QED BY <1>1, <2>1, <2>2
<1>4. ASSUME NEW t \in Shells, op'[t].pc = "end", op'[t].out = "stop"
      PROVE  finished'[op'[t].conv] + 1 <= index'[op'[t].conv].turns
  <2>1. CASE t = s
    <3>0. /\ op[s].pc # "idle" => op[s].conv \in Conv!Numbers
          /\ op[s].pc = "record" => /\ op[s].conv \in DOMAIN index /\ finished[op[s].conv] <= index[op[s].conv].turns
                                    /\ index[op[s].conv].turns \in Nat /\ finished[op[s].conv] \in Nat
      BY <1>2, Apart, RecordFields DEF ConvTyped, Conv!Counted, Conv!SeenIsStored, Conv!InTurn
    <3>1. CASE AskDoes(s)
      BY <3>1, <1>4, <2>1, <3>0 DEF AskDoes, ConvTyped, history, Now, On, Idles, Quits, Writes, Adds
    <3>2. CASE RouteDoes(s)
      BY <3>2, <1>4, <2>1, <3>0 DEF RouteDoes, ConvTyped, history, Now, On, Idles, Quits, Writes, Adds
    <3>3. CASE ClaimDoes(s) /\ Undisturbed(s, op[s].conv)
      BY <3>3, <1>4, <2>1, <3>0 DEF ClaimDoes, Undisturbed, ConvTyped, history, Now, On, Idles, Quits, Writes, Adds
    <3>4. CASE CheckDoes(s)
      BY <3>4, <1>4, <2>1, <3>0 DEF CheckDoes, ConvTyped, history, Now, On, Idles, Quits, Writes, Adds
    <3>5. CASE ConsumeDoes(s)
      BY <3>5, <1>4, <2>1, <3>0 DEF ConsumeDoes, ConvTyped, history, Now, On, Idles, Quits, Writes, Adds
    <3>6. CASE AcquireDoes(s)
      BY <3>6, <1>4, <2>1, <3>0 DEF AcquireDoes, ConvTyped, history, Now, On, Idles, Quits, Writes, Adds
    <3>7. CASE BorrowDoes(s)
      BY <3>7, <1>4, <2>1, <3>0 DEF BorrowDoes, ConvTyped, history, Now, On, Idles, Quits, Writes, Adds
    <3>8. CASE LendDoes(s)
      BY <3>8, <1>4, <2>1, <3>0 DEF LendDoes, ConvTyped, history, Now, On, Idles, Quits, Writes, Adds
    <3>9. CASE PromptDoes(s)
      BY <3>9, <1>4, <2>1, <3>0 DEF PromptDoes, ConvTyped, history, Now, On, Idles, Quits, Writes, Adds
    <3>10. CASE SettlesDoes(s)
      BY <3>10, <1>4, <2>1, <3>0 DEF SettlesDoes, ConvTyped, history, Now, On, Idles, Quits, Writes, Adds
    <3>11. CASE RestoreDoes(s)
      BY <3>11, <1>4, <2>1, <3>0 DEF RestoreDoes, ConvTyped, history, Now, On, Idles, Quits, Writes, Adds
    <3>12. CASE RecordDoes(s)
      BY <3>12, <1>4, <2>1, <3>0 DEF RecordDoes, ConvTyped, history, Now, On, Idles, Quits, Writes, Adds
    <3>13. CASE EndDoes(s)
      BY <3>13, <1>4, <2>1, <3>0 DEF EndDoes, ConvTyped, history, Now, On, Idles, Quits, Writes, Adds
    <3>14. CASE OtherDoes(s)
      BY <3>14, <1>4, <2>1, <3>0 DEF OtherDoes, Undisturbed, ConvTyped, history, Now, On, Idles, Quits, Writes, Adds
    <3>15. CASE ReleaseDoes(s)
      BY <3>15, <1>4, <2>1, <3>0 DEF ReleaseDoes, ConvTyped, history, Now, On, Idles, Quits, Writes, Adds
    <3>16. CASE ForgetDoes(s)
      BY <3>16, <1>4, <2>1, <3>0 DEF ForgetDoes, ConvTyped, history, Now, On, Idles, Quits, Writes, Adds
    <3>17. CASE ChooseDoes(s)
      BY <3>17, <1>4, <2>1, <3>0 DEF ChooseDoes, ConvTyped, history, Now, On, Idles, Quits, Writes, Adds
    <3>18. CASE KeepDoes(s)
      BY <3>18, <1>4, <2>1, <3>0 DEF KeepDoes, ConvTyped, history, Now, On, Idles, Quits, Writes, Adds
    <3> QED BY <3>1, <3>2, <3>3, <3>4, <3>5, <3>6, <3>7, <3>8, <3>9, <3>10, <3>11, <3>12, <3>13, <3>14, <3>15, <3>16, <3>17, <3>18 DEF Does
  <2>2. CASE t # s
    <3>1. op'[t] = op[t] /\ op[t].pc = "end" /\ op[t].conv \in Conv!Numbers BY <1>4, <2>2, OthersStay, About
    <3>2. op[t].conv # op[s].conv \/ op[s].pc \in {"idle", "route", "claim"} BY <1>1, <2>2, <3>1, Apart DEF Conv!InTurn
    <3>3. op[t].conv \in DOMAIN index BY <3>1 DEF Conv!Kept, Conv!Stored, Conv!Conv, Conv!InTurn
    <3>4. finished[op[t].conv] + 1 <= index[op[t].conv].turns BY <1>4, <3>1 DEF Conv!Counted, Conv!At, Conv!Conv
    <3> QED BY <3>1, <3>2, <3>3, <3>4, Elsewhere
  <2> QED BY <2>1, <2>2
<1> QED BY <1>3, <1>4 DEF Conv!Counted, Conv!SeenIsStored, Conv!At, Conv!Conv

LEMMA ModelsKept ==
  ASSUME ConvTyped, ConvTyped', Conv!Kinds, Conv!Claims, Conv!Lone, Conv!Kept, Conv!Unmade, Conv!ModelsAreKept, NEW s \in Shells, Does(s)
  PROVE  Conv!ModelsAreKept'
<1>1. op[s].pc \in {"idle", "route", "claim"} \/ op[s].pc \in Conv!InTurn \union Conv!InOther BY OpFields DEF Pcs
<1>2. DOMAIN index \subseteq Conv!Numbers /\ DOMAIN index' \subseteq Conv!Numbers
  <2>1. made \in Conv!Numbers /\ DOMAIN index \subseteq 1 .. made BY DEF ConvTyped
  <2>2. made' \in Conv!Numbers /\ DOMAIN index' \subseteq 1 .. made' BY DEF ConvTyped
  <2>3. \A n \in Conv!Numbers : 1 .. n \subseteq Conv!Numbers BY ServicesAssumption DEF Conv!Numbers
  <2> QED BY <2>1, <2>2, <2>3
<1> DEFINE Lent(t) == op[t].pc = "keep" \/ (op[t].pc \in {"prompt", "run", "restore"} /\ op[t].back # Conv!NoModel)
<1>3. \A c \in Conv!Numbers : warm[c] \in {Conv!NoModel, chosen[c]} \/ \E t \in Shells : op[t].conv = c /\ Lent(t)
  BY DEF Conv!ModelsAreKept, Conv!Borrowed, Conv!At, Conv!Conv
<1>4. \A t \in Shells : Lent(t) => op[t].pc \in Conv!InTurn \union Conv!InOther BY DEF Conv!InTurn, Conv!InOther
<1>5. op[s].pc \in Conv!InTurn \union Conv!InOther /\ ~Lent(s) => warm[op[s].conv] \in {Conv!NoModel, chosen[op[s].conv]}
  <2> SUFFICES ASSUME op[s].pc \in Conv!InTurn \union Conv!InOther, ~Lent(s), NEW t \in Shells, op[t].conv = op[s].conv, Lent(t)
               PROVE  FALSE
    BY <1>3, Apart DEF Conv!InTurn, Conv!InOther
  <2> QED BY <1>4, Apart
<1>6. /\ op[s].back # Conv!NoModel => op[s].back = chosen[op[s].conv]
      /\ op[s].pc = "lend" => op[s].back # Conv!NoModel
      /\ op[s].pc \in {"choose", "keep"} => op[s].back = Conv!NoModel
      /\ op[s].pc = "keep" => warm[op[s].conv] = op[s].kind
  BY DEF Conv!ModelsAreKept, Conv!At, Conv!Conv
<1>7. op[s].pc \in Conv!InTurn \union Conv!InOther => op[s].conv \in Conv!Numbers BY About DEF Conv!InTurn, Conv!InOther
<1>8. op[s].pc \in (Conv!InTurn \ {"check"}) \union Conv!InOther => op[s].conv \in DOMAIN index BY Apart
<1>9. \A c \in DOMAIN index : index[c].model = chosen[c] BY DEF Conv!ModelsAreKept
<1>10. ASSUME NEW c \in DOMAIN index' PROVE index'[c].model = chosen'[c]
  <2>1. CASE c # op[s].conv \/ op[s].pc \in {"idle", "route", "claim"}
    <3>1. CASE c \in DOMAIN index BY <1>2, <1>9, <2>1, <3>1, Elsewhere
    <3>2. CASE c \notin DOMAIN index
      <4>1. c = made + 1 /\ index'[c].model = "default" /\ chosen'[c] = chosen[c] BY <1>2, <2>1, <3>2, Elsewhere
      <4>2. chosen[c] = "default" BY <1>2, <4>1, ServicesAssumption DEF Conv!Unmade, ConvTyped, Conv!Numbers
      <4> QED BY <4>1, <4>2
    <3> QED BY <3>1, <3>2
  <2>2. CASE c = op[s].conv /\ op[s].pc \in Conv!InTurn \union Conv!InOther
    <3>1. CASE AskDoes(s)
      BY <3>1, <1>2, <1>5, <1>6, <1>7, <1>8, <1>9, <2>2 DEF AskDoes, ConvTyped, Conv!InTurn, Conv!InOther, history, Now, On, Idles, Quits, Writes, Adds
    <3>2. CASE RouteDoes(s)
      BY <3>2, <1>2, <1>5, <1>6, <1>7, <1>8, <1>9, <2>2 DEF RouteDoes, ConvTyped, Conv!InTurn, Conv!InOther, history, Now, On, Idles, Quits, Writes, Adds
    <3>3. CASE ClaimDoes(s) /\ Undisturbed(s, op[s].conv)
      BY <3>3, <1>2, <1>5, <1>6, <1>7, <1>8, <1>9, <2>2 DEF ClaimDoes, Undisturbed, ConvTyped, Conv!InTurn, Conv!InOther, history, Now, On, Idles, Quits, Writes, Adds
    <3>4. CASE CheckDoes(s)
      BY <3>4, <1>2, <1>5, <1>6, <1>7, <1>8, <1>9, <2>2 DEF CheckDoes, ConvTyped, Conv!InTurn, Conv!InOther, history, Now, On, Idles, Quits, Writes, Adds
    <3>5. CASE ConsumeDoes(s)
      BY <3>5, <1>2, <1>5, <1>6, <1>7, <1>8, <1>9, <2>2 DEF ConsumeDoes, ConvTyped, Conv!InTurn, Conv!InOther, history, Now, On, Idles, Quits, Writes, Adds
    <3>6. CASE AcquireDoes(s)
      BY <3>6, <1>2, <1>5, <1>6, <1>7, <1>8, <1>9, <2>2 DEF AcquireDoes, ConvTyped, Conv!InTurn, Conv!InOther, history, Now, On, Idles, Quits, Writes, Adds
    <3>7. CASE BorrowDoes(s)
      BY <3>7, <1>2, <1>5, <1>6, <1>7, <1>8, <1>9, <2>2 DEF BorrowDoes, ConvTyped, Conv!InTurn, Conv!InOther, history, Now, On, Idles, Quits, Writes, Adds
    <3>8. CASE LendDoes(s)
      BY <3>8, <1>2, <1>5, <1>6, <1>7, <1>8, <1>9, <2>2 DEF LendDoes, ConvTyped, Conv!InTurn, Conv!InOther, history, Now, On, Idles, Quits, Writes, Adds
    <3>9. CASE PromptDoes(s)
      BY <3>9, <1>2, <1>5, <1>6, <1>7, <1>8, <1>9, <2>2 DEF PromptDoes, ConvTyped, Conv!InTurn, Conv!InOther, history, Now, On, Idles, Quits, Writes, Adds
    <3>10. CASE SettlesDoes(s)
      BY <3>10, <1>2, <1>5, <1>6, <1>7, <1>8, <1>9, <2>2 DEF SettlesDoes, ConvTyped, Conv!InTurn, Conv!InOther, history, Now, On, Idles, Quits, Writes, Adds
    <3>11. CASE RestoreDoes(s)
      BY <3>11, <1>2, <1>5, <1>6, <1>7, <1>8, <1>9, <2>2 DEF RestoreDoes, ConvTyped, Conv!InTurn, Conv!InOther, history, Now, On, Idles, Quits, Writes, Adds
    <3>12. CASE RecordDoes(s)
      BY <3>12, <1>2, <1>5, <1>6, <1>7, <1>8, <1>9, <2>2 DEF RecordDoes, ConvTyped, Conv!InTurn, Conv!InOther, history, Now, On, Idles, Quits, Writes, Adds
    <3>13. CASE EndDoes(s)
      BY <3>13, <1>2, <1>5, <1>6, <1>7, <1>8, <1>9, <2>2 DEF EndDoes, ConvTyped, Conv!InTurn, Conv!InOther, history, Now, On, Idles, Quits, Writes, Adds
    <3>14. CASE OtherDoes(s)
      BY <3>14, <1>2, <1>5, <1>6, <1>7, <1>8, <1>9, <2>2 DEF OtherDoes, Undisturbed, ConvTyped, Conv!InTurn, Conv!InOther, history, Now, On, Idles, Quits, Writes, Adds
    <3>15. CASE ReleaseDoes(s)
      BY <3>15, <1>2, <1>5, <1>6, <1>7, <1>8, <1>9, <2>2 DEF ReleaseDoes, ConvTyped, Conv!InTurn, Conv!InOther, history, Now, On, Idles, Quits, Writes, Adds
    <3>16. CASE ForgetDoes(s)
      BY <3>16, <1>2, <1>5, <1>6, <1>7, <1>8, <1>9, <2>2 DEF ForgetDoes, ConvTyped, Conv!InTurn, Conv!InOther, history, Now, On, Idles, Quits, Writes, Adds
    <3>17. CASE ChooseDoes(s)
      BY <3>17, <1>2, <1>5, <1>6, <1>7, <1>8, <1>9, <2>2 DEF ChooseDoes, ConvTyped, Conv!InTurn, Conv!InOther, history, Now, On, Idles, Quits, Writes, Adds
    <3>18. CASE KeepDoes(s)
      BY <3>18, <1>2, <1>5, <1>6, <1>7, <1>8, <1>9, <2>2 DEF KeepDoes, ConvTyped, Conv!InTurn, Conv!InOther, history, Now, On, Idles, Quits, Writes, Adds
    <3> QED BY <3>1, <3>2, <3>3, <3>4, <3>5, <3>6, <3>7, <3>8, <3>9, <3>10, <3>11, <3>12, <3>13, <3>14, <3>15, <3>16, <3>17, <3>18 DEF Does
  <2> QED BY <1>1, <2>1, <2>2
<1>11. ASSUME NEW c \in Conv!Numbers, ~ \E t \in Shells : (op[t].conv = c /\ Lent(t))'
       PROVE  warm'[c] \in {Conv!NoModel, chosen'[c]}
  <2>1. CASE c # op[s].conv \/ op[s].pc \in {"idle", "route", "claim"}
    <3>1. ASSUME NEW t \in Shells, op[t].conv = c, Lent(t) PROVE (op[t].conv = c /\ Lent(t))'
      <4>1. t # s BY <2>1, <3>1
      <4> QED BY <3>1, <4>1, OthersStay
    <3> QED BY <1>3, <1>11, <2>1, <3>1, Elsewhere
  <2>2. CASE c = op[s].conv /\ op[s].pc \in Conv!InTurn \union Conv!InOther
    <3>0. ~(op'[s].conv = c /\ (op'[s].pc = "keep" \/ (op'[s].pc \in {"prompt", "run", "restore"} /\ op'[s].back # Conv!NoModel)))
      BY <1>11
    <3>1. CASE AskDoes(s)
      BY <3>1, <1>5, <1>6, <1>7, <1>8, <1>9, <2>2, <3>0 DEF AskDoes, ConvTyped, Conv!InTurn, Conv!InOther, history, Now, On, Idles, Quits, Writes, Adds
    <3>2. CASE RouteDoes(s)
      BY <3>2, <1>5, <1>6, <1>7, <1>8, <1>9, <2>2, <3>0 DEF RouteDoes, ConvTyped, Conv!InTurn, Conv!InOther, history, Now, On, Idles, Quits, Writes, Adds
    <3>3. CASE ClaimDoes(s) /\ Undisturbed(s, op[s].conv)
      BY <3>3, <1>5, <1>6, <1>7, <1>8, <1>9, <2>2, <3>0 DEF ClaimDoes, Undisturbed, ConvTyped, Conv!InTurn, Conv!InOther, history, Now, On, Idles, Quits, Writes, Adds
    <3>4. CASE CheckDoes(s)
      BY <3>4, <1>5, <1>6, <1>7, <1>8, <1>9, <2>2, <3>0 DEF CheckDoes, ConvTyped, Conv!InTurn, Conv!InOther, history, Now, On, Idles, Quits, Writes, Adds
    <3>5. CASE ConsumeDoes(s)
      BY <3>5, <1>5, <1>6, <1>7, <1>8, <1>9, <2>2, <3>0 DEF ConsumeDoes, ConvTyped, Conv!InTurn, Conv!InOther, history, Now, On, Idles, Quits, Writes, Adds
    <3>6. CASE AcquireDoes(s)
      BY <3>6, <1>5, <1>6, <1>7, <1>8, <1>9, <2>2, <3>0 DEF AcquireDoes, ConvTyped, Conv!InTurn, Conv!InOther, history, Now, On, Idles, Quits, Writes, Adds
    <3>7. CASE BorrowDoes(s)
      BY <3>7, <1>5, <1>6, <1>7, <1>8, <1>9, <2>2, <3>0 DEF BorrowDoes, ConvTyped, Conv!InTurn, Conv!InOther, history, Now, On, Idles, Quits, Writes, Adds
    <3>8. CASE LendDoes(s)
      BY <3>8, <1>5, <1>6, <1>7, <1>8, <1>9, <2>2, <3>0 DEF LendDoes, ConvTyped, Conv!InTurn, Conv!InOther, history, Now, On, Idles, Quits, Writes, Adds
    <3>9. CASE PromptDoes(s)
      BY <3>9, <1>5, <1>6, <1>7, <1>8, <1>9, <2>2, <3>0 DEF PromptDoes, ConvTyped, Conv!InTurn, Conv!InOther, history, Now, On, Idles, Quits, Writes, Adds
    <3>10. CASE SettlesDoes(s)
      BY <3>10, <1>5, <1>6, <1>7, <1>8, <1>9, <2>2, <3>0 DEF SettlesDoes, ConvTyped, Conv!InTurn, Conv!InOther, history, Now, On, Idles, Quits, Writes, Adds
    <3>11. CASE RestoreDoes(s)
      BY <3>11, <1>5, <1>6, <1>7, <1>8, <1>9, <2>2, <3>0 DEF RestoreDoes, ConvTyped, Conv!InTurn, Conv!InOther, history, Now, On, Idles, Quits, Writes, Adds
    <3>12. CASE RecordDoes(s)
      BY <3>12, <1>5, <1>6, <1>7, <1>8, <1>9, <2>2, <3>0 DEF RecordDoes, ConvTyped, Conv!InTurn, Conv!InOther, history, Now, On, Idles, Quits, Writes, Adds
    <3>13. CASE EndDoes(s)
      BY <3>13, <1>5, <1>6, <1>7, <1>8, <1>9, <2>2, <3>0 DEF EndDoes, ConvTyped, Conv!InTurn, Conv!InOther, history, Now, On, Idles, Quits, Writes, Adds
    <3>14. CASE OtherDoes(s)
      BY <3>14, <1>5, <1>6, <1>7, <1>8, <1>9, <2>2, <3>0 DEF OtherDoes, Undisturbed, ConvTyped, Conv!InTurn, Conv!InOther, history, Now, On, Idles, Quits, Writes, Adds
    <3>15. CASE ReleaseDoes(s)
      BY <3>15, <1>5, <1>6, <1>7, <1>8, <1>9, <2>2, <3>0 DEF ReleaseDoes, ConvTyped, Conv!InTurn, Conv!InOther, history, Now, On, Idles, Quits, Writes, Adds
    <3>16. CASE ForgetDoes(s)
      BY <3>16, <1>5, <1>6, <1>7, <1>8, <1>9, <2>2, <3>0 DEF ForgetDoes, ConvTyped, Conv!InTurn, Conv!InOther, history, Now, On, Idles, Quits, Writes, Adds
    <3>17. CASE ChooseDoes(s)
      BY <3>17, <1>5, <1>6, <1>7, <1>8, <1>9, <2>2, <3>0 DEF ChooseDoes, ConvTyped, Conv!InTurn, Conv!InOther, history, Now, On, Idles, Quits, Writes, Adds
    <3>18. CASE KeepDoes(s)
      BY <3>18, <1>5, <1>6, <1>7, <1>8, <1>9, <2>2, <3>0 DEF KeepDoes, ConvTyped, Conv!InTurn, Conv!InOther, history, Now, On, Idles, Quits, Writes, Adds
    <3> QED BY <3>1, <3>2, <3>3, <3>4, <3>5, <3>6, <3>7, <3>8, <3>9, <3>10, <3>11, <3>12, <3>13, <3>14, <3>15, <3>16, <3>17, <3>18 DEF Does
  <2> QED BY <1>1, <2>1, <2>2
<1>12. ASSUME NEW t \in Shells
       PROVE  /\ op'[t].back # Conv!NoModel => op'[t].back = chosen'[op'[t].conv]
              /\ op'[t].pc = "lend" => op'[t].back # Conv!NoModel
              /\ op'[t].pc \in {"choose", "keep"} => op'[t].back = Conv!NoModel
              /\ op'[t].pc = "keep" => warm'[op'[t].conv] = op'[t].kind
  <2>1. CASE t = s
    <3>0. op[s].back # Conv!NoModel => op[s].pc \in Conv!InTurn BY DEF Conv!Kinds
    <3>1. CASE AskDoes(s)
      BY <3>1, <1>5, <1>6, <1>7, <1>8, <2>1, <3>0 DEF AskDoes, ConvTyped, Conv!InTurn, Conv!InOther, history, Now, On, Idles, Quits, Writes, Adds
    <3>2. CASE RouteDoes(s)
      BY <3>2, <1>5, <1>6, <1>7, <1>8, <2>1, <3>0 DEF RouteDoes, ConvTyped, Conv!InTurn, Conv!InOther, history, Now, On, Idles, Quits, Writes, Adds
    <3>3. CASE ClaimDoes(s) /\ Undisturbed(s, op[s].conv)
      BY <3>3, <1>5, <1>6, <1>7, <1>8, <2>1, <3>0 DEF ClaimDoes, Undisturbed, ConvTyped, Conv!InTurn, Conv!InOther, history, Now, On, Idles, Quits, Writes, Adds
    <3>4. CASE CheckDoes(s)
      BY <3>4, <1>5, <1>6, <1>7, <1>8, <2>1, <3>0 DEF CheckDoes, ConvTyped, Conv!InTurn, Conv!InOther, history, Now, On, Idles, Quits, Writes, Adds
    <3>5. CASE ConsumeDoes(s)
      BY <3>5, <1>5, <1>6, <1>7, <1>8, <2>1, <3>0 DEF ConsumeDoes, ConvTyped, Conv!InTurn, Conv!InOther, history, Now, On, Idles, Quits, Writes, Adds
    <3>6. CASE AcquireDoes(s)
      BY <3>6, <1>5, <1>6, <1>7, <1>8, <2>1, <3>0 DEF AcquireDoes, ConvTyped, Conv!InTurn, Conv!InOther, history, Now, On, Idles, Quits, Writes, Adds
    <3>7. CASE BorrowDoes(s)
      BY <3>7, <1>5, <1>6, <1>7, <1>8, <2>1, <3>0 DEF BorrowDoes, ConvTyped, Conv!InTurn, Conv!InOther, history, Now, On, Idles, Quits, Writes, Adds
    <3>8. CASE LendDoes(s)
      BY <3>8, <1>5, <1>6, <1>7, <1>8, <2>1, <3>0 DEF LendDoes, ConvTyped, Conv!InTurn, Conv!InOther, history, Now, On, Idles, Quits, Writes, Adds
    <3>9. CASE PromptDoes(s)
      BY <3>9, <1>5, <1>6, <1>7, <1>8, <2>1, <3>0 DEF PromptDoes, ConvTyped, Conv!InTurn, Conv!InOther, history, Now, On, Idles, Quits, Writes, Adds
    <3>10. CASE SettlesDoes(s)
      BY <3>10, <1>5, <1>6, <1>7, <1>8, <2>1, <3>0 DEF SettlesDoes, ConvTyped, Conv!InTurn, Conv!InOther, history, Now, On, Idles, Quits, Writes, Adds
    <3>11. CASE RestoreDoes(s)
      BY <3>11, <1>5, <1>6, <1>7, <1>8, <2>1, <3>0 DEF RestoreDoes, ConvTyped, Conv!InTurn, Conv!InOther, history, Now, On, Idles, Quits, Writes, Adds
    <3>12. CASE RecordDoes(s)
      BY <3>12, <1>5, <1>6, <1>7, <1>8, <2>1, <3>0 DEF RecordDoes, ConvTyped, Conv!InTurn, Conv!InOther, history, Now, On, Idles, Quits, Writes, Adds
    <3>13. CASE EndDoes(s)
      BY <3>13, <1>5, <1>6, <1>7, <1>8, <2>1, <3>0 DEF EndDoes, ConvTyped, Conv!InTurn, Conv!InOther, history, Now, On, Idles, Quits, Writes, Adds
    <3>14. CASE OtherDoes(s)
      BY <3>14, <1>5, <1>6, <1>7, <1>8, <2>1, <3>0 DEF OtherDoes, Undisturbed, ConvTyped, Conv!InTurn, Conv!InOther, history, Now, On, Idles, Quits, Writes, Adds
    <3>15. CASE ReleaseDoes(s)
      BY <3>15, <1>5, <1>6, <1>7, <1>8, <2>1, <3>0 DEF ReleaseDoes, ConvTyped, Conv!InTurn, Conv!InOther, history, Now, On, Idles, Quits, Writes, Adds
    <3>16. CASE ForgetDoes(s)
      BY <3>16, <1>5, <1>6, <1>7, <1>8, <2>1, <3>0 DEF ForgetDoes, ConvTyped, Conv!InTurn, Conv!InOther, history, Now, On, Idles, Quits, Writes, Adds
    <3>17. CASE ChooseDoes(s)
      BY <3>17, <1>5, <1>6, <1>7, <1>8, <2>1, <3>0 DEF ChooseDoes, ConvTyped, Conv!InTurn, Conv!InOther, history, Now, On, Idles, Quits, Writes, Adds
    <3>18. CASE KeepDoes(s)
      BY <3>18, <1>5, <1>6, <1>7, <1>8, <2>1, <3>0 DEF KeepDoes, ConvTyped, Conv!InTurn, Conv!InOther, history, Now, On, Idles, Quits, Writes, Adds
    <3> QED BY <3>1, <3>2, <3>3, <3>4, <3>5, <3>6, <3>7, <3>8, <3>9, <3>10, <3>11, <3>12, <3>13, <3>14, <3>15, <3>16, <3>17, <3>18 DEF Does
  <2>2. CASE t # s
    <3>1. op'[t] = op[t] BY <2>2, OthersStay
    <3>2. /\ op[t].back # Conv!NoModel => op[t].back = chosen[op[t].conv] /\ op[t].pc \in Conv!InTurn
          /\ op[t].pc = "lend" => op[t].back # Conv!NoModel
          /\ op[t].pc \in {"choose", "keep"} => op[t].back = Conv!NoModel
          /\ op[t].pc = "keep" => warm[op[t].conv] = op[t].kind
      BY DEF Conv!ModelsAreKept, Conv!Kinds, Conv!At, Conv!Conv
    <3>3. CASE op[t].pc \in Conv!InTurn \union Conv!InOther
      <4>1. op[t].conv \in Conv!Numbers BY <3>3, About DEF Conv!InTurn, Conv!InOther
      <4>2. op[t].conv # op[s].conv \/ op[s].pc \in {"idle", "route", "claim"} BY <1>1, <2>2, <3>3, Apart
      <4>3. warm'[op[t].conv] = warm[op[t].conv] /\ chosen'[op[t].conv] = chosen[op[t].conv] BY <4>1, <4>2, Elsewhere
      <4> QED BY <3>1, <3>2, <4>3
    <3>4. CASE op[t].pc \notin Conv!InTurn \union Conv!InOther BY <3>1, <3>2, <3>4 DEF Conv!InTurn, Conv!InOther
    <3> QED BY <3>3, <3>4
  <2> QED BY <2>1, <2>2
<1> QED BY <1>10, <1>11, <1>12 DEF Conv!ModelsAreKept, Conv!Borrowed, Conv!At, Conv!Conv, Conv!Numbers

\* Only under follow does a conversation that exists change its workspace.
LEMMA RootsStay ==
  ASSUME ConvTyped, NEW s \in Shells, Does(s), policy # "follow", NEW c \in DOMAIN index, c \in DOMAIN index'
  PROVE  index'[c].root = index[c].root
<1>0. c # made + 1 BY ServicesAssumption DEF ConvTyped, Conv!Numbers
<1>1. CASE AskDoes(s)
  BY <1>1, <1>0 DEF AskDoes, ConvTyped, Now, On, Idles, Quits, Writes, Adds
<1>2. CASE RouteDoes(s)
  BY <1>2, <1>0 DEF RouteDoes, ConvTyped, Now, On, Idles, Quits, Writes, Adds
<1>3. CASE ClaimDoes(s) /\ Undisturbed(s, op[s].conv)
  BY <1>3, <1>0 DEF ClaimDoes, Undisturbed, ConvTyped, Now, On, Idles, Quits, Writes, Adds
<1>4. CASE CheckDoes(s)
  BY <1>4, <1>0 DEF CheckDoes, ConvTyped, Now, On, Idles, Quits, Writes, Adds
<1>5. CASE ConsumeDoes(s)
  BY <1>5, <1>0 DEF ConsumeDoes, ConvTyped, Now, On, Idles, Quits, Writes, Adds
<1>6. CASE AcquireDoes(s)
  BY <1>6, <1>0 DEF AcquireDoes, ConvTyped, Now, On, Idles, Quits, Writes, Adds
<1>7. CASE BorrowDoes(s)
  BY <1>7, <1>0 DEF BorrowDoes, ConvTyped, Now, On, Idles, Quits, Writes, Adds
<1>8. CASE LendDoes(s)
  BY <1>8, <1>0 DEF LendDoes, ConvTyped, Now, On, Idles, Quits, Writes, Adds
<1>9. CASE PromptDoes(s)
  BY <1>9, <1>0 DEF PromptDoes, ConvTyped, Now, On, Idles, Quits, Writes, Adds
<1>10. CASE SettlesDoes(s)
  BY <1>10, <1>0 DEF SettlesDoes, ConvTyped, Now, On, Idles, Quits, Writes, Adds
<1>11. CASE RestoreDoes(s)
  BY <1>11, <1>0 DEF RestoreDoes, ConvTyped, Now, On, Idles, Quits, Writes, Adds
<1>12. CASE RecordDoes(s)
  BY <1>12, <1>0 DEF RecordDoes, ConvTyped, Now, On, Idles, Quits, Writes, Adds
<1>13. CASE EndDoes(s)
  BY <1>13, <1>0 DEF EndDoes, ConvTyped, Now, On, Idles, Quits, Writes, Adds
<1>14. CASE OtherDoes(s)
  BY <1>14, <1>0 DEF OtherDoes, Undisturbed, ConvTyped, Now, On, Idles, Quits, Writes, Adds
<1>15. CASE ReleaseDoes(s)
  BY <1>15, <1>0 DEF ReleaseDoes, ConvTyped, Now, On, Idles, Quits, Writes, Adds
<1>16. CASE ForgetDoes(s)
  BY <1>16, <1>0 DEF ForgetDoes, ConvTyped, Now, On, Idles, Quits, Writes, Adds
<1>17. CASE ChooseDoes(s)
  BY <1>17, <1>0 DEF ChooseDoes, ConvTyped, Now, On, Idles, Quits, Writes, Adds
<1>18. CASE KeepDoes(s)
  BY <1>18, <1>0 DEF KeepDoes, ConvTyped, Now, On, Idles, Quits, Writes, Adds
<1> QED BY <1>1, <1>2, <1>3, <1>4, <1>5, <1>6, <1>7, <1>8, <1>9, <1>10, <1>11, <1>12, <1>13, <1>14, <1>15, <1>16, <1>17, <1>18 DEF Does

LEMMA StaysGone ==
  ASSUME ConvTyped, NEW s \in Shells, Does(s), NEW c \in DOMAIN index', c # made + 1
  PROVE  c \in DOMAIN index
<1>1. CASE AskDoes(s)
  BY <1>1 DEF AskDoes, Adds, Writes
<1>2. CASE RouteDoes(s)
  BY <1>2 DEF RouteDoes, Adds, Writes
<1>3. CASE ClaimDoes(s) /\ Undisturbed(s, op[s].conv)
  BY <1>3 DEF ClaimDoes, Undisturbed, Adds, Writes
<1>4. CASE CheckDoes(s)
  BY <1>4 DEF CheckDoes, Adds, Writes
<1>5. CASE ConsumeDoes(s)
  BY <1>5 DEF ConsumeDoes, Adds, Writes
<1>6. CASE AcquireDoes(s)
  BY <1>6 DEF AcquireDoes, Adds, Writes
<1>7. CASE BorrowDoes(s)
  BY <1>7 DEF BorrowDoes, Adds, Writes
<1>8. CASE LendDoes(s)
  BY <1>8 DEF LendDoes, Adds, Writes
<1>9. CASE PromptDoes(s)
  BY <1>9 DEF PromptDoes, Adds, Writes
<1>10. CASE SettlesDoes(s)
  BY <1>10 DEF SettlesDoes, Adds, Writes
<1>11. CASE RestoreDoes(s)
  BY <1>11 DEF RestoreDoes, Adds, Writes
<1>12. CASE RecordDoes(s)
  BY <1>12 DEF RecordDoes, Adds, Writes
<1>13. CASE EndDoes(s)
  BY <1>13 DEF EndDoes, Adds, Writes
<1>14. CASE OtherDoes(s)
  BY <1>14 DEF OtherDoes, Undisturbed, Adds, Writes
<1>15. CASE ReleaseDoes(s)
  BY <1>15 DEF ReleaseDoes, Adds, Writes
<1>16. CASE ForgetDoes(s)
  BY <1>16 DEF ForgetDoes, Adds, Writes
<1>17. CASE ChooseDoes(s)
  BY <1>17 DEF ChooseDoes, Adds, Writes
<1>18. CASE KeepDoes(s)
  BY <1>18 DEF KeepDoes, Adds, Writes
<1> QED BY <1>1, <1>2, <1>3, <1>4, <1>5, <1>6, <1>7, <1>8, <1>9, <1>10, <1>11, <1>12, <1>13, <1>14, <1>15, <1>16, <1>17, <1>18 DEF Does

\* Where a turn is.
PlaceOf(t) ==
  /\ op[t].pc \in {"claim"} \union Conv!InTurn /\ (policy # "stay" \/ op[t].kind = "go") => op[t].root = op[t].cwd
  /\ op[t].pc \in {"route", "claim"} \union Conv!InTurn /\ policy = "split" /\ op[t].conv \in DOMAIN index =>
       index[op[t].conv].root = op[t].root
  /\ op[t].pc = "consume" /\ op[t].kind = "go" => index[op[t].conv].root = op[t].root
  /\ op[t].pc \in Conv!InTurn \ {"check", "consume"} => index[op[t].conv].root = op[t].root

LEMMA PlacedKept ==
  ASSUME ConvTyped, ConvTyped', Conv!Kinds, Conv!Claims, Conv!Lone, Conv!Kept, Conv!Placed, NEW s \in Shells, Does(s), policy' = policy,
         policy \in {"follow", "split", "stay"}
  PROVE  Conv!Placed'
<1>1. op[s].pc \in {"idle", "route", "claim"} \/ op[s].pc \in Conv!InTurn \union Conv!InOther BY OpFields DEF Pcs
<1>2. \A t \in Shells : PlaceOf(t) BY DEF Conv!Placed, PlaceOf, Conv!At, Conv!Conv, Conv!Goes, Conv!Stored
<1>3. PlaceOf(s)'
  <2>0. /\ op[s].pc # "idle" => op[s].conv \in 1 .. made /\ op[s].conv # made + 1
        /\ op[s].pc \in (Conv!InTurn \ {"check"}) \union Conv!InOther => op[s].conv \in DOMAIN index
    <3>1. op[s].pc # "idle" => op[s].conv \in 1 .. made BY About
    <3>2. \A c \in 1 .. made : c # made + 1 BY ServicesAssumption DEF ConvTyped, Conv!Numbers
    <3> QED BY <3>1, <3>2, Apart
  <2>1. PlaceOf(s) BY <1>2
  <2>2. CASE AskDoes(s)
    BY <2>2, <2>0, <2>1 DEF AskDoes, ConvTyped, PlaceOf, Conv!InTurn, Conv!InOther, Now, On, Idles, Quits, Writes, Adds
  <2>3. CASE RouteDoes(s)
    BY <2>3, <2>0, <2>1 DEF RouteDoes, ConvTyped, PlaceOf, Conv!InTurn, Conv!InOther, Now, On, Idles, Quits, Writes, Adds
  <2>4. CASE ClaimDoes(s) /\ Undisturbed(s, op[s].conv)
    BY <2>4, <2>0, <2>1 DEF ClaimDoes, Undisturbed, ConvTyped, PlaceOf, Conv!InTurn, Conv!InOther, Now, On, Idles, Quits, Writes, Adds
  <2>5. CASE CheckDoes(s)
    BY <2>5, <2>0, <2>1 DEF CheckDoes, ConvTyped, PlaceOf, Conv!InTurn, Conv!InOther, Now, On, Idles, Quits, Writes, Adds
  <2>6. CASE ConsumeDoes(s)
    <3>1. CASE Quits(s)
      <4>1. op'[s].pc = "idle" BY <3>1 DEF Quits, Idles, Now
      <4> QED BY <4>1 DEF PlaceOf, Conv!InTurn
    <3>2. CASE ~Quits(s)
      <4>1. PICK r \in Roots :
              /\ r = IF policy = "follow" /\ op[s].kind # "go" THEN op[s].root ELSE index[op[s].conv].root
              /\ Writes(op[s].conv, r, FALSE, index[op[s].conv].model, index[op[s].conv].turns)
              /\ Now(s, "acquire", op[s].kind, op[s].conv, op[s].cwd, r, op[s].back, op[s].out)
        BY <2>6, <3>2 DEF ConsumeDoes
      <4>2. /\ op[s].pc = "consume" /\ op[s].conv \in DOMAIN index
            /\ index'[op[s].conv].root = r
        BY <2>6, <4>1 DEF ConsumeDoes, Writes
      <4>3. /\ policy # "stay" \/ op[s].kind = "go" => op[s].root = op[s].cwd
            /\ policy = "split" \/ op[s].kind = "go" => index[op[s].conv].root = op[s].root
        BY <2>1, <4>2 DEF PlaceOf, Conv!InTurn
      <4>4. policy # "stay" \/ op[s].kind = "go" => r = op[s].cwd BY <4>1, <4>3
      <4>5. /\ op'[s].pc = "acquire" /\ op'[s].kind = op[s].kind /\ op'[s].conv = op[s].conv /\ op'[s].cwd = op[s].cwd
            /\ op'[s].root = r
        BY <4>1 DEF Now
      <4> QED BY <4>2, <4>4, <4>5 DEF PlaceOf
    <3> QED BY <3>1, <3>2
  <2>7. CASE AcquireDoes(s)
    BY <2>7, <2>0, <2>1 DEF AcquireDoes, ConvTyped, PlaceOf, Conv!InTurn, Conv!InOther, Now, On, Idles, Quits, Writes, Adds
  <2>8. CASE BorrowDoes(s)
    BY <2>8, <2>0, <2>1 DEF BorrowDoes, ConvTyped, PlaceOf, Conv!InTurn, Conv!InOther, Now, On, Idles, Quits, Writes, Adds
  <2>9. CASE LendDoes(s)
    BY <2>9, <2>0, <2>1 DEF LendDoes, ConvTyped, PlaceOf, Conv!InTurn, Conv!InOther, Now, On, Idles, Quits, Writes, Adds
  <2>10. CASE PromptDoes(s)
    BY <2>10, <2>0, <2>1 DEF PromptDoes, ConvTyped, PlaceOf, Conv!InTurn, Conv!InOther, Now, On, Idles, Quits, Writes, Adds
  <2>11. CASE SettlesDoes(s)
    BY <2>11, <2>0, <2>1 DEF SettlesDoes, ConvTyped, PlaceOf, Conv!InTurn, Conv!InOther, Now, On, Idles, Quits, Writes, Adds
  <2>12. CASE RestoreDoes(s)
    BY <2>12, <2>0, <2>1 DEF RestoreDoes, ConvTyped, PlaceOf, Conv!InTurn, Conv!InOther, Now, On, Idles, Quits, Writes, Adds
  <2>13. CASE RecordDoes(s)
    BY <2>13, <2>0, <2>1 DEF RecordDoes, ConvTyped, PlaceOf, Conv!InTurn, Conv!InOther, Now, On, Idles, Quits, Writes, Adds
  <2>14. CASE EndDoes(s)
    BY <2>14, <2>0, <2>1 DEF EndDoes, ConvTyped, PlaceOf, Conv!InTurn, Conv!InOther, Now, On, Idles, Quits, Writes, Adds
  <2>15. CASE OtherDoes(s)
    BY <2>15, <2>0, <2>1 DEF OtherDoes, Undisturbed, ConvTyped, PlaceOf, Conv!InTurn, Conv!InOther, Now, On, Idles, Quits, Writes, Adds
  <2>16. CASE ReleaseDoes(s)
    BY <2>16, <2>0, <2>1 DEF ReleaseDoes, ConvTyped, PlaceOf, Conv!InTurn, Conv!InOther, Now, On, Idles, Quits, Writes, Adds
  <2>17. CASE ForgetDoes(s)
    BY <2>17, <2>0, <2>1 DEF ForgetDoes, ConvTyped, PlaceOf, Conv!InTurn, Conv!InOther, Now, On, Idles, Quits, Writes, Adds
  <2>18. CASE ChooseDoes(s)
    BY <2>18, <2>0, <2>1 DEF ChooseDoes, ConvTyped, PlaceOf, Conv!InTurn, Conv!InOther, Now, On, Idles, Quits, Writes, Adds
  <2>19. CASE KeepDoes(s)
    BY <2>19, <2>0, <2>1 DEF KeepDoes, ConvTyped, PlaceOf, Conv!InTurn, Conv!InOther, Now, On, Idles, Quits, Writes, Adds
  <2> QED BY <2>2, <2>3, <2>4, <2>5, <2>6, <2>7, <2>8, <2>9, <2>10, <2>11, <2>12, <2>13, <2>14, <2>15, <2>16, <2>17, <2>18, <2>19 DEF Does
<1>4. ASSUME NEW t \in Shells, t # s PROVE PlaceOf(t)'
  <2>1. op'[t] = op[t] /\ PlaceOf(t) BY <1>2, <1>4, OthersStay
  <2>2. CASE op[t].pc \in Conv!InTurn
    <3>1. op[t].conv \in Conv!Numbers /\ op[t].conv \in 1 .. made BY <2>2, About DEF Conv!InTurn
    <3>2. op[t].conv # op[s].conv \/ op[s].pc \in {"idle", "route", "claim"} BY <1>1, <1>4, <2>2, Apart
    <3>3. /\ op[t].conv \in DOMAIN index => op[t].conv \in DOMAIN index' /\ index'[op[t].conv] = index[op[t].conv]
          /\ op[t].conv \in DOMAIN index' => op[t].conv \in DOMAIN index \/ op[t].conv = made + 1
      BY <3>1, <3>2, Elsewhere
    <3>4. op[t].conv # made + 1 BY <3>1, ServicesAssumption, SMTT(40) DEF ConvTyped, Conv!Numbers
    <3>5. op[t].pc # "check" => op[t].conv \in DOMAIN index BY <2>2 DEF Conv!Kept, Conv!Stored, Conv!Conv
    <3> QED BY <2>1, <2>2, <3>3, <3>4, <3>5 DEF PlaceOf
  <2>3. CASE op[t].pc \notin Conv!InTurn
    <3>1. ASSUME op[t].pc \in {"route", "claim"}, policy = "split", op[t].conv \in DOMAIN index'
          PROVE  index'[op[t].conv].root = op[t].root
      <4>1. op[t].conv \in Conv!Numbers /\ op[t].conv \in 1 .. made BY <3>1, About
      <4>2. op[t].conv # made + 1 BY <4>1, ServicesAssumption, SMTT(40) DEF ConvTyped, Conv!Numbers
      <4>3. op[t].conv \in DOMAIN index BY <3>1, <4>2, StaysGone
      <4>4. index[op[t].conv].root = op[t].root BY <2>1, <3>1, <4>3 DEF PlaceOf
      <4> QED BY <3>1, <4>3, <4>4, RootsStay
    <3> QED BY <2>1, <2>3, <3>1 DEF PlaceOf, Conv!InTurn
  <2> QED BY <2>2, <2>3
<1> QED BY <1>3, <1>4 DEF Conv!Placed, PlaceOf, Conv!At, Conv!Conv, Conv!Goes, Conv!Stored

LEMMA PlannedKept ==
  ASSUME ConvTyped, ConvTyped', Conv!Kinds, Conv!Claims, Conv!Lone, Conv!Kept, Conv!Placed, Conv!Planned, NEW s \in Shells, Does(s)
  PROVE  Conv!Planned'
<1>1. op[s].pc \in {"idle", "route", "claim"} \/ op[s].pc \in Conv!InTurn \union Conv!InOther BY OpFields DEF Pcs
<1>2. DOMAIN index \subseteq Conv!Numbers /\ DOMAIN index' \subseteq Conv!Numbers
  <2>1. made \in Conv!Numbers /\ DOMAIN index \subseteq 1 .. made BY DEF ConvTyped
  <2>2. made' \in Conv!Numbers /\ DOMAIN index' \subseteq 1 .. made' BY DEF ConvTyped
  <2>3. \A n \in Conv!Numbers : 1 .. n \subseteq Conv!Numbers BY ServicesAssumption DEF Conv!Numbers
  <2> QED BY <2>1, <2>2, <2>3
<1>3. \A c \in DOMAIN index : index[c].ready => plan[c] = index[c].root BY DEF Conv!Planned
<1>4. \A t \in Shells :
        /\ op[t].pc \in Conv!InTurn \ {"check", "consume", "end"} => ~index[op[t].conv].ready
        /\ op[t].pc \in {"consume", "acquire", "prompt"} /\ op[t].kind = "go" => plan[op[t].conv] = op[t].root
        /\ op[t].pc \in Conv!InTurn \ {"check"} => op[t].conv \in DOMAIN index
        /\ op[t].pc \in {"borrow", "lend"} => op[t].kind = "suggest"
        /\ op[t].pc = "consume" /\ op[t].kind = "go" => index[op[t].conv].root = op[t].root
  BY DEF Conv!Planned, Conv!Kept, Conv!Kinds, Conv!Placed, Conv!At, Conv!Conv, Conv!Goes, Conv!Stored
<1>5. /\ op[s].pc \in (Conv!InTurn \ {"check"}) \union Conv!InOther => op[s].conv \in DOMAIN index
      /\ op[s].pc # "idle" => op[s].conv \in Conv!Numbers
  BY Apart
<1>6. ASSUME NEW c \in DOMAIN index', index'[c].ready PROVE plan'[c] = index'[c].root
  <2>1. CASE c # op[s].conv \/ op[s].pc \in {"idle", "route", "claim"} BY <1>2, <1>3, <1>6, <2>1, Elsewhere, ZenonT(60)
  <2>2. CASE c = op[s].conv /\ op[s].pc \in Conv!InTurn \union Conv!InOther
    <3>1. CASE AskDoes(s)
      BY <3>1, <1>2, <1>3, <1>4, <1>5, <1>6, <2>2 DEF AskDoes, ConvTyped, Conv!InTurn, Conv!InOther, history, Now, On, Idles, Quits, Writes, Adds
    <3>2. CASE RouteDoes(s)
      BY <3>2, <1>2, <1>3, <1>4, <1>5, <1>6, <2>2 DEF RouteDoes, ConvTyped, Conv!InTurn, Conv!InOther, history, Now, On, Idles, Quits, Writes, Adds
    <3>3. CASE ClaimDoes(s) /\ Undisturbed(s, op[s].conv)
      BY <3>3, <1>2, <1>3, <1>4, <1>5, <1>6, <2>2 DEF ClaimDoes, Undisturbed, ConvTyped, Conv!InTurn, Conv!InOther, history, Now, On, Idles, Quits, Writes, Adds
    <3>4. CASE CheckDoes(s)
      BY <3>4, <1>2, <1>3, <1>4, <1>5, <1>6, <2>2 DEF CheckDoes, ConvTyped, Conv!InTurn, Conv!InOther, history, Now, On, Idles, Quits, Writes, Adds
    <3>5. CASE ConsumeDoes(s)
      BY <3>5, <1>2, <1>3, <1>4, <1>5, <1>6, <2>2 DEF ConsumeDoes, ConvTyped, Conv!InTurn, Conv!InOther, history, Now, On, Idles, Quits, Writes, Adds
    <3>6. CASE AcquireDoes(s)
      BY <3>6, <1>2, <1>3, <1>4, <1>5, <1>6, <2>2 DEF AcquireDoes, ConvTyped, Conv!InTurn, Conv!InOther, history, Now, On, Idles, Quits, Writes, Adds
    <3>7. CASE BorrowDoes(s)
      BY <3>7, <1>2, <1>3, <1>4, <1>5, <1>6, <2>2 DEF BorrowDoes, ConvTyped, Conv!InTurn, Conv!InOther, history, Now, On, Idles, Quits, Writes, Adds
    <3>8. CASE LendDoes(s)
      BY <3>8, <1>2, <1>3, <1>4, <1>5, <1>6, <2>2 DEF LendDoes, ConvTyped, Conv!InTurn, Conv!InOther, history, Now, On, Idles, Quits, Writes, Adds
    <3>9. CASE PromptDoes(s)
      BY <3>9, <1>2, <1>3, <1>4, <1>5, <1>6, <2>2 DEF PromptDoes, ConvTyped, Conv!InTurn, Conv!InOther, history, Now, On, Idles, Quits, Writes, Adds
    <3>10. CASE SettlesDoes(s)
      BY <3>10, <1>2, <1>3, <1>4, <1>5, <1>6, <2>2 DEF SettlesDoes, ConvTyped, Conv!InTurn, Conv!InOther, history, Now, On, Idles, Quits, Writes, Adds
    <3>11. CASE RestoreDoes(s)
      BY <3>11, <1>2, <1>3, <1>4, <1>5, <1>6, <2>2 DEF RestoreDoes, ConvTyped, Conv!InTurn, Conv!InOther, history, Now, On, Idles, Quits, Writes, Adds
    <3>12. CASE RecordDoes(s)
      BY <3>12, <1>2, <1>3, <1>4, <1>5, <1>6, <2>2 DEF RecordDoes, ConvTyped, Conv!InTurn, Conv!InOther, history, Now, On, Idles, Quits, Writes, Adds
    <3>13. CASE EndDoes(s)
      BY <3>13, <1>2, <1>3, <1>4, <1>5, <1>6, <2>2 DEF EndDoes, ConvTyped, Conv!InTurn, Conv!InOther, history, Now, On, Idles, Quits, Writes, Adds
    <3>14. CASE OtherDoes(s)
      BY <3>14, <1>2, <1>3, <1>4, <1>5, <1>6, <2>2 DEF OtherDoes, Undisturbed, ConvTyped, Conv!InTurn, Conv!InOther, history, Now, On, Idles, Quits, Writes, Adds
    <3>15. CASE ReleaseDoes(s)
      BY <3>15, <1>2, <1>3, <1>4, <1>5, <1>6, <2>2 DEF ReleaseDoes, ConvTyped, Conv!InTurn, Conv!InOther, history, Now, On, Idles, Quits, Writes, Adds
    <3>16. CASE ForgetDoes(s)
      BY <3>16, <1>2, <1>3, <1>4, <1>5, <1>6, <2>2 DEF ForgetDoes, ConvTyped, Conv!InTurn, Conv!InOther, history, Now, On, Idles, Quits, Writes, Adds
    <3>17. CASE ChooseDoes(s)
      BY <3>17, <1>2, <1>3, <1>4, <1>5, <1>6, <2>2 DEF ChooseDoes, ConvTyped, Conv!InTurn, Conv!InOther, history, Now, On, Idles, Quits, Writes, Adds
    <3>18. CASE KeepDoes(s)
      BY <3>18, <1>2, <1>3, <1>4, <1>5, <1>6, <2>2 DEF KeepDoes, ConvTyped, Conv!InTurn, Conv!InOther, history, Now, On, Idles, Quits, Writes, Adds
    <3> QED BY <3>1, <3>2, <3>3, <3>4, <3>5, <3>6, <3>7, <3>8, <3>9, <3>10, <3>11, <3>12, <3>13, <3>14, <3>15, <3>16, <3>17, <3>18 DEF Does
  <2> QED BY <1>1, <2>1, <2>2
<1>7. ASSUME NEW t \in Shells
      PROVE  /\ op'[t].pc \in Conv!InTurn \ {"check", "consume", "end"} => ~index'[op'[t].conv].ready
             /\ op'[t].pc \in {"consume", "acquire", "prompt"} /\ op'[t].kind = "go" => plan'[op'[t].conv] = op'[t].root
  <2>1. CASE t = s
    <3>1. CASE AskDoes(s)
      BY <3>1, <1>3, <1>4, <1>5, <2>1 DEF AskDoes, ConvTyped, Conv!InTurn, Conv!InOther, history, Now, On, Idles, Quits, Writes, Adds
    <3>2. CASE RouteDoes(s)
      BY <3>2, <1>3, <1>4, <1>5, <2>1 DEF RouteDoes, ConvTyped, Conv!InTurn, Conv!InOther, history, Now, On, Idles, Quits, Writes, Adds
    <3>3. CASE ClaimDoes(s) /\ Undisturbed(s, op[s].conv)
      BY <3>3, <1>3, <1>4, <1>5, <2>1 DEF ClaimDoes, Undisturbed, ConvTyped, Conv!InTurn, Conv!InOther, history, Now, On, Idles, Quits, Writes, Adds
    <3>4. CASE CheckDoes(s)
      BY <3>4, <1>3, <1>4, <1>5, <2>1 DEF CheckDoes, ConvTyped, Conv!InTurn, Conv!InOther, history, Now, On, Idles, Quits, Writes, Adds
    <3>5. CASE ConsumeDoes(s)
      BY <3>5, <1>3, <1>4, <1>5, <2>1 DEF ConsumeDoes, ConvTyped, Conv!InTurn, Conv!InOther, history, Now, On, Idles, Quits, Writes, Adds
    <3>6. CASE AcquireDoes(s)
      BY <3>6, <1>3, <1>4, <1>5, <2>1 DEF AcquireDoes, ConvTyped, Conv!InTurn, Conv!InOther, history, Now, On, Idles, Quits, Writes, Adds
    <3>7. CASE BorrowDoes(s)
      BY <3>7, <1>3, <1>4, <1>5, <2>1 DEF BorrowDoes, ConvTyped, Conv!InTurn, Conv!InOther, history, Now, On, Idles, Quits, Writes, Adds
    <3>8. CASE LendDoes(s)
      BY <3>8, <1>3, <1>4, <1>5, <2>1 DEF LendDoes, ConvTyped, Conv!InTurn, Conv!InOther, history, Now, On, Idles, Quits, Writes, Adds
    <3>9. CASE PromptDoes(s)
      BY <3>9, <1>3, <1>4, <1>5, <2>1 DEF PromptDoes, ConvTyped, Conv!InTurn, Conv!InOther, history, Now, On, Idles, Quits, Writes, Adds
    <3>10. CASE SettlesDoes(s)
      BY <3>10, <1>3, <1>4, <1>5, <2>1 DEF SettlesDoes, ConvTyped, Conv!InTurn, Conv!InOther, history, Now, On, Idles, Quits, Writes, Adds
    <3>11. CASE RestoreDoes(s)
      BY <3>11, <1>3, <1>4, <1>5, <2>1 DEF RestoreDoes, ConvTyped, Conv!InTurn, Conv!InOther, history, Now, On, Idles, Quits, Writes, Adds
    <3>12. CASE RecordDoes(s)
      BY <3>12, <1>3, <1>4, <1>5, <2>1 DEF RecordDoes, ConvTyped, Conv!InTurn, Conv!InOther, history, Now, On, Idles, Quits, Writes, Adds
    <3>13. CASE EndDoes(s)
      BY <3>13, <1>3, <1>4, <1>5, <2>1 DEF EndDoes, ConvTyped, Conv!InTurn, Conv!InOther, history, Now, On, Idles, Quits, Writes, Adds
    <3>14. CASE OtherDoes(s)
      BY <3>14, <1>3, <1>4, <1>5, <2>1 DEF OtherDoes, Undisturbed, ConvTyped, Conv!InTurn, Conv!InOther, history, Now, On, Idles, Quits, Writes, Adds
    <3>15. CASE ReleaseDoes(s)
      BY <3>15, <1>3, <1>4, <1>5, <2>1 DEF ReleaseDoes, ConvTyped, Conv!InTurn, Conv!InOther, history, Now, On, Idles, Quits, Writes, Adds
    <3>16. CASE ForgetDoes(s)
      BY <3>16, <1>3, <1>4, <1>5, <2>1 DEF ForgetDoes, ConvTyped, Conv!InTurn, Conv!InOther, history, Now, On, Idles, Quits, Writes, Adds
    <3>17. CASE ChooseDoes(s)
      BY <3>17, <1>3, <1>4, <1>5, <2>1 DEF ChooseDoes, ConvTyped, Conv!InTurn, Conv!InOther, history, Now, On, Idles, Quits, Writes, Adds
    <3>18. CASE KeepDoes(s)
      BY <3>18, <1>3, <1>4, <1>5, <2>1 DEF KeepDoes, ConvTyped, Conv!InTurn, Conv!InOther, history, Now, On, Idles, Quits, Writes, Adds
    <3> QED BY <3>1, <3>2, <3>3, <3>4, <3>5, <3>6, <3>7, <3>8, <3>9, <3>10, <3>11, <3>12, <3>13, <3>14, <3>15, <3>16, <3>17, <3>18 DEF Does
  <2>2. CASE t # s
    <3>1. op'[t] = op[t] BY <2>2, OthersStay
    <3>2. CASE op[t].pc \in Conv!InTurn \ {"check"}
      <4>1. op[t].conv \in DOMAIN index /\ op[t].conv \in Conv!Numbers BY <1>2, <1>4, <3>2
      <4>2. op[t].conv # op[s].conv \/ op[s].pc \in {"idle", "route", "claim"} BY <1>1, <2>2, <3>2, Apart
      <4>3. plan'[op[t].conv] = plan[op[t].conv] /\ index'[op[t].conv] = index[op[t].conv] BY <4>1, <4>2, Elsewhere
      <4> QED BY <1>4, <3>1, <4>3
    <3>3. CASE op[t].pc \notin Conv!InTurn \ {"check"} BY <3>1, <3>3 DEF Conv!InTurn
    <3> QED BY <3>2, <3>3
  <2> QED BY <2>1, <2>2
<1> QED BY <1>6, <1>7 DEF Conv!Planned, Conv!At, Conv!Conv, Conv!Goes

\* An operation does all of this at once.
LEMMA StepKeeps ==
  ASSUME ConvTyped, ConvTyped', Conv!ConvInductive, NEW s \in Shells, Does(s), policy' = policy,
         policy \in {"follow", "split", "stay"}
  PROVE  Conv!ConvInductive'
<1>1. /\ Conv!Kinds /\ Conv!Claims /\ Conv!Lone /\ Conv!Kept /\ Conv!Unmade /\ Conv!ModelsAreKept /\ Conv!Childless
      /\ Conv!Counted /\ Conv!Placed /\ Conv!Planned
  BY DEF Conv!ConvInductive
<1>2. Conv!Kinds' BY <1>1, KindsKept
<1>3. Conv!Claims' BY <1>1, ClaimsKept
<1>4. Conv!Lone' BY <1>1, <1>2, LoneKept
<1>5. Conv!Kept' BY <1>1, KeptKept
<1>6. Conv!Unmade' BY <1>1, UnmadeKept
<1>7. Conv!ModelsAreKept' BY <1>1, ModelsKept
<1>8. Conv!Childless' BY <1>1, ChildlessKept
<1>9. Conv!Counted' BY <1>1, CountedKept
<1>10. Conv!Placed' BY <1>1, PlacedKept
<1>11. Conv!Planned' BY <1>1, PlannedKept
<1> QED BY <1>2, <1>3, <1>4, <1>5, <1>6, <1>7, <1>8, <1>9, <1>10, <1>11 DEF Conv!ConvInductive

\* The idle timer takes the child of a conversation nobody uses.
LEMMA EvictKeeps ==
  ASSUME ConvTyped, Conv!ConvInductive, EvictDoes, policy' = policy
  PROVE  Conv!ConvInductive'
<1>0. /\ Conv!Kinds /\ Conv!Claims /\ Conv!Lone /\ Conv!Kept /\ Conv!Unmade /\ Conv!ModelsAreKept /\ Conv!Childless
      /\ Conv!Counted /\ Conv!Placed /\ Conv!Planned
  BY DEF Conv!ConvInductive
<1>1. Conv!Kinds' BY <1>0 DEF Conv!Kinds, Conv!At, Conv!Conv, Conv!Goes, Conv!Stored, EvictDoes, ConvTyped, history
<1>2. Conv!Claims' BY <1>0 DEF Conv!Claims, Conv!At, Conv!Conv, Conv!Goes, Conv!Stored, EvictDoes, ConvTyped, history
<1>3. Conv!Lone' BY <1>0 DEF Conv!Lone, Conv!At, Conv!Conv, Conv!Goes, Conv!Stored, EvictDoes, ConvTyped, history
<1>4. Conv!Kept' BY <1>0 DEF Conv!Kept, Conv!At, Conv!Conv, Conv!Goes, Conv!Stored, EvictDoes, ConvTyped, history
<1>5. Conv!Unmade' BY <1>0 DEF Conv!Unmade, Conv!At, Conv!Conv, Conv!Goes, Conv!Stored, EvictDoes, ConvTyped, history
<1>6. Conv!ModelsAreKept' BY <1>0 DEF Conv!ModelsAreKept, Conv!At, Conv!Conv, Conv!Goes, Conv!Stored, Conv!Borrowed, EvictDoes, ConvTyped, history
<1>7. Conv!Childless' BY <1>0 DEF Conv!Childless, Conv!At, Conv!Conv, Conv!Goes, Conv!Stored, Conv!RemovedIsGone, EvictDoes, ConvTyped, history
<1>8. Conv!Counted' BY <1>0 DEF Conv!Counted, Conv!At, Conv!Conv, Conv!Goes, Conv!Stored, Conv!SeenIsStored, EvictDoes, ConvTyped, history
<1>9. Conv!Placed' BY <1>0 DEF Conv!Placed, Conv!At, Conv!Conv, Conv!Goes, Conv!Stored, EvictDoes, ConvTyped, history
<1>10. Conv!Planned' BY <1>0 DEF Conv!Planned, Conv!At, Conv!Conv, Conv!Goes, Conv!Stored, EvictDoes, ConvTyped, history
<1> QED BY <1>1, <1>2, <1>3, <1>4, <1>5, <1>6, <1>7, <1>8, <1>9, <1>10 DEF Conv!ConvInductive

\* After a crash nobody waits for anything.
LEMMA CrashKeeps ==
  ASSUME ConvTyped, Conv!ConvInductive, CrashDoes, policy' = policy
  PROVE  Conv!ConvInductive'
<1>0. /\ Conv!Kinds /\ Conv!Claims /\ Conv!Lone /\ Conv!Kept /\ Conv!Unmade /\ Conv!ModelsAreKept /\ Conv!Childless
      /\ Conv!Counted /\ Conv!Placed /\ Conv!Planned
  BY DEF Conv!ConvInductive
<1>1. Conv!Kinds' BY <1>0 DEF Conv!Kinds, Conv!At, Conv!Conv, Conv!Goes, Conv!Stored, CrashDoes, ConvTyped, history, Conv!InTurn, Conv!InOther
<1>2. Conv!Claims' BY <1>0 DEF Conv!Claims, Conv!At, Conv!Conv, Conv!Goes, Conv!Stored, CrashDoes, ConvTyped, history, Conv!InTurn, Conv!InOther
<1>3. Conv!Lone' BY <1>0 DEF Conv!Lone, Conv!At, Conv!Conv, Conv!Goes, Conv!Stored, CrashDoes, ConvTyped, history, Conv!InTurn, Conv!InOther
<1>4. Conv!Kept' BY <1>0 DEF Conv!Kept, Conv!At, Conv!Conv, Conv!Goes, Conv!Stored, CrashDoes, ConvTyped, history, Conv!InTurn, Conv!InOther
<1>5. Conv!Unmade' BY <1>0 DEF Conv!Unmade, Conv!At, Conv!Conv, Conv!Goes, Conv!Stored, CrashDoes, ConvTyped, history, Conv!InTurn, Conv!InOther
<1>6. Conv!ModelsAreKept' BY <1>0 DEF Conv!ModelsAreKept, Conv!At, Conv!Conv, Conv!Goes, Conv!Stored, Conv!Borrowed, CrashDoes, ConvTyped, history, Conv!InTurn, Conv!InOther
<1>7. Conv!Childless' BY <1>0 DEF Conv!Childless, Conv!At, Conv!Conv, Conv!Goes, Conv!Stored, Conv!RemovedIsGone, CrashDoes, ConvTyped, history, Conv!InTurn, Conv!InOther
<1>8. Conv!Counted' BY <1>0 DEF Conv!Counted, Conv!At, Conv!Conv, Conv!Goes, Conv!Stored, Conv!SeenIsStored, CrashDoes, ConvTyped, history, Conv!InTurn, Conv!InOther
<1>9. Conv!Placed' BY <1>0 DEF Conv!Placed, Conv!At, Conv!Conv, Conv!Goes, Conv!Stored, CrashDoes, ConvTyped, history, Conv!InTurn, Conv!InOther
<1>10. Conv!Planned' BY <1>0 DEF Conv!Planned, Conv!At, Conv!Conv, Conv!Goes, Conv!Stored, CrashDoes, ConvTyped, history, Conv!InTurn, Conv!InOther
<1> QED BY <1>1, <1>2, <1>3, <1>4, <1>5, <1>6, <1>7, <1>8, <1>9, <1>10 DEF Conv!ConvInductive

LEMMA StutterKeeps ==
  ASSUME ConvTyped, Conv!ConvInductive, UNCHANGED convVars
  PROVE  Conv!ConvInductive' /\ ConvTyped'
<1>0. /\ Conv!Kinds /\ Conv!Claims /\ Conv!Lone /\ Conv!Kept /\ Conv!Unmade /\ Conv!ModelsAreKept /\ Conv!Childless
      /\ Conv!Counted /\ Conv!Placed /\ Conv!Planned
  BY DEF Conv!ConvInductive
<1>1. Conv!Kinds' BY <1>0 DEF Conv!Kinds, Conv!At, Conv!Conv, Conv!Goes, Conv!Stored, convVars
<1>2. Conv!Claims' BY <1>0 DEF Conv!Claims, Conv!At, Conv!Conv, Conv!Goes, Conv!Stored, convVars
<1>3. Conv!Lone' BY <1>0 DEF Conv!Lone, Conv!At, Conv!Conv, Conv!Goes, Conv!Stored, convVars
<1>4. Conv!Kept' BY <1>0 DEF Conv!Kept, Conv!At, Conv!Conv, Conv!Goes, Conv!Stored, convVars
<1>5. Conv!Unmade' BY <1>0 DEF Conv!Unmade, Conv!At, Conv!Conv, Conv!Goes, Conv!Stored, convVars
<1>6. Conv!ModelsAreKept' BY <1>0 DEF Conv!ModelsAreKept, Conv!At, Conv!Conv, Conv!Goes, Conv!Stored, Conv!Borrowed, convVars
<1>7. Conv!Childless' BY <1>0 DEF Conv!Childless, Conv!At, Conv!Conv, Conv!Goes, Conv!Stored, Conv!RemovedIsGone, convVars
<1>8. Conv!Counted' BY <1>0 DEF Conv!Counted, Conv!At, Conv!Conv, Conv!Goes, Conv!Stored, Conv!SeenIsStored, convVars
<1>9. Conv!Placed' BY <1>0 DEF Conv!Placed, Conv!At, Conv!Conv, Conv!Goes, Conv!Stored, convVars
<1>10. Conv!Planned' BY <1>0 DEF Conv!Planned, Conv!At, Conv!Conv, Conv!Goes, Conv!Stored, convVars
<1>11. ConvTyped' BY DEF ConvTyped, convVars
<1> QED BY <1>11, <1>1, <1>2, <1>3, <1>4, <1>5, <1>6, <1>7, <1>8, <1>9, <1>10 DEF Conv!ConvInductive

-----------------------------------------------------------------------------
(* Initially.                                                               *)

LEMMA ConvStarts ==
  ASSUME Conv!ConvInit
  PROVE  ConvTyped /\ Conv!ConvInductive /\ policy \in {"follow", "split", "stay"}
<1>0. PICK planned \in BOOLEAN : LET r == CHOOSE r \in Roots : TRUE IN
        /\ index = [c \in {1} |-> IF planned THEN [Conv!Fresh(r) EXCEPT !.persona = "plan", !.ready = TRUE] ELSE Conv!Fresh(r)]
        /\ plan = [c \in Conv!Numbers |-> IF planned /\ c = 1 THEN r ELSE Conv!NoRoot]
  BY DEF Conv!ConvInit
<1> DEFINE r == CHOOSE r \in Roots : TRUE
<1>1. r \in Roots BY ServicesAssumption
<1> HIDE DEF r
<1>2. Conv!Fresh(r) \in Records BY <1>1, Sets DEF Conv!Fresh, Records
<1>3. [Conv!Fresh(r) EXCEPT !.persona = "plan"] \in Records BY <1>2, Sets DEF Records
<1>4. [[Conv!Fresh(r) EXCEPT !.persona = "plan"] EXCEPT !.ready = TRUE] \in Records BY <1>3 DEF Records
<1>5. /\ Conv!Fresh(r).root = r /\ Conv!Fresh(r).ready = FALSE
      /\ Conv!Fresh(r).model = "default" /\ Conv!Fresh(r).turns = 0
  BY DEF Conv!Fresh
<1>6. /\ DOMAIN index = {1} /\ index[1] \in Records /\ index[1].root = r /\ index[1].model = "default" /\ index[1].turns = 0
      /\ index[1].ready => planned
  <2>1. CASE planned BY <1>0, <1>2, <1>4, <1>5, <2>1 DEF Records, r
  <2>2. CASE ~planned BY <1>0, <1>2, <1>5, <2>2 DEF r
  <2> QED BY <2>1, <2>2
<1>7. 1 \in Conv!Numbers BY ServicesAssumption DEF Conv!Numbers
<1>8. /\ plan \in [Conv!Numbers -> Places]
      /\ planned => plan[1] = r
  BY <1>0, <1>1, <1>7, Sets DEF r
<1>9. Conv!Idle \in Operations BY Names, Sets DEF Conv!Idle, Operations
<1>10. /\ Conv!Idle.pc = "idle" /\ Conv!Idle.conv = 0 /\ Conv!Idle.back = Conv!NoModel BY DEF Conv!Idle
<1>11. /\ policy \in {"follow", "split", "stay"} /\ made = 1 /\ begun = 0 /\ crashes = 0
       /\ warm = [c \in Conv!Numbers |-> Conv!NoModel] /\ holder = [c \in Conv!Numbers |-> Conv!NoShell]
       /\ op = [s \in Shells |-> Conv!Idle] /\ chosen = [c \in Conv!Numbers |-> "default"]
       /\ finished = [c \in Conv!Numbers |-> 0] /\ spent = [c \in Conv!Numbers |-> 0]
  BY DEF Conv!ConvInit
<1>12. ConvTyped
  <2>1. made \in Conv!Numbers /\ begun \in Nat /\ crashes \in Nat BY <1>7, <1>11
  <2>2. DOMAIN index \subseteq 1 .. made /\ \A c \in DOMAIN index : index[c] \in Records BY <1>6, <1>11
  <2>3. warm \in [Conv!Numbers -> Backs] /\ chosen \in [Conv!Numbers -> Conv!Models] BY <1>11, Sets
  <2>4. holder \in [Conv!Numbers -> Shells \union {Conv!NoShell}] BY <1>11
  <2>5. op \in [Shells -> Operations] BY <1>9, <1>11
  <2>6. finished \in [Conv!Numbers -> Nat] /\ spent \in [Conv!Numbers -> Nat] BY <1>11
  <2> QED BY <1>8, <2>1, <2>2, <2>3, <2>4, <2>5, <2>6 DEF ConvTyped
<1>13. \A s \in Shells : op[s].pc = "idle" /\ op[s].conv = 0 /\ op[s].back = Conv!NoModel BY <1>10, <1>11
<1>14. Conv!Kinds /\ Conv!Claims /\ Conv!Lone /\ Conv!Kept /\ Conv!Placed
  BY <1>11, <1>13 DEF Conv!Kinds, Conv!Claims, Conv!Lone, Conv!Kept, Conv!Placed, Conv!At, Conv!Conv, Conv!InTurn, Conv!InOther
<1>15. Conv!Unmade BY <1>11 DEF Conv!Unmade
<1>16. Conv!ModelsAreKept BY <1>6, <1>7, <1>11, <1>13 DEF Conv!ModelsAreKept, Conv!At
<1>17. Conv!Childless /\ Conv!Counted
  BY <1>6, <1>7, <1>11, <1>13 DEF Conv!Childless, Conv!RemovedIsGone, Conv!Counted, Conv!SeenIsStored, Conv!At
<1>18. Conv!Planned
  <2>1. \A c \in DOMAIN index : index[c].ready => plan[c] = index[c].root BY <1>6, <1>8
  <2>2. \A s \in Shells : op[s].pc \notin Conv!InTurn \union {"consume", "acquire", "prompt"} BY <1>13 DEF Conv!InTurn
  <2> QED BY <2>1, <2>2 DEF Conv!Planned
<1> QED BY <1>11, <1>12, <1>14, <1>15, <1>16, <1>17, <1>18 DEF Conv!ConvInductive

-----------------------------------------------------------------------------
(* The conversations, with the other parts beside them.                     *)

ConvScene == scene = "conversation" => Conv!ConvTypes /\ Conv!ConvInductive

LEMMA ConvKeeps ==
  ASSUME ConvTyped, Conv!ConvInductive, policy \in {"follow", "split", "stay"}, Conv!ConvNext
  PROVE  ConvTyped' /\ Conv!ConvInductive' /\ policy' = policy
<1>1. Conv!Kinds BY DEF Conv!ConvInductive
<1>2. (\E s \in Shells : ConvStep(s)) \/ Conv!Evict \/ Conv!Crash BY DEF Conv!ConvNext, ConvStep, Conv!Conv
<1>3. begun' \in Nat /\ crashes' \in Nat /\ policy' = policy BY <1>2, Counters
<1>4. ASSUME NEW s \in Shells, ConvStep(s) PROVE ConvTyped' /\ Conv!ConvInductive'
  <2>1. Does(s) BY <1>1, <1>4, StepDoes
  <2>2. ConvTyped' BY <1>1, <1>3, <2>1, StepTyped
  <2> QED BY <1>3, <2>1, <2>2, StepKeeps
<1>5. Conv!Evict => ConvTyped' /\ Conv!ConvInductive' BY <1>3, EvictIs, OthersTyped, EvictKeeps
<1>6. Conv!Crash => ConvTyped' /\ Conv!ConvInductive' BY <1>3, CrashIs, OthersTyped, CrashKeeps
<1> QED BY <1>2, <1>3, <1>4, <1>5, <1>6

LEMMA SceneStays == [Next]_vars => scene' = scene
BY DEF Next, vars, MapperOnly, QueueOnly, RingOnly, ConvOnly, LineOnly, ConfigOnly, ContextOnly

LEMMA ConvSteps ==
  ASSUME [Next]_vars, scene = "conversation"
  PROVE  Conv!ConvNext \/ UNCHANGED convVars
BY DEF Next, vars, MapperOnly, QueueOnly, RingOnly, ConvOnly, LineOnly, ConfigOnly, ContextOnly

LEMMA ConvTypedIs ==
  ASSUME ConvTyped', policy' \in {"follow", "split", "stay"}
  PROVE  Conv!ConvTypes'
BY DEF Conv!ConvTypes, ConvTyped, Conv!Operations, Conv!Records, Records, Operations, Pcs, AllKinds, Convs, Places,
       Backs, Outs, Personas, Named

\* The inductive invariant of the operations holds (Conversations.ConvInductive).
THEOREM ConversationsInvariance == Spec => []ConvScene
<1>1. Init => ConvScene
  <2> SUFFICES ASSUME Init, scene = "conversation" PROVE Conv!ConvTypes /\ Conv!ConvInductive BY DEF ConvScene
  <2>1. Conv!ConvInit BY DEF Init
  <2> QED BY <2>1, ConvStarts, TypesAre
<1>2. ConvScene /\ [Next]_vars => ConvScene'
  <2> SUFFICES ASSUME ConvScene, [Next]_vars, scene' = "conversation" PROVE Conv!ConvTypes' /\ Conv!ConvInductive' BY DEF ConvScene
  <2>1. scene = "conversation" BY SceneStays
  <2>2. ConvTyped /\ Conv!ConvInductive /\ policy \in {"follow", "split", "stay"} BY <2>1, TypesAre DEF ConvScene
  <2>3. CASE Conv!ConvNext BY <2>2, <2>3, ConvKeeps, ConvTypedIs
  <2>4. CASE UNCHANGED convVars
    <3>1. policy' = policy BY <2>4 DEF convVars
    <3> QED BY <2>2, <2>4, <3>1, StutterKeeps, ConvTypedIs
  <2> QED BY <2>1, <2>3, <2>4, ConvSteps
<1> QED BY <1>1, <1>2, PTL DEF Spec

\* A turn runs in the workspace its policy asks for, whatever another shell does to the
\* conversation; a conversation and its child have the model its user chose, though
\* suggestions borrow it; a removed one has no child; and what a client saw complete is
\* in the record (operations.ts).
THEOREM ConversationsAreTrue == Spec => []ConversationsStayTrue
<1>1. ConvScene => ConversationsStayTrue
  <2> SUFFICES ASSUME ConvScene, scene = "conversation"
               PROVE  Conv!RunsWhereAsked /\ Conv!ModelIsTheChosen /\ Conv!RemovedIsGone /\ Conv!SeenIsStored
    BY DEF ConversationsStayTrue
  <2>1. Conv!Placed /\ Conv!ModelsAreKept /\ Conv!Childless /\ Conv!Counted BY DEF ConvScene, Conv!ConvInductive
  <2>2. Conv!RunsWhereAsked BY <2>1 DEF Conv!Placed, Conv!RunsWhereAsked, Conv!InTurn
  <2>3. Conv!ModelIsTheChosen
    <3>1. DOMAIN index \subseteq Conv!Numbers
      <4>1. made \in Conv!Numbers /\ DOMAIN index \subseteq 1 .. made BY DEF ConvScene, Conv!ConvTypes
      <4>2. \A n \in Conv!Numbers : 1 .. n \subseteq Conv!Numbers BY ServicesAssumption DEF Conv!Numbers
      <4> QED BY <4>1, <4>2
    <3> QED BY <2>1, <3>1 DEF Conv!ModelsAreKept, Conv!ModelIsTheChosen, Conv!Busy, Conv!Borrowed
  <2> QED BY <2>1, <2>2, <2>3 DEF Conv!Childless, Conv!Counted
<1> QED BY <1>1, ConversationsInvariance, PTL

LEMMA PlanIsItsOwn ==
  ASSUME ConvScene, scene = "conversation"
  PROVE  Conv!ExecutesItsPlan
BY DEF ConvScene, Conv!ConvInductive, Conv!Planned, Conv!Placed, Conv!ExecutesItsPlan, Conv!At, Conv!InTurn

-----------------------------------------------------------------------------
(* A line in the shell.                                                     *)

LEMMA Forms ==
  /\ Line!Empty.is = "empty" /\ Line!NoFile.nonce = 0
  /\ \A l : Line!Typed(l).is = "typed" /\ Line!Typed(l).line = l
  /\ \A n : Line!Proposed(n).is = "proposed" /\ Line!Proposed(n).by = n
BY DEF Line!Empty, Line!NoFile, Line!Typed, Line!Proposed

LEMMA LineFields ==
  ASSUME NEW l \in Line!Lines
  PROVE  /\ l.colon \in BOOLEAN /\ l.spaced \in BOOLEAN /\ l.args \in BOOLEAN /\ l.tail \in BOOLEAN
         /\ l.head = "" => ~l.args
BY DEF Line!Lines

LEMMA Shapes ==
  /\ Line!Pass.kind = "pass"
  /\ \A t, n : /\ Line!PromptOf(t, n).kind = "prompt" /\ Line!PromptOf(t, n).text = t /\ Line!PromptOf(t, n).persona = n
               /\ DOMAIN Line!PromptOf(t, n) = {"kind", "text", "persona"}
  /\ \A t, n, k : /\ Line!CommandOf(n, t, k).kind = "command" /\ Line!CommandOf(n, t, k).text = t
                  /\ DOMAIN Line!CommandOf(n, t, k) = {"kind", "text", "name", "known"}
BY DEF Line!Pass, Line!PromptOf, Line!CommandOf

\* This became of the first line: a prompt with a persona, or something with a name.
PromptsWith(f, t, n) == f.kind = "prompt" /\ f.text = t /\ f.persona = n /\ DOMAIN f = {"kind", "text", "persona"}
Calls(f, k, t) == f.kind = k /\ f.text = t /\ {"kind", "text"} \subseteq DOMAIN f

LEMMA PromptShape ==
  ASSUME NEW f, NEW t, NEW n, f = Line!PromptOf(t, n)
  PROVE  PromptsWith(f, t, n)
BY Shapes DEF PromptsWith

\* What a first line may become.
LEMMA FirstLines ==
  ASSUME NEW l \in Line!Lines, NEW p
  PROVE  LET f == Line!FirstLine(l, p) IN
         \/ /\ ~l.colon \/ l.head \in p \/ l.head = "/!" \/ (l.head \in Line!Punctuation /\ ~l.args)
            /\ f.kind = "pass"
         \/ /\ l.colon /\ l.head \notin p /\ l.head # "/!"
            /\ \/ l.head = "" /\ PromptsWith(f, <<>>, "")
               \/ l.head = "/name" /\ Calls(f, "agent", Line!Args(l))
               \/ l.head # "" /\ Line!IsPersona(l.head) /\ l.args /\ PromptsWith(f, Line!Args(l), l.head)
               \/ l.head # "" /\ Line!IsPersona(l.head) /\ ~l.args /\ Calls(f, "command", <<>>)
               \/ /\ l.head # "" /\ ~Line!IsPersona(l.head) /\ (Line!IsCommand(l) \/ Line!IsTypo(l))
                  /\ Calls(f, "command", Line!Args(l))
               \/ /\ l.head # "" /\ l.head # "/name" /\ ~Line!IsPersona(l.head) /\ ~Line!IsCommand(l) /\ ~Line!IsTypo(l)
                  /\ PromptsWith(f, <<"head">> \o Line!Args(l), "")
<1> DEFINE f == Line!FirstLine(l, p)
<1>0. /\ l.colon \in BOOLEAN /\ l.args \in BOOLEAN
      /\ Line!IsPersona(l.head) \in BOOLEAN /\ Line!IsCommand(l) \in BOOLEAN /\ Line!IsTypo(l) \in BOOLEAN
  BY LineFields DEF Line!IsPersona, Line!IsCommand, Line!IsTypo
<1> DEFINE Colon == l.colon /\ l.head \notin p /\ l.head # "/!"
<1>1. CASE ~Colon
  <2>1. f = Line!Pass BY <1>0, <1>1 DEF Line!FirstLine
  <2> HIDE DEF f
  <2> QED BY <1>0, <1>1, <2>1, Shapes DEF f
<1>2. CASE Colon /\ l.head = ""
  <2>1. f = Line!PromptOf(<<>>, "") BY <1>0, <1>2 DEF Line!FirstLine
  <2> DEFINE e == <<>>
  <2>2. f = Line!PromptOf(e, "") BY <2>1
  <2> HIDE DEF f, e
  <2>3. PromptsWith(f, e, "") BY <2>2, PromptShape, Zenon
  <2> QED BY <1>2, <2>3 DEF f, e
<1>3. CASE Colon /\ l.head = "/name"
  <2>1. f = [kind |-> "agent", name |-> l.head, text |-> Line!Args(l)] BY <1>0, <1>3 DEF Line!FirstLine
  <2> HIDE DEF f
  <2>2. Calls(f, "agent", Line!Args(l)) BY <2>1 DEF Calls
  <2> QED BY <1>3, <2>2 DEF f
<1> DEFINE Word == Colon /\ l.head # "" /\ l.head # "/name"
<1>4. CASE Word /\ Line!IsPersona(l.head) /\ l.args
  <2>1. f = Line!PromptOf(Line!Args(l), l.head) BY <1>0, <1>4 DEF Line!FirstLine
  <2> HIDE DEF f
  <2>2. PromptsWith(f, Line!Args(l), l.head) BY <2>1, Shapes DEF PromptsWith
  <2> QED BY <1>4, <2>2 DEF f
<1>5. CASE Word /\ Line!IsPersona(l.head) /\ ~l.args
  <2>1. f = Line!CommandOf(l.head, <<>>, TRUE) BY <1>0, <1>5 DEF Line!FirstLine
  <2> DEFINE e == <<>>
             yes == TRUE
  <2>2. f = Line!CommandOf(l.head, e, yes) BY <2>1
  <2> HIDE DEF f, e, yes
  <2>3. Calls(f, "command", e) BY <2>2, Shapes DEF Calls
  <2> QED BY <1>5, <2>3 DEF f, e
<1>6. CASE Word /\ ~Line!IsPersona(l.head) /\ (Line!IsCommand(l) \/ Line!IsTypo(l))
  <2>1. f = Line!CommandOf(l.head, Line!Args(l), Line!IsCommand(l)) BY <1>0, <1>6 DEF Line!FirstLine
  <2> HIDE DEF f
  <2>2. Calls(f, "command", Line!Args(l)) BY <2>1, Shapes DEF Calls
  <2> QED BY <1>6, <2>2 DEF f
<1>7. CASE Word /\ ~Line!IsPersona(l.head) /\ ~Line!IsCommand(l) /\ ~Line!IsTypo(l)
  <2>1. CASE l.head \in Line!Punctuation /\ ~l.args
    <3>1. f = Line!Pass BY <1>0, <1>7, <2>1 DEF Line!FirstLine
    <3> HIDE DEF f
    <3> QED BY <2>1, <3>1, Shapes DEF f
  <2>2. CASE ~(l.head \in Line!Punctuation /\ ~l.args)
    <3>1. f = Line!PromptOf(<<"head">> \o Line!Args(l), "") BY <1>0, <1>7, <2>2 DEF Line!FirstLine
    <3> DEFINE e == <<"head">> \o Line!Args(l)
    <3>2. f = Line!PromptOf(e, "") BY <3>1
    <3> HIDE DEF f, e
    <3>3. PromptsWith(f, e, "") BY <3>2, PromptShape, Zenon
    <3> QED BY <1>7, <3>3 DEF f, e
  <2> QED BY <2>1, <2>2
<1> QED BY <1>0, <1>1, <1>2, <1>3, <1>4, <1>5, <1>6, <1>7

\* The lines after the first one do not make a line the shell's.
LEMMA FirstLineDecides ==
  ASSUME NEW l \in Line!Lines, NEW p
  PROVE  Line!ParseLine(l, p).kind = "pass" <=> Line!FirstLine(l, p).kind = "pass"
<1> DEFINE f == Line!FirstLine(l, p)
<1>0. l.tail \in BOOLEAN BY LineFields
<1>1. CASE ~l.tail \/ f.kind = "pass" BY <1>0, <1>1 DEF Line!ParseLine
<1>2. CASE l.tail /\ f.kind # "pass" /\ f.kind = "command" /\ Line!IsPersona(l.head)
  BY <1>2 DEF Line!ParseLine, Line!PromptOf
<1>3. CASE l.tail /\ f.kind # "pass" /\ ~(f.kind = "command" /\ Line!IsPersona(l.head))
  <2>1. "kind" \in DOMAIN f BY <1>3, FirstLines, ZenonT(60) DEF PromptsWith, Calls
  <2>2. Line!ParseLine(l, p) = [f EXCEPT !.text = @ \o Line!Tail2(l)] BY <1>3 DEF Line!ParseLine
  <2> QED BY <1>3, <2>1, <2>2
<1> QED BY <1>0, <1>1, <1>2, <1>3

\* The two tests of the plugins say what the grammar says.
LEMMA ShellsOwnPass ==
  ASSUME NEW l \in Line!Lines, NEW p, ~l.colon \/ l.head \in p
  PROVE  Line!ParseLine(l, p).kind = "pass"
BY FirstLineDecides, LineFields DEF Line!FirstLine, Line!Pass
LEMMA PromptsAreTaken ==
  ASSUME NEW l \in Line!Lines, NEW p, l.colon, l.head \notin p, l.head \in Line!Alphanumeric
  PROVE  Line!ParseLine(l, p).kind # "pass"
<1>1. l.head # "/!" /\ l.head \notin Line!Punctuation
  BY DEF Line!Alphanumeric, Line!NameShaped, Line!Punctuation
<1>2. Line!FirstLine(l, p).kind # "pass" BY <1>1, FirstLines DEF PromptsWith, Calls
<1> QED BY <1>2, FirstLineDecides

HeadOf(l) == IF l.head = "" THEN <<>> ELSE <<"head">>
NameOf(f) == IF f.kind = "prompt" /\ f.persona = "" THEN <<>> ELSE <<"head">>

Pieces == {"head", "args", "tail"}
LEMMA OneIsSeq ==
  ASSUME NEW S, NEW w \in S
  PROVE  <<w>> \in Seq(S)
OBVIOUS
LEMMA Texts ==
  ASSUME NEW l \in Line!Lines
  PROVE  /\ Line!Args(l) \in Seq(Pieces) /\ Line!Tail2(l) \in Seq(Pieces) /\ <<"head">> \in Seq(Pieces) /\ <<>> \in Seq(Pieces)
         /\ HeadOf(l) \in Seq(Pieces)
         /\ ~l.args => Line!Args(l) = <<>>
         /\ ~l.tail => Line!Tail2(l) = <<>>
<1>4. \A w \in Pieces : <<w>> \in Seq(Pieces) BY OneIsSeq
<1>5. <<>> \in Seq(Pieces) OBVIOUS
<1>6. "head" \in Pieces /\ "args" \in Pieces /\ "tail" \in Pieces BY DEF Pieces
<1>1. <<"head">> \in Seq(Pieces) /\ <<"args">> \in Seq(Pieces) /\ <<"tail">> \in Seq(Pieces) /\ <<>> \in Seq(Pieces)
  BY <1>4, <1>5, <1>6, Zenon
<1>2. Line!Args(l) \in {<<"args">>, <<>>} /\ Line!Tail2(l) \in {<<"tail">>, <<>>} /\ HeadOf(l) \in {<<"head">>, <<>>}
  BY DEF Line!Args, Line!Tail2, HeadOf
<1>3. (~l.args => Line!Args(l) = <<>>) /\ (~l.tail => Line!Tail2(l) = <<>>) BY DEF Line!Args, Line!Tail2
<1> QED BY <1>1, <1>2, <1>3

\* The first line is all in what became of it.
LEMMA FirstLineIsKept ==
  ASSUME NEW l \in Line!Lines, NEW p, Line!FirstLine(l, p).kind # "pass"
  PROVE  LET f == Line!FirstLine(l, p) IN
         f.text \in Seq(Pieces) /\ NameOf(f) \o f.text = HeadOf(l) \o Line!Args(l)
<1> DEFINE f == Line!FirstLine(l, p)
           a == Line!Args(l)
           h == <<"head">>
           e == <<>>
<1>0. a \in Seq(Pieces) /\ h \in Seq(Pieces) /\ e \in Seq(Pieces) /\ (~l.args => a = e) BY Texts
<1>1. e \o e = e /\ e \o (h \o a) = h \o a /\ (h \o a) \in Seq(Pieces) BY <1>0, ConcatEmptySeq, ConcatProperties
<1>2. \/ l.head = "" /\ PromptsWith(f, e, "")
      \/ l.head = "/name" /\ Calls(f, "agent", a)
      \/ l.head # "" /\ Line!IsPersona(l.head) /\ l.args /\ PromptsWith(f, a, l.head)
      \/ l.head # "" /\ Line!IsPersona(l.head) /\ ~l.args /\ Calls(f, "command", e)
      \/ l.head # "" /\ Calls(f, "command", a)
      \/ l.head # "" /\ PromptsWith(f, h \o a, "")
  BY FirstLines
<1>3. l.head = "" => ~l.args BY LineFields
<1>4. HeadOf(l) = (IF l.head = "" THEN e ELSE h) /\ NameOf(f) = (IF f.kind = "prompt" /\ f.persona = "" THEN e ELSE h)
  BY DEF HeadOf, NameOf
<1> HIDE DEF f, a, h, e
<1> QED BY <1>0, <1>1, <1>2, <1>3, <1>4 DEF PromptsWith, Calls, f, a

LEMMA NothingDropped ==
  ASSUME NEW l \in Line!Lines, NEW p
  PROVE  Line!NothingIsDropped(l, p)
<1> DEFINE f == Line!FirstLine(l, p)
           x == Line!ParseLine(l, p)
           t == Line!Tail2(l)
           a == Line!Args(l)
           h == <<"head">>
           e == <<>>
<1>0. /\ a \in Seq(Pieces) /\ t \in Seq(Pieces) /\ h \in Seq(Pieces) /\ e \in Seq(Pieces) /\ HeadOf(l) \in Seq(Pieces)
      /\ (~l.args => a = e) /\ (~l.tail => t = e) /\ l.tail \in BOOLEAN
  BY Texts, LineFields
<1>1. Line!Pieces(l) = (HeadOf(l) \o a) \o t BY <1>0, ConcatAssociative DEF Line!Pieces, HeadOf
<1>2. SUFFICES ASSUME f.kind # "pass" PROVE NameOf(x) \o x.text = (HeadOf(l) \o a) \o t
  BY <1>1, FirstLineDecides DEF Line!NothingIsDropped, NameOf
<1>3. f.text \in Seq(Pieces) /\ NameOf(f) \o f.text = HeadOf(l) \o a BY <1>2, FirstLineIsKept
<1>4. NameOf(f) \in {e, h} BY DEF NameOf
<1>5. HeadOf(l) \o a \in Seq(Pieces) BY <1>0, ConcatProperties
<1>6. CASE ~l.tail
  <2>1. x = f /\ t = e BY <1>0, <1>6 DEF Line!ParseLine
  <2>2. (HeadOf(l) \o a) \o e = HeadOf(l) \o a BY <1>5, ConcatEmptySeq
  <2> HIDE DEF x, f, e, a, t
  <2> QED BY <1>3, <2>1, <2>2
<1>7. CASE l.tail /\ f.kind = "command" /\ Line!IsPersona(l.head)
  <2>1. x = Line!PromptOf(t, l.head) BY <1>2, <1>7 DEF Line!ParseLine
  <2>2. l.head # "" /\ ~l.args
    <3>1. l.head # "" /\ l.head # "/name" BY <1>7 DEF Line!IsPersona, Line!BuiltInPersonas, Line!ConfiguredPersonas
    <3> QED BY <1>2, <1>7, <3>1, FirstLines DEF PromptsWith, Calls
  <2>3. HeadOf(l) = h /\ a = e BY <1>0, <2>2 DEF HeadOf
  <2> HIDE DEF x, t
  <2>6. x.kind = "prompt" /\ x.persona = l.head /\ x.text = t BY <2>1, Shapes
  <2>4. NameOf(x) = h /\ x.text = t BY <2>2, <2>6 DEF NameOf
  <2>5. h \o e = h BY <1>0, ConcatEmptySeq
  <2> HIDE DEF e, h, a
  <2> QED BY <2>3, <2>4, <2>5
<1>8. CASE l.tail /\ ~(f.kind = "command" /\ Line!IsPersona(l.head))
  <2>1. x = [f EXCEPT !.text = @ \o t] BY <1>2, <1>8 DEF Line!ParseLine
  <2>2. "kind" \in DOMAIN f /\ "text" \in DOMAIN f BY <1>2, FirstLines, ZenonT(60) DEF PromptsWith, Calls
  <2>3. f.kind = "prompt" => "persona" \in DOMAIN f
    <3>1. (\E u, n : PromptsWith(f, u, n)) \/ (\E u : Calls(f, "command", u)) \/ (\E u : Calls(f, "agent", u)) BY <1>2, FirstLines
    <3> HIDE DEF f
    <3> QED BY <3>1 DEF PromptsWith, Calls
  <2> HIDE DEF x, f, t
  <2>4. x.text = f.text \o t /\ x.kind = f.kind /\ (f.kind = "prompt" => x.persona = f.persona) BY <2>1, <2>2, <2>3
  <2>5. NameOf(x) = NameOf(f) BY <2>4 DEF NameOf
  <2>7. NameOf(f) \in Seq(Pieces) BY <1>0, <1>4
  <2>6. NameOf(f) \o (f.text \o t) = (NameOf(f) \o f.text) \o t
    <3>1. \A u, v, w \in Seq(Pieces) : u \o (v \o w) = (u \o v) \o w BY ConcatAssociative, SMTT(40)
    <3> QED BY <1>0, <1>3, <2>7, <3>1, Zenon
  <2> HIDE DEF a
  <2> QED BY <1>3, <2>4, <2>5, <2>6
<1> QED BY <1>0, <1>6, <1>7, <1>8

LEMMA TyposDontPrompt ==
  ASSUME NEW l \in Line!Lines, NEW p
  PROVE  Line!TyposDoNotPrompt(l, p)
<1> DEFINE f == Line!FirstLine(l, p)
           x == Line!ParseLine(l, p)
<1>1. SUFFICES ASSUME l.colon, l.head \in Line!NameShaped \ p
               PROVE  /\ ~l.spaced /\ ~Line!IsPersona(l.head) => x.kind = "command"
                      /\ l.spaced /\ l.head \in Line!Bare /\ l.args => x.kind = "prompt"
  BY DEF Line!TyposDoNotPrompt
<1>2. l.head \notin p /\ l.head # "" /\ l.head # "/name" /\ l.head # "/!" /\ l.head \notin Line!Punctuation
  BY <1>1 DEF Line!NameShaped, Line!Punctuation
<1>3. l.spaced \in BOOLEAN /\ l.args \in BOOLEAN /\ l.tail \in BOOLEAN BY LineFields
<1>4. ASSUME ~l.spaced, ~Line!IsPersona(l.head) PROVE x.kind = "command"
  <2>1. Line!IsTypo(l) BY <1>1, <1>4 DEF Line!IsTypo
  <2>2. Calls(f, "command", Line!Args(l)) BY <1>1, <1>2, <1>4, <2>1, FirstLines
  <2>3. f.kind = "command" /\ "kind" \in DOMAIN f BY <2>2 DEF Calls
  <2>4. x = f \/ x = [f EXCEPT !.text = @ \o Line!Tail2(l)] BY <1>3, <1>4, <2>3 DEF Line!ParseLine
  <2> HIDE DEF x, f
  <2> QED BY <2>3, <2>4
<1>5. ASSUME l.spaced, l.head \in Line!Bare, l.args PROVE x.kind = "prompt"
  <2>1. ~Line!IsPersona(l.head)
    BY <1>5 DEF Line!Bare, Line!IsPersona, Line!BuiltInPersonas, Line!ConfiguredPersonas, Line!CommandHeads
  <2>2. ~Line!IsCommand(l) /\ ~Line!IsTypo(l) BY <1>5 DEF Line!IsCommand, Line!IsTypo
  <2>3. PromptsWith(f, <<"head">> \o Line!Args(l), "") BY <1>1, <1>2, <2>1, <2>2, FirstLines
  <2>4. f.kind = "prompt" /\ "kind" \in DOMAIN f BY <2>3 DEF PromptsWith
  <2>5. x = f \/ x = [f EXCEPT !.text = @ \o Line!Tail2(l)] BY <1>3, <2>4 DEF Line!ParseLine
  <2> HIDE DEF x, f
  <2> QED BY <2>4, <2>5
<1> QED BY <1>4, <1>5

-----------------------------------------------------------------------------
(* A run of a line, step by step.                                           *)

Same == conversation' = conversation /\ earlier' = earlier /\ used' = used

LEMMA SameIsOther ==
  ASSUME Line!PreviousIsTheLastOther, Same
  PROVE  Line!PreviousIsTheLastOther'
BY DEF Same, Line!PreviousIsTheLastOther

LEMMA InRange ==
  ASSUME NEW m \in Nat, NEW k \in Nat, k >= m, NEW n \in 1..m
  PROVE  n \in 1..k
OBVIOUS

LEMMA SameIsOfARun ==
  ASSUME Line!FileIsOfARun, file' = file, sequence \in Nat, sequence' \in Nat, sequence' >= sequence
  PROVE  Line!FileIsOfARun'
<1>1. CASE file = Line!NoFile BY <1>1 DEF Line!FileIsOfARun, Line!NoFile
<1>2. CASE file # Line!NoFile
  <2>1. PICK n \in 1..sequence, c \in Conversations \union {""} :
           file \in {[nonce |-> n, conversation |-> c, buffer |-> b] : b \in {Line!Empty, Line!Proposed(n)}}
    BY <1>2 DEF Line!FileIsOfARun
  <2>2. n \in 1..sequence' BY InRange
  <2>3. Line!Empty' = Line!Empty /\ Line!Proposed(n)' = Line!Proposed(n) BY DEF Line!Empty, Line!Proposed
  <2> QED BY <2>1, <2>2, <2>3 DEF Line!FileIsOfARun
<1> QED BY <1>1, <1>2

LEMMA Positive ==
  ASSUME NEW m \in Nat, m > 0, NEW k, k = m
  PROVE  m \in 1..k
OBVIOUS

\* The shell parses the buffer: its own line, or a proposal.
LEMMA Executes ==
  ASSUME Line!LineInductive, Line!Execute
  PROVE  Line!LineInductive'
<1>1. /\ buffer' = Line!Empty /\ linePc' = "prompt" /\ continued' = FALSE /\ swallowed' = swallowed /\ loaded' = loaded
      /\ config' = config /\ sequence' = sequence /\ file' = file /\ Same
  BY DEF Line!Execute, Same
<1>2. Line!BufferIsOfNow' BY <1>1 DEF Line!BufferIsOfNow
<1>5. sequence \in Nat /\ Line!FileIsOfARun BY DEF Line!LineInductive
<1>6. sequence' \in Nat /\ sequence' >= sequence BY <1>1, <1>5
<1>3. Line!FileIsOfARun' BY <1>1, <1>5, <1>6, SameIsOfARun
<1>4. Line!PreviousIsTheLastOther' BY <1>1, SameIsOther DEF Line!LineInductive
<1> QED BY <1>1, <1>2, <1>3, <1>4 DEF Line!LineInductive, Line!PassedLinesRun, Same

LEMMA RunsStart ==
  ASSUME Line!LineInductive, Line!StartRun, linePc \in {"prompt", "classifying"}, Line!PassedLinesRun'
  PROVE  Line!LineInductive'
<1>1. /\ buffer' = Line!Empty /\ linePc' = "running" /\ loaded' = loaded
      /\ config' = config /\ sequence' = sequence + 1 /\ file' = file /\ Same
  BY DEF Line!StartRun, Same
<1>2. Line!BufferIsOfNow' BY <1>1 DEF Line!BufferIsOfNow
<1>5. sequence \in Nat /\ Line!FileIsOfARun BY DEF Line!LineInductive
<1>6. sequence' \in Nat /\ sequence' >= sequence BY <1>1, <1>5
<1>3. Line!FileIsOfARun' BY <1>1, <1>5, <1>6, SameIsOfARun
<1>4. Line!PreviousIsTheLastOther' BY <1>1, SameIsOther DEF Line!LineInductive
<1>7. sequence' > 0 BY <1>1, <1>5
<1> QED BY <1>1, <1>2, <1>3, <1>4, <1>6, <1>7 DEF Line!LineInductive, Same

\* What Enter does with what is in the buffer.
LEMMA EnterIs ==
  ASSUME Line!LineInductive, Line!Enter
  PROVE  \/ buffer = Line!Proposed(sequence) /\ Line!Execute
         \/ \E l \in Line!Lines :
              /\ buffer = Line!Typed(l)
              /\ \/ Line!ShellsOwn(l) /\ Line!Execute
                 \/ /\ ~Line!ShellsOwn(l) /\ linePc' = "classifying"
                    /\ UNCHANGED <<shell, config, loaded, continued, buffer, sequence, file, conversation, earlier, used, ran, swallowed>>
                 \/ /\ ~Line!ShellsOwn(l) /\ ~Line!AsksFirst(l) /\ Line!StartRun
                    /\ swallowed' = (swallowed \/ Line!Swallows(l)) /\ ran' = Line!Empty
<1>0. linePc = "prompt" /\ buffer # Line!Empty BY DEF Line!Enter
<1>1. \/ \E l \in Line!Lines : buffer = Line!Typed(l)
      \/ buffer = Line!Proposed(sequence)
  BY <1>0 DEF Line!LineInductive, Line!BufferIsOfNow
<1>2. CASE buffer = Line!Proposed(sequence)
  <2>1. buffer.is = "proposed" BY <1>2, Forms
  <2> QED BY <1>2, <2>1 DEF Line!Enter
<1>3. ASSUME NEW l \in Line!Lines, buffer = Line!Typed(l)
      PROVE  \/ Line!ShellsOwn(l) /\ Line!Execute
             \/ /\ ~Line!ShellsOwn(l) /\ linePc' = "classifying"
                /\ UNCHANGED <<shell, config, loaded, continued, buffer, sequence, file, conversation, earlier, used, ran, swallowed>>
             \/ /\ ~Line!ShellsOwn(l) /\ ~Line!AsksFirst(l) /\ Line!StartRun
                /\ swallowed' = (swallowed \/ Line!Swallows(l)) /\ ran' = Line!Empty
  <2>1. buffer.is # "proposed" /\ buffer.line = l BY <1>3, Forms
  <2>2. CASE Line!ShellsOwn(l) BY <2>1, <2>2 DEF Line!Enter
  <2>3. CASE ~Line!ShellsOwn(l) /\ Line!AsksFirst(l) BY <2>1, <2>3 DEF Line!Enter
  <2>4. CASE ~Line!ShellsOwn(l) /\ ~Line!AsksFirst(l) BY <2>1, <2>4 DEF Line!Enter
  <2> QED BY <2>2, <2>3, <2>4
<1> QED BY <1>1, <1>2, <1>3

\* Without the classifier only what the grammar takes becomes a run.
LEMMA UnaskedIsTaken ==
  ASSUME Line!LineInductive, NEW l \in Line!Lines, ~Line!ShellsOwn(l), ~Line!AsksFirst(l)
  PROVE  ~Line!Swallows(l) /\ ~continued
<1>1. l.colon /\ ~continued /\ loaded = Line!DEFAULT_PASSTHROUGH /\ l.head \in Line!Alphanumeric /\ l.head \notin loaded
  BY LineFields DEF Line!ShellsOwn, Line!AsksFirst
<1> QED BY <1>1, PromptsAreTaken DEF Line!Swallows, Line!LineInductive

LEMMA OwnIsPassed ==
  ASSUME Line!LineInductive, NEW l \in Line!Lines, Line!ShellsOwn(l)
  PROVE  continued \/ Line!ParseLine(l, config).kind = "pass"
BY ShellsOwnPass DEF Line!ShellsOwn, Line!LineInductive

LEMMA EnterKeeps ==
  ASSUME Line!LineInductive, Line!Enter
  PROVE  Line!LineInductive' /\ Line!TakesItsOwn
<1>0. linePc = "prompt" /\ sequence \in Nat BY DEF Line!Enter, Line!LineInductive
<1>1. CASE buffer = Line!Proposed(sequence) /\ Line!Execute
  <2>1. ran' = buffer /\ sequence' = sequence /\ buffer.is = "proposed" BY <1>1, Forms DEF Line!Execute
  <2> QED BY <1>1, <2>1, Executes DEF Line!TakesItsOwn
<1>2. ASSUME NEW l \in Line!Lines, buffer = Line!Typed(l), Line!ShellsOwn(l), Line!Execute
      PROVE  Line!LineInductive' /\ Line!TakesItsOwn
  <2>1. ran' = buffer /\ sequence' = sequence /\ buffer.line = l BY <1>2, Forms DEF Line!Execute
  <2>2. continued \/ Line!ParseLine(l, config).kind = "pass" BY <1>2, OwnIsPassed
  <2> QED BY <1>2, <2>1, <2>2, Executes DEF Line!TakesItsOwn
<1>3. ASSUME NEW l \in Line!Lines, buffer = Line!Typed(l), ~Line!ShellsOwn(l), linePc' = "classifying",
             UNCHANGED <<shell, config, loaded, continued, buffer, sequence, file, conversation, earlier, used, ran, swallowed>>
      PROVE  Line!LineInductive' /\ Line!TakesItsOwn
  <2>1. buffer # Line!Empty BY <1>3, Forms
  <2>2. ~continued BY <1>3 DEF Line!ShellsOwn
  <2>3. Line!BufferIsOfNow' BY <1>3 DEF Line!BufferIsOfNow
  <2>7. sequence' = sequence /\ Line!FileIsOfARun BY <1>3 DEF Line!LineInductive
  <2>6. sequence' \in Nat /\ sequence' >= sequence BY <1>0, <2>7
  <2>4. Line!FileIsOfARun' BY <1>0, <1>3, <2>6, <2>7, SameIsOfARun
  <2>5. Line!PreviousIsTheLastOther' BY <1>3, SameIsOther DEF Line!LineInductive, Same
  <2> QED BY <1>3, <2>1, <2>2, <2>3, <2>4, <2>5 DEF Line!LineInductive, Line!TakesItsOwn, Line!PassedLinesRun
<1>4. ASSUME NEW l \in Line!Lines, buffer = Line!Typed(l), ~Line!ShellsOwn(l), ~Line!AsksFirst(l), Line!StartRun,
             swallowed' = (swallowed \/ Line!Swallows(l)), ran' = Line!Empty
      PROVE  Line!LineInductive' /\ Line!TakesItsOwn
  <2>1. ~Line!Swallows(l) /\ ~continued BY <1>4, UnaskedIsTaken
  <2>2. ~swallowed /\ ~swallowed' BY <1>4, <2>1 DEF Line!LineInductive, Line!PassedLinesRun
  <2>3. Line!PassedLinesRun' BY <2>2 DEF Line!PassedLinesRun
  <2>4. Line!LineInductive' BY <1>0, <1>4, <2>3, RunsStart DEF Line!LineInductive
  <2>5. ran'.is # "typed" BY <1>4, Forms
  <2> QED BY <2>1, <2>4, <2>5 DEF Line!TakesItsOwn
<1> QED BY <1>1, <1>2, <1>3, <1>4, EnterIs

LEMMA TypeKeeps ==
  ASSUME Line!LineInductive, Line!Type
  PROVE  Line!LineInductive' /\ Line!TakesItsOwn
<1>0. linePc = "prompt" /\ sequence \in Nat BY DEF Line!Type, Line!LineInductive
<1>1. PICK l \in Line!Lines : buffer' = Line!Typed(l) BY DEF Line!Type
<1>2. /\ linePc' = linePc /\ loaded' = loaded /\ config' = config /\ sequence' = sequence /\ file' = file
      /\ swallowed' = swallowed /\ ran' = Line!Empty /\ Same
  BY DEF Line!Type, Same
<1>3. Line!BufferIsOfNow' BY <1>0, <1>1, <1>2 DEF Line!BufferIsOfNow, Line!Typed
<1>4. sequence' \in Nat /\ sequence' >= sequence BY <1>0, <1>2
<1>5. Line!FileIsOfARun' BY <1>0, <1>2, <1>4, SameIsOfARun DEF Line!LineInductive
<1>6. Line!PreviousIsTheLastOther' BY <1>2, SameIsOther DEF Line!LineInductive
<1>7. ran'.is # "typed" BY <1>2, Forms
<1> QED BY <1>0, <1>2, <1>3, <1>4, <1>5, <1>6, <1>7 DEF Line!LineInductive, Line!TakesItsOwn, Line!PassedLinesRun, Same

\* The classifier says whose line it is; the shell parses it, or a run starts.
LEMMA AnswerKeeps ==
  ASSUME Line!LineInductive, Line!ClassifyAnswers
  PROVE  Line!LineInductive' /\ Line!TakesItsOwn
<1>0. linePc = "classifying" /\ sequence \in Nat /\ ~continued /\ buffer # Line!Empty /\ ~swallowed
  BY DEF Line!ClassifyAnswers, Line!LineInductive, Line!PassedLinesRun
<1>1. PICK l \in Line!Lines : buffer = Line!Typed(l) BY <1>0 DEF Line!LineInductive, Line!BufferIsOfNow
<1>2. buffer.line = l BY <1>1, Forms
<1>3. CASE Line!ParseLine(l, config).kind = "pass"
  <2>1. Line!Classified(1) BY <1>2, <1>3 DEF Line!ClassifyAnswers
  <2>2. Line!Execute BY <2>1 DEF Line!Classified
  <2>3. ran' = buffer /\ sequence' = sequence BY <2>2 DEF Line!Execute
  <2> QED BY <1>2, <1>3, <2>2, <2>3, Executes DEF Line!TakesItsOwn
<1>4. CASE Line!ParseLine(l, config).kind # "pass"
  <2>1. Line!Classified(0) BY <1>2, <1>4 DEF Line!ClassifyAnswers
  <2>2. Line!StartRun /\ swallowed' = (swallowed \/ Line!Swallows(buffer.line)) /\ ran' = Line!Empty
    BY <2>1 DEF Line!Classified
  <2>3. ~Line!Swallows(buffer.line) BY <1>2, <1>4 DEF Line!Swallows
  <2>4. Line!PassedLinesRun' BY <1>0, <2>2, <2>3 DEF Line!PassedLinesRun
  <2>5. Line!LineInductive' BY <1>0, <2>2, <2>4, RunsStart
  <2>6. ran'.is # "typed" BY <2>2, Forms
  <2> QED BY <1>0, <2>5, <2>6 DEF Line!TakesItsOwn
<1> QED BY <1>3, <1>4

\* Nothing but where the shell is changes: the buffer keeps a line it is asked about,
\* the file stays the one of an earlier run.
LEMMA StaysThere ==
  ASSUME Line!LineInductive, ran' = ran, swallowed' = swallowed,
         UNCHANGED <<loaded, config, buffer, sequence, file, conversation, earlier, used>>,
         \/ linePc' = linePc /\ continued' = continued
         \/ linePc = "classifying" /\ linePc' = "prompt"
         \/ linePc = "running" /\ linePc' = "applying"
  PROVE  Line!LineInductive' /\ Line!TakesItsOwn
<1>0. sequence \in Nat /\ sequence' = sequence BY DEF Line!LineInductive
<1>1. Line!BufferIsOfNow'
  <2>1. linePc \in {"running", "applying"} => buffer = Line!Empty BY DEF Line!LineInductive
  <2>2. Line!Empty' = Line!Empty /\ (\A l : Line!Typed(l)' = Line!Typed(l)) /\ Line!Proposed(sequence)' = Line!Proposed(sequence)
    BY <1>0 DEF Line!Empty, Line!Typed, Line!Proposed
  <2> QED BY <2>1, <2>2, Forms DEF Line!BufferIsOfNow, Line!LineInductive
<1>2. sequence' \in Nat /\ sequence' >= sequence BY <1>0
<1>3. Line!FileIsOfARun' BY <1>0, <1>2, SameIsOfARun DEF Line!LineInductive
<1>4. Line!PreviousIsTheLastOther' BY SameIsOther DEF Line!LineInductive, Same
<1>5. loaded' = loaded /\ config' = config /\ buffer' = buffer /\ used' = used OBVIOUS
<1>6. linePc' \in {"running", "applying"} => sequence > 0 /\ buffer = Line!Empty BY DEF Line!LineInductive
<1>7. linePc' = "classifying" => ~continued' /\ buffer # Line!Empty BY DEF Line!LineInductive
<1>8. linePc' \in {"prompt", "classifying", "running", "applying"} BY DEF Line!LineInductive
<1>9. loaded = config /\ used \in Seq(Conversations \ {""}) /\ Line!PassedLinesRun BY DEF Line!LineInductive
<1>10. Line!LineInductive'
  BY <1>0, <1>1, <1>3, <1>4, <1>5, <1>6, <1>7, <1>8, <1>9 DEF Line!LineInductive, Line!PassedLinesRun, Line!Empty
<1> QED BY <1>0, <1>10 DEF Line!TakesItsOwn

LEMMA WriteKeeps ==
  ASSUME Line!LineInductive, Line!ClientWrites
  PROVE  Line!LineInductive' /\ Line!TakesItsOwn
<1>0. linePc = "running" /\ linePc' = "applying" /\ sequence \in Nat /\ sequence > 0 /\ buffer = Line!Empty
  BY DEF Line!ClientWrites, Line!LineInductive
<1>1. /\ buffer' = buffer /\ sequence' = sequence /\ loaded' = loaded /\ config' = config /\ ran' = ran
      /\ continued' = continued /\ swallowed' = swallowed /\ Same
  BY DEF Line!ClientWrites, Same
<1>2. Line!FileIsOfARun'
  <2>1. PICK c \in Conversations \union {""}, proposes \in BOOLEAN : file' = Line!Directives(c, proposes)
    BY DEF Line!ClientWrites
  <2>2. PICK b \in {Line!Empty, Line!Proposed(sequence)} : file' = [nonce |-> sequence, conversation |-> c, buffer |-> b]
    BY <2>1 DEF Line!Directives
  <2>3. sequence \in 1 .. sequence' BY <1>0, <1>1, Positive
  <2>4. Line!Empty' = Line!Empty /\ Line!Proposed(sequence)' = Line!Proposed(sequence)
    BY <1>1 DEF Line!Empty, Line!Proposed
  <2> QED BY <2>2, <2>3, <2>4 DEF Line!FileIsOfARun
<1>3. Line!BufferIsOfNow' BY <1>0, <1>1 DEF Line!BufferIsOfNow, Line!Empty
<1>4. Line!PreviousIsTheLastOther' BY <1>1, SameIsOther DEF Line!LineInductive
<1> QED BY <1>0, <1>1, <1>2, <1>3, <1>4 DEF Line!LineInductive, Line!TakesItsOwn, Line!PassedLinesRun, Line!Empty, Same

Grown(J, none, c, u, w) ==
  /\ w \in Seq(J) /\ w # <<>> /\ w[Len(w)] = c
  /\ u = <<>> => Len(w) < 2 /\ Len(u) < 2
  /\ u # <<>> => ~(Len(w) < 2) /\ w[Len(w) - 1] = u[Len(u)] /\ u[Len(u)] # none

LEMMA Appended ==
  ASSUME NEW J, NEW none, none \notin J, NEW c \in J, NEW u \in Seq(J), NEW w, w = Append(u, c)
  PROVE  Grown(J, none, c, u, w)
<1> DEFINE n == Len(u)
<1>1. /\ n \in Nat /\ Len(w) = n + 1 /\ w[n + 1] = c /\ w \in Seq(J) /\ w # <<>>
      /\ \A i \in 1..n : w[i] = u[i] /\ u[i] \in J
  OBVIOUS
<1>2. CASE u = <<>> BY <1>1, <1>2 DEF Grown
<1>3. CASE u # <<>>
  <2>1. n >= 1 BY <1>3
  <2>2. n \in 1..n /\ Len(w) - 1 = n /\ ~(Len(w) < 2) BY <1>1, <2>1
  <2> QED BY <1>1, <1>3, <2>2 DEF Grown
<1> QED BY <1>2, <1>3

\* A conversation joined: the one before it is what the shell goes back to.
LEMMA JoinKeepsOther ==
  ASSUME Line!PreviousIsTheLastOther, used \in Seq(Conversations \ {""}),
         NEW c \in Conversations \ {""}, c # conversation,
         conversation' = c, used' = Append(used, c), earlier' = Line!Before(c)
  PROVE  Line!PreviousIsTheLastOther' /\ used' \in Seq(Conversations \ {""})
<1>1. /\ used' \in Seq(Conversations \ {""}) /\ used' # <<>> /\ used'[Len(used')] = c
      /\ used = <<>> => Len(used') < 2 /\ Len(used) < 2
      /\ used # <<>> => ~(Len(used') < 2) /\ used'[Len(used') - 1] = used[Len(used)] /\ used[Len(used)] # ""
  <2> DEFINE J == Conversations \ {""}
             none == ""
  <2>1. none \notin J /\ c \in J /\ used \in Seq(J) /\ used' = Append(used, c) OBVIOUS
  <2> HIDE DEF J, none
  <2>2. Grown(J, none, c, used, used') BY <2>1, Appended
  <2> QED BY <2>2 DEF J, none, Grown
<1>2. used = <<>> => conversation = "" /\ earlier = "" BY <1>1 DEF Line!PreviousIsTheLastOther
<1>3. used # <<>> => conversation = used[Len(used)] BY DEF Line!PreviousIsTheLastOther
<1>4. used = <<>> => earlier' = "" BY <1>2 DEF Line!Before
<1>5. used # <<>> => earlier' = used[Len(used)] BY <1>1, <1>3 DEF Line!Before
<1>6. earlier' = IF Len(used') < 2 THEN "" ELSE used'[Len(used') - 1] BY <1>1, <1>4, <1>5
<1> QED BY <1>1, <1>6 DEF Line!PreviousIsTheLastOther

LEMMA ApplyKeeps ==
  ASSUME Line!LineInductive, Line!Apply
  PROVE  Line!LineInductive' /\ Line!TakesItsOwn
<1>0. linePc = "applying" /\ linePc' = "prompt" /\ continued' = FALSE /\ sequence \in Nat /\ sequence > 0 /\ buffer = Line!Empty
  BY DEF Line!Apply, Line!LineInductive
<1>1. sequence' = sequence /\ loaded' = loaded /\ config' = config /\ ran' = ran /\ swallowed' = swallowed /\ file' = file
  BY DEF Line!Apply
<1>2. sequence' \in Nat /\ sequence' >= sequence BY <1>0, <1>1
<1>3. Line!FileIsOfARun' BY <1>0, <1>1, <1>2, SameIsOfARun DEF Line!LineInductive
<1>4. Line!PreviousIsTheLastOther /\ used \in Seq(Conversations \ {""}) BY DEF Line!LineInductive
<1>5. Line!BufferIsOfNow' /\ Line!PreviousIsTheLastOther' /\ used' \in Seq(Conversations \ {""})
  <2>1. CASE ~Line!Ours
    <3>1. Same /\ buffer' = buffer BY <2>1 DEF Line!Apply, Same
    <3>2. Line!PreviousIsTheLastOther' BY <1>4, <3>1, SameIsOther
    <3> QED BY <1>0, <1>4, <3>1, <3>2 DEF Line!BufferIsOfNow, Line!Empty, Same
  <2>2. CASE Line!Ours
    <3> DEFINE c == IF file.conversation = "" THEN conversation ELSE file.conversation
    <3>1. /\ conversation' = c /\ earlier' = Line!Before(c) /\ buffer' = file.buffer
          /\ used' = IF c = conversation THEN used ELSE Append(used, c)
      BY <2>2 DEF Line!Apply
    <3>2. file # Line!NoFile BY <1>0, <2>2, Forms DEF Line!Ours
    <3>3. PICK n \in 1..sequence, d \in Conversations \union {""} :
             \E b \in {Line!Empty, Line!Proposed(n)} : file = [nonce |-> n, conversation |-> d, buffer |-> b]
      BY <3>2 DEF Line!LineInductive, Line!FileIsOfARun
    <3>8. PICK b \in {Line!Empty, Line!Proposed(n)} : file = [nonce |-> n, conversation |-> d, buffer |-> b] BY <3>3
    <3>9. file.nonce = n /\ file.conversation = d /\ file.buffer = b BY <3>8
    <3>4. n = sequence /\ file.conversation = d /\ file.buffer \in {Line!Empty, Line!Proposed(n)} BY <2>2, <3>9 DEF Line!Ours
    <3>5. Line!BufferIsOfNow' BY <1>0, <1>1, <3>1, <3>3, <3>4 DEF Line!BufferIsOfNow, Line!Empty, Line!Proposed
    <3>6. CASE c = conversation
      <4>1. Same BY <3>1, <3>6 DEF Line!Before, Same
      <4> QED BY <1>4, <3>5, <4>1, SameIsOther DEF Same
    <3>7. CASE c # conversation
      <4>1. c \in Conversations \ {""} BY <3>3, <3>4, <3>7
      <4> HIDE DEF c
      <4> QED BY <1>4, <3>1, <3>5, <3>7, <4>1, JoinKeepsOther
    <3> QED BY <3>6, <3>7
  <2> QED BY <2>1, <2>2
<1> QED BY <1>0, <1>1, <1>2, <1>3, <1>5 DEF Line!LineInductive, Line!TakesItsOwn, Line!PassedLinesRun

\* One step of the shell; and one that is none of its own.
LEMMA LineKeeps ==
  ASSUME Line!LineInductive, Line!ShellNext
  PROVE  Line!LineInductive' /\ Line!TakesItsOwn
<1>1. CASE Line!ClassifyRefuses
  <2>1. Line!Classified(2) BY <1>1 DEF Line!ClassifyRefuses
  <2>2. /\ linePc = "classifying" /\ linePc' = "prompt" /\ ran' = ran /\ swallowed' = swallowed
        /\ UNCHANGED <<loaded, config, buffer, sequence, file, conversation, earlier, used>>
    BY <2>1 DEF Line!Classified
  <2> QED BY <2>2, StaysThere
<1>2. CASE Line!ClientDies
  <2>1. /\ linePc = "running" /\ linePc' = "applying" /\ ran' = ran /\ swallowed' = swallowed
        /\ UNCHANGED <<loaded, config, buffer, sequence, file, conversation, earlier, used>>
    BY <1>2 DEF Line!ClientDies
  <2> QED BY <2>1, StaysThere
<1> QED BY <1>1, <1>2, TypeKeeps, EnterKeeps, AnswerKeeps, WriteKeeps, ApplyKeeps DEF Line!ShellNext

LEMMA LineStutters ==
  ASSUME Line!LineInductive, UNCHANGED shellVars
  PROVE  Line!LineInductive' /\ Line!TakesItsOwn
<1>1. /\ linePc' = linePc /\ continued' = continued /\ ran' = ran /\ swallowed' = swallowed
      /\ UNCHANGED <<loaded, config, buffer, sequence, file, conversation, earlier, used>>
  BY DEF shellVars
<1> QED BY <1>1, StaysThere

LEMMA EmptyIsSeq == (\A S : <<>> \in Seq(S)) /\ Len(<<>>) < 2
OBVIOUS

LEMMA LineStarts ==
  ASSUME Line!ShellInit
  PROVE  Line!LineInductive
<1>1. /\ loaded = config /\ linePc = "prompt" /\ buffer = Line!Empty /\ sequence = 0 /\ file = Line!NoFile
      /\ conversation = "" /\ earlier = "" /\ used = <<>> /\ swallowed = FALSE
  BY DEF Line!ShellInit
<1>2. used \in Seq(Conversations \ {""}) BY <1>1, EmptyIsSeq
<1>3. Len(used) < 2 BY <1>1, EmptyIsSeq
<1>4. Line!PreviousIsTheLastOther BY <1>1, <1>3 DEF Line!PreviousIsTheLastOther
<1>5. sequence \in Nat BY <1>1
<1> QED BY <1>1, <1>2, <1>4, <1>5
        DEF Line!LineInductive, Line!BufferIsOfNow, Line!FileIsOfARun, Line!PassedLinesRun

LineScene == scene = "line" => Line!LineInductive

LEMMA LineSteps ==
  ASSUME [Next]_vars, scene = "line"
  PROVE  Line!ShellNext \/ UNCHANGED shellVars
BY DEF Next, vars, MapperOnly, QueueOnly, RingOnly, ConvOnly, LineOnly, ConfigOnly, ContextOnly

LEMMA LineSceneKept ==
  ASSUME LineScene, [Next]_vars, scene = "line"
  PROVE  Line!LineInductive' /\ Line!TakesItsOwn
BY LineSteps, LineKeeps, LineStutters DEF LineScene

\* The inductive invariant of a shell with the plugin holds (ShellPlugin.LineInductive).
THEOREM LineInvariance == Spec => []LineScene
<1>1. Init => LineScene BY LineStarts DEF Init, LineScene
<1>2. LineScene /\ [Next]_vars => LineScene' BY SceneStays, LineSceneKept DEF LineScene
<1> QED BY <1>1, <1>2, PTL DEF Spec

\* What stands in the shell's buffer is of the run that just ended, whatever became of
\* the runs before it; `:c -` goes back to the last other conversation; a line the
\* grammar passes is run and never swallowed; and whatever line is typed, the grammar
\* keeps all its words and never prompts the model for a misspelled command (the
\* plugins, directives.ts, grammar.ts).
THEOREM LinesStayTheUsers == Spec => []LinesAreKept
<1>1. LineScene => LinesAreKept
  <2> SUFFICES ASSUME LineScene, scene = "line"
               PROVE  Line!ProposalsAreFresh /\ Line!PreviousIsTheLastOther /\ Line!PassedLinesRun /\ Line!GrammarHolds
    BY DEF LinesAreKept
  <2>1. Line!BufferIsOfNow /\ Line!PreviousIsTheLastOther /\ Line!PassedLinesRun BY DEF LineScene, Line!LineInductive
  <2>2. Line!ProposalsAreFresh BY <2>1, Forms DEF Line!BufferIsOfNow, Line!ProposalsAreFresh
  <2>3. Line!GrammarHolds
    <3> SUFFICES ASSUME buffer.is = "typed"
                 PROVE  Line!NothingIsDropped(buffer.line, config) /\ Line!TyposDoNotPrompt(buffer.line, config)
      BY DEF Line!GrammarHolds
    <3>1. PICK l \in Line!Lines : buffer = Line!Typed(l) BY <2>1, Forms DEF Line!BufferIsOfNow
    <3>2. buffer.line = l BY <3>1, Forms
    <3> QED BY <3>2, NothingDropped, TyposDontPrompt
  <2> QED BY <2>1, <2>2, <2>3
<1> QED BY <1>1, LineInvariance, PTL

\* A completed plan is executed at most once and where it was made, and the shell parses
\* only what the grammar passes or what continues a command (operations.ts:655, the
\* prefix tests of the plugins against parseLine).
THEOREM NothingElseIsRun == Spec => OnlyItsOwnIsRun
<1>1. ConvScene /\ LineScene /\ [Next]_vars
      => [/\ scene = "conversation" => Conv!ExecutesItsPlan
          /\ scene = "line" => Line!TakesItsOwn]_vars
  BY PlanIsItsOwn, LineSceneKept
<1> QED BY <1>1, ConversationsInvariance, LineInvariance, PTL DEF Spec, OnlyItsOwnIsRun

-----------------------------------------------------------------------------
(* What the model is told of the shell.                                      *)

LEMMA LimitsAreCounts == Limits \subseteq Nat
BY ServicesAssumption

\* s ends with t.
EndsWith(s, t) == Len(t) <= Len(s) /\ \A i \in 1 .. Len(t) : t[i] = s[Len(s) - Len(t) + i]

LEMMA LargerOf ==
  ASSUME NEW a \in Int
  PROVE  Context!Max({1, a}) = IF a >= 1 THEN a ELSE 1
<1> DEFINE m == IF a >= 1 THEN a ELSE 1
<1>1. m \in {1, a} /\ \A y \in {1, a} : m >= y OBVIOUS
<1>2. \A x \in {1, a} : (\A y \in {1, a} : x >= y) => x = m OBVIOUS
<1>3. Context!Max({1, a}) \in {1, a} /\ \A y \in {1, a} : Context!Max({1, a}) >= y BY <1>1, Zenon DEF Context!Max
<1> QED BY <1>2, <1>3

\* The end of a sequence from its m-th member.
LEMMA EndOf ==
  ASSUME NEW T, NEW s \in Seq(T), NEW m \in 1 .. Len(s) + 1
  PROVE  LET t == SubSeq(s, m, Len(s)) IN
         t \in Seq(T) /\ Len(t) = Len(s) - m + 1 /\ EndsWith(s, t)
<1> DEFINE t == SubSeq(s, m, Len(s))
<1>1. Len(s) \in Nat /\ m \in Nat /\ 1 <= m /\ m <= Len(s) + 1 OBVIOUS
<1>2. t \in Seq(T) BY <1>1, SubSeqProperties
<1>3. Len(t) = Len(s) - m + 1
  <2>1. CASE m <= Len(s) BY <1>1, <2>1, SubSeqProperties
  <2>2. CASE m = Len(s) + 1 BY <1>1, <2>2, SubSeqProperties
  <2> QED BY <1>1, <2>1, <2>2
<1>4. \A i \in 1 .. Len(t) : t[i] = s[m + i - 1] BY <1>1, <1>3, SubSeqProperties
<1>5. \A i \in 1 .. Len(t) : m + i - 1 = Len(s) - Len(t) + i
  <2> HIDE DEF t
  <2> QED BY <1>1, <1>3
<1>6. Len(t) <= Len(s)
  <2> HIDE DEF t
  <2> QED BY <1>1, <1>3
<1> HIDE DEF t
<1>7. EndsWith(s, t) BY <1>4, <1>5, <1>6 DEF EndsWith
<1> QED BY <1>2, <1>3, <1>7 DEF t

LEMMA NewestIs ==
  ASSUME NEW T, NEW s \in Seq(T), NEW n \in Nat
  PROVE  LET t == Context!Newest(n, s) IN
         t \in Seq(T) /\ Len(t) <= n /\ Len(t) <= Len(s) /\ EndsWith(s, t)
<1> DEFINE a == Len(s) - n + 1
           t == Context!Newest(n, s)
<1>1. Len(s) \in Nat /\ a \in Int OBVIOUS
<1>2. CASE a >= 1
  <2>1. a \in 1 .. Len(s) + 1 BY <1>1, <1>2
  <2>2. t = SubSeq(s, a, Len(s)) BY <1>1, <1>2, LargerOf DEF Context!Newest
  <2> HIDE DEF t
  <2>3. t \in Seq(T) /\ Len(t) = Len(s) - a + 1 /\ EndsWith(s, t) BY <2>1, <2>2, EndOf
  <2> QED BY <1>1, <1>2, <2>3 DEF t
<1>3. CASE a < 1
  <2>1. 1 \in 1 .. Len(s) + 1 BY <1>1
  <2>2. t = SubSeq(s, 1, Len(s)) BY <1>1, <1>3, LargerOf DEF Context!Newest
  <2> HIDE DEF t
  <2>3. t \in Seq(T) /\ Len(t) = Len(s) - 1 + 1 /\ EndsWith(s, t) BY <2>1, <2>2, EndOf
  <2> QED BY <1>1, <1>3, <2>3 DEF t
<1> QED BY <1>1, <1>2, <1>3

LEMMA EndOfEnd ==
  ASSUME NEW T, NEW s \in Seq(T), NEW t \in Seq(T), NEW u \in Seq(T), EndsWith(s, t), EndsWith(t, u)
  PROVE  EndsWith(s, u)
<1>1. Len(s) \in Nat /\ Len(t) \in Nat /\ Len(u) \in Nat OBVIOUS
<1>2. Len(t) <= Len(s) /\ Len(u) <= Len(t) BY DEF EndsWith
<1>3. ASSUME NEW i \in 1 .. Len(u) PROVE u[i] = s[Len(s) - Len(u) + i]
  <2>1. u[i] = t[Len(t) - Len(u) + i] BY DEF EndsWith
  <2>2. Len(t) - Len(u) + i \in 1 .. Len(t) BY <1>1, <1>2
  <2>3. t[Len(t) - Len(u) + i] = s[Len(s) - Len(t) + (Len(t) - Len(u) + i)] BY <2>2 DEF EndsWith
  <2>4. Len(s) - Len(t) + (Len(t) - Len(u) + i) = Len(s) - Len(u) + i BY <1>1
  <2> QED BY <2>1, <2>3, <2>4
<1> QED BY <1>1, <1>2, <1>3 DEF EndsWith

LEMMA BothGrow ==
  ASSUME NEW T, NEW s \in Seq(T), NEW t \in Seq(T), NEW e \in T, EndsWith(s, t)
  PROVE  EndsWith(Append(s, e), Append(t, e))
<1> DEFINE x == Append(s, e)
           y == Append(t, e)
<1>1. Len(s) \in Nat /\ Len(t) \in Nat /\ Len(x) = Len(s) + 1 /\ Len(y) = Len(t) + 1 OBVIOUS
<1>2. /\ \A i \in 1 .. Len(s) : x[i] = s[i]
      /\ \A i \in 1 .. Len(t) : y[i] = t[i]
      /\ x[Len(s) + 1] = e /\ y[Len(t) + 1] = e
  OBVIOUS
<1> HIDE DEF x, y
<1>3. Len(t) <= Len(s) /\ \A i \in 1 .. Len(t) : t[i] = s[Len(s) - Len(t) + i] BY DEF EndsWith
<1>4. ASSUME NEW i \in 1 .. Len(y) PROVE y[i] = x[Len(x) - Len(y) + i]
  <2>1. Len(x) - Len(y) + i = Len(s) - Len(t) + i BY <1>1
  <2>2. CASE i = Len(t) + 1 BY <1>1, <1>2, <2>1, <2>2
  <2>3. CASE i \in 1 .. Len(t)
    <3>1. Len(s) - Len(t) + i \in 1 .. Len(s) BY <1>1, <1>3, <2>3
    <3> QED BY <1>2, <1>3, <2>1, <2>3, <3>1
  <2>4. i = Len(t) + 1 \/ i \in 1 .. Len(t) BY <1>1
  <2> QED BY <2>2, <2>3, <2>4
<1>5. Len(y) <= Len(x) BY <1>1, <1>3
<1>6. EndsWith(x, y) BY <1>4, <1>5 DEF EndsWith
<1> QED BY <1>6 DEF x, y

LEMMA NothingEndsAll == \A s : Len(s) \in Nat => EndsWith(s, <<>>)
BY DEF EndsWith

Ran == [cmd : Context!Commands, exit : Context!Codes]

\* The array after a command.
LEMMA RemembersNewest ==
  ASSUME Context!ContextInductive, NEW e \in Ran
  PROVE  LET r == Context!Remembered(Append(recent, e))
             x == Append(executed, e)
         IN  r \in Seq(Ran) /\ x \in Seq(Ran) /\ EndsWith(x, r) /\ (pluginLimit = 0 => r = <<>>)
             /\ Len(x) = Len(executed) + 1 /\ \A i \in 1 .. Len(executed) : x[i] = executed[i]
<1> DEFINE y == Append(recent, e)
           x == Append(executed, e)
           r == Context!Remembered(y)
<1>1. recent \in Seq(Ran) /\ executed \in Seq(Ran) /\ pluginLimit \in Nat /\ EndsWith(executed, recent)
  BY DEF Context!ContextInductive, Context!Remembers, EndsWith, Ran
<1>2. y \in Seq(Ran) /\ x \in Seq(Ran) /\ Len(x) = Len(executed) + 1 /\ Len(x) \in Nat
      /\ \A i \in 1 .. Len(executed) : x[i] = executed[i]
  BY <1>1
<1>3. EndsWith(x, y) BY <1>1, BothGrow
<1> HIDE DEF x, y
<1>4. CASE pluginLimit = 0
  <2>1. r = <<>> BY <1>4 DEF Context!Remembered
  <2> QED BY <1>2, <1>4, <2>1, NothingEndsAll, EmptyIsSeq DEF x, y
<1>5. CASE pluginLimit # 0
  <2>1. r = Context!Newest(pluginLimit, y) BY <1>5 DEF Context!Remembered
  <2> HIDE DEF r
  <2>2. r \in Seq(Ran) /\ EndsWith(y, r) BY <1>1, <1>2, <2>1, NewestIs
  <2>3. EndsWith(x, r) BY <1>2, <1>3, <2>2, EndOfEnd
  <2> QED BY <1>2, <1>5, <2>2, <2>3 DEF r, x, y
<1> QED BY <1>4, <1>5

\* What is told stays true as long as what was executed stays.
LEMMA ToldStays ==
  ASSUME Context!ContextInductive, heard' = heard, redacts' = redacts, exitCodes' = exitCodes,
         Len(executed') >= Len(executed), Len(executed') \in Nat,
         \A i \in 1 .. Len(executed) : executed'[i] = executed[i]
  PROVE  /\ Context!ToldIsTheNewest' /\ Context!LimitIsKept'
         /\ Len(heard.entries)' \in Nat /\ heard.at' \in 0 .. Len(executed')
<1> DEFINE n == Len(heard.entries)
           at == heard.at
<1>0. n \in Nat /\ at \in 0 .. Len(executed) /\ executed \in Seq(Ran) /\ Context!ToldIsTheNewest /\ Context!LimitIsKept
  BY Zenon DEF Context!ContextInductive, Ran
<1>1. n \in Nat /\ at \in 0 .. Len(executed) /\ Len(executed) \in Nat /\ Context!ToldIsTheNewest /\ Context!LimitIsKept
  <2> HIDE DEF n, at
  <2> QED BY <1>0
<1>2. n <= at /\ (\A i \in 1 .. n : heard.entries[i] = Context!Tellable(executed[at - n + i]))
      /\ (redacts => \A i \in 1 .. n : heard.entries[i].cmd # "secret")
  BY <1>1 DEF Context!ToldIsTheNewest
<1>3. \A e : Context!Tellable(e)' = Context!Tellable(e)
  BY DEF Context!Tellable, Context!Redacted, Context!Entry
<1>4. \A i \in 1 .. n : at - n + i \in 1 .. Len(executed) BY <1>1, <1>2
<1>5. \A i \in 1 .. n : heard.entries[i] = Context!Tellable(executed'[at - n + i])
  BY <1>2, <1>4
<1> QED BY <1>1, <1>2, <1>5 DEF Context!ToldIsTheNewest, Context!LimitIsKept, Context!Tellable, Context!Redacted, Context!Entry
\* What the model is told at a line: the newest, without its secrets.
LEMMA KeptIs ==
  ASSUME Context!ContextInductive
  PROVE  LET kept == Context!SliceFromEnd(limit, recent) IN
         kept \in Seq(Ran) /\ Len(kept) <= limit /\ EndsWith(executed, kept)
<1>1. recent \in Seq(Ran) /\ executed \in Seq(Ran) /\ limit \in Nat /\ EndsWith(executed, recent)
      /\ (limit = 0 => recent = <<>>)
  BY Zenon DEF Context!ContextInductive, Context!Remembers, EndsWith, Ran
<1> DEFINE kept == Context!SliceFromEnd(limit, recent)
<1>2. CASE limit = 0
  <2>1. kept = recent BY <1>2 DEF Context!SliceFromEnd
  <2>2. Len(recent) = 0 BY <1>1, <1>2
  <2> HIDE DEF kept
  <2>3. kept \in Seq(Ran) /\ Len(kept) <= limit /\ EndsWith(executed, kept) BY <1>1, <1>2, <2>1, <2>2
  <2> QED BY <2>3 DEF kept
<1>3. CASE limit # 0
  <2>1. kept = Context!Newest(limit, recent) BY <1>3 DEF Context!SliceFromEnd
  <2> HIDE DEF kept
  <2>2. kept \in Seq(Ran) /\ Len(kept) <= limit /\ EndsWith(recent, kept) BY <1>1, <2>1, NewestIs
  <2>3. EndsWith(executed, kept) BY <1>1, <2>2, EndOfEnd
  <2> QED BY <2>2, <2>3 DEF kept
<1> QED BY <1>2, <1>3

LEMMA NothingSecret == \A cmd : redacts => Context!Redacted(cmd) # "secret"
BY DEF Context!Redacted

LEMMA RunKeeps ==
  ASSUME Context!ContextInductive, Context!Run
  PROVE  Context!ContextInductive'
<1> DEFINE kept == Context!SliceFromEnd(limit, recent)
           e == [i \in DOMAIN kept |-> Context!Entry(Context!Redacted(kept[i].cmd), IF exitCodes THEN kept[i].exit ELSE "none")]
<1>1. heard' = [entries |-> e, at |-> Len(executed), limit |-> limit]
      /\ UNCHANGED <<limit, exitCodes, redacts, pluginLimit, recent, command, executed>>
  BY Zenon DEF Context!Run
<1>2. heard'.entries = e /\ heard'.at = Len(executed) /\ heard'.limit = limit
  <2> HIDE DEF e
  <2> QED BY <1>1
<1>3. kept \in Seq(Ran) /\ Len(kept) <= limit /\ EndsWith(executed, kept) BY KeptIs
<1>4. executed \in Seq(Ran) /\ limit \in Nat BY Zenon DEF Context!ContextInductive, Ran
<1>5. /\ Len(executed) \in Nat /\ Len(kept) \in Nat /\ Len(kept) <= Len(executed) /\ DOMAIN kept = 1 .. Len(kept)
      /\ \A i \in 1 .. Len(kept) : kept[i] = executed[Len(executed) - Len(kept) + i]
  <2> HIDE DEF kept
  <2> QED BY <1>3, <1>4 DEF EndsWith
<1>6. Len(e) = Len(kept)
  <2> HIDE DEF kept
  <2>1. DOMAIN e = 1 .. Len(kept) BY <1>5
  <2> HIDE DEF e
  <2> QED BY <1>5, <2>1, LenProperties
<1>7. \A i \in 1 .. Len(kept) : e[i] = Context!Tellable(executed[Len(executed) - Len(kept) + i])
  <2> HIDE DEF kept
  <2> TAKE i \in 1 .. Len(kept)
  <2>1. e[i] = Context!Tellable(kept[i]) BY <1>5 DEF Context!Tellable
  <2> QED BY <1>5, <2>1
<1>8. \A x : Context!Tellable(x)' = Context!Tellable(x)
  BY <1>1 DEF Context!Tellable, Context!Redacted, Context!Entry
<1>9. redacts => \A i \in 1 .. Len(kept) : e[i].cmd # "secret"
  BY <1>7, NothingSecret DEF Context!Tellable, Context!Entry
<1> HIDE DEF kept, e
<1>10. Context!LimitIsKept' BY <1>2, <1>3, <1>6 DEF Context!LimitIsKept
<1>11. Len(heard.entries)' \in Nat /\ heard.at' \in 0 .. Len(executed')
  BY <1>1, <1>2, <1>5, <1>6
<1>12. Context!ToldIsTheNewest'
  <2>1. \A i \in 1 .. Len(e) : e[i] = Context!Tellable(executed[Len(executed) - Len(e) + i])
    BY <1>6, <1>7
  <2>2. redacts => \A i \in 1 .. Len(e) : e[i].cmd # "secret" BY <1>6, <1>9
  <2>3. Len(e) <= Len(executed) BY <1>5, <1>6
  <2> QED BY <1>1, <1>2, <2>1, <2>2, <2>3
          DEF Context!ToldIsTheNewest, Context!Tellable, Context!Redacted, Context!Entry
<1>13. Context!Remembers' BY <1>1 DEF Context!Remembers, Context!ContextInductive
<1> QED BY <1>1, <1>10, <1>11, <1>12, <1>13, Zenon DEF Context!ContextInductive

LEMMA PrecmdKeeps ==
  ASSUME Context!ContextInductive, NEW code \in {"0", "1"}, Context!Precmd(code)
  PROVE  Context!ContextInductive'
<1> DEFINE e == Context!Entry(command, code)
<1>1. /\ recent' = Context!Remembered(Append(recent, e)) /\ executed' = Append(executed, e) /\ command' = ""
      /\ UNCHANGED <<limit, exitCodes, redacts, pluginLimit, heard>>
  BY Zenon DEF Context!Precmd
<1>2. command \in Context!Commands BY DEF Context!Precmd, Context!ContextInductive
<1>3. e \in Ran BY <1>2 DEF Ran, Context!Entry, Context!Codes
<1> HIDE DEF e
<1>4. /\ recent' \in Seq(Ran) /\ executed' \in Seq(Ran) /\ EndsWith(executed', recent')
      /\ (pluginLimit = 0 => recent' = <<>>)
      /\ Len(executed') = Len(executed) + 1 /\ \A i \in 1 .. Len(executed) : executed'[i] = executed[i]
  BY <1>1, <1>3, RemembersNewest, Zenon
<1>5. executed \in Seq(Ran) BY Zenon DEF Context!ContextInductive, Ran
<1>6. Len(executed') \in Nat /\ Len(executed') >= Len(executed) BY <1>4, <1>5
<1>7. /\ Context!ToldIsTheNewest' /\ Context!LimitIsKept'
      /\ Len(heard.entries)' \in Nat /\ heard.at' \in 0 .. Len(executed')
  BY <1>1, <1>4, <1>6, ToldStays
<1>8. Context!Remembers' BY <1>4 DEF EndsWith, Context!Remembers
<1>9. limit' = 0 => pluginLimit' = 0 /\ recent' = <<>> BY <1>1, <1>4, Zenon DEF Context!ContextInductive
<1>10. command' \in Context!Commands \union {""} BY <1>1
<1> QED BY <1>1, <1>4, <1>7, <1>8, <1>9, <1>10, Zenon DEF Context!ContextInductive, Ran

LEMMA ToldSame ==
  ASSUME Context!ContextInductive, heard' = heard, redacts' = redacts, exitCodes' = exitCodes, executed' = executed
  PROVE  /\ Context!ToldIsTheNewest' /\ Context!LimitIsKept'
         /\ Len(heard.entries)' \in Nat /\ heard.at' \in 0 .. Len(executed')
<1>1. executed \in Seq(Ran) BY Zenon DEF Context!ContextInductive, Ran
<1>2. Len(executed') \in Nat /\ Len(executed') >= Len(executed) BY <1>1
<1> QED BY <1>2, ToldStays

\* The steps that leave what was executed and told alone.
LEMMA ContextStays ==
  ASSUME Context!ContextInductive,
         heard' = heard, redacts' = redacts, exitCodes' = exitCodes, executed' = executed, recent' = recent,
         limit' \in Nat, pluginLimit' \in Nat, command' \in Context!Commands \union {""},
         limit' = 0 => pluginLimit' = 0 /\ recent = <<>>
  PROVE  Context!ContextInductive'
<1>3. /\ Context!ToldIsTheNewest' /\ Context!LimitIsKept'
      /\ Len(heard.entries)' \in Nat /\ heard.at' \in 0 .. Len(executed')
  BY ToldSame
<1>4. Context!Remembers' BY Zenon DEF Context!Remembers, Context!ContextInductive
<1> QED BY <1>3, <1>4, Zenon DEF Context!ContextInductive

LEMMA ContextKeeps ==
  ASSUME Context!ContextInductive, Context!ContextNext \/ UNCHANGED contextVars
  PROVE  Context!ContextInductive'
<1>0. /\ limit \in Nat /\ pluginLimit \in Nat /\ command \in Context!Commands \union {""}
      /\ (limit = 0 => pluginLimit = 0 /\ recent = <<>>)
  BY Zenon DEF Context!ContextInductive
<1>1. CASE Context!Preexec BY <1>0, <1>1, ContextStays DEF Context!Preexec
<1>2. CASE Context!Run BY <1>2, RunKeeps
<1>3. CASE Context!Reload BY <1>0, <1>3, ContextStays DEF Context!Reload
<1>4. ASSUME NEW code \in {"0", "1"}, Context!Precmd(code) PROVE Context!ContextInductive' BY <1>4, PrecmdKeeps
<1>5. ASSUME NEW new \in Limits \ {0}, Context!EditLimit(new) PROVE Context!ContextInductive'
  <2>1. new \in Nat /\ new # 0 BY LimitsAreCounts
  <2> QED BY <1>0, <1>5, <2>1, ContextStays DEF Context!EditLimit
<1>6. CASE UNCHANGED contextVars BY <1>0, <1>6, ContextStays DEF contextVars
<1> QED BY <1>1, <1>2, <1>3, <1>4, <1>5, <1>6 DEF Context!ContextNext

LEMMA ContextStarts ==
  ASSUME Context!ContextInit
  PROVE  Context!ContextInductive
<1>0. command = "" BY DEF Context!ContextInit
<1>1. /\ limit \in Nat /\ pluginLimit = limit /\ recent = <<>> /\ executed = <<>>
      /\ heard = Context!Unasked
  BY LimitsAreCounts DEF Context!ContextInit
<1>2. heard.entries = <<>> /\ heard.at = 0 /\ heard.limit = 0 BY <1>1 DEF Context!Unasked
<1>3. recent \in Seq(Ran) /\ executed \in Seq(Ran) BY <1>1, EmptyIsSeq
<1> HIDE DEF Ran
<1>4. Len(<<>>) = 0 OBVIOUS
<1>5. Context!Remembers BY <1>1, <1>4 DEF Context!Remembers
<1>6. Context!ToldIsTheNewest BY <1>2, <1>4 DEF Context!ToldIsTheNewest
<1>7. Context!LimitIsKept BY <1>2, <1>4 DEF Context!LimitIsKept
<1>8. Len(heard.entries) \in Nat /\ heard.at \in 0 .. Len(executed) BY <1>1, <1>2, <1>4
<1> QED BY <1>0, <1>1, <1>3, <1>5, <1>6, <1>7, <1>8, Zenon DEF Context!ContextInductive, Ran

ContextScene == scene = "context" => Context!ContextInductive

LEMMA ContextSteps ==
  ASSUME [Next]_vars, scene = "context"
  PROVE  Context!ContextNext \/ UNCHANGED contextVars
BY DEF Next, vars, MapperOnly, QueueOnly, RingOnly, ConvOnly, LineOnly, ConfigOnly, ContextOnly

LEMMA ContextSceneKept ==
  ASSUME ContextScene, [Next]_vars, scene = "context"
  PROVE  Context!ContextInductive'
BY ContextSteps, ContextKeeps DEF ContextScene

-----------------------------------------------------------------------------
(* The configuration.                                                        *)

LEMMA FieldNames ==
  /\ "backend" \in Config!Fields /\ "passthrough" \in Config!Fields /\ "allowlist" \in Config!Fields
  /\ "PREFAIX_BACKEND" \notin Config!Fields /\ Config!Absent \notin Config!Fields
  /\ "PREFAIX_BACKEND" # Config!Absent
BY DEF Config!Fields, Config!Schema, Config!Absent

\* The names of a field, the one that decides first.
LEMMA NamesOf ==
  /\ \A f : f # "backend" => Config!EnvNames(f) = <<f>>
  /\ Config!EnvNames("backend") = <<"backend", "PREFAIX_BACKEND">>
BY DEF Config!EnvNames

LEMMA NameCount ==
  ASSUME NEW f
  PROVE  /\ f # "backend" => DOMAIN Config!EnvNames(f) = {1}
         /\ f = "backend" => DOMAIN Config!EnvNames(f) = {1, 2} /\ Config!EnvNames(f)[2] = "PREFAIX_BACKEND"
         /\ 1 \in DOMAIN Config!EnvNames(f) /\ Config!EnvNames(f)[1] = f
<1>1. CASE f # "backend" BY <1>1, NamesOf
<1>2. CASE f = "backend" BY <1>2, NamesOf
<1> QED BY <1>1, <1>2

LEMMA SmallestOf ==
  /\ (CHOOSE i \in {1} : \A j \in {1} : i <= j) = 1
  /\ (CHOOSE i \in {2} : \A j \in {2} : i <= j) = 2
  /\ (CHOOSE i \in {1, 2} : \A j \in {1, 2} : i <= j) = 1
<1>1. \A U \in {{1}, {2}, {1, 2}} : \E m \in U : (\A j \in U : m <= j) /\ (\A i \in U : (\A j \in U : i <= j) => i = m)
  OBVIOUS
<1>2. \A U \in {{1}, {2}, {1, 2}} : LET c == CHOOSE i \in U : \A j \in U : i <= j IN c \in U /\ \A j \in U : c <= j
  BY <1>1, Zenon
<1> QED BY <1>2

\* Which variable decides a field.
LEMMA OverrideIs ==
  ASSUME NEW f \in Config!Fields
  PROVE  /\ Config!EnvUsable(f, inEnv[f]) => Config!Override(f) = f
         /\ ~Config!EnvUsable(f, inEnv[f]) =>
              Config!Override(f) = IF f = "backend" /\ Config!EnvUsable(f, inEnv["PREFAIX_BACKEND"])
                                   THEN "PREFAIX_BACKEND" ELSE Config!Absent
<1> DEFINE names == Config!EnvNames(f)
           U == {i \in DOMAIN names : Config!EnvUsable(f, inEnv[names[i]])}
<1>1. Config!Override(f) = IF U = {} THEN Config!Absent ELSE names[CHOOSE i \in U : \A j \in U : i <= j]
  BY DEF Config!Override
<1>2. /\ 1 \in DOMAIN names /\ names[1] = f
      /\ f # "backend" => DOMAIN names = {1}
      /\ f = "backend" => DOMAIN names = {1, 2} /\ names[2] = "PREFAIX_BACKEND"
  BY NameCount
<1> HIDE DEF names
<1>3. CASE Config!EnvUsable(f, inEnv[f])
  <2>1. U = {1} \/ U = {1, 2} BY <1>2, <1>3
  <2> HIDE DEF U
  <2> QED BY <1>1, <1>2, <1>3, <2>1, SmallestOf
<1>4. CASE ~Config!EnvUsable(f, inEnv[f]) /\ f = "backend" /\ Config!EnvUsable(f, inEnv["PREFAIX_BACKEND"])
  <2>1. U = {2} BY <1>2, <1>4
  <2> HIDE DEF U
  <2> QED BY <1>1, <1>2, <1>4, <2>1, SmallestOf
<1>5. CASE ~Config!EnvUsable(f, inEnv[f]) /\ ~(f = "backend" /\ Config!EnvUsable(f, inEnv["PREFAIX_BACKEND"]))
  <2>1. U = {} BY <1>2, <1>5
  <2> HIDE DEF U
  <2> QED BY <1>1, <1>5, <2>1
<1> QED BY <1>3, <1>4, <1>5

\* What the environment gives is used, or reported.
LEMMA NothingUnusable ==
  ASSUME NEW f \in Config!Fields, Config!EnvDiagnostics = {}
  PROVE  /\ inEnv[f] # Config!Absent => Config!EnvUsable(f, inEnv[f])
         /\ f = "backend" /\ inEnv["PREFAIX_BACKEND"] # Config!Absent =>
              Config!EnvUsable(f, inEnv[f]) \/ Config!EnvUsable(f, inEnv["PREFAIX_BACKEND"])
<1>1. /\ 1 \in DOMAIN Config!EnvNames(f) /\ Config!EnvNames(f)[1] = f
      /\ f = "backend" => 2 \in DOMAIN Config!EnvNames(f) /\ Config!EnvNames(f)[2] = "PREFAIX_BACKEND"
  BY NameCount
<1>2. f \in Config!Names /\ "PREFAIX_BACKEND" \in Config!Names BY DEF Config!Names
<1>3. \A n \in Config!Names : \A i \in DOMAIN Config!EnvNames(f) :
        Config!EnvNames(f)[i] = n /\ inEnv[n] # Config!Absent /\ ~Config!EnvUsable(f, inEnv[n])
        => \E j \in 1 .. i : Config!EnvUsable(f, inEnv[Config!EnvNames(f)[j]])
  BY DEF Config!EnvDiagnostics
<1>4. ASSUME inEnv[f] # Config!Absent, ~Config!EnvUsable(f, inEnv[f]) PROVE FALSE
  <2>1. PICK j \in 1 .. 1 : Config!EnvUsable(f, inEnv[Config!EnvNames(f)[j]]) BY <1>1, <1>2, <1>3, <1>4
  <2>2. j = 1 BY <2>1
  <2> QED BY <1>1, <1>4, <2>1, <2>2
<1>5. ASSUME f = "backend", inEnv["PREFAIX_BACKEND"] # Config!Absent,
             ~Config!EnvUsable(f, inEnv[f]), ~Config!EnvUsable(f, inEnv["PREFAIX_BACKEND"])
      PROVE  FALSE
  <2>1. PICK j \in 1 .. 2 : Config!EnvUsable(f, inEnv[Config!EnvNames(f)[j]])
    BY <1>1, <1>2, <1>3, <1>5
  <2>2. j = 1 \/ j = 2 BY <2>1
  <2> QED BY <1>1, <1>5, <2>1, <2>2
<1> QED BY <1>4, <1>5

LEMMA NoValueUnusable == \A f, v : Config!EnvUsable(f, v) \/ Config!FileUsable(f, v) => v # Config!Absent
BY DEF Config!EnvUsable, Config!FileUsable

Loaded == Config!ConfigInductive /\ Config!Accepted

LEMMA LoadedIs ==
  ASSUME Loaded
  PROVE  /\ Config!FileDiagnostics = {} /\ Config!EnvDiagnostics = {} /\ ~Config!Unrelated
         /\ resolved.value = [f \in Config!Fields |-> Config!Value(f)]
         /\ resolved.ask = Config!Persona /\ resolved.described = Config!Described
         /\ document \in {"none", "unreadable", "broken", "table"} /\ stray \in BOOLEAN
         /\ (document # "table" => ~stray)
BY DEF Loaded, Config!Accepted, Config!ConfigInductive

LEMMA DocumentIsClean ==
  ASSUME Loaded
  PROVE  ~stray /\ document # "broken" /\ \A f \in Config!Fields : Config!Given(f) # Config!Absent => Config!FileUsable(f, Config!Given(f))
<1>1. CASE document = "table"
  <2>1. Config!FileDiagnostics = {f \in Config!Fields : inFile[f] # Config!Absent /\ ~Config!FileUsable(f, inFile[f])}
                                 \union (IF stray THEN {"unknown"} ELSE {})
    BY <1>1 DEF Config!FileDiagnostics
  <2> QED BY <1>1, <2>1, LoadedIs DEF Config!Given
<1>2. CASE document = "broken"
  <2>1. Config!FileDiagnostics = {"document"} BY <1>2 DEF Config!FileDiagnostics
  <2> QED BY <2>1, LoadedIs
<1>3. CASE document \notin {"table", "broken"} BY <1>3, LoadedIs DEF Config!Given
<1> QED BY <1>1, <1>2, <1>3

\* Nothing that was given is dropped.
LEMMA GivenIsUsed ==
  ASSUME Loaded
  PROVE  Config!WhatIsGivenIsUsed
<1> SUFFICES ASSUME NEW f \in Config!Fields
             PROVE  LET raws == {inEnv[Config!EnvNames(f)[i]] : i \in DOMAIN Config!EnvNames(f)} \ {Config!Absent}
                        main == inEnv[f]
                        v == resolved.value[f]
                    IN CASE main # Config!Absent -> v = Config!ParsedEnv(Config!Schema[f].kind, main)
                         [] main = Config!Absent /\ raws # {} -> \E raw \in raws : v = Config!ParsedEnv(Config!Schema[f].kind, raw)
                         [] raws = {} /\ Config!Given(f) # Config!Absent -> v = Config!Coerced(Config!Schema[f].kind, Config!Given(f))
                         [] OTHER -> v = Config!Schema[f].default
  BY DocumentIsClean DEF Config!WhatIsGivenIsUsed
<1> DEFINE raws == {inEnv[Config!EnvNames(f)[i]] : i \in DOMAIN Config!EnvNames(f)} \ {Config!Absent}
           alias == inEnv["PREFAIX_BACKEND"]
           kind == Config!Schema[f].kind
<1>1. resolved.value[f] = Config!Value(f) BY LoadedIs
<1>2. raws = ({inEnv[f]} \union (IF f = "backend" THEN {alias} ELSE {})) \ {Config!Absent} BY NameCount
<1> HIDE DEF raws
<1>3. CASE inEnv[f] # Config!Absent
  <2>1. Config!Override(f) = f BY <1>3, OverrideIs, NothingUnusable, LoadedIs
  <2>2. Config!Value(f) = Config!ParsedEnv(kind, inEnv[f]) BY <2>1, FieldNames DEF Config!Value
  <2>3. raws # {} BY <1>2, <1>3
  <2> QED BY <1>1, <1>3, <2>2, <2>3 DEF raws
<1>4. CASE inEnv[f] = Config!Absent /\ f = "backend" /\ alias # Config!Absent
  <2>1. Config!Override(f) = "PREFAIX_BACKEND" BY <1>4, OverrideIs, NothingUnusable, LoadedIs, NoValueUnusable
  <2>2. Config!Value(f) = Config!ParsedEnv(kind, alias) BY <2>1, FieldNames DEF Config!Value
  <2>3. alias \in raws BY <1>2, <1>4
  <2> QED BY <1>1, <1>4, <2>2, <2>3 DEF raws
<1>5. CASE inEnv[f] = Config!Absent /\ ~(f = "backend" /\ alias # Config!Absent)
  <2>1. Config!Override(f) = Config!Absent BY <1>5, OverrideIs, NoValueUnusable
  <2>2. Config!Value(f) = Config!Read(f) BY <2>1 DEF Config!Value
  <2>3. raws = {} BY <1>2, <1>5
  <2>4. Config!Given(f) # Config!Absent => Config!Read(f) = Config!Coerced(kind, Config!Given(f))
    BY DocumentIsClean DEF Config!Read
  <2>5. Config!Given(f) = Config!Absent => Config!Read(f) = Config!Schema[f].default
    BY NoValueUnusable DEF Config!Read, Config!Default
  <2> QED BY <1>1, <1>5, <2>2, <2>3, <2>4, <2>5 DEF raws
<1> QED BY <1>3, <1>4, <1>5

\* A list that is asked for is there, and filters.
LEMMA ListFilters ==
  ASSUME Loaded
  PROVE  Config!AllowlistIsKept
<1>1. /\ resolved.value["passthrough"] = Config!Value("passthrough")
      /\ resolved.value["allowlist"] = Config!Value("allowlist")
  BY LoadedIs, FieldNames
<1> QED BY <1>1, LoadedIs DEF Config!AllowlistIsKept, Config!Inherits, Config!Unrelated

LEMMA OneSource ==
  ASSUME Loaded
  PROVE  Config!SettingsAreReportedOnce
<1> SUFFICES ASSUME NEW f \in Config!Fields
             PROVE  /\ \A d, e \in Config!ReportsOf(f) : d = e
                    /\ resolved.value[f] # Config!Schema[f].default => Config!ReportsOf(f) # {}
  BY DEF Config!SettingsAreReportedOnce
<1> DEFINE source == IF Config!Override(f) = Config!Absent THEN "file" ELSE Config!Override(f)
<1>1. resolved.described = Config!Described /\ resolved.value[f] = Config!Value(f) BY LoadedIs
<1>2. \A d \in Config!ReportsOf(f) : d = <<f, source>> BY <1>1 DEF Config!Described, Config!ReportsOf
<1>5. Config!Value(f) # Config!Schema[f].default => <<f, source>> \in Config!Described
  BY DEF Config!Value, Config!Read, Config!Default, Config!Described
<1>6. <<f, source>> \in Config!Described => <<f, source>> \in Config!ReportsOf(f) BY <1>1 DEF Config!ReportsOf
<1> QED BY <1>1, <1>2, <1>5, <1>6

LEMMA PersonaReplaced ==
  ASSUME Loaded
  PROVE  Config!PersonasAreReplaced
BY LoadedIs DEF Config!PersonasAreReplaced, Config!Persona

LEMMA ConfigStarts ==
  ASSUME Config!ConfigInit
  PROVE  Config!ConfigInductive
BY DEF Config!ConfigInit, Config!ConfigInductive

LEMMA ConfigSame ==
  ASSUME UNCHANGED <<document, field, stray, inFile, inEnv, persona>>
  PROVE  /\ Config!FileDiagnostics' = Config!FileDiagnostics /\ Config!EnvDiagnostics' = Config!EnvDiagnostics
         /\ Config!Unrelated' = Config!Unrelated /\ Config!Persona' = Config!Persona
         /\ Config!Described' = Config!Described
         /\ [f \in Config!Fields |-> Config!Value(f)]' = [f \in Config!Fields |-> Config!Value(f)]
BY DEF Config!FileDiagnostics, Config!EnvDiagnostics, Config!Unrelated, Config!Persona, Config!Described, Config!Value,
       Config!Read, Config!Override, Config!Given, Config!Default

LEMMA ConfigKeeps ==
  ASSUME Config!ConfigInductive, Config!ConfigNext \/ UNCHANGED configVars
  PROVE  Config!ConfigInductive'
<1>1. UNCHANGED <<document, field, stray, inFile, inEnv, persona>> BY DEF Config!ConfigNext, Config!Resolve, configVars
<1>2. CASE UNCHANGED configVars
  <2>1. resolved' = resolved BY <1>2 DEF configVars
  <2> QED BY <1>1, <2>1, ConfigSame DEF Config!ConfigInductive
<1>3. CASE Config!Resolve
  <2>1. CASE resolved' = Config!Refused(1) \/ resolved' = Config!Refused(2)
    <3>1. resolved'.ok = FALSE BY <2>1 DEF Config!Refused
    <3> QED BY <1>1, <3>1 DEF Config!ConfigInductive
  <2>2. CASE /\ Config!FileDiagnostics \union Config!EnvDiagnostics = {} /\ ~Config!Unrelated
             /\ resolved' = [done |-> TRUE, ok |-> TRUE, exit |-> 0, value |-> [f \in Config!Fields |-> Config!Value(f)],
                             ask |-> Config!Persona, described |-> Config!Described]
    <3>1. /\ resolved'.ok = TRUE /\ resolved'.value = [f \in Config!Fields |-> Config!Value(f)]
          /\ resolved'.ask = Config!Persona /\ resolved'.described = Config!Described
      BY <2>2
    <3>2. Config!FileDiagnostics = {} /\ Config!EnvDiagnostics = {} /\ ~Config!Unrelated BY <2>2
    <3>3. Config!FileDiagnostics' = {} /\ Config!EnvDiagnostics' = {} /\ ~Config!Unrelated' BY <1>1, <3>2, ConfigSame
    <3>4. resolved'.value = [f \in Config!Fields |-> Config!Value(f)]' BY <1>1, <3>1, ConfigSame
    <3>5. resolved'.ask = Config!Persona' /\ resolved'.described = Config!Described' BY <1>1, <3>1, ConfigSame
    <3>6. document' = document /\ stray' = stray BY <1>1
    <3> QED BY <3>1, <3>3, <3>4, <3>5, <3>6 DEF Config!ConfigInductive
  <2> QED BY <1>3, <2>1, <2>2 DEF Config!Resolve
<1> QED BY <1>2, <1>3 DEF Config!ConfigNext

ConfigScene == scene = "config" => Config!ConfigInductive

LEMMA ConfigSteps ==
  ASSUME [Next]_vars, scene = "config"
  PROVE  Config!ConfigNext \/ UNCHANGED configVars
BY DEF Next, vars, MapperOnly, QueueOnly, RingOnly, ConvOnly, LineOnly, ConfigOnly, ContextOnly

LEMMA ConfigSceneKept ==
  ASSUME ConfigScene, [Next]_vars, scene = "config"
  PROVE  Config!ConfigInductive'
BY ConfigSteps, ConfigKeeps DEF ConfigScene

\* What a configuration of any shape says is used or refused, never dropped: the
\* environment before the file before the default, an allowlist that is asked for
\* filters, a persona is replaced whole, a setting has one source (core/config); and
\* the model is told the newest commands, at most as many as configured, and none of
\* the secret ones as it stands (context/shell-context.ts).
THEOREM SettingsAreTheUsers == Spec => []SettingsAreWhatWasGiven
<1>1. Init => ContextScene /\ ConfigScene BY ContextStarts, ConfigStarts DEF Init, ContextScene, ConfigScene
<1>2. ContextScene /\ ConfigScene /\ [Next]_vars => ContextScene' /\ ConfigScene'
  BY SceneStays, ContextSceneKept, ConfigSceneKept DEF ContextScene, ConfigScene
<1>3. ContextScene /\ ConfigScene => SettingsAreWhatWasGiven
  <2> SUFFICES ASSUME ContextScene, ConfigScene PROVE SettingsAreWhatWasGiven OBVIOUS
  <2>1. ASSUME scene = "config"
        PROVE  /\ Config!WhatIsGivenIsUsed /\ Config!AllowlistIsKept
               /\ Config!PersonasAreReplaced /\ Config!SettingsAreReportedOnce
    <3>1. CASE Config!Accepted
      <4>1. Loaded BY <2>1, <3>1 DEF Loaded, ConfigScene
      <4> QED BY <4>1, GivenIsUsed, ListFilters, PersonaReplaced, OneSource
    <3>2. CASE ~Config!Accepted
      BY <3>2 DEF Config!WhatIsGivenIsUsed, Config!AllowlistIsKept, Config!PersonasAreReplaced, Config!SettingsAreReportedOnce
    <3> QED BY <3>1, <3>2
  <2>2. ASSUME scene = "context" PROVE Context!ToldIsTheNewest /\ Context!LimitIsKept
    BY <2>2, Zenon DEF ContextScene, Context!ContextInductive
  <2> QED BY <2>1, <2>2 DEF SettingsAreWhatWasGiven
<1> QED BY <1>1, <1>2, <1>3, PTL DEF Spec
===============================================================================
