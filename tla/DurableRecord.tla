--------------------------- MODULE DurableRecord ---------------------------
(***************************************************************************)
(* What the conversation store promises of one record: every operation     *)
(* takes effect at one instant between its call and its answer, a reader   *)
(* sees a whole record or none, and what was answered survives a crash.    *)
(***************************************************************************)
CONSTANTS
    Caller,     \* concurrent calls of the store
    Field,      \* the parts of a record that patches change
    Value,
    None,       \* no record
    Torn,       \* a file that does not parse, or lacks a field
    Ok, Failed  \* answers: done, an error

Record == [Field -> Value]
Op == [kind : {"get", "remove"}] \cup [kind : {"save"}, to : Record]
      \cup [kind : {"update"}, field : Field, to : Value]
Reads == {"get", "update"}

VARIABLES
    shown,      \* what a reader sees
    kept,       \* what a crash may leave
    stage,      \* of each call: not made, asked for, in effect
    request,    \* what it asks
    reply       \* what the last call was answered

vars == <<shown, kept, stage, request, reply>>

\* What a writing operation makes of the record s.
Effect(o, s) ==
    CASE o.kind = "save" -> o.to
      [] o.kind = "update" -> [s EXCEPT ![o.field] = o.to]
      [] o.kind = "remove" -> None
Writes(o, s) == o.kind = "save" \/ (o.kind = "update" /\ s \in Record)
                \/ (o.kind = "remove" /\ s # None)

Init ==
    /\ shown = None /\ kept = {None}
    /\ stage = [c \in Caller |-> "idle"]
    /\ request = [c \in Caller |-> None]
    /\ reply = [c \in Caller |-> None]

Ask(c, o) ==
    /\ stage[c] = "idle"
    /\ stage' = [stage EXCEPT ![c] = "asked"]
    /\ request' = [request EXCEPT ![c] = o] /\ reply' = [reply EXCEPT ![c] = None]
    /\ UNCHANGED <<shown, kept>>

\* The one instant at which a write is in effect.  A crash may still undo it.
Write(c) ==
    /\ stage[c] = "asked" /\ Writes(request[c], shown)
    /\ stage' = [stage EXCEPT ![c] = "written"]
    /\ shown' = Effect(request[c], shown) /\ kept' = kept \cup {shown'}
    /\ UNCHANGED <<request, reply>>

\* The call returns; what it synced on the way no crash undoes.
Answer(c, r) ==
    /\ stage' = [stage EXCEPT ![c] = "idle"]
    /\ request' = [request EXCEPT ![c] = None] /\ reply' = [reply EXCEPT ![c] = r]
    /\ kept' \in {kept, {shown}}
    /\ UNCHANGED shown
Done(c) == stage[c] = "written" /\ kept' = {shown} /\ Answer(c, Ok)
Got(c) ==
    /\ stage[c] = "asked" /\ request[c].kind = "get"
    /\ Answer(c, IF shown \in Record THEN shown ELSE None)
NothingToRemove(c) ==
    /\ stage[c] = "asked" /\ request[c].kind = "remove" /\ shown = None
    /\ Answer(c, None)
\* A failure, after which the write may be in effect or not.
Fail(c) == stage[c] # "idle" /\ Answer(c, Failed)

\* A reader finds a file that is not a record and puts it aside.
Quarantine(c) ==
    /\ stage[c] = "asked" /\ request[c].kind \in Reads /\ shown = Torn
    /\ shown' = None /\ kept' = kept \cup {None}
    /\ UNCHANGED <<stage, request, reply>>

\* Somebody edits the file while no operation is under way.
Spoil ==
    /\ shown # None /\ \A c \in Caller : stage[c] # "written"
    /\ shown' = Torn /\ kept' = {Torn}
    /\ UNCHANGED <<stage, request, reply>>

Crash ==
    /\ shown' \in kept /\ kept' = {shown'}
    /\ stage' = [c \in Caller |-> "idle"] /\ request' = [c \in Caller |-> None]
    /\ UNCHANGED reply

Next ==
    \/ \E c \in Caller :
        \/ \E o \in Op : Ask(c, o)
        \/ Write(c) \/ Done(c) \/ Got(c) \/ NothingToRemove(c) \/ Fail(c) \/ Quarantine(c)
    \/ Spoil \/ Crash

Spec == Init /\ [][Next]_vars
=============================================================================
