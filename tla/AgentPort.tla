----------------------------- MODULE AgentPort -----------------------------
(***************************************************************************)
(* What every backend promises of the events of one turn                   *)
(* (src/core/agent-port.ts; the invariants of test/contract/suite.ts).  An *)
(* event is a record with a "type"; text carries its block, tools and      *)
(* dialogs their id, usage its running total.                              *)
(***************************************************************************)
EXTENDS Naturals, Sequences

Of(events, types) == {i \in 1..Len(events) : events[i].type \in types}

\* At most one settled event, and nothing after it.
SettlesOnce(events) == \A i \in Of(events, {"settled"}) : i = Len(events)

\* The turn starts at most once, before anything of pi's run.
StartsOnce(events) ==
    \A i \in Of(events, {"turn_start"}) :
       \A j \in 1..(i - 1) : events[j].type \in {"usage", "notice", "status"}

\* A block ends once and is silent afterwards.
BlocksEnd(events) ==
    \A i \in Of(events, {"text_end"}), j \in Of(events, {"text_end", "text_delta"}) :
       i # j /\ events[i].block = events[j].block => j < i

\* A tool's updates and end follow its one start; nothing follows its end.
ToolsPair(events) ==
    \A i \in Of(events, {"tool_start", "tool_update", "tool_end"}) :
       IF events[i].type = "tool_start"
       THEN \A j \in Of(events, {"tool_start"}) : events[j].id = events[i].id => i = j
       ELSE /\ \E j \in Of(events, {"tool_start"}) : j < i /\ events[j].id = events[i].id
            /\ \A j \in Of(events, {"tool_end"}) : events[j].id = events[i].id => i <= j

\* Usage is a running total.
UsageGrows(events) ==
    \A i, j \in Of(events, {"usage"}) : i < j => events[i].total <= events[j].total

\* No dialog id is asked twice.
DialogsDiffer(events) ==
    \A i, j \in Of(events, {"ui_request"}) : events[i].id = events[j].id => i = j

KeepsContract(events) ==
    /\ SettlesOnce(events) /\ StartsOnce(events) /\ BlocksEnd(events)
    /\ ToolsPair(events) /\ UsageGrows(events) /\ DialogsDiffer(events)
=============================================================================
