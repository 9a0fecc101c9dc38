---------------------------- MODULE MCAgentPool ----------------------------
(* Small instances of AgentPool for TLC. *)
EXTENDS AgentPool, TLC

ConvSymmetry == Permutations(Conv)

\* The behaviours of Spec without failures, sweeps, removals and shutdown: few
\* enough to search the long ones.
SmoothNext ==
    \/ OpStep \/ Opened \/ CloseDone
    \/ \E k \in Conv : \/ \E p \in Place, m \in Persona : Claim(k, p, m)
                       \/ TurnAcquires(k) \/ Prompt(k) \/ TurnEnds(k)
    \/ \E k \in Conv, p \in Place : ModelAsks(k, p)
SmoothSpec == Init /\ [][SmoothNext]_vars
=============================================================================
