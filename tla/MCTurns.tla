------------------------------ MODULE MCTurns ------------------------------
(* Small instances of Turns for TLC. *)
EXTENDS Turns, TLC

CONSTANTS c1, c2, s1

OneShell == [c \in Conn |-> s1]
OneUse == [c \in Conn |-> 1]
Interchangeable == Permutations(Conv)

=============================================================================
