-------------------------- MODULE MCScoringEngine --------------------------
(***************************************************************************)
(* Instances of ScoringEngine for TLC: the shipped single-threaded server, *)
(* and two processes, each with threads of its own, over one database.     *)
(***************************************************************************)
EXTENDS ScoringEngine, TLC

CONSTANTS c1, c2, p1, p2, w1

OneCaller    == [c \in {c1} |-> p1]
TwoProcesses == [c \in {c1, c2} |-> IF c = c1 THEN p1 ELSE p2]

(* A rollback may restore the policy of the first workload. *)
FirstHealing == {[owner |-> w1, rev |-> 0]}

Symmetry == Permutations(Txns)
=============================================================================
