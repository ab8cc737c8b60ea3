-------------------------- MODULE MCModelRegistry --------------------------
(***************************************************************************)
(* An instance of ModelRegistry for TLC: the seeded champion and its       *)
(* predecessor, and one new model id, which is also that of a loadable     *)
(* artifact.                                                               *)
(***************************************************************************)
EXTENDS ModelRegistry, TLC

CONSTANTS v11, v12, new, w1, w2

MCSeedOrder == <<v12, v11>>

MCSeedStage == [m \in {v11, v12} |-> IF m = v12 THEN "champion" ELSE "archived"]

(* The contract of the new model's manifest fits the first workload, its   *)
(* replay fixtures pass under the second: its gate is passed only while    *)
(* the other thread activates workloads between the reads of the gate.     *)
MCCompatible == {<<new, w1>>}
MCReplays == {<<new, w2>>}

Symmetry == Permutations(Operators)
=============================================================================
