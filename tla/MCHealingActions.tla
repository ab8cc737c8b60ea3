-------------------------- MODULE MCHealingActions --------------------------
(***************************************************************************)
(* Instances of HealingActions for TLC: one monitor with a seeded action   *)
(* and one without, or one monitor alone; a workload with room for a       *)
(* threshold move, and others that review, block or both outside the band. *)
(***************************************************************************)
EXTENDS HealingActions

CONSTANTS m1, m2, w1, w2, w3, w4

Seed(kind, m, target) == [Proposal(kind, m) EXCEPT !.target = target]

SeedThreshold == <<Seed("threshold", m1, 62)>>
SeedRunning   == <<[Seed("other", None, 0) EXCEPT !.status = "running"],
                   Seed("threshold", m1, 62)>>

(* w1: the default pack moved to the band's edge; w2: the claims example;  *)
(* w3: an imported workload that blocks early; w4: one that is refused.    *)
MCReview == [w \in Workloads |->
               CASE w = w1 -> 60 [] w = w2 -> 55 [] w = w3 -> 40 [] w = w4 -> 70]
MCBlock  == [w \in Workloads |->
               CASE w = w1 -> 85 [] w = w2 -> 82 [] w = w3 -> 50 [] w = w4 -> 65]
=============================================================================
