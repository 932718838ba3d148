------------------------ MODULE MCRecommendationPool ------------------------
(* Model checking of RecommendationPool: sessions differ in name only.      *)
EXTENDS RecommendationPool, TLC

Symmetry == Permutations(Sessions)

(* States are told apart by all variables, but by what the last event names *)
(* only while ToldIsTrue says something of it: no action reads `told`.      *)
Seen == <<row, status, sess, calls, adrift, untrue, approved, raced,
          [r \in Recs |-> IF untrue[r] THEN None ELSE told[r]]>>
=============================================================================
