--------------------------- MODULE MCConfigCenter ---------------------------
(* ConfigCenter on small sets.                                             *)
EXTENDS ConfigCenter, TLC
CONSTANTS k1, k2
BothKeys == <<k1, k2>>
SessionSymmetry == Permutations(Sessions) \cup Permutations(Processes)
=============================================================================
