--------------------------- MODULE MCPublication ---------------------------
(* Instances of Publication for TLC.                                       *)
EXTENDS Publication, TLC

Symmetry == Permutations(Caller) \cup Permutations(Publications)
=============================================================================
