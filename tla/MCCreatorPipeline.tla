------------------------- MODULE MCCreatorPipeline -------------------------
(* Instances of CreatorPipeline for TLC.                                   *)
EXTENDS CreatorPipeline, TLC

Symmetry == Permutations(Handler)
=============================================================================
