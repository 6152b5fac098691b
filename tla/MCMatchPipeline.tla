--------------------------- MODULE MCMatchPipeline ---------------------------
(* Values of MatchPipeline's constants for TLC.                            *)
EXTENDS MatchPipeline, TLC

Symmetry == Permutations(Users)
=============================================================================
