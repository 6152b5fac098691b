---------------------------- MODULE MCMatchQueue ----------------------------
(* Values of MatchQueue's constants for TLC.                               *)
EXTENDS MatchQueue, TLC

(* Three ratings: two near each other, one far from both.                  *)
MCRatings == {0, 1, 3}

(* Users differ in nothing but their names.                                *)
MCSymmetry == Permutations(Users)
=============================================================================
