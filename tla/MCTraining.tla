----------------------------- MODULE MCTraining -----------------------------
(* Training for TLC: two sub-environments, so that one ends an episode     *)
(* while the other is in the middle of one.                                *)
EXTENDS Training
=============================================================================
