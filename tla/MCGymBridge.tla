---------------------------- MODULE MCGymBridge -----------------------------
(* Two sub-environments behind one bridge, or the single environment; the  *)
(* bounds leave room for a second episode, an autoreset that is retried    *)
(* and an answer that comes late.                                          *)
EXTENDS GymBridge
=============================================================================
