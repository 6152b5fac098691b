----------------------------- MODULE MCLocalPlay ------------------------------
(* Values of LocalPlay's constants for TLC.                                *)
EXTENDS LocalPlay

(* The bundled warbands have four units.                                   *)
Good == [shape |-> "ok", ids |-> "known", augments |-> "none",
         squad |-> [units |-> "several", behaviors |-> "rules"]]

Augmented == [Good EXCEPT !.augments = "known"]

Stranger == [DefaultWarband EXCEPT !.ids = "unknown"]

Ghost == [DefaultWarband EXCEPT !.augments = "unknown"]

FilesValue == {Stranger, Ghost}

(* A single unit that policy-smoke-v1 decides for.                         *)
Trained == {[units |-> "one", behaviors |-> "policy"]}

AugmentFiles == {Augmented, Corrupt}
=============================================================================
