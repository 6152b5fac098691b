------------------------------- MODULE Ordered --------------------------------
(***************************************************************************)
(* A finite set of numbers as the sequence that lists it in ascending      *)
(* order: what a loop over an array that skips some of its indices visits. *)
(***************************************************************************)
EXTENDS Integers, FiniteSets

InOrder(S) ==
  CHOOSE f \in [1..Cardinality(S) -> S] :
    \A i, j \in DOMAIN f : i < j => f[i] < f[j]
=============================================================================
