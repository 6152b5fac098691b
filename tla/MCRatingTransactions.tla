------------------------ MODULE MCRatingTransactions ------------------------
(* Three matches among three players, every two of them sharing a player,  *)
(* with sides that follow the order of the ids in two matches and go       *)
(* against it in the third; two calls race for one of the matches.         *)
EXTENDS RatingTransactions, TLC

CONSTANTS c1, c2, c3, c4, m12, m23, m31

MCMatchOf == (c1 :> m12) @@ (c2 :> m23) @@ (c3 :> m31) @@ (c4 :> m31)

MCSideA == (m12 :> 1) @@ (m23 :> 2) @@ (m31 :> 3)
MCSideB == (m12 :> 2) @@ (m23 :> 3) @@ (m31 :> 1)
=============================================================================
