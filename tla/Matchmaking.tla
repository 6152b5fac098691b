---------------------------- MODULE Matchmaking -----------------------------
(***************************************************************************)
(* What the matchmaking queue of packages/server promises its players,     *)
(* whatever it does with windows, batches, retries and clocks: a player    *)
(* joins the pool, may leave it, is taken out of it together with exactly  *)
(* one other player, and then either both are given the same match or the  *)
(* pairing is undone, each of the two going back to the pool or out of it. *)
(***************************************************************************)
CONSTANT Users

VARIABLES
  pool,    (* players waiting for an opponent                              *)
  pairs,   (* sets of two players whose match is being played              *)
  result   (* players of the match a player can fetch, {} when there is none*)

vars == <<pool, pairs, result>>

Seated == UNION pairs

Init ==
  /\ pool = {}
  /\ pairs = {}
  /\ result = [u \in Users |-> {}]

Join(u) ==
  /\ u \notin pool /\ u \notin Seated
  /\ pool' = pool \cup {u}
  /\ result' = [result EXCEPT ![u] = {}]
  /\ UNCHANGED pairs

Leave(u) ==
  /\ u \in pool
  /\ pool' = pool \ {u}
  /\ UNCHANGED <<pairs, result>>

Pair(u, v) ==
  /\ u \in pool /\ v \in pool /\ u # v
  /\ pool' = pool \ {u, v}
  /\ pairs' = pairs \cup {{u, v}}
  /\ UNCHANGED result

Deliver(P) ==
  /\ P \in pairs
  /\ pairs' = pairs \ {P}
  /\ result' = [u \in Users |-> IF u \in P THEN P ELSE result[u]]
  /\ UNCHANGED pool

Undo(P, back) ==
  /\ P \in pairs
  /\ back \subseteq P
  /\ pairs' = pairs \ {P}
  /\ pool' = pool \cup back
  /\ UNCHANGED result

Next ==
  \/ \E u \in Users : Join(u) \/ Leave(u)
  \/ \E u, v \in Users : Pair(u, v)
  \/ \E P \in pairs : Deliver(P)
  \/ \E P \in pairs : \E back \in SUBSET P : Undo(P, back)

Spec == Init /\ [][Next]_vars

-----------------------------------------------------------------------------
(* The pool, the seats and the unclaimed results never share a player, and *)
(* no player is in two pairs.                                              *)
NobodyTwice ==
  /\ pool \cap Seated = {}
  /\ \A P, Q \in pairs : P \cap Q # {} => P = Q
  /\ \A u \in Users : result[u] # {} => u \notin pool /\ u \notin Seated

(* A player can only fetch a match of their own against somebody else.     *)
ResultsAreOwn ==
  \A u \in Users :
    result[u] # {} => \E v \in Users \ {u} : result[u] = {u, v}
=============================================================================
