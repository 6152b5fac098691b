--------------------------- MODULE AtomicRatings ----------------------------
(***************************************************************************)
(* What applyMatchRatings (packages/server, src/ratings/service.ts)        *)
(* promises whoever calls it: each call happens at one instant.  At that   *)
(* instant it counts its match, once more, in what both its players'       *)
(* ratings then are, or finds the match rated, or fails and has changed    *)
(* nothing -- unless what failed was the answer to its COMMIT.  How many   *)
(* other calls are under way, and which rows they hold, does not matter.   *)
(***************************************************************************)
EXTENDS Naturals

CONSTANTS Calls, Matches, Users, MatchOf, SideA, SideB, NoRow

VARIABLES
  rated,     (* matches that have been rated                               *)
  ratings,   (* how often each match counts in each player's rating        *)
  outcome    (* what each call returned, "none" before it has              *)

vars == <<rated, ratings, outcome>>

PlayersOf(c) == {SideA[MatchOf[c]], SideB[MatchOf[c]]}

Unrated == [m \in Matches |-> 0]

Counts(u) == IF ratings[u] = NoRow THEN Unrated ELSE ratings[u]

Init ==
  /\ rated = {}
  /\ ratings \in [Users -> {NoRow, Unrated}]
  /\ outcome = [c \in Calls |-> "none"]

Returns(c, result) ==
  /\ outcome[c] = "none"
  /\ outcome' = [outcome EXCEPT ![c] = result]

(* Both ratings and the mark on the match, at once; "error" is a commit    *)
(* whose answer was lost.                                                  *)
Rate(c) ==
  /\ MatchOf[c] \notin rated
  /\ rated' = rated \cup {MatchOf[c]}
  /\ ratings' = [u \in Users |->
       IF u \in PlayersOf(c) THEN [Counts(u) EXCEPT ![MatchOf[c]] = @ + 1] ELSE ratings[u]]
  /\ Returns(c, "applied") \/ Returns(c, "error")

FindRated(c) ==
  /\ MatchOf[c] \in rated
  /\ Returns(c, "already-rated")
  /\ UNCHANGED <<rated, ratings>>

Fail(c) ==
  /\ Returns(c, "error")
  /\ UNCHANGED <<rated, ratings>>

Next == \E c \in Calls : Rate(c) \/ FindRated(c) \/ Fail(c)

Spec == Init /\ [][Next]_vars
=============================================================================
