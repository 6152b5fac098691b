---------------------- MODULE RatingTransactionsProofs ----------------------
(***************************************************************************)
(* Proofs about RatingTransactions, for any calls, matches and players.    *)
(***************************************************************************)
EXTENDS RatingTransactions, WellFoundedInduction, TLAPS

-----------------------------------------------------------------------------
(* Types.                                                                  *)

(* The rating a call reads is a rating, and counting a match leaves one.   *)
LEMMA RatingsType ==
  ASSUME TypeOK, NEW u \in Users
  PROVE  /\ DefaultRating \in Rating
         /\ Current(u) \in Rating
         /\ \A c \in Calls : NewRating(c, u) \in Rating
<1>1. DefaultRating \in Rating
  BY DEF DefaultRating, Rating
<1>2. Current(u) \in Rating
  BY <1>1 DEF TypeOK, Current
<1>3. ASSUME NEW c \in Calls PROVE NewRating(c, u) \in Rating
  <2>1. MatchOf[c] \in Matches /\ seen[c][u] \in Rating
    BY RatingAssumption DEF RatingAssumption, TypeOK
  <2> QED BY <2>1 DEF NewRating, Rating
<1> QED BY <1>1, <1>2, <1>3

(* The players of a call's match are two users.                            *)
LEMMA PlayersType ==
  ASSUME NEW c \in Calls
  PROVE  /\ MatchOf[c] \in Matches
         /\ PlayersOf(c) \subseteq Users
         /\ PlayersOf(c) = {SideA[MatchOf[c]], SideB[MatchOf[c]]}
         /\ SideA[MatchOf[c]] \in PlayersOf(c) /\ SideB[MatchOf[c]] \in PlayersOf(c)
         /\ SideA[MatchOf[c]] # SideB[MatchOf[c]]
BY RatingAssumption DEF RatingAssumption, PlayersOf, Players

(* What moving on to another statement leaves of the types.                *)
LEMMA AdvanceType ==
  ASSUME TypeOK, NEW c \in Calls, NEW u \in Users, NEW s \in Steps,
         Advance(c, u, s)
  PROVE  step' \in [Calls -> Steps] /\ todo' \in [Calls -> SUBSET Users]
<1>1. CASE todo[c] = {u}
  <2>1. PlayersOf(c) \in SUBSET Users
    BY PlayersType
  <2> QED BY <1>1, <2>1 DEF TypeOK, Advance, Begin
<1>2. CASE todo[c] # {u}
  <2>1. /\ step' = [step EXCEPT ![c] = step[c]]
        /\ todo' = [todo EXCEPT ![c] = todo[c] \ {u}]
    BY <1>2 DEF Advance, Begin
  <2>2. step \in [Calls -> Steps] /\ todo \in [Calls -> SUBSET Users]
    BY DEF TypeOK
  <2>3. step[c] \in Steps /\ todo[c] \ {u} \in SUBSET Users
    BY <2>2
  <2> QED BY <2>1, <2>2, <2>3
<1> QED BY <1>1, <1>2

(* Every step keeps the types.                                             *)
LEMMA TypeStep == TypeOK /\ [Next]_vars => TypeOK'
<1> SUFFICES ASSUME TypeOK, [Next]_vars PROVE TypeOK'
  OBVIOUS
<1> USE DEF TypeOK
<1>1. ASSUME NEW c \in Calls, Claim(c) PROVE TypeOK'
  <2>1. CASE MatchOf[c] \in rated
    BY <1>1, <2>1 DEF Claim, Ends, Begin, Steps, Outcomes, dbVars
  <2>2. CASE MatchOf[c] \notin rated
    BY <1>1, <2>2, PlayersType DEF Claim, Begin, Steps, dbVars
  <2> QED BY <2>1, <2>2
<1>2. ASSUME NEW c \in Calls, NEW u \in Users, InsertRow(c, u) PROVE TypeOK'
  <2>1. step' \in [Calls -> Steps] /\ todo' \in [Calls -> SUBSET Users]
    BY <1>2, AdvanceType DEF InsertRow, Steps
  <2> QED BY <1>2, <2>1 DEF InsertRow, dbVars
<1>3. ASSUME NEW c \in Calls, NEW u \in Users, LockRow(c, u) PROVE TypeOK'
  <2>1. step' \in [Calls -> Steps] /\ todo' \in [Calls -> SUBSET Users]
    BY <1>3, AdvanceType DEF LockRow, Steps
  <2>2. Current(u) \in Rating
    BY RatingsType
  <2> QED BY <1>3, <2>1, <2>2 DEF LockRow, dbVars
<1>4. ASSUME NEW c \in Calls, NEW u \in Users, UpdateRow(c, u) PROVE TypeOK'
  <2>1. step' \in [Calls -> Steps] /\ todo' \in [Calls -> SUBSET Users]
    BY <1>4, AdvanceType DEF UpdateRow, Steps
  <2> QED BY <1>4, <2>1 DEF UpdateRow, dbVars
<1>5. ASSUME NEW c \in Calls, Commit(c) PROVE TypeOK'
  <2>1. \A u \in Users : NewRating(c, u) \in Rating
    BY RatingsType
  <2>2. rated' \in SUBSET Matches
    BY <1>5, PlayersType DEF Commit
  <2>3. ratings' \in [Users -> Rating \cup {NoRow}]
    BY <1>5, <2>1 DEF Commit
  <2>4. step' \in [Calls -> Steps] /\ todo' \in [Calls -> SUBSET Users]
    BY <1>5 DEF Commit, Ends, Begin, Steps
  <2>5. outcome' \in [Calls -> Outcomes]
    BY <1>5 DEF Commit, Ends, Outcomes
  <2> QED BY <1>5, <2>2, <2>3, <2>4, <2>5 DEF Commit, Releases
<1>6. ASSUME NEW c \in Calls, Abort(c) PROVE TypeOK'
  BY <1>6 DEF Abort, Releases, Ends, Begin, Steps, Outcomes, dbVars
<1>7. CASE UNCHANGED vars
  BY <1>7 DEF vars, dbVars, lockVars, callVars
<1> QED BY <1>1, <1>2, <1>3, <1>4, <1>5, <1>6, <1>7 DEF Next, Works, AllEnded

(* The initial state is well typed.                                        *)
LEMMA TypeInit == Init => TypeOK
<1> SUFFICES ASSUME Init PROVE TypeOK
  OBVIOUS
<1>1. DefaultRating \in Rating
  BY DEF DefaultRating, Rating
<1> QED BY <1>1 DEF Init, TypeOK, Steps, Outcomes

(* The lock tables, the calls' progress and the ratings stay well typed.   *)
THEOREM TypeCorrect == Spec => []TypeOK
<1> QED BY TypeInit, TypeStep, PTL DEF Spec

-----------------------------------------------------------------------------
(* The inductive invariant: what the lock tables say of the calls, and what*)
(* the calls know of the rows they hold.                                   *)

Working == {"insert", "select", "update", "commit"}

(* A call that got past its first statement holds its match, unrated yet.  *)
Claimed ==
  /\ \A c \in Calls : step[c] \in Working =>
       claimer[MatchOf[c]] = c /\ MatchOf[c] \notin rated
  /\ \A c \in Calls, m \in Matches : claimer[m] = c =>
       m = MatchOf[c] /\ step[c] \in Working

(* The rows the SELECT has passed are locked by the call, and stay so.     *)
HasLocked(c, u) ==
  \/ step[c] = "select" /\ u \notin todo[c]
  \/ step[c] \in {"update", "commit"}

Locked ==
  /\ \A c \in Calls : todo[c] \subseteq PlayersOf(c)
  /\ \A c \in Calls, u \in Users : owner[u] = c => u \in PlayersOf(c) /\ step[c] \in Working
  /\ \A c \in Calls : \A u \in PlayersOf(c) : HasLocked(c, u) => owner[u] = c

(* Before it has reached a row with its SELECT, a call holds it only if it *)
(* wrote the row first; a row that is still missing after a call's INSERT  *)
(* is one that call wrote.                                                 *)
Fresh ==
  /\ \A u \in Users : owner[u] # Nobody /\ ratings[u] = NoRow => u \in dirty
  /\ \A c \in Calls, u \in Users : owner[u] = c =>
       /\ step[c] = "insert" => ratings[u] = NoRow /\ u \notin todo[c]
       /\ step[c] = "select" /\ u \in todo[c] => ratings[u] = NoRow
  /\ \A c \in Calls : \A u \in PlayersOf(c) :
       /\ ratings[u] = NoRow
       /\ step[c] = "select" \/ (step[c] = "insert" /\ u \notin todo[c])
       => owner[u] = c

(* INSERT and SELECT go through the rows in the order of the ids.          *)
Ordered ==
  \A c \in Calls : step[c] \in {"insert", "select"} =>
    \A u \in PlayersOf(c) \ todo[c], v \in todo[c] : u < v

LockInv == TypeOK /\ Claimed /\ Locked /\ Fresh /\ Ordered

(* The invariant holds when no call has started.                           *)
LEMMA LockInvInit == Init => LockInv
<1> SUFFICES ASSUME Init PROVE LockInv
  OBVIOUS
<1>1. TypeOK
  BY TypeInit
<1>2. \A c \in Calls : Nobody # c
  BY RatingAssumption DEF RatingAssumption
<1>3. Claimed
  BY <1>2, PlayersType DEF Init, Claimed, Working
<1>4. Locked
  BY <1>2 DEF Init, Locked, HasLocked
<1>5. Fresh
  BY <1>2, PlayersType DEF Init, Fresh
<1>6. Ordered
  BY DEF Init, Ordered
<1> QED BY <1>1, <1>3, <1>4, <1>5, <1>6 DEF LockInv

(* Claim: the call takes its match, or leaves with nothing.                *)
LEMMA ClaimKeepsLocks ==
  ASSUME LockInv, NEW c \in Calls, Claim(c)
  PROVE  Claimed' /\ Locked' /\ Fresh' /\ Ordered'
<1> USE DEF LockInv
<1>0. /\ MatchOf[c] \in Matches /\ \A d \in Calls : Nobody # d
      /\ PlayersOf(c) \subseteq Users
  BY PlayersType, RatingAssumption DEF RatingAssumption
<1>1. /\ step' = [step EXCEPT ![c] = step'[c]] /\ step'[c] \in {"insert", "end"}
      /\ todo' = [todo EXCEPT ![c] = todo'[c]]
      /\ step'[c] = "insert" => todo'[c] = PlayersOf(c)
      /\ step'[c] = "end" => todo'[c] = {}
      /\ \A u \in Users : owner[u] # c
  BY DEF Claim, Begin, Ends, TypeOK, Locked, Working
<1>2. Claimed'
  <2>1. CASE MatchOf[c] \in rated
    <3>1. step'[c] = "end" /\ rated' = rated /\ claimer' = claimer
      BY <2>1 DEF Claim, Ends, Begin, TypeOK, dbVars
    <3>2. \A m \in Matches : claimer[m] # c
      BY DEF Claimed, Claim, Working
    <3> QED BY <1>0, <1>1, <3>1, <3>2 DEF Claimed, Working, TypeOK
  <2>2. CASE MatchOf[c] \notin rated
    <3>1. step'[c] = "insert" /\ rated' = rated
          /\ claimer' = [claimer EXCEPT ![MatchOf[c]] = c]
      BY <2>2 DEF Claim, Begin, TypeOK, dbVars
    <3>2. claimer[MatchOf[c]] = Nobody
      BY DEF Claim
    <3>3. \A d \in Calls \ {c} : step'[d] = step[d]
      BY <1>1 DEF TypeOK
    <3>4. \A m \in Matches : claimer'[m] = IF m = MatchOf[c] THEN c ELSE claimer[m]
      BY <1>0, <3>1 DEF TypeOK
    <3>5. \A d \in Calls : MatchOf[d] \in Matches /\ Nobody # d
      BY PlayersType, RatingAssumption DEF RatingAssumption
    <3>6. ASSUME NEW d \in Calls, step'[d] \in Working
          PROVE  claimer'[MatchOf[d]] = d /\ MatchOf[d] \notin rated'
      BY <2>2, <3>1, <3>2, <3>3, <3>4, <3>5, <3>6 DEF Claimed
    <3>7. ASSUME NEW d \in Calls, NEW m \in Matches, claimer'[m] = d
          PROVE  m = MatchOf[d] /\ step'[d] \in Working
      <4>1. CASE m = MatchOf[c]
        BY <1>0, <3>1, <3>4, <3>7, <4>1 DEF Working
      <4>2. CASE m # MatchOf[c]
        <5>1. claimer[m] = d
          BY <3>4, <3>7, <4>2
        <5>2. m = MatchOf[d] /\ step[d] \in Working
          BY <5>1 DEF Claimed
        <5>3. d # c
          BY <4>2, <5>2
        <5> QED BY <3>3, <5>2, <5>3
      <4> QED BY <4>1, <4>2
    <3> QED BY <3>6, <3>7 DEF Claimed
  <2> QED BY <2>1, <2>2
<1>3. Locked'
  BY <1>0, <1>1 DEF Claim, Locked, HasLocked, Working, TypeOK, dbVars, PlayersOf
<1>4. Fresh'
  BY <1>0, <1>1 DEF Claim, Fresh, TypeOK, dbVars, PlayersOf
<1>5. Ordered'
  BY <1>0, <1>1 DEF Ordered, TypeOK, PlayersOf
<1> QED BY <1>2, <1>3, <1>4, <1>5

(* A statement that takes a row moves its own call alone.                  *)
LEMMA AdvanceMoves ==
  ASSUME TypeOK, NEW c \in Calls, NEW u \in Users, NEW s, Advance(c, u, s)
  PROVE  /\ \A d \in Calls \ {c} : step'[d] = step[d] /\ todo'[d] = todo[d]
         /\ todo[c] = {u} => step'[c] = s /\ todo'[c] = PlayersOf(c)
         /\ todo[c] # {u} => step'[c] = step[c] /\ todo'[c] = todo[c] \ {u}
BY DEF TypeOK, Advance, Begin

(* InsertRow: a missing row becomes the call's, a present one is left alone.*)
LEMMA InsertKeepsLocks ==
  ASSUME LockInv, NEW c \in Calls, NEW u \in Users, InsertRow(c, u)
  PROVE  Claimed' /\ Locked' /\ Fresh' /\ Ordered'
<1> USE DEF LockInv
<1>0. /\ MatchOf[c] \in Matches /\ \A d \in Calls : Nobody # d
      /\ PlayersOf(c) \subseteq Users /\ u \in PlayersOf(c) /\ u \in todo[c]
      /\ todo[c] \subseteq PlayersOf(c)
      /\ step[c] = "insert"
  BY PlayersType, RatingAssumption DEF RatingAssumption, InsertRow, IsNext, Locked
<1>1. /\ \A d \in Calls \ {c} : step'[d] = step[d] /\ todo'[d] = todo[d]
      /\ todo[c] = {u} => step'[c] = "select" /\ todo'[c] = PlayersOf(c)
      /\ todo[c] # {u} => step'[c] = "insert" /\ todo'[c] = todo[c] \ {u}
  BY <1>0, AdvanceMoves DEF InsertRow
<1>2. Claimed'
  BY <1>0, <1>1 DEF InsertRow, Claimed, Working, TypeOK, dbVars
<1>3. owner[u] \in {Nobody, c} \/ owner' = owner
  BY <1>0 DEF InsertRow, Fresh, TypeOK
<1>4. Locked'
  <2> SUFFICES ASSUME NEW d \in Calls
               PROVE  /\ todo'[d] \subseteq PlayersOf(d)
                      /\ \A v \in Users : owner'[v] = d => v \in PlayersOf(d) /\ step'[d] \in Working
                      /\ \A v \in PlayersOf(d) : HasLocked(d, v)' => owner'[v] = d
    BY DEF Locked
  <2>1. \A v \in Users : owner'[v] = owner[v] \/ (v = u /\ owner[u] \in {Nobody, c} /\ owner'[u] = c)
    BY <1>0, <1>3 DEF InsertRow, TypeOK
  <2>2. CASE d = c
    <3>1. /\ step'[c] \in {"insert", "select"}
          /\ step'[c] = "select" => todo'[c] = PlayersOf(c)
          /\ todo'[c] \subseteq PlayersOf(c)
      BY <1>0, <1>1
    <3>2. \A v \in Users : owner'[v] = c => v \in PlayersOf(c)
      BY <1>0, <2>1 DEF Locked
    <3>3. \A v \in PlayersOf(c) : ~HasLocked(c, v)'
      BY <3>1 DEF HasLocked
    <3> QED BY <2>2, <3>1, <3>2, <3>3 DEF Working
  <2>3. CASE d # c
    BY <1>0, <1>1, <2>1, <2>3, PlayersType DEF Locked, HasLocked, Working
  <2> QED BY <2>2, <2>3
<1>5. Fresh'
  <2>1. \A v \in Users : owner'[v] = owner[v] \/ (v = u /\ owner[u] \in {Nobody, c} /\ owner'[u] = c)
    BY <1>0, <1>3 DEF InsertRow, TypeOK
  <2>2. ratings' = ratings
    BY DEF InsertRow, dbVars
  <2>3. ratings[u] = NoRow => owner'[u] = c /\ dirty' = dirty \cup {u}
    BY <1>0 DEF InsertRow, TypeOK
  <2>4. ratings[u] # NoRow => owner' = owner /\ dirty' = dirty
    BY DEF InsertRow
  <2>5. \A v \in Users : owner'[v] # Nobody /\ ratings'[v] = NoRow => v \in dirty'
    BY <2>1, <2>2, <2>3, <2>4 DEF Fresh
  <2>6. ASSUME NEW d \in Calls
        PROVE  /\ \A v \in Users : owner'[v] = d =>
                    /\ step'[d] = "insert" => ratings'[v] = NoRow /\ v \notin todo'[d]
                    /\ step'[d] = "select" /\ v \in todo'[d] => ratings'[v] = NoRow
               /\ \A v \in PlayersOf(d) :
                    /\ ratings'[v] = NoRow
                    /\ step'[d] = "select" \/ (step'[d] = "insert" /\ v \notin todo'[d])
                    => owner'[v] = d
    <3>1. CASE d = c
      <4>1. \A v \in Users : owner'[v] = c => ratings[v] = NoRow /\ (v = u \/ v \notin todo[c])
        BY <1>0, <2>1, <2>3, <2>4 DEF Fresh
      <4>2. \A v \in PlayersOf(c) :
              ratings[v] = NoRow /\ (v = u \/ v \notin todo[c]) => owner'[v] = c
        BY <1>0, <2>1, <2>3 DEF Fresh
      <4>3. CASE todo[c] = {u}
        BY <1>1, <2>2, <3>1, <4>1, <4>2, <4>3
      <4>4. CASE todo[c] # {u}
        BY <1>1, <2>2, <3>1, <4>1, <4>2, <4>4
      <4> QED BY <4>3, <4>4
    <3>2. CASE d # c
      BY <1>0, <1>1, <2>1, <2>2, <2>3, <2>4, <3>2, PlayersType DEF Fresh
    <3> QED BY <3>1, <3>2
  <2> QED BY <2>5, <2>6 DEF Fresh
<1>6. Ordered'
  <2> SUFFICES ASSUME NEW d \in Calls, step'[d] \in {"insert", "select"},
                      NEW v \in PlayersOf(d) \ todo'[d], NEW w \in todo'[d]
               PROVE  v < w
    BY DEF Ordered
  <2>1. CASE d = c /\ todo[c] = {u}
    BY <1>1, <2>1
  <2>2. CASE d = c /\ todo[c] # {u}
    <3>1. w \in todo[c] /\ w # u /\ w \in Users /\ u \in Users /\ v \in Users
      BY <1>0, <1>1, <2>2
    <3>2. u <= w /\ w \in Int /\ u \in Int
      BY <3>1, RatingAssumption DEF RatingAssumption, InsertRow, IsNext
    <3>3. v = u \/ v \notin todo[c]
      BY <1>1, <2>2
    <3>4. v \notin todo[c] => v < w
      BY <1>0, <2>2, <3>1 DEF Ordered
    <3> QED BY <3>1, <3>2, <3>3, <3>4
  <2>3. CASE d # c
    BY <1>1, <2>3 DEF Ordered
  <2> QED BY <2>1, <2>2, <2>3
<1> QED BY <1>2, <1>4, <1>5, <1>6

(* LockRow: the row was free, or the call's own.                           *)
LEMMA LockKeepsLocks ==
  ASSUME LockInv, NEW c \in Calls, NEW u \in Users, LockRow(c, u)
  PROVE  Claimed' /\ Locked' /\ Fresh' /\ Ordered'
<1> USE DEF LockInv
<1>0. /\ MatchOf[c] \in Matches /\ \A d \in Calls : Nobody # d
      /\ PlayersOf(c) \subseteq Users /\ u \in PlayersOf(c) /\ u \in todo[c]
      /\ todo[c] \subseteq PlayersOf(c)
      /\ step[c] = "select"
  BY PlayersType, RatingAssumption DEF RatingAssumption, LockRow, IsNext, Locked
<1>1. /\ \A d \in Calls \ {c} : step'[d] = step[d] /\ todo'[d] = todo[d]
      /\ todo[c] = {u} => step'[c] = "update" /\ todo'[c] = PlayersOf(c)
      /\ todo[c] # {u} => step'[c] = "select" /\ todo'[c] = todo[c] \ {u}
  BY <1>0, AdvanceMoves DEF LockRow
<1>2. Claimed'
  BY <1>0, <1>1 DEF LockRow, Claimed, Working, TypeOK, dbVars
<1>3. /\ owner[u] \in {Nobody, c}
      /\ \A v \in Users : owner'[v] = IF v = u THEN c ELSE owner[v]
      /\ ratings' = ratings /\ dirty' = dirty
  BY DEF LockRow, TypeOK, dbVars
<1>4. Locked'
  <2> SUFFICES ASSUME NEW d \in Calls
               PROVE  /\ todo'[d] \subseteq PlayersOf(d)
                      /\ \A v \in Users : owner'[v] = d => v \in PlayersOf(d) /\ step'[d] \in Working
                      /\ \A v \in PlayersOf(d) : HasLocked(d, v)' => owner'[v] = d
    BY DEF Locked
  <2>1. CASE d = c
    <3>1. \A v \in Users : owner'[v] = c => v \in PlayersOf(c)
      BY <1>0, <1>3 DEF Locked
    <3>2. \A v \in PlayersOf(c) : v = u \/ v \notin todo[c] => owner'[v] = c
      BY <1>0, <1>3 DEF Locked, HasLocked
    <3>3. CASE todo[c] = {u}
      BY <1>0, <1>1, <2>1, <3>1, <3>2, <3>3 DEF Working
    <3>4. CASE todo[c] # {u}
      BY <1>0, <1>1, <2>1, <3>1, <3>2, <3>4 DEF Working, HasLocked
    <3> QED BY <3>3, <3>4
  <2>2. CASE d # c
    BY <1>0, <1>1, <1>3, <2>2, PlayersType DEF Locked, HasLocked, Working
  <2> QED BY <2>1, <2>2
<1>5. Fresh'
  <2>1. \A v \in Users : owner'[v] # Nobody /\ ratings'[v] = NoRow => v \in dirty'
    BY <1>0, <1>3 DEF Fresh
  <2>2. ASSUME NEW d \in Calls
        PROVE  /\ \A v \in Users : owner'[v] = d =>
                    /\ step'[d] = "insert" => ratings'[v] = NoRow /\ v \notin todo'[d]
                    /\ step'[d] = "select" /\ v \in todo'[d] => ratings'[v] = NoRow
               /\ \A v \in PlayersOf(d) :
                    /\ ratings'[v] = NoRow
                    /\ step'[d] = "select" \/ (step'[d] = "insert" /\ v \notin todo'[d])
                    => owner'[v] = d
    <3>1. CASE d = c
      <4>1. step'[c] # "insert" /\ (step'[c] = "select" => todo'[c] = todo[c] \ {u})
        BY <1>0, <1>1
      <4> QED BY <1>0, <1>3, <3>1, <4>1 DEF Fresh
    <3>2. CASE d # c
      BY <1>0, <1>1, <1>3, <3>2, PlayersType DEF Fresh
    <3> QED BY <3>1, <3>2
  <2> QED BY <2>1, <2>2 DEF Fresh
<1>6. Ordered'
  <2> SUFFICES ASSUME NEW d \in Calls, step'[d] \in {"insert", "select"},
                      NEW v \in PlayersOf(d) \ todo'[d], NEW w \in todo'[d]
               PROVE  v < w
    BY DEF Ordered
  <2>1. CASE d = c
    <3>0. todo'[c] = todo[c] \ {u}
      BY <1>1, <2>1
    <3>1. w \in todo[c] /\ w # u /\ w \in Users /\ u \in Users /\ v \in Users
      BY <1>0, <2>1, <3>0
    <3>2. u <= w /\ w \in Int /\ u \in Int
      BY <3>1, RatingAssumption DEF RatingAssumption, LockRow, IsNext
    <3>3. v = u \/ v \notin todo[c]
      BY <2>1, <3>0
    <3>4. v \notin todo[c] => v < w
      BY <1>0, <2>1, <3>1 DEF Ordered
    <3> QED BY <3>1, <3>2, <3>3, <3>4
  <2>2. CASE d # c
    BY <1>1, <2>2 DEF Ordered
  <2> QED BY <2>1, <2>2
<1> QED BY <1>2, <1>4, <1>5, <1>6

(* UpdateRow: the row is already the call's.                               *)
LEMMA UpdateKeepsLocks ==
  ASSUME LockInv, NEW c \in Calls, NEW u \in Users, UpdateRow(c, u)
  PROVE  /\ Claimed' /\ Locked' /\ Fresh' /\ Ordered'
         /\ owner' = owner
<1> USE DEF LockInv
<1>0. /\ MatchOf[c] \in Matches /\ \A d \in Calls : Nobody # d
      /\ PlayersOf(c) \subseteq Users /\ u \in PlayersOf(c)
      /\ step[c] = "update" /\ owner[u] = c
  BY PlayersType, RatingAssumption
     DEF RatingAssumption, UpdateRow, SideAFirst, Locked, HasLocked
<1>1. /\ \A d \in Calls \ {c} : step'[d] = step[d] /\ todo'[d] = todo[d]
      /\ step'[c] \in {"update", "commit"} /\ todo'[c] \subseteq PlayersOf(c)
  BY <1>0, AdvanceMoves DEF UpdateRow, Locked
<1>2. /\ owner' = owner /\ ratings' = ratings /\ dirty \subseteq dirty'
  BY <1>0 DEF UpdateRow, dbVars, TypeOK
<1>3. Claimed'
  BY <1>0, <1>1 DEF UpdateRow, Claimed, Working, TypeOK, dbVars
<1>4. Locked'
  <2>1. \A d \in Calls : todo'[d] \subseteq PlayersOf(d)
    BY <1>1 DEF Locked
  <2>2. \A d \in Calls, v \in Users : owner'[v] = d => v \in PlayersOf(d) /\ step'[d] \in Working
    BY <1>1, <1>2 DEF Locked, Working
  <2>3. \A d \in Calls : \A v \in PlayersOf(d) : HasLocked(d, v)' => owner'[v] = d
    BY <1>0, <1>1, <1>2 DEF Locked, HasLocked
  <2> QED BY <2>1, <2>2, <2>3 DEF Locked
<1>5. Fresh'
  <2>1. \A d \in Calls : d = c \/ (step'[d] = step[d] /\ todo'[d] = todo[d])
    BY <1>1
  <2> QED BY <1>1, <1>2, <2>1 DEF Fresh
<1>6. Ordered'
  <2>1. \A d \in Calls : d = c \/ (step'[d] = step[d] /\ todo'[d] = todo[d])
    BY <1>1
  <2> QED BY <1>1, <2>1 DEF Ordered
<1> QED BY <1>2, <1>3, <1>4, <1>5, <1>6

(* The end of a transaction, with what it commits if anything: only rows it*)
(* holds, and its own match.                                               *)
LEMMA ReleaseKeepsLocks ==
  ASSUME LockInv, NEW c \in Calls, Releases(c), Begin(c, "end", {}),
         \A m \in Matches : m \in rated' => m \in rated \/ claimer[m] = c,
         \A u \in Users : owner[u] # c => ratings'[u] = ratings[u],
         \A u \in Users : ratings'[u] = NoRow => ratings[u] = NoRow
  PROVE  Claimed' /\ Locked' /\ Fresh' /\ Ordered'
<1> USE DEF LockInv
<1>0. \A d \in Calls : Nobody # d /\ MatchOf[d] \in Matches
  BY PlayersType, RatingAssumption DEF RatingAssumption
<1>1. /\ \A d \in Calls \ {c} : step'[d] = step[d] /\ todo'[d] = todo[d]
      /\ step'[c] = "end" /\ todo'[c] = {}
  BY DEF Begin, TypeOK
<1>2. /\ \A m \in Matches : claimer'[m] = IF claimer[m] = c THEN Nobody ELSE claimer[m]
      /\ \A u \in Users : owner'[u] = IF owner[u] = c THEN Nobody ELSE owner[u]
      /\ dirty' = {u \in dirty : owner[u] # c}
  BY DEF Releases
<1>3. Claimed'
  <2>1. ASSUME NEW d \in Calls, step'[d] \in Working
        PROVE  claimer'[MatchOf[d]] = d /\ MatchOf[d] \notin rated'
    BY <1>0, <1>1, <1>2, <2>1 DEF Claimed, Working
  <2>2. ASSUME NEW d \in Calls, NEW m \in Matches, claimer'[m] = d
        PROVE  m = MatchOf[d] /\ step'[d] \in Working
    BY <1>0, <1>1, <1>2, <2>2 DEF Claimed
  <2> QED BY <2>1, <2>2 DEF Claimed
<1>4. Locked'
  <2> SUFFICES ASSUME NEW d \in Calls
               PROVE  /\ todo'[d] \subseteq PlayersOf(d)
                      /\ \A v \in Users : owner'[v] = d => v \in PlayersOf(d) /\ step'[d] \in Working
                      /\ \A v \in PlayersOf(d) : HasLocked(d, v)' => owner'[v] = d
    BY DEF Locked
  <2>1. CASE d = c
    BY <1>0, <1>1, <1>2, <2>1 DEF HasLocked
  <2>2. CASE d # c
    BY <1>0, <1>1, <1>2, <2>2, PlayersType DEF Locked, HasLocked, Working
  <2> QED BY <2>1, <2>2
<1>5. Fresh'
  <2>1. \A v \in Users : owner'[v] # Nobody /\ ratings'[v] = NoRow => v \in dirty'
    BY <1>2 DEF Fresh
  <2>2. ASSUME NEW d \in Calls
        PROVE  /\ \A v \in Users : owner'[v] = d =>
                    /\ step'[d] = "insert" => ratings'[v] = NoRow /\ v \notin todo'[d]
                    /\ step'[d] = "select" /\ v \in todo'[d] => ratings'[v] = NoRow
               /\ \A v \in PlayersOf(d) :
                    /\ ratings'[v] = NoRow
                    /\ step'[d] = "select" \/ (step'[d] = "insert" /\ v \notin todo'[d])
                    => owner'[v] = d
    <3>1. CASE d = c
      BY <1>0, <1>1, <1>2, <3>1
    <3>2. CASE d # c
      BY <1>0, <1>1, <1>2, <3>2, PlayersType DEF Fresh
    <3> QED BY <3>1, <3>2
  <2> QED BY <2>1, <2>2 DEF Fresh
<1>6. Ordered'
  <2> SUFFICES ASSUME NEW d \in Calls, step'[d] \in {"insert", "select"},
                      NEW v \in PlayersOf(d) \ todo'[d], NEW w \in todo'[d]
               PROVE  v < w
    BY DEF Ordered
  <2> QED BY <1>1 DEF Ordered
<1> QED BY <1>3, <1>4, <1>5, <1>6

(* What COMMIT writes: the two ratings its call holds, and its match.      *)
LEMMA CommitWrites ==
  ASSUME LockInv, NEW c \in Calls, Commit(c)
  PROVE  /\ \A m \in Matches : claimer[m] = c <=> m = MatchOf[c]
         /\ \A u \in Users : owner[u] = c <=> u \in PlayersOf(c)
         /\ \A u \in PlayersOf(c) : ratings'[u] = NewRating(c, u) /\ ratings'[u] # NoRow
         /\ \A u \in Users : u \notin PlayersOf(c) => ratings'[u] = ratings[u]
<1> USE DEF LockInv
<1>0. step[c] = "commit" /\ MatchOf[c] \in Matches /\ PlayersOf(c) \subseteq Users
  BY PlayersType DEF Commit
<1>1. \A m \in Matches : claimer[m] = c <=> m = MatchOf[c]
  BY <1>0 DEF Claimed, Working
<1>2. \A u \in Users : owner[u] = c <=> u \in PlayersOf(c)
  BY <1>0 DEF Locked, HasLocked
<1>3. \A u \in Users : NewRating(c, u) # NoRow
  BY RatingsType, RatingAssumption DEF RatingAssumption
<1> QED BY <1>0, <1>1, <1>2, <1>3 DEF Commit

(* Every step keeps the lock tables and the calls in agreement.            *)
LEMMA LockInvStep == LockInv /\ [Next]_vars => LockInv'
<1> SUFFICES ASSUME LockInv, [Next]_vars PROVE LockInv'
  OBVIOUS
<1>0. TypeOK'
  BY TypeStep DEF LockInv
<1>1. ASSUME NEW c \in Calls, Claim(c) PROVE LockInv'
  BY <1>0, <1>1, ClaimKeepsLocks DEF LockInv
<1>2. ASSUME NEW c \in Calls, NEW u \in Users, InsertRow(c, u) PROVE LockInv'
  BY <1>0, <1>2, InsertKeepsLocks DEF LockInv
<1>3. ASSUME NEW c \in Calls, NEW u \in Users, LockRow(c, u) PROVE LockInv'
  BY <1>0, <1>3, LockKeepsLocks DEF LockInv
<1>4. ASSUME NEW c \in Calls, NEW u \in Users, UpdateRow(c, u) PROVE LockInv'
  BY <1>0, <1>4, UpdateKeepsLocks DEF LockInv
<1>5. ASSUME NEW c \in Calls, Commit(c) PROVE LockInv'
  <2>1. Releases(c) /\ Begin(c, "end", {}) /\ rated' = rated \cup {MatchOf[c]}
    BY <1>5 DEF Commit, Ends
  <2>2. \A m \in Matches : m \in rated' => m \in rated \/ claimer[m] = c
    BY <1>5, <2>1, CommitWrites
  <2>3. \A u \in Users : owner[u] # c => ratings'[u] = ratings[u]
    BY <1>5, CommitWrites
  <2>4. \A u \in Users : ratings'[u] = NoRow => ratings[u] = NoRow
    BY <1>5, CommitWrites
  <2> QED BY <1>0, <2>1, <2>2, <2>3, <2>4, ReleaseKeepsLocks DEF LockInv
<1>6. ASSUME NEW c \in Calls, Abort(c) PROVE LockInv'
  <2>1. Releases(c) /\ Begin(c, "end", {}) /\ rated' = rated /\ ratings' = ratings
    BY <1>6 DEF Abort, Ends, dbVars
  <2> QED BY <1>0, <2>1, ReleaseKeepsLocks DEF LockInv
<1>7. CASE UNCHANGED vars
  BY <1>7 DEF vars, dbVars, lockVars, callVars, LockInv, TypeOK, Claimed, Locked,
              HasLocked, Fresh, Ordered
<1> QED BY <1>1, <1>2, <1>3, <1>4, <1>5, <1>6, <1>7 DEF Next, Works, AllEnded

(* The lock tables and the calls always agree.                             *)
THEOREM LocksAgree == Spec => []LockInv
<1> QED BY LockInvInit, LockInvStep, PTL DEF Spec

-----------------------------------------------------------------------------
(* What the ratings hold.                                                  *)

(* A row a call has locked still has the rating the call read.             *)
ReadsHold ==
  \A c \in Calls : \A u \in PlayersOf(c) : HasLocked(c, u) => seen[c][u] = Current(u)

DataInv == LockInv /\ ReadsHold /\ RatingsCountRatedMatches /\ OutcomesAreTrue

(* Nothing is rated, read or answered at first.                            *)
LEMMA DataInvInit == Init => DataInv
<1> SUFFICES ASSUME Init PROVE DataInv
  OBVIOUS
<1>1. LockInv
  BY LockInvInit
<1>2. ReadsHold
  BY DEF Init, ReadsHold, HasLocked
<1>3. \A u \in Users : Current(u) = DefaultRating
  BY DEF Init, Current
<1>4. RatingsCountRatedMatches
  BY <1>3 DEF Init, RatingsCountRatedMatches, DefaultRating
<1>5. OutcomesAreTrue
  BY DEF Init, OutcomesAreTrue
<1> QED BY <1>1, <1>2, <1>4, <1>5 DEF DataInv

(* A step that commits nothing keeps the ratings, and a call that reaches  *)
(* its next row still has what it read of the others.                      *)
LEMMA QuietStep ==
  ASSUME DataInv, LockInv', UNCHANGED dbVars, outcome' = outcome,
         \A c \in Calls : \A u \in PlayersOf(c) :
           HasLocked(c, u)' => \/ HasLocked(c, u) /\ seen'[c][u] = seen[c][u]
                               \/ seen'[c][u] = Current(u)
  PROVE  DataInv'
<1>1. \A u \in Users : Current(u)' = Current(u)
  BY DEF dbVars, Current
<1>2. ReadsHold'
  BY <1>1, PlayersType DEF DataInv, ReadsHold
<1>3. RatingsCountRatedMatches'
  BY <1>1 DEF DataInv, RatingsCountRatedMatches, dbVars
<1>4. OutcomesAreTrue'
  BY DEF DataInv, OutcomesAreTrue, dbVars
<1> QED BY <1>2, <1>3, <1>4 DEF DataInv

(* What COMMIT does to the ratings: each player's counts the call's match  *)
(* once more, on top of what the database held.                            *)
LEMMA CommitCounts ==
  ASSUME DataInv, NEW c \in Calls, Commit(c), NEW u \in Users
  PROVE  /\ u \notin PlayersOf(c) => Current(u)' = Current(u)
         /\ u \in PlayersOf(c) =>
              \A m \in Matches :
                Current(u)'[m] = IF m = MatchOf[c] THEN 1 ELSE Current(u)[m]
<1> USE DEF DataInv
<1>1. CASE u \notin PlayersOf(c)
  BY <1>1, CommitWrites DEF Current
<1>2. CASE u \in PlayersOf(c)
  <2>1. Current(u)' = NewRating(c, u)
    BY <1>2, CommitWrites DEF Current
  <2>2. seen[c][u] = Current(u) /\ seen[c][u] \in Rating
    BY <1>2, RatingsType DEF ReadsHold, HasLocked, Commit, LockInv
  <2>3. MatchOf[c] \in Matches /\ MatchOf[c] \notin rated
    BY PlayersType DEF LockInv, Claimed, Working, Commit
  <2>4. Current(u)[MatchOf[c]] = 0
    BY <2>3 DEF RatingsCountRatedMatches
  <2> QED BY <1>2, <2>1, <2>2, <2>3, <2>4 DEF NewRating, Rating
<1> QED BY <1>1, <1>2

(* Every step keeps the ratings right.                                     *)
LEMMA DataInvStep == DataInv /\ [Next]_vars => DataInv'
<1> SUFFICES ASSUME DataInv, [Next]_vars PROVE DataInv'
  OBVIOUS
<1>0. LockInv /\ LockInv'
  BY LockInvStep DEF DataInv
<1> USE DEF dbVars, HasLocked
<1>1. ASSUME NEW c \in Calls, Claim(c) PROVE DataInv'
  <2>1. step'[c] \in {"insert", "end"} /\ seen' = seen /\ UNCHANGED dbVars
    BY <1>0, <1>1 DEF Claim, Begin, Ends, LockInv, TypeOK
  <2>2. \A d \in Calls \ {c} : step'[d] = step[d] /\ todo'[d] = todo[d]
    BY <1>0, <1>1 DEF Claim, Begin, Ends, LockInv, TypeOK
  <2>3. \A d \in Calls : \A u \in PlayersOf(d) :
          HasLocked(d, u)' => HasLocked(d, u) /\ seen'[d][u] = seen[d][u]
    <3>0. \A d \in Calls : d = c \/ (step'[d] = step[d] /\ todo'[d] = todo[d])
      BY <2>2
    <3>1. step'[c] \in {"insert", "end"}
      BY <1>0, <1>1 DEF Claim, Begin, Ends, LockInv, TypeOK
    <3> QED BY <2>1, <3>0, <3>1, PlayersType
  <2>4. CASE MatchOf[c] \notin rated
    <3>1. outcome' = outcome
      BY <1>1, <2>4 DEF Claim
    <3> QED BY <1>0, <2>1, <2>3, <3>1, QuietStep
  <2>5. CASE MatchOf[c] \in rated
    <3>1. outcome' = [outcome EXCEPT ![c] = "already-rated"]
      BY <1>1, <2>5 DEF Claim, Ends
    <3>2. \A u \in Users : Current(u)' = Current(u)
      BY <2>1 DEF Current
    <3>3. ReadsHold'
      BY <2>1, <2>3, <3>2, PlayersType DEF DataInv, ReadsHold
    <3>4. RatingsCountRatedMatches'
      BY <2>1, <3>2 DEF DataInv, RatingsCountRatedMatches
    <3>5. OutcomesAreTrue'
      BY <1>0, <2>1, <2>5, <3>1 DEF DataInv, OutcomesAreTrue, LockInv, TypeOK
    <3> QED BY <1>0, <3>3, <3>4, <3>5 DEF DataInv
  <2> QED BY <2>4, <2>5
<1>2. ASSUME NEW c \in Calls, NEW u \in Users, InsertRow(c, u) PROVE DataInv'
  <2>1. /\ \A d \in Calls \ {c} : step'[d] = step[d] /\ todo'[d] = todo[d]
        /\ step'[c] = "insert" \/ (step'[c] = "select" /\ todo'[c] = PlayersOf(c))
    BY <1>0, <1>2, AdvanceMoves DEF InsertRow, LockInv
  <2>2. UNCHANGED <<rated, ratings, seen, outcome>>
    BY <1>2 DEF InsertRow
  <2>3. \A d \in Calls : \A v \in PlayersOf(d) : HasLocked(d, v)' => HasLocked(d, v)
    BY <2>1
  <2> QED BY <1>0, <2>2, <2>3, QuietStep
<1>3. ASSUME NEW c \in Calls, NEW u \in Users, LockRow(c, u) PROVE DataInv'
  <2>1. /\ \A d \in Calls \ {c} : step'[d] = step[d] /\ todo'[d] = todo[d]
        /\ step[c] = "select"
        /\ todo[c] = {u} => step'[c] = "update" /\ todo'[c] = PlayersOf(c)
        /\ todo[c] # {u} => step'[c] = "select" /\ todo'[c] = todo[c] \ {u}
    BY <1>0, <1>3, AdvanceMoves DEF LockRow, LockInv
  <2>2. UNCHANGED <<rated, ratings, outcome>> /\ seen' = [seen EXCEPT ![c][u] = Current(u)]
    BY <1>3 DEF LockRow
  <2>3. /\ \A d \in Calls \ {c} : seen'[d] = seen[d]
        /\ seen'[c][u] = Current(u)
        /\ \A v \in Users \ {u} : seen'[c][v] = seen[c][v]
    BY <1>0, <2>2 DEF LockInv, TypeOK
  <2>4. ASSUME NEW d \in Calls, NEW v \in PlayersOf(d), HasLocked(d, v)'
        PROVE  \/ HasLocked(d, v) /\ seen'[d][v] = seen[d][v]
               \/ seen'[d][v] = Current(v)
    <3>1. CASE d = c /\ v = u
      BY <2>3, <3>1
    <3>2. CASE d = c /\ v # u
      <4>1. v \in Users /\ v \notin todo[c]
        BY <2>1, <2>4, <3>2, PlayersType
      <4> QED BY <2>1, <2>3, <3>2, <4>1
    <3>3. CASE d # c
      BY <2>1, <2>3, <2>4, <3>3
    <3> QED BY <3>1, <3>2, <3>3
  <2> QED BY <1>0, <2>2, <2>4, QuietStep
<1>4. ASSUME NEW c \in Calls, NEW u \in Users, UpdateRow(c, u) PROVE DataInv'
  <2>1. /\ \A d \in Calls \ {c} : step'[d] = step[d] /\ todo'[d] = todo[d]
        /\ step[c] = "update"
    BY <1>0, <1>4, AdvanceMoves DEF UpdateRow, LockInv
  <2>2. UNCHANGED <<rated, ratings, seen, outcome>>
    BY <1>4 DEF UpdateRow
  <2>3. \A d \in Calls : \A v \in PlayersOf(d) : HasLocked(d, v)' => HasLocked(d, v)
    BY <2>1
  <2> QED BY <1>0, <2>2, <2>3, QuietStep
<1>5. ASSUME NEW c \in Calls, Commit(c) PROVE DataInv'
  <2>0. MatchOf[c] \in Matches /\ MatchOf[c] \notin rated
    BY <1>0, <1>5, PlayersType DEF LockInv, Claimed, Working, Commit
  <2>1. /\ \A d \in Calls \ {c} : step'[d] = step[d] /\ todo'[d] = todo[d]
        /\ step'[c] = "end" /\ seen' = seen /\ rated' = rated \cup {MatchOf[c]}
        /\ \A d \in Calls \ {c} : outcome'[d] = outcome[d]
    BY <1>0, <1>5 DEF Commit, Ends, Begin, LockInv, TypeOK
  <2>2. ReadsHold'
    <3> SUFFICES ASSUME NEW d \in Calls, NEW u \in PlayersOf(d), HasLocked(d, u)'
                 PROVE  seen'[d][u] = Current(u)'
      BY DEF ReadsHold
    <3>1. d # c /\ HasLocked(d, u) /\ u \in Users
      BY <2>1, PlayersType
    <3>2. owner[u] = d
      BY <1>0, <3>1 DEF LockInv, Locked
    <3>3. u \notin PlayersOf(c)
      BY <1>0, <1>5, <3>1, <3>2, CommitWrites
    <3>4. Current(u)' = Current(u)
      BY <1>5, <3>1, <3>3, CommitCounts
    <3> QED BY <2>1, <3>1, <3>4 DEF DataInv, ReadsHold
  <2>3. RatingsCountRatedMatches'
    <3> SUFFICES ASSUME NEW u \in Users, NEW m \in Matches
                 PROVE  Current(u)'[m] = IF m \in rated' /\ u \in Players(m) THEN 1 ELSE 0
      BY DEF RatingsCountRatedMatches
    <3>1. Current(u)[m] = IF m \in rated /\ u \in Players(m) THEN 1 ELSE 0
      BY DEF DataInv, RatingsCountRatedMatches
    <3>2. PlayersOf(c) = Players(MatchOf[c])
      BY DEF PlayersOf
    <3>3. CASE u \in PlayersOf(c)
      <4>1. Current(u)'[m] = IF m = MatchOf[c] THEN 1 ELSE Current(u)[m]
        BY <1>5, <3>3, CommitCounts
      <4> QED BY <2>1, <3>1, <3>2, <3>3, <4>1
    <3>4. CASE u \notin PlayersOf(c)
      <4>1. Current(u)' = Current(u)
        BY <1>5, <3>4, CommitCounts
      <4> QED BY <2>1, <3>1, <3>2, <3>4, <4>1
    <3> QED BY <3>3, <3>4
  <2>4. OutcomesAreTrue'
    BY <2>0, <2>1 DEF DataInv, OutcomesAreTrue
  <2> QED BY <1>0, <2>2, <2>3, <2>4 DEF DataInv
<1>6. ASSUME NEW c \in Calls, Abort(c) PROVE DataInv'
  <2>1. /\ \A d \in Calls \ {c} : step'[d] = step[d] /\ todo'[d] = todo[d]
        /\ step'[c] = "end" /\ UNCHANGED <<rated, ratings, seen>>
        /\ \A d \in Calls \ {c} : outcome'[d] = outcome[d]
        /\ outcome'[c] = "error"
    BY <1>0, <1>6 DEF Abort, Ends, Begin, LockInv, TypeOK
  <2>2. \A u \in Users : Current(u)' = Current(u)
    BY <2>1 DEF Current
  <2>3. ReadsHold'
    BY <2>1, <2>2, PlayersType DEF DataInv, ReadsHold
  <2>4. RatingsCountRatedMatches'
    BY <2>1, <2>2 DEF DataInv, RatingsCountRatedMatches
  <2>5. OutcomesAreTrue'
    BY <2>1 DEF DataInv, OutcomesAreTrue
  <2> QED BY <1>0, <2>3, <2>4, <2>5 DEF DataInv
<1>7. CASE UNCHANGED vars
  BY <1>0, <1>7 DEF vars, lockVars, callVars, DataInv, ReadsHold, Current,
                    RatingsCountRatedMatches, OutcomesAreTrue
<1> QED BY <1>1, <1>2, <1>3, <1>4, <1>5, <1>6, <1>7 DEF Next, Works, AllEnded

(* For any matches and any calls for them: every committed rating counts   *)
(* its player's rated matches once each.                                   *)
THEOREM EachMatchCountsOnce == Spec => []RatingsCountRatedMatches
<1>1. DataInv => RatingsCountRatedMatches
  BY DEF DataInv
<1> QED BY <1>1, DataInvInit, DataInvStep, PTL DEF Spec

(* What a call has read under FOR UPDATE is current when it writes.        *)
THEOREM ReadsAreFresh == Spec => []ReadsStayFresh
<1>1. DataInv => ReadsStayFresh
  BY DEF DataInv, ReadsHold, HasLocked, ReadsStayFresh
<1> QED BY <1>1, DataInvInit, DataInvStep, PTL DEF Spec

(* At most one call reports "applied" for a match, and what is reported is *)
(* so.                                                                     *)
THEOREM ReportsAreTrue == Spec => []OutcomesAreTrue
<1>1. DataInv => OutcomesAreTrue
  BY DEF DataInv
<1> QED BY <1>1, DataInvInit, DataInvStep, PTL DEF Spec

(* A rated match stays rated, and its effect on both ratings stays.        *)
THEOREM RatingsAreFinal == Spec => RatingIsFinal
<1>1. ASSUME DataInv, [Next]_vars, NEW m \in rated
      PROVE  m \in rated' /\ \A u \in Players(m) : Current(u)'[m] = Current(u)[m]
  <2>0. m \in Matches /\ Players(m) \subseteq Users
    BY <1>1, RatingAssumption DEF DataInv, LockInv, TypeOK, RatingAssumption, Players
  <2>1. CASE UNCHANGED dbVars
    BY <2>1 DEF dbVars, Current
  <2>2. ASSUME NEW c \in Calls, Commit(c)
        PROVE  m \in rated' /\ \A u \in Players(m) : Current(u)'[m] = Current(u)[m]
    <3>1. MatchOf[c] \notin rated
      BY <1>1, <2>2 DEF DataInv, LockInv, Claimed, Working, Commit
    <3>2. \A u \in Users : Current(u)'[m] = Current(u)[m]
      BY <1>1, <2>0, <2>2, <3>1, CommitCounts
    <3>3. m \in rated'
      BY <1>1, <2>2 DEF Commit
    <3> QED BY <2>0, <3>2, <3>3
  <2>3. UNCHANGED dbVars \/ \E c \in Calls : Commit(c)
    BY <1>1 DEF Next, Works, AllEnded, vars, dbVars, Claim, InsertRow, LockRow, UpdateRow, Abort
  <2> QED BY <2>1, <2>2, <2>3
<1>2. DataInv /\ [Next]_vars =>
        [\A m \in rated : m \in rated' /\ \A u \in Players(m) : Current(u)'[m] = Current(u)[m]]_vars
  BY <1>1
<1> QED BY <1>2, DataInvInit, DataInvStep, PTL DEF Spec, RatingIsFinal

-----------------------------------------------------------------------------
(* The transactions implement AtomicRatings.                               *)

(* A call has answered once it is over, and not before.                    *)
Answered == \A c \in Calls : outcome[c] = "none" <=> step[c] # "end"

(* Every step keeps that so: an answer is given with the last step.        *)
LEMMA AnsweredStep == LockInv /\ Answered /\ [Next]_vars => Answered'
<1> SUFFICES ASSUME LockInv, Answered, [Next]_vars PROVE Answered'
  OBVIOUS
<1>0. TypeOK
  BY DEF LockInv
<1>1. ASSUME NEW c \in Calls, NEW result \in Outcomes \ {"none"}, Ends(c, result)
      PROVE  Answered'
  BY <1>0, <1>1 DEF Ends, Begin, Answered, TypeOK
<1>2. ASSUME NEW c \in Calls, NEW s \in Working, step'[c] = s, step[c] # "end",
             outcome' = outcome, \A d \in Calls \ {c} : step'[d] = step[d]
      PROVE  Answered'
  BY <1>0, <1>2 DEF Answered, Working
<1>3. ASSUME NEW c \in Calls, Claim(c) PROVE Answered'
  <2>1. CASE MatchOf[c] \in rated
    BY <1>1, <1>3, <2>1 DEF Claim, Outcomes
  <2>2. CASE MatchOf[c] \notin rated
    <3>1. step' = [step EXCEPT ![c] = "insert"] /\ step[c] = "claim" /\ outcome' = outcome
      BY <1>3, <2>2 DEF Claim, Begin
    <3> QED BY <1>0, <3>1 DEF Answered, TypeOK
  <2> QED BY <2>1, <2>2
<1>4. ASSUME NEW c \in Calls, NEW u \in Users,
             InsertRow(c, u) \/ LockRow(c, u) \/ UpdateRow(c, u)
      PROVE  Answered'
  <2>1. PICK s \in Working : Advance(c, u, s) /\ step[c] \in Working /\ outcome' = outcome
    BY <1>4 DEF InsertRow, LockRow, UpdateRow, Working
  <2>2. step'[c] \in Working /\ \A d \in Calls \ {c} : step'[d] = step[d]
    BY <1>0, <2>1, AdvanceMoves
  <2> QED BY <1>2, <2>1, <2>2 DEF Working
<1>5. ASSUME NEW c \in Calls, Commit(c) \/ Abort(c) PROVE Answered'
  BY <1>1, <1>5 DEF Commit, Abort, Outcomes
<1>6. CASE UNCHANGED vars
  BY <1>6 DEF vars, callVars, Answered
<1> QED BY <1>3, <1>4, <1>5, <1>6 DEF Next, Works, AllEnded

(* What AtomicRatings calls a rating is what this module calls one.        *)
LEMMA SameRatings ==
  /\ Atomic!Unrated = DefaultRating
  /\ \A u \in Users : Atomic!Counts(u) = Current(u)
  /\ \A c \in Calls : Atomic!PlayersOf(c) = PlayersOf(c)
BY DEF Atomic!Unrated, DefaultRating, Atomic!Counts, Current, Atomic!PlayersOf, PlayersOf, Players

(* A COMMIT is the call: what it writes for its players are the ratings of *)
(* that moment with the match counted once more.                           *)
LEMMA CommitRates ==
  ASSUME DataInv, Answered, NEW c \in Calls, Commit(c)
  PROVE  Atomic!Rate(c)
<1>0. step[c] = "commit" /\ outcome[c] = "none"
  BY DEF Commit, Answered
<1>1. MatchOf[c] \notin rated
  BY <1>0 DEF DataInv, LockInv, Claimed, Working
<1>2. \A u \in PlayersOf(c) : u \in Users /\ seen[c][u] = Current(u)
  BY <1>0, PlayersType DEF DataInv, ReadsHold, HasLocked
<1>3. ratings' = [u \in Users |->
         IF u \in Atomic!PlayersOf(c) THEN [Atomic!Counts(u) EXCEPT ![MatchOf[c]] = @ + 1]
                                      ELSE ratings[u]]
  BY <1>2, SameRatings DEF Commit, NewRating
<1>4. Atomic!Returns(c, "applied") \/ Atomic!Returns(c, "error")
  BY <1>0 DEF Commit, Ends, Atomic!Returns
<1>5. rated' = rated \cup {MatchOf[c]}
  BY DEF Commit
<1> QED BY <1>1, <1>3, <1>4, <1>5 DEF Atomic!Rate

(* Every statement is a step of AtomicRatings or none.                     *)
LEMMA StepsMap ==
  DataInv /\ Answered /\ [Next]_vars => [Atomic!Next]_(Atomic!vars)
<1> SUFFICES ASSUME DataInv, Answered, [Next]_vars
             PROVE  Atomic!Next \/ UNCHANGED Atomic!vars
  OBVIOUS
<1>1. ASSUME NEW c \in Calls, Claim(c) PROVE Atomic!Next \/ UNCHANGED Atomic!vars
  <2>1. CASE MatchOf[c] \in rated
    <3>1. Atomic!FindRated(c)
      BY <1>1, <2>1 DEF Claim, Ends, dbVars, Answered, Atomic!FindRated, Atomic!Returns
    <3> QED BY <3>1 DEF Atomic!Next
  <2>2. CASE MatchOf[c] \notin rated
    BY <1>1, <2>2 DEF Claim, dbVars, Atomic!vars
  <2> QED BY <2>1, <2>2
<1>2. ASSUME NEW c \in Calls, NEW u \in Users,
             InsertRow(c, u) \/ LockRow(c, u) \/ UpdateRow(c, u)
      PROVE  UNCHANGED Atomic!vars
  BY <1>2 DEF InsertRow, LockRow, UpdateRow, dbVars, Atomic!vars
<1>3. ASSUME NEW c \in Calls, Commit(c) PROVE Atomic!Next
  BY <1>3, CommitRates DEF Atomic!Next
<1>4. ASSUME NEW c \in Calls, Abort(c) PROVE Atomic!Next
  <2>1. Atomic!Fail(c)
    BY <1>4 DEF Abort, Ends, dbVars, Answered, Atomic!Fail, Atomic!Returns
  <2> QED BY <2>1 DEF Atomic!Next
<1>5. CASE UNCHANGED vars
  BY <1>5 DEF vars, dbVars, callVars, Atomic!vars
<1> QED BY <1>1, <1>2, <1>3, <1>4, <1>5 DEF Next, Works, AllEnded

(* Whatever the statements' interleaving, the lost connections and the     *)
(* missing rows, the calls do what they would one at a time.               *)
THEOREM TransactionsAreAtomic == Spec => ImplementsAtomicRatings
<1>1. Init => Atomic!Init
  BY SameRatings DEF Init, Atomic!Init
<1>2. Init => DataInv /\ Answered
  BY DataInvInit DEF Init, Answered
<1>3. DataInv => LockInv
  BY DEF DataInv
<1> QED BY <1>1, <1>2, <1>3, DataInvStep, AnsweredStep, StepsMap, PTL
        DEF Spec, ImplementsAtomicRatings, Atomic!Spec

-----------------------------------------------------------------------------
(* Calls wait in one direction only.                                       *)

(* How far a call is: by its statement, and within one by the row it is at.*)
PhaseOf(s) ==
  IF s = "claim" THEN 0 ELSE IF s = "insert" THEN 1 ELSE IF s = "select" THEN 2 ELSE 3

RowOf(c) ==
  IF step[c] \in {"insert", "select"} THEN CHOOSE u \in todo[c] : IsNext(c, u) ELSE 0

Progress(c) == PhaseOf(step[c]) * (LastUser + 1) + RowOf(c)

(* The row a statement is at is its first remaining one.                   *)
LEMMA RowOfNext ==
  ASSUME LockInv, NEW c \in Calls, NEW u \in Users, IsNext(c, u),
         step[c] \in {"insert", "select"}
  PROVE  RowOf(c) = u /\ u \in 0..LastUser
<1>1. u \in todo[c] /\ \A v \in todo[c] : u <= v
  BY DEF IsNext
<1>2. todo[c] \subseteq Users /\ \A v \in Users : v \in 0..LastUser
  BY RatingAssumption, PlayersType DEF RatingAssumption, LockInv, Locked
<1>3. \A v \in todo[c] : IsNext(c, v) => v = u
  BY <1>1, <1>2 DEF IsNext
<1> QED BY <1>1, <1>2, <1>3 DEF RowOf, IsNext

(* A call that waits is at its claim, or at a row of INSERT or SELECT that *)
(* another call holds: it never waits where it writes.                     *)
LEMMA WaitsWhere ==
  ASSUME LockInv, NEW c \in Calls, NEW d \in Calls, WaitsFor(c, d)
  PROVE  /\ step[d] \in Working
         /\ \/ step[c] = "claim"
            \/ \E u \in Users :
                 /\ owner[u] = d /\ IsNext(c, u) /\ u \in todo[c] /\ u \in PlayersOf(c)
                 /\ (step[c] = "insert" /\ u \in dirty) \/ step[c] = "select"
<1>1. CASE step[c] = "claim"
  BY <1>1, PlayersType DEF WaitsFor, LockInv, Claimed
<1>2. CASE step[c] # "claim"
  <2>1. PICK u \in Users :
          /\ owner[u] = d
          /\ \/ step[c] = "insert" /\ IsNext(c, u) /\ u \in dirty
             \/ step[c] = "select" /\ IsNext(c, u)
             \/ step[c] = "update" /\ SideAFirst(c, u)
    BY <1>2 DEF WaitsFor
  <2>2. step[d] \in Working
    BY <2>1 DEF LockInv, Locked
  <2>3. step[c] # "update"
    <3> SUFFICES ASSUME step[c] = "update" PROVE FALSE
      OBVIOUS
    <3>1. u \in PlayersOf(c)
      BY <2>1 DEF LockInv, Locked, SideAFirst
    <3>2. owner[u] = c
      BY <3>1 DEF LockInv, Locked, HasLocked
    <3> QED BY <2>1, <3>2 DEF WaitsFor
  <2>4. u \in todo[c] /\ u \in PlayersOf(c)
    BY <2>1, <2>3 DEF IsNext, LockInv, Locked
  <2> QED BY <2>1, <2>2, <2>3, <2>4
<1> QED BY <1>1, <1>2

(* Whoever is waited for is further than the one that waits.               *)
LEMMA WaitsForward ==
  ASSUME LockInv, NEW c \in Calls, NEW d \in Calls, NEW e \in Calls,
         WaitsFor(c, d), WaitsFor(d, e)
  PROVE  /\ Progress(c) \in 0..(3 * (LastUser + 1))
         /\ Progress(d) \in 0..(3 * (LastUser + 1))
         /\ Progress(c) < Progress(d)
<1> USE DEF LockInv
<1>0. c # d /\ d # e
  BY DEF WaitsFor
<1>1. step[d] \in {"insert", "select"}
  BY WaitsWhere DEF Working
<1>2. PICK v \in Users : IsNext(d, v) /\ v \in todo[d]
  BY <1>1, WaitsWhere
<1>3. RowOf(d) = v /\ v \in 0..LastUser
  BY <1>1, <1>2, RowOfNext
<1>4. LastUser \in Nat
  BY RatingAssumption DEF RatingAssumption
<1>5. CASE step[c] = "claim"
  <2>1. Progress(c) = 0
    BY <1>4, <1>5 DEF Progress, PhaseOf, RowOf
  <2>2. Progress(d) \in {LastUser + 1 + v, 2 * (LastUser + 1) + v}
    BY <1>1, <1>3, <1>4 DEF Progress, PhaseOf
  <2> QED BY <1>3, <1>4, <2>1, <2>2
<1>6. CASE step[c] # "claim"
  <2>1. PICK u \in Users :
          /\ owner[u] = d /\ IsNext(c, u) /\ u \in todo[c] /\ u \in PlayersOf(c)
          /\ (step[c] = "insert" /\ u \in dirty) \/ step[c] = "select"
    BY <1>6, WaitsWhere
  <2>2. RowOf(c) = u /\ u \in 0..LastUser
    BY <2>1, RowOfNext
  <2>3. u \in PlayersOf(d)
    BY <2>1 DEF Locked
  <2>4. step[d] = "insert" => ratings[u] = NoRow /\ u \notin todo[d]
    BY <2>1 DEF Fresh
  <2>5. CASE step[c] = "insert" /\ step[d] = "select"
    <3>1. Progress(c) = LastUser + 1 + u /\ Progress(d) = 2 * (LastUser + 1) + v
      BY <1>3, <1>4, <2>2, <2>5 DEF Progress, PhaseOf
    <3> QED BY <1>3, <1>4, <2>2, <3>1
  <2>6. CASE step[c] = step[d]
    <3>1. u \notin todo[d]
      <4>1. CASE step[d] = "insert"
        BY <2>4, <4>1
      <4>2. CASE step[d] = "select"
        <5>1. ratings[u] # NoRow
          BY <1>0, <2>1, <2>6, <4>2 DEF Fresh
        <5> QED BY <2>1, <4>2, <5>1 DEF Fresh
      <4> QED BY <1>1, <4>1, <4>2
    <3>2. u < v
      BY <1>1, <1>2, <2>3, <3>1 DEF Ordered
    <3>3. \/ Progress(c) = LastUser + 1 + u /\ Progress(d) = LastUser + 1 + v
          \/ Progress(c) = 2 * (LastUser + 1) + u /\ Progress(d) = 2 * (LastUser + 1) + v
      BY <1>1, <1>3, <1>4, <2>2, <2>6 DEF Progress, PhaseOf
    <3> QED BY <1>3, <1>4, <2>2, <3>2, <3>3
  <2>7. ~(step[c] = "select" /\ step[d] = "insert")
    <3> SUFFICES ASSUME step[c] = "select", step[d] = "insert" PROVE FALSE
      OBVIOUS
    <3>1. owner[u] = c
      BY <2>1, <2>4 DEF Fresh
    <3> QED BY <1>0, <2>1, <3>1
  <2> QED BY <1>1, <2>1, <2>5, <2>6, <2>7
<1> QED BY <1>5, <1>6

(* No calls wait for each other in a circle, however many there are.       *)
THEOREM CallsNeverDeadlock == Spec => []NoDeadlock
<1>1. LockInv => NoDeadlock
  <2> SUFFICES ASSUME LockInv, NEW S \in (SUBSET Calls) \ {{}},
                      \A c \in S : \E d \in S : WaitsFor(c, d)
               PROVE  FALSE
    BY DEF NoDeadlock
  <2> DEFINE Last == 3 * (LastUser + 1)
             Left == {Last - Progress(c) : c \in S}
  <2>1. \A c \in S : \E d \in S : Progress(c) \in 0..Last /\ Progress(d) \in 0..Last
                                  /\ Progress(c) < Progress(d)
    BY WaitsForward
  <2>2. Last \in Nat
    BY RatingAssumption DEF RatingAssumption
  <2>3. Left \subseteq Nat /\ Left # {}
    <3>1. ASSUME NEW c \in S PROVE Last - Progress(c) \in Nat
      <4> HIDE DEF Last
      <4>1. Progress(c) \in 0..Last
        BY <2>1
      <4> QED BY <2>2, <4>1
    <3>2. PICK c \in S : TRUE
      OBVIOUS
    <3>3. Last - Progress(c) \in Left
      OBVIOUS
    <3> QED BY <3>1, <3>3
  <2>4. PICK x \in Left : \A y \in Left : ~ (<<y, x>> \in OpToRel(<, Nat))
    BY <2>3, WFMin, NatLessThanWellFounded
  <2>5. PICK c \in S : x = Last - Progress(c)
    BY <2>4
  <2>6. PICK d \in S : Progress(c) \in 0..Last /\ Progress(d) \in 0..Last
                       /\ Progress(c) < Progress(d)
    BY <2>1
  <2>7. Last - Progress(d) \in Left /\ Last - Progress(d) < x
        /\ Last - Progress(d) \in Nat /\ x \in Nat
    BY <2>2, <2>5, <2>6
  <2> QED BY <2>4, <2>7 DEF OpToRel
<1> QED BY <1>1, LocksAgree, PTL

-----------------------------------------------------------------------------
(* Why every call ends: it has only so many statements left, each step of  *)
(* its own is one less, and there is always a call that nothing holds up.  *)

(* Rows a statement has still to take.                                     *)
Left(c) == (IF SideA[MatchOf[c]] \in todo[c] THEN 1 ELSE 0)
             + (IF SideB[MatchOf[c]] \in todo[c] THEN 1 ELSE 0)

(* Steps a call has still to take, at most.                                *)
StepsLeft(c) ==
  IF step[c] = "claim" THEN 8
  ELSE IF step[c] = "insert" THEN 5 + Left(c)
  ELSE IF step[c] = "select" THEN 3 + Left(c)
  ELSE IF step[c] = "update" THEN 1 + Left(c)
  ELSE IF step[c] = "commit" THEN 1 ELSE 0

(* A step is the step of one call, and that call's last but so many.       *)
StepsRunOut ==
  [][\E c \in Calls :
       /\ StepsLeft(c)' < StepsLeft(c)
       /\ \A d \in Calls \ {c} : StepsLeft(d)' = StepsLeft(d)]_vars

(* The statement a call has reached finds the lock it wants free.          *)
CanGoOn(c) ==
  \/ step[c] = "claim" /\ claimer[MatchOf[c]] = Nobody
  \/ step[c] = "insert" /\ \E u \in Users : IsNext(c, u) /\ (u \notin dirty \/ owner[u] = c)
  \/ step[c] = "select" /\ \E u \in Users : IsNext(c, u) /\ owner[u] \in {Nobody, c}
  \/ step[c] = "update" /\ \E u \in Users : SideAFirst(c, u) /\ owner[u] \in {Nobody, c}
  \/ step[c] = "commit"

(* As long as a call is under way, one of them can take its next step.     *)
SomeCallGoesOn == (\E c \in Calls : step[c] # "end") => \E c \in Calls : CanGoOn(c)

(* A statement that takes a row has one row less to take, or is over and   *)
(* leaves both rows to the next.                                           *)
LEMMA AdvanceLeaves ==
  ASSUME LockInv, NEW c \in Calls, NEW u \in Users, NEW s, u \in todo[c], Advance(c, u, s)
  PROVE  /\ \/ step'[c] = s /\ Left(c) = 1 /\ Left(c)' = 2
            \/ step'[c] = step[c] /\ Left(c) = 2 /\ Left(c)' = 1
         /\ \A d \in Calls \ {c} : step'[d] = step[d] /\ Left(d)' = Left(d)
<1>0. TypeOK /\ todo[c] \subseteq PlayersOf(c)
  BY DEF LockInv, Locked
<1>1. /\ \A d \in Calls \ {c} : step'[d] = step[d] /\ todo'[d] = todo[d]
      /\ todo[c] = {u} => step'[c] = s /\ todo'[c] = PlayersOf(c)
      /\ todo[c] # {u} => step'[c] = step[c] /\ todo'[c] = todo[c] \ {u}
  BY <1>0, AdvanceMoves
<1>2. \A d \in Calls \ {c} : Left(d)' = Left(d)
  BY <1>1 DEF Left
<1>3. /\ PlayersOf(c) = {SideA[MatchOf[c]], SideB[MatchOf[c]]}
      /\ SideA[MatchOf[c]] # SideB[MatchOf[c]]
  BY PlayersType
<1>4. CASE todo[c] = {u}
  BY <1>0, <1>1, <1>2, <1>3, <1>4 DEF Left
<1>5. CASE todo[c] # {u}
  <2>1. todo[c] = PlayersOf(c) /\ todo'[c] = PlayersOf(c) \ {u} /\ u \in PlayersOf(c)
    BY <1>0, <1>1, <1>3, <1>5
  <2>2. Left(c) = 2 /\ Left(c)' = 1
    BY <1>3, <2>1 DEF Left
  <2> QED BY <1>1, <1>2, <1>5, <2>2
<1> QED BY <1>4, <1>5

(* A call that moves alone, and ends, has no step left; the others have    *)
(* what they had.                                                          *)
LEMMA EndsLeaves ==
  ASSUME TypeOK, NEW c \in Calls, Begin(c, "end", {}), step[c] # "end"
  PROVE  /\ StepsLeft(c)' < StepsLeft(c)
         /\ \A d \in Calls \ {c} : StepsLeft(d)' = StepsLeft(d)
<1>1. step' = [step EXCEPT ![c] = "end"] /\ todo' = [todo EXCEPT ![c] = {}]
  BY DEF Begin
<1>2. step[c] \in Steps \ {"end"} /\ step'[c] = "end"
  BY <1>1 DEF TypeOK
<1>3. \A d \in Calls \ {c} : step'[d] = step[d] /\ todo'[d] = todo[d]
  BY <1>1 DEF TypeOK
<1>4. Left(c) \in 0..2
  BY DEF Left
<1>5. StepsLeft(c)' = 0 /\ StepsLeft(c) > 0
  BY <1>2, <1>4 DEF StepsLeft, Steps
<1> QED BY <1>3, <1>5 DEF StepsLeft, Left

(* No call takes more than eight steps, whoever else is at work: there is  *)
(* no retry, and nothing a call does lengthens another.                    *)
THEOREM CallsRunOut == Spec => StepsRunOut
<1> DEFINE Shortens(c) == /\ StepsLeft(c)' < StepsLeft(c)
                          /\ \A d \in Calls \ {c} : StepsLeft(d)' = StepsLeft(d)
<1>1. ASSUME LockInv, NEW c \in Calls, Works(c) \/ Abort(c) PROVE Shortens(c)
  <2>0. TypeOK
    BY <1>1 DEF LockInv
  <2>1. CASE Claim(c)
    <3>1. CASE MatchOf[c] \in rated
      BY <2>0, <2>1, <3>1, EndsLeaves DEF Claim, Ends
    <3>2. CASE MatchOf[c] \notin rated
      <4>1. /\ step' = [step EXCEPT ![c] = "insert"] /\ step[c] = "claim"
            /\ todo' = [todo EXCEPT ![c] = PlayersOf(c)]
        BY <2>1, <3>2 DEF Claim, Begin
      <4>2. step'[c] = "insert" /\ \A d \in Calls \ {c} : step'[d] = step[d] /\ todo'[d] = todo[d]
        BY <2>0, <4>1 DEF TypeOK
      <4>3. Left(c)' \in 0..2 /\ \A d \in Calls \ {c} : Left(d)' = Left(d)
        BY <4>2 DEF Left
      <4>4. StepsLeft(c)' = 5 + Left(c)' /\ StepsLeft(c) = 8
        BY <4>1, <4>2 DEF StepsLeft
      <4> QED BY <4>2, <4>3, <4>4 DEF StepsLeft
    <3> QED BY <3>1, <3>2
  <2>2. ASSUME NEW u \in Users, InsertRow(c, u) \/ LockRow(c, u) \/ UpdateRow(c, u)
        PROVE  Shortens(c)
    <3>1. PICK s \in {"select", "update", "commit"} :
            /\ Advance(c, u, s)
            /\ \/ step[c] = "insert" /\ s = "select"
               \/ step[c] = "select" /\ s = "update"
               \/ step[c] = "update" /\ s = "commit"
      BY <2>2 DEF InsertRow, LockRow, UpdateRow
    <3>2. u \in todo[c]
      BY <2>2 DEF InsertRow, LockRow, UpdateRow, IsNext, SideAFirst
    <3>3. /\ \/ step'[c] = s /\ Left(c) = 1 /\ Left(c)' = 2
             \/ step'[c] = step[c] /\ Left(c) = 2 /\ Left(c)' = 1
          /\ \A d \in Calls \ {c} : step'[d] = step[d] /\ Left(d)' = Left(d)
      BY <1>1, <3>1, <3>2, AdvanceLeaves
    <3>4. StepsLeft(c)' < StepsLeft(c)
      BY <3>1, <3>3 DEF StepsLeft
    <3> QED BY <3>3, <3>4 DEF StepsLeft
  <2>3. CASE Commit(c) \/ Abort(c)
    BY <2>0, <2>3, EndsLeaves DEF Commit, Abort, Ends
  <2> QED BY <1>1, <2>1, <2>2, <2>3 DEF Works
<1>2. LockInv /\ [Next]_vars => [\E c \in Calls : Shortens(c)]_vars
  BY <1>1 DEF Next, AllEnded
<1> QED BY <1>2, LockInvInit, LockInvStep, PTL DEF Spec, StepsRunOut

(* A statement over rows has one to take as long as it has not ended.      *)
HasRows == \A c \in Calls : step[c] \in {"insert", "select", "update"} => todo[c] # {}

(* Every step keeps that so.                                               *)
LEMMA HasRowsStep == LockInv /\ HasRows /\ [Next]_vars => HasRows'
<1> SUFFICES ASSUME LockInv, HasRows, [Next]_vars PROVE HasRows'
  OBVIOUS
<1>0. TypeOK
  BY DEF LockInv
<1>1. ASSUME NEW c \in Calls, NEW s, Begin(c, s, PlayersOf(c)) PROVE HasRows'
  <2>1. todo'[c] # {} /\ \A d \in Calls \ {c} : step'[d] = step[d] /\ todo'[d] = todo[d]
    BY <1>0, <1>1, PlayersType DEF Begin, TypeOK
  <2> QED BY <2>1 DEF HasRows
<1>2. ASSUME NEW c \in Calls, Begin(c, "end", {}) PROVE HasRows'
  BY <1>0, <1>2 DEF Begin, HasRows, TypeOK
<1>3. ASSUME NEW c \in Calls, Claim(c) PROVE HasRows'
  BY <1>1, <1>2, <1>3 DEF Claim, Ends
<1>4. ASSUME NEW c \in Calls, NEW u \in Users,
             InsertRow(c, u) \/ LockRow(c, u) \/ UpdateRow(c, u)
      PROVE  HasRows'
  <2>1. PICK s : Advance(c, u, s) /\ u \in todo[c]
    BY <1>4 DEF InsertRow, LockRow, UpdateRow, IsNext, SideAFirst
  <2>2. CASE todo[c] = {u}
    BY <1>1, <2>1, <2>2 DEF Advance
  <2>3. CASE todo[c] # {u}
    BY <1>0, <2>1, <2>3, AdvanceMoves DEF HasRows
  <2> QED BY <2>2, <2>3
<1>5. ASSUME NEW c \in Calls, Commit(c) \/ Abort(c) PROVE HasRows'
  BY <1>2, <1>5 DEF Commit, Abort, Ends
<1>6. CASE UNCHANGED vars
  BY <1>6 DEF vars, callVars, HasRows
<1> QED BY <1>3, <1>4, <1>5, <1>6 DEF Next, Works, AllEnded

(* An uncommitted row is locked by the call that wrote it.                 *)
DirtyHeld == \A u \in Users : u \in dirty => owner[u] # Nobody

(* Every step keeps that so: a row is written by whoever has it, and stays *)
(* uncommitted no longer than it is locked.                                *)
LEMMA DirtyHeldStep == LockInv /\ DirtyHeld /\ [Next]_vars => DirtyHeld'
<1> SUFFICES ASSUME LockInv, DirtyHeld, [Next]_vars PROVE DirtyHeld'
  OBVIOUS
<1>0. TypeOK /\ \A c \in Calls : c # Nobody
  BY RatingAssumption DEF LockInv, RatingAssumption
<1>1. ASSUME NEW c \in Calls, NEW u \in Users,
             InsertRow(c, u) \/ LockRow(c, u) \/ UpdateRow(c, u)
      PROVE  DirtyHeld'
  BY <1>0, <1>1 DEF InsertRow, LockRow, UpdateRow, DirtyHeld, TypeOK
<1>2. ASSUME NEW c \in Calls, Commit(c) \/ Abort(c) PROVE DirtyHeld'
  BY <1>0, <1>2 DEF Commit, Abort, Releases, DirtyHeld, TypeOK
<1>3. ASSUME NEW c \in Calls, Claim(c) PROVE DirtyHeld'
  BY <1>3 DEF Claim, DirtyHeld
<1>4. CASE UNCHANGED vars
  BY <1>4 DEF vars, lockVars, DirtyHeld
<1> QED BY <1>1, <1>2, <1>3, <1>4 DEF Next, Works, AllEnded

(* A call that is under way and waits for nobody can take its next step.   *)
LEMMA WhoWaitsForNobody ==
  ASSUME LockInv, HasRows, DirtyHeld, NEW c \in Calls, step[c] # "end",
         \A d \in Calls : ~WaitsFor(c, d)
  PROVE  CanGoOn(c)
<1> USE DEF LockInv
<1>0. /\ step[c] \in Steps /\ todo[c] \subseteq PlayersOf(c)
      /\ \A u \in Users : owner[u] \in Calls \cup {Nobody}
      /\ MatchOf[c] \in Matches /\ claimer[MatchOf[c]] \in Calls \cup {Nobody}
      /\ PlayersOf(c) \subseteq Users
  BY PlayersType DEF TypeOK, Locked
<1>1. CASE step[c] = "claim"
  <2>1. claimer[MatchOf[c]] # c
    BY <1>0, <1>1 DEF Claimed, Working
  <2> QED BY <1>0, <1>1, <2>1 DEF CanGoOn, WaitsFor
<1>2. ASSUME step[c] \in {"insert", "select", "update"}
      PROVE  /\ \E u \in Users : IsNext(c, u)
             /\ \E u \in Users : SideAFirst(c, u)
  <2> DEFINE a == SideA[MatchOf[c]]
             b == SideB[MatchOf[c]]
  <2>1. todo[c] # {} /\ PlayersOf(c) = {a, b} /\ a \in Users /\ b \in Users
    BY <1>0, <1>2, PlayersType DEF HasRows
  <2> HIDE DEF a, b
  <2>2. a \in Int /\ b \in Int
    <3>1. Users \subseteq Int
      BY RatingAssumption DEF RatingAssumption
    <3> QED BY <2>1, <3>1
  <2>3. todo[c] \in {{a}, {b}, {a, b}}
    BY <1>0, <2>1
  <2>4. \E u \in Users : IsNext(c, u)
    <3>1. CASE a \in todo[c] /\ (b \in todo[c] => a <= b)
      BY <2>1, <2>2, <2>3, <3>1 DEF IsNext
    <3>2. CASE b \in todo[c] /\ (a \in todo[c] => b <= a)
      BY <2>1, <2>2, <2>3, <3>2 DEF IsNext
    <3> QED BY <2>2, <2>3, <3>1, <3>2
  <2>5. \E u \in Users : SideAFirst(c, u)
    <3>1. CASE a \in todo[c]
      BY <2>1, <3>1 DEF SideAFirst, a
    <3>2. CASE a \notin todo[c]
      BY <2>1, <2>3, <3>2 DEF SideAFirst
    <3> QED BY <3>1, <3>2
  <2> QED BY <2>4, <2>5
<1>3. CASE step[c] = "insert"
  <2>1. PICK u \in Users : IsNext(c, u)
    BY <1>2, <1>3
  <2>2. u \notin dirty \/ owner[u] = c
    BY <1>0, <1>3, <2>1 DEF WaitsFor, DirtyHeld
  <2> QED BY <1>3, <2>1, <2>2 DEF CanGoOn
<1>4. CASE step[c] = "select"
  BY <1>0, <1>2, <1>4 DEF CanGoOn, WaitsFor
<1>5. CASE step[c] = "update"
  BY <1>0, <1>2, <1>5 DEF CanGoOn, WaitsFor
<1>6. CASE step[c] = "commit"
  BY <1>6 DEF CanGoOn
<1> QED BY <1>0, <1>1, <1>3, <1>4, <1>5, <1>6 DEF Steps

(* Whoever holds a lock is itself under way, so that of the calls under way*)
(* one always finds the lock it wants free.  With CallsRunOut this leaves  *)
(* of CallsEnd only the fairness.                                          *)
THEOREM WorkIsNeverStuck == Spec => []SomeCallGoesOn
<1>1. ASSUME LockInv, HasRows, DirtyHeld, NoDeadlock PROVE SomeCallGoesOn
  <2> SUFFICES ASSUME \E c \in Calls : step[c] # "end" PROVE \E c \in Calls : CanGoOn(c)
    BY DEF SomeCallGoesOn
  <2> DEFINE S == {c \in Calls : step[c] # "end"}
  <2>1. S \in (SUBSET Calls) \ {{}}
    OBVIOUS
  <2>2. PICK c \in S : \A d \in S : ~WaitsFor(c, d)
    BY <1>1, <2>1 DEF NoDeadlock
  <2>3. \A d \in Calls : WaitsFor(c, d) => step[d] \in Working
    BY <1>1, <2>2, WaitsWhere
  <2>4. \A d \in Calls : ~WaitsFor(c, d)
    BY <2>2, <2>3 DEF Working
  <2> QED BY <1>1, <2>2, <2>4, WhoWaitsForNobody
<1>2. Init => HasRows /\ DirtyHeld
  BY DEF Init, HasRows, DirtyHeld
<1> QED BY <1>1, <1>2, LockInvInit, LockInvStep, HasRowsStep, DirtyHeldStep,
           CallsNeverDeadlock, PTL DEF Spec
=============================================================================
