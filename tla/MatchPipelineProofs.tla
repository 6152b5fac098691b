------------------------- MODULE MatchPipelineProofs -------------------------
(***************************************************************************)
(* Proofs about MatchPipeline, for any players, warbands and seeds, any    *)
(* number of requests, saves, joins, matches and releases.                 *)
(***************************************************************************)
EXTENDS MatchPipeline, FiniteSetTheorems, TLAPS

(* The players of the pairings that are being resolved                     *)
Seats == {c.A : c \in resolving} \cup {c.B : c \in resolving}

(* resolving and the promise's pairs are the same pairings of two players  *)
(* each, nobody is in two of them or waits meanwhile, and the queue holds  *)
(* an entry of everybody who waits or resolves.                            *)
PairingsAgree ==
  /\ pairs = {{c.A, c.B} : c \in resolving}
  /\ \A c \in resolving : c.A # c.B /\ c.A \notin pool /\ c.B \notin pool
  /\ \A c, d \in resolving : {c.A, c.B} \cap {d.A, d.B} # {} => c = d

EntriesHeld ==
  /\ \A u \in pool \cup Seats : entry[u] # NoRow
  /\ \A u \in Users : entry[u] # NoRow => joins[u] # 0

(* Whatever is to be reported or rated has been inserted.                  *)
RowsInserted ==
  /\ rating \subseteq delivered /\ delivered \subseteq Inserted
  /\ \A c \in resolving : c.row # 0 => c.row \in Inserted

SeatInv == TypeOK /\ PairingsAgree /\ EntriesHeld /\ RowsInserted

-----------------------------------------------------------------------------
(* Lemmas about the tables and the queue.                                  *)

LEMMA BoundsAreNat ==
  /\ MaxSaves \in Nat \ {0} /\ MaxJoins \in Nat \ {0}
  /\ MaxMatches \in Nat \ {0} /\ MaxRelease \in Nat \ {0}
BY PipelineAssumption DEF PipelineAssumption

(* What is looked up and found is not the absence of it.                   *)
LEMMA RowsArePresent ==
  /\ \A x \in WarbandRow : x # NoRow
  /\ \A x \in MatchRow : x # NoRow
  /\ \A x \in Entry : x # NoRow
  /\ \A x \in Request : x # NoRow
  /\ \A x \in Users : x # NoRow
BY PipelineAssumption DEF PipelineAssumption

LEMMA SeatedAreSeats == PairingsAgree => Queue!Seated = Seats
<1> SUFFICES ASSUME PairingsAgree PROVE Queue!Seated = Seats
  OBVIOUS
<1>1. ASSUME NEW x \in Queue!Seated PROVE x \in Seats
  <2>1. PICK P \in pairs : x \in P
    BY DEF Queue!Seated
  <2>2. PICK c \in resolving : P = {c.A, c.B}
    BY DEF PairingsAgree
  <2> QED BY <2>1, <2>2 DEF Seats
<1>2. ASSUME NEW x \in Seats PROVE x \in Queue!Seated
  <2>1. PICK c \in resolving : x \in {c.A, c.B}
    BY DEF Seats
  <2>2. {c.A, c.B} \in pairs
    BY DEF PairingsAgree
  <2> QED BY <2>1, <2>2 DEF Queue!Seated
<1> QED BY <1>1, <1>2

(* The saves that have been made are counted.                              *)
LEMMA SavesType == Saves \in 0..MaxSaves
<1> DEFINE S == {b \in Builds : author[b] # NoRow}
<1>1. IsFiniteSet(1..MaxSaves) /\ Cardinality(1..MaxSaves) = MaxSaves
  BY BoundsAreNat, FS_Interval
<1>2. S \in SUBSET (1..MaxSaves)
  BY DEF Builds
<1>3. IsFiniteSet(S) /\ Cardinality(S) <= Cardinality(1..MaxSaves)
  BY <1>1, <1>2, FS_Subset
<1>4. Cardinality(S) \in Nat
  BY <1>3, FS_CardinalityType
<1> QED BY <1>1, <1>3, <1>4, BoundsAreNat DEF Saves

(* What a step that saves does to the tables.                              *)
LEMMA SaveWrites ==
  ASSUME TypeOK, NEW u \in Users, NEW w \in Warbands, Save(u, w)
  PROVE  \E body \in Builds :
           /\ NextBuild(body)
           /\ warbands' = [warbands EXCEPT ![w] = [userId |-> u, data |-> body]]
           /\ author' = [b \in Builds |-> IF b = body THEN u ELSE author[b]]
BY DEF Save, Accepts

(* Every step keeps the types.                                             *)
LEMMA TypeStep == SeatInv /\ [Next]_vars => TypeOK'
<1> SUFFICES ASSUME SeatInv, [Next]_vars PROVE TypeOK'
  OBVIOUS
<1> USE DEF SeatInv
<1>1. ASSUME NEW u \in Users, NEW w \in Warbands, CreateWarband(u, w) \/ UpdateWarband(u, w)
      PROVE TypeOK'
  <2>1. Save(u, w) /\ UNCHANGED <<release, matches, joins, delivered, memory>>
    BY <1>1 DEF CreateWarband, UpdateWarband
  <2>2. PICK body \in Builds :
          /\ warbands' = [warbands EXCEPT ![w] = [userId |-> u, data |-> body]]
          /\ author' = [b \in Builds |-> IF b = body THEN u ELSE author[b]]
    BY <2>1, SaveWrites
  <2>3. warbands' \in [Warbands -> WarbandRow \cup {NoRow}]
    BY <2>2 DEF TypeOK, WarbandRow
  <2>4. author' \in [Builds -> Users \cup {NoRow}]
    BY <2>2 DEF TypeOK
  <2> QED BY <2>1, <2>3, <2>4 DEF TypeOK, memory, queue
<1>2. ASSUME NEW u \in Users, NEW w \in Warbands, DeleteWarband(u, w) PROVE TypeOK'
  BY <1>2 DEF DeleteWarband, TypeOK, memory, history, queue
<1>3. ASSUME NEW u \in Users, NEW w \in Warbands, NEW s \in Slots, ReadWarband(u, w, s)
      PROVE TypeOK'
  <2>1. warbands[w] \in WarbandRow /\ requests' = [requests EXCEPT ![s] =
          [user |-> u, build |-> warbands[w].data, ratingRead |-> FALSE]]
    BY <1>3 DEF ReadWarband, Own, TypeOK
  <2>2. requests' \in [Slots -> Request \cup {NoRow}]
    BY <2>1 DEF TypeOK, WarbandRow, Request
  <2> QED BY <1>3, <2>2 DEF ReadWarband, TypeOK, tables, history, queue
<1>4. ASSUME NEW s \in Slots, ReadRating(s) PROVE TypeOK'
  <2>1. requests[s] \in Request /\ requests' = [requests EXCEPT ![s].ratingRead = TRUE]
    BY <1>4 DEF ReadRating, TypeOK
  <2>2. requests' \in [Slots -> Request \cup {NoRow}]
    BY <2>1 DEF TypeOK, Request
  <2> QED BY <1>4, <2>2 DEF ReadRating, TypeOK, tables, history, queue
<1>5. ASSUME NEW s \in Slots, Enqueue(s) PROVE TypeOK'
  <2>1. requests[s] \in Request
    BY <1>5 DEF Enqueue, TypeOK
  <2>2. requests' \in [Slots -> Request \cup {NoRow}]
        /\ UNCHANGED <<release, warbands, matches, author, delivered, resolving, rating>>
    BY <1>5 DEF Enqueue, TypeOK, tables
  <2>3. CASE UNCHANGED <<queue, entry, told, joins>>
    BY <2>2, <2>3 DEF TypeOK, queue
  <2>4. CASE Joins(requests[s].user, requests[s].build)
    <3> DEFINE u == requests[s].user
               b == requests[s].build
    <3>1. u \in Users /\ b \in Builds
      BY <2>1 DEF Request
    <3>2. pool' \in SUBSET Users /\ pairs' = pairs /\ result' \in [Users -> SUBSET Users]
      BY <2>4, <3>1 DEF Joins, Queue!Join, TypeOK
    <3>3. [build |-> b, saved |-> Saves] \in Entry
      BY <3>1, SavesType DEF Entry
    <3>4. entry' \in [Users -> Entry \cup {NoRow}]
      BY <2>4, <3>1, <3>3 DEF Joins, TypeOK
    <3>5. told' \in [Users -> 0..MaxMatches]
      BY <2>4, <3>1, BoundsAreNat DEF Joins, TypeOK
    <3>6. joins' \in [Users -> 0..MaxJoins]
      BY <2>4, <3>1, BoundsAreNat DEF Joins, TypeOK
    <3> QED BY <2>2, <3>2, <3>4, <3>5, <3>6 DEF TypeOK
  <2> QED BY <1>5, <2>3, <2>4 DEF Enqueue
<1>6. ASSUME NEW u \in Users, Dequeue(u) PROVE TypeOK'
  BY <1>6 DEF Dequeue, Queue!Leave, TypeOK, tables, history
<1>7. ASSUME NEW u \in Users, NEW v \in Users, Pair(u, v) PROVE TypeOK'
  <2>1. [A |-> u, B |-> v, row |-> 0] \in Resolution
    BY BoundsAreNat DEF Resolution
  <2> QED BY <1>7, <2>1 DEF Pair, Queue!Pair, TypeOK, tables, history
<1>8. ASSUME NEW c \in resolving, InsertMatch(c) PROVE TypeOK'
  <2>1. PICK m \in MatchIds, seed \in Seeds :
          /\ matches' = [matches EXCEPT ![m] = Row(c, seed)]
          /\ Awaits(c, m)
    BY <1>8 DEF InsertMatch
  <2>2. c \in Resolution /\ c.A \in Users /\ c.B \in Users
    BY DEF TypeOK, Resolution
  <2>3. entry[c.A] \in Entry /\ entry[c.B] \in Entry
        /\ joins[c.A] \in 1..MaxJoins /\ joins[c.B] \in 1..MaxJoins
    BY <2>2, BoundsAreNat DEF TypeOK, EntriesHeld, Seats
  <2>4. entry[c.A].build \in Builds /\ entry[c.B].build \in Builds
    BY <2>3 DEF Entry
  <2>5. release \in Releases
    BY DEF TypeOK
  <2>6. RunMatch(release, seed, entry[c.A].build, entry[c.B].build) \in Outcome
    BY <2>4, <2>5 DEF RunMatch, Outcome
  <2>7. Row(c, seed) \in MatchRow
    BY <2>2, <2>3, <2>4, <2>5, <2>6 DEF Row, MatchRow
  <2>8. matches' \in [MatchIds -> MatchRow \cup {NoRow}]
    BY <2>1, <2>7 DEF TypeOK
  <2>9. [c EXCEPT !.row = m] \in Resolution
    BY <2>2, BoundsAreNat DEF Resolution, MatchIds
  <2>10. resolving' \in SUBSET Resolution
    BY <2>1, <2>9 DEF Awaits, TypeOK
  <2> QED BY <1>8, <2>1, <2>8, <2>10 DEF InsertMatch, Awaits, TypeOK, history, queue
<1>9. ASSUME NEW c \in resolving, CompletePairing(c) PROVE TypeOK'
  <2>1. c \in Resolution /\ c.A \in Users /\ c.B \in Users /\ c.row \in MatchIds
    BY <1>9, BoundsAreNat DEF CompletePairing, TypeOK, Resolution, MatchIds
  <2>2. c.row \in 0..MaxMatches
    BY <2>1 DEF Resolution
  <2>3. told' \in [Users -> 0..MaxMatches]
    BY <1>9, <2>1, <2>2 DEF CompletePairing, Reported, TypeOK
  <2>4. entry' \in [Users -> Entry \cup {NoRow}]
    BY <1>9, <2>1 DEF CompletePairing, TypeOK
  <2>5. pool' = pool /\ pairs' \in SUBSET SUBSET Users /\ result' \in [Users -> SUBSET Users]
    BY <1>9, <2>1 DEF CompletePairing, Queue!Deliver, TypeOK
  <2>6. resolving' \in SUBSET Resolution /\ delivered' \in SUBSET MatchIds
        /\ rating' \in SUBSET MatchIds
    BY <1>9, <2>1 DEF CompletePairing, TypeOK
  <2> QED BY <1>9, <2>3, <2>4, <2>5, <2>6 DEF CompletePairing, TypeOK, tables
<1>10. ASSUME NEW c \in resolving, NEW back \in SUBSET {c.A, c.B}, FailPairing(c, back)
       PROVE TypeOK'
  <2>1. c.A \in Users /\ c.B \in Users
    BY DEF TypeOK, Resolution
  <2>2. pool' \in SUBSET Users /\ pairs' \in SUBSET SUBSET Users /\ result' = result
    BY <1>10, <2>1 DEF FailPairing, Queue!Undo, TypeOK
  <2>3. entry' \in [Users -> Entry \cup {NoRow}]
    BY <1>10 DEF FailPairing, TypeOK
  <2> QED BY <1>10, <2>2, <2>3 DEF FailPairing, TypeOK, tables, history
<1>11. ASSUME NEW m \in rating, RatingApplied(m) \/ RatingFailed(m) PROVE TypeOK'
  <2>1. rating' \in SUBSET MatchIds
    BY <1>11 DEF RatingApplied, RatingFailed, TypeOK
  <2>2. matches' \in [MatchIds -> MatchRow \cup {NoRow}]
    <3>1. CASE RatingFailed(m)
      BY <3>1 DEF RatingFailed, TypeOK, tables
    <3>2. CASE RatingApplied(m)
      <4>1. matches[m] \in MatchRow
        BY DEF TypeOK, RowsInserted, Inserted
      <4> QED BY <3>2, <4>1 DEF RatingApplied, TypeOK, MatchRow
    <3> QED BY <1>11, <3>1, <3>2
  <2> QED BY <1>11, <2>1, <2>2 DEF RatingApplied, RatingFailed, TypeOK, tables, history, queue
<1>12. ASSUME NEW next \in Releases, Restart(next) PROVE TypeOK'
  BY <1>12, BoundsAreNat DEF Restart, TypeOK, tables, history
<1>13. ASSUME UNCHANGED vars PROVE TypeOK'
  BY <1>13 DEF vars, TypeOK, tables, history, queue, memory
<1> QED BY <1>1, <1>2, <1>3, <1>4, <1>5, <1>6, <1>7, <1>8, <1>9, <1>10, <1>11, <1>12,
           <1>13 DEF Next, EditWarband

(* A row stays as it was inserted, but for its mark of having been rated.  *)
SameRow(m) ==
  matches'[m] = matches[m] \/ (m \in rating /\ matches'[m] = [matches[m] EXCEPT !.rated = TRUE])

LEMMA RowsAreKept ==
  ASSUME SeatInv, [Next]_vars, NEW m \in Inserted
  PROVE  SameRow(m)
<1> USE DEF SeatInv
<1>1. ASSUME NEW u \in Users, NEW w \in Warbands, EditWarband(u, w) PROVE SameRow(m)
  BY <1>1 DEF EditWarband, CreateWarband, UpdateWarband, DeleteWarband, SameRow
<1>2. ASSUME NEW u \in Users, NEW w \in Warbands, NEW s \in Slots, ReadWarband(u, w, s)
      PROVE SameRow(m)
  BY <1>2 DEF ReadWarband, tables, SameRow
<1>3. ASSUME NEW s \in Slots, ReadRating(s) \/ Enqueue(s) PROVE SameRow(m)
  BY <1>3 DEF ReadRating, Enqueue, tables, SameRow
<1>4. ASSUME NEW u \in Users, NEW v \in Users, Dequeue(u) \/ Pair(u, v) PROVE SameRow(m)
  BY <1>4 DEF Dequeue, Pair, tables, SameRow
<1>5. ASSUME NEW c \in resolving, InsertMatch(c) PROVE SameRow(m)
  BY <1>5 DEF InsertMatch, Inserted, SameRow, TypeOK
<1>6. ASSUME NEW c \in resolving, CompletePairing(c) PROVE SameRow(m)
  BY <1>6 DEF CompletePairing, tables, SameRow
<1>7. ASSUME NEW c \in resolving, NEW back \in SUBSET {c.A, c.B}, FailPairing(c, back)
      PROVE SameRow(m)
  BY <1>7 DEF FailPairing, tables, SameRow
<1>8. ASSUME NEW n \in rating, RatingApplied(n) \/ RatingFailed(n) PROVE SameRow(m)
  BY <1>8 DEF RatingApplied, RatingFailed, tables, SameRow, TypeOK, Inserted
<1>9. ASSUME NEW next \in Releases, Restart(next) PROVE SameRow(m)
  BY <1>9 DEF Restart, tables, SameRow
<1>10. ASSUME UNCHANGED vars PROVE SameRow(m)
  BY <1>10 DEF vars, tables, SameRow
<1> QED BY <1>1, <1>2, <1>3, <1>4, <1>5, <1>6, <1>7, <1>8, <1>9, <1>10 DEF Next

(* What is read of a row besides its mark does not change.                 *)
LEMMA FieldsAreKept ==
  ASSUME SeatInv, [Next]_vars, NEW m \in Inserted
  PROVE  /\ matches[m] \in MatchRow /\ matches'[m] \in MatchRow /\ m \in Inserted'
         /\ matches'[m].version = matches[m].version /\ matches'[m].seed = matches[m].seed
         /\ matches'[m].A = matches[m].A /\ matches'[m].B = matches[m].B
         /\ matches'[m].buildA = matches[m].buildA /\ matches'[m].buildB = matches[m].buildB
         /\ matches'[m].resultHash = matches[m].resultHash
         /\ matches'[m].joinA = matches[m].joinA /\ matches'[m].joinB = matches[m].joinB
         /\ matches'[m].rated = matches[m].rated \/ m \in rating
<1>1. SameRow(m)
  BY RowsAreKept
<1>2. matches[m] \in MatchRow
  BY DEF SeatInv, TypeOK, Inserted
<1>3. CASE matches'[m] = matches[m]
  BY <1>2, <1>3, RowsArePresent DEF Inserted
<1>4. CASE m \in rating /\ matches'[m] = [matches[m] EXCEPT !.rated = TRUE]
  <2>1. matches'[m] \in MatchRow
    BY <1>2, <1>4 DEF MatchRow
  <2> QED BY <1>2, <1>4, <2>1, RowsArePresent DEF MatchRow, Inserted
<1> QED BY <1>1, <1>3, <1>4 DEF SameRow

(* Rows come from InsertMatch only.                                        *)
LEMMA RowsAreInserted ==
  ASSUME SeatInv, [Next]_vars, NEW m \in MatchIds, matches[m] = NoRow, matches'[m] # NoRow
  PROVE  \E c \in resolving : InsertMatch(c)
<1> USE DEF SeatInv
<1>1. ASSUME NEW u \in Users, NEW w \in Warbands, EditWarband(u, w) PROVE FALSE
  BY <1>1 DEF EditWarband, CreateWarband, UpdateWarband, DeleteWarband
<1>2. ASSUME NEW u \in Users, NEW w \in Warbands, NEW s \in Slots, ReadWarband(u, w, s)
      PROVE FALSE
  BY <1>2 DEF ReadWarband, tables
<1>3. ASSUME NEW s \in Slots, ReadRating(s) \/ Enqueue(s) PROVE FALSE
  BY <1>3 DEF ReadRating, Enqueue, tables
<1>4. ASSUME NEW u \in Users, NEW v \in Users, Dequeue(u) \/ Pair(u, v) PROVE FALSE
  BY <1>4 DEF Dequeue, Pair, tables
<1>5. ASSUME NEW c \in resolving, CompletePairing(c) PROVE FALSE
  BY <1>5 DEF CompletePairing, tables
<1>6. ASSUME NEW c \in resolving, NEW back \in SUBSET {c.A, c.B}, FailPairing(c, back)
      PROVE FALSE
  BY <1>6 DEF FailPairing, tables
<1>7. ASSUME NEW n \in rating, RatingApplied(n) \/ RatingFailed(n) PROVE FALSE
  BY <1>7 DEF RatingApplied, RatingFailed, tables, TypeOK, RowsInserted, Inserted
<1>8. ASSUME NEW next \in Releases, Restart(next) PROVE FALSE
  BY <1>8 DEF Restart, tables
<1>9. ~UNCHANGED vars
  BY DEF vars, tables
<1> QED BY <1>1, <1>2, <1>3, <1>4, <1>5, <1>6, <1>7, <1>8, <1>9 DEF Next

(* A new row is inserted for a pairing that had none.                      *)
LEMMA InsertWrites ==
  ASSUME SeatInv, NEW c \in resolving, InsertMatch(c)
  PROVE  \E m \in MatchIds \ Inserted, seed \in Seeds :
           /\ c.row = 0 /\ matches'[m] = Row(c, seed) /\ Row(c, seed) \in MatchRow
           /\ Awaits(c, m) /\ Inserted' = Inserted \cup {m}
           /\ \A n \in MatchIds \ {m} : matches'[n] = matches[n]
<1>1. PICK m \in MatchIds \ Inserted, seed \in Seeds :
        /\ matches' = [matches EXCEPT ![m] = Row(c, seed)]
        /\ Awaits(c, m)
  BY DEF InsertMatch
<1>2. c.row = 0 /\ TypeOK
  BY DEF InsertMatch, SeatInv
<1>3. c.A \in Users /\ c.B \in Users
  BY <1>2 DEF TypeOK, Resolution
<1>4. entry[c.A] \in Entry /\ entry[c.B] \in Entry
      /\ joins[c.A] \in 1..MaxJoins /\ joins[c.B] \in 1..MaxJoins
  BY <1>2, <1>3, BoundsAreNat DEF SeatInv, TypeOK, EntriesHeld, Seats
<1>5. entry[c.A].build \in Builds /\ entry[c.B].build \in Builds /\ release \in Releases
  BY <1>2, <1>4 DEF Entry, TypeOK
<1>6. RunMatch(release, seed, entry[c.A].build, entry[c.B].build) \in Outcome
  BY <1>5 DEF RunMatch, Outcome
<1>7. Row(c, seed) \in MatchRow
  BY <1>3, <1>4, <1>5, <1>6 DEF Row, MatchRow
<1>8. matches'[m] = Row(c, seed) /\ \A n \in MatchIds \ {m} : matches'[n] = matches[n]
  BY <1>1, <1>2 DEF TypeOK
<1>9. Inserted' = Inserted \cup {m}
  BY <1>7, <1>8, RowsArePresent DEF Inserted
<1> QED BY <1>1, <1>2, <1>7, <1>8, <1>9

-----------------------------------------------------------------------------
(* Seats.                                                                  *)

(* What the steps that leave the queue alone change of it: nothing.        *)
SeatsUnchanged == UNCHANGED <<pool, pairs, entry, joins, resolving>>

LEMMA QuietSteps ==
  ASSUME [Next]_vars
  PROVE  \/ SeatsUnchanged
         \/ \E s \in Slots : Enqueue(s) /\ Joins(requests[s].user, requests[s].build)
         \/ \E u \in Users : Dequeue(u)
         \/ \E u, v \in Users : Pair(u, v)
         \/ \E c \in resolving : InsertMatch(c) \/ CompletePairing(c)
         \/ \E c \in resolving : \E back \in SUBSET {c.A, c.B} : FailPairing(c, back)
         \/ \E next \in Releases : Restart(next)
<1> USE DEF SeatsUnchanged
<1>1. ASSUME NEW u \in Users, NEW w \in Warbands, EditWarband(u, w) PROVE SeatsUnchanged
  BY <1>1 DEF EditWarband, CreateWarband, UpdateWarband, DeleteWarband, memory, queue, history
<1>2. ASSUME NEW u \in Users, NEW w \in Warbands, NEW s \in Slots, ReadWarband(u, w, s)
      PROVE SeatsUnchanged
  BY <1>2 DEF ReadWarband, history, queue
<1>3. ASSUME NEW s \in Slots, ReadRating(s) PROVE SeatsUnchanged
  BY <1>3 DEF ReadRating, history, queue
<1>4. ASSUME NEW s \in Slots, Enqueue(s)
      PROVE  SeatsUnchanged \/ Joins(requests[s].user, requests[s].build)
  BY <1>4 DEF Enqueue, queue
<1>5. ASSUME NEW m \in rating, RatingApplied(m) \/ RatingFailed(m) PROVE SeatsUnchanged
  BY <1>5 DEF RatingApplied, RatingFailed, history, queue
<1>6. ASSUME UNCHANGED vars PROVE SeatsUnchanged
  BY <1>6 DEF vars, memory, queue, history
<1> QED BY <1>1, <1>2, <1>3, <1>4, <1>5, <1>6 DEF Next

(* Every step keeps the pairings and the entries.                          *)
LEMMA PairingsStep == SeatInv /\ [Next]_vars => PairingsAgree' /\ EntriesHeld'
<1> SUFFICES ASSUME SeatInv, [Next]_vars PROVE PairingsAgree' /\ EntriesHeld'
  OBVIOUS
<1>0. TypeOK /\ PairingsAgree /\ EntriesHeld /\ Queue!Seated = Seats
  BY SeatedAreSeats DEF SeatInv
<1>a. \A c \in resolving : c.A \in Users /\ c.B \in Users
  BY <1>0 DEF TypeOK, Resolution
<1>1. CASE SeatsUnchanged
  BY <1>0, <1>1 DEF SeatsUnchanged, PairingsAgree, EntriesHeld, Seats
<1>2. ASSUME NEW s \in Slots, Enqueue(s), Joins(requests[s].user, requests[s].build)
      PROVE  PairingsAgree' /\ EntriesHeld'
  <2> DEFINE u == requests[s].user
             b == requests[s].build
  <2>1. u \in Users /\ b \in Builds
    BY <1>0, <1>2 DEF Enqueue, TypeOK, Request
  <2>2. /\ u \notin Seats /\ pool' = pool \cup {u}
        /\ UNCHANGED <<pairs, resolving>>
        /\ entry' = [entry EXCEPT ![u] = [build |-> b, saved |-> Saves]]
        /\ joins' = [joins EXCEPT ![u] = @ + 1]
    BY <1>0, <1>2 DEF Enqueue, Joins, Queue!Join
  <2>3. [build |-> b, saved |-> Saves] # NoRow
    BY <2>1, SavesType, RowsArePresent DEF Entry
  <2>4. PairingsAgree'
    BY <1>0, <2>2 DEF PairingsAgree, Seats
  <2>5. joins'[u] # 0 /\ entry'[u] # NoRow
    BY <1>0, <2>1, <2>2, <2>3, BoundsAreNat DEF TypeOK
  <2>6. \A v \in Users \ {u} : entry'[v] = entry[v] /\ joins'[v] = joins[v]
    BY <1>0, <2>1, <2>2 DEF TypeOK
  <2>7. Seats' = Seats
    BY <2>2 DEF Seats
  <2>8. pool \subseteq Users /\ Seats \subseteq Users
    BY <1>0, <1>a DEF TypeOK, Seats
  <2>9. EntriesHeld'
    BY <1>0, <2>2, <2>5, <2>6, <2>7, <2>8 DEF EntriesHeld
  <2> QED BY <2>4, <2>9
<1>3. ASSUME NEW u \in Users, Dequeue(u) PROVE PairingsAgree' /\ EntriesHeld'
  <2>1. /\ u \in pool /\ pool' = pool \ {u}
        /\ UNCHANGED <<pairs, resolving, joins>>
        /\ entry' = [entry EXCEPT ![u] = NoRow]
    BY <1>3 DEF Dequeue, Queue!Leave, history
  <2>2. \A v \in Users \ {u} : entry'[v] = entry[v]
    BY <1>0, <2>1 DEF TypeOK
  <2>3. entry'[u] = NoRow /\ u \notin Seats /\ Seats' = Seats
    BY <1>0, <2>1 DEF TypeOK, PairingsAgree, Seats
  <2>4. PairingsAgree'
    BY <1>0, <2>1 DEF PairingsAgree
  <2>5. pool \subseteq Users /\ Seats \subseteq Users
    BY <1>0, <1>a DEF TypeOK, Seats
  <2> QED BY <1>0, <2>1, <2>2, <2>3, <2>4, <2>5 DEF EntriesHeld
<1>4. ASSUME NEW u \in Users, NEW v \in Users, Pair(u, v) PROVE PairingsAgree' /\ EntriesHeld'
  <2> DEFINE new == [A |-> u, B |-> v, row |-> 0]
  <2>1. /\ u \in pool /\ v \in pool /\ u # v /\ pool' = pool \ {u, v}
        /\ pairs' = pairs \cup {{u, v}} /\ resolving' = resolving \cup {new}
        /\ UNCHANGED <<entry, joins>>
    BY <1>4 DEF Pair, Queue!Pair, history
  <2>2. new.A = u /\ new.B = v
    OBVIOUS
  <2> HIDE DEF new
  <2>3. \A c \in resolving : {c.A, c.B} \cap {u, v} = {}
    BY <1>0, <2>1 DEF PairingsAgree
  <2>4. pairs' = {{c.A, c.B} : c \in resolving'}
    BY <1>0, <2>1, <2>2 DEF PairingsAgree
  <2>5. \A c \in resolving' : c.A # c.B /\ c.A \notin pool' /\ c.B \notin pool'
    BY <1>0, <2>1, <2>2 DEF PairingsAgree
  <2>6. \A c, d \in resolving' : {c.A, c.B} \cap {d.A, d.B} # {} => c = d
    BY <1>0, <2>1, <2>2, <2>3 DEF PairingsAgree
  <2>7. Seats' \subseteq Seats \cup {u, v}
    BY <2>1, <2>2 DEF Seats
  <2> QED BY <1>0, <2>1, <2>4, <2>5, <2>6, <2>7 DEF PairingsAgree, EntriesHeld
<1>5. ASSUME NEW c \in resolving, InsertMatch(c) PROVE PairingsAgree' /\ EntriesHeld'
  <2>1. PICK m \in MatchIds : Awaits(c, m)
    BY <1>5 DEF InsertMatch
  <2>2. UNCHANGED <<pool, pairs, entry, joins>>
    BY <1>5 DEF InsertMatch, queue, history
  <2> DEFINE d == [c EXCEPT !.row = m]
  <2>3. c \in Resolution
    BY <1>0 DEF TypeOK
  <2>4. d.A = c.A /\ d.B = c.B /\ resolving' = (resolving \ {c}) \cup {d}
    BY <2>1, <2>3 DEF Awaits, Resolution
  <2> HIDE DEF d
  <2>5. Seats' = Seats
    BY <2>4 DEF Seats
  <2>6. pairs' = {{x.A, x.B} : x \in resolving'}
    BY <1>0, <2>2, <2>4 DEF PairingsAgree
  <2>7. PairingsAgree'
    BY <1>0, <2>2, <2>4, <2>6 DEF PairingsAgree
  <2> QED BY <1>0, <2>2, <2>5, <2>7 DEF EntriesHeld
<1>6. ASSUME NEW c \in resolving, NEW back \in SUBSET {c.A, c.B},
             pairs' = pairs \ {{c.A, c.B}}, pool' = pool \cup back,
             resolving' = resolving \ {c}, UNCHANGED joins,
             entry' = [u \in Users |-> IF u \in {c.A, c.B} \ back THEN NoRow ELSE entry[u]]
      PROVE  PairingsAgree' /\ EntriesHeld'
  <2>1. \A d \in resolving' : {d.A, d.B} \cap {c.A, c.B} = {}
    BY <1>0, <1>6 DEF PairingsAgree
  <2>2. pairs' = {{d.A, d.B} : d \in resolving'}
    <3>1. pairs = {{d.A, d.B} : d \in resolving}
      BY <1>0 DEF PairingsAgree
    <3>2. ASSUME NEW P \in pairs' PROVE P \in {{d.A, d.B} : d \in resolving'}
      <4>1. PICK d \in resolving : P = {d.A, d.B}
        BY <1>6, <3>1, <3>2
      <4>2. d # c
        BY <1>6, <3>2, <4>1
      <4> QED BY <1>6, <4>1, <4>2
    <3>3. ASSUME NEW d \in resolving' PROVE {d.A, d.B} \in pairs'
      <4>1. {d.A, d.B} \in pairs /\ {d.A, d.B} # {c.A, c.B}
        BY <1>6, <2>1, <3>1
      <4> QED BY <1>6, <4>1
    <3> QED BY <3>2, <3>3
  <2>3. PairingsAgree'
    BY <1>0, <1>6, <2>1, <2>2 DEF PairingsAgree
  <2>4. c.A \in Seats /\ c.B \in Seats
        /\ \A u \in Seats' : u \in Seats /\ u \notin {c.A, c.B}
    BY <1>6, <2>1 DEF Seats
  <2>5. pool \cap {c.A, c.B} = {}
    BY <1>0 DEF PairingsAgree
  <2>6. pool \subseteq Users /\ Seats \subseteq Users
    BY <1>0, <1>a DEF TypeOK, Seats
  <2>7. \A u \in pool' \cup Seats' : u \in pool \cup Seats /\ u \notin {c.A, c.B} \ back
    BY <1>6, <2>4, <2>5
  <2>8. EntriesHeld'
    BY <1>0, <1>6, <2>6, <2>7 DEF EntriesHeld
  <2> QED BY <2>3, <2>8
<1>7. ASSUME NEW c \in resolving, CompletePairing(c) PROVE PairingsAgree' /\ EntriesHeld'
  <2>1. entry' = [u \in Users |-> IF u \in {c.A, c.B} \ {} THEN NoRow ELSE entry[u]]
    BY <1>0, <1>7, <1>a DEF CompletePairing, TypeOK
  <2>2. pairs' = pairs \ {{c.A, c.B}} /\ pool' = pool \cup {} /\ resolving' = resolving \ {c}
        /\ UNCHANGED joins
    BY <1>7 DEF CompletePairing, Queue!Deliver
  <2> QED BY <1>6, <2>1, <2>2
<1>8. ASSUME NEW c \in resolving, NEW back \in SUBSET {c.A, c.B}, FailPairing(c, back)
      PROVE  PairingsAgree' /\ EntriesHeld'
  BY <1>6, <1>8 DEF FailPairing, Queue!Undo, history
<1>9. ASSUME NEW next \in Releases, Restart(next) PROVE PairingsAgree' /\ EntriesHeld'
  BY <1>9 DEF Restart, PairingsAgree, EntriesHeld, Seats, history
<1> QED BY <1>1, <1>2, <1>3, <1>4, <1>5, <1>7, <1>8, <1>9, QuietSteps

(* Every step keeps what is owed inserted.                                 *)
LEMMA InsertedStep == SeatInv /\ [Next]_vars => RowsInserted'
<1> SUFFICES ASSUME SeatInv, [Next]_vars PROVE RowsInserted'
  OBVIOUS
<1>0. RowsInserted /\ TypeOK
  BY DEF SeatInv
<1>1. Inserted \subseteq Inserted'
  BY FieldsAreKept
<1>2. CASE UNCHANGED <<delivered, resolving>> /\ rating' \subseteq rating
  BY <1>0, <1>1, <1>2 DEF RowsInserted
<1>3. ASSUME NEW u \in Users, NEW w \in Warbands, EditWarband(u, w) PROVE RowsInserted'
  BY <1>2, <1>3 DEF EditWarband, CreateWarband, UpdateWarband, DeleteWarband, memory, history
<1>4. ASSUME NEW u \in Users, NEW w \in Warbands, NEW s \in Slots, ReadWarband(u, w, s)
      PROVE  RowsInserted'
  BY <1>2, <1>4 DEF ReadWarband, history
<1>a. ASSUME NEW s \in Slots, ReadRating(s) \/ Enqueue(s) PROVE RowsInserted'
  BY <1>2, <1>a DEF ReadRating, Enqueue, history
<1>b. ASSUME NEW u \in Users, Dequeue(u) PROVE RowsInserted'
  BY <1>2, <1>b DEF Dequeue, history
<1>5. ASSUME NEW u \in Users, NEW v \in Users, Pair(u, v) PROVE RowsInserted'
  BY <1>0, <1>1, <1>5 DEF Pair, history, RowsInserted
<1>6. ASSUME NEW c \in resolving, InsertMatch(c) PROVE RowsInserted'
  <2>1. PICK m \in MatchIds : Awaits(c, m) /\ Inserted' = Inserted \cup {m}
    BY <1>6, InsertWrites
  <2>2. c \in Resolution
    BY <1>0 DEF TypeOK
  <2>3. [c EXCEPT !.row = m].row = m
    BY <2>2 DEF Resolution
  <2>4. rating' = rating /\ delivered' = delivered
        /\ resolving' = (resolving \ {c}) \cup {[c EXCEPT !.row = m]}
    BY <1>6, <2>1 DEF InsertMatch, Awaits, history
  <2> QED BY <1>0, <2>1, <2>3, <2>4 DEF RowsInserted
<1>7. ASSUME NEW c \in resolving, CompletePairing(c) PROVE RowsInserted'
  BY <1>0, <1>1, <1>7 DEF CompletePairing, RowsInserted
<1>8. ASSUME NEW c \in resolving, NEW back \in SUBSET {c.A, c.B}, FailPairing(c, back)
      PROVE  RowsInserted'
  BY <1>0, <1>1, <1>8 DEF FailPairing, RowsInserted, history
<1>9. ASSUME NEW m \in rating, RatingApplied(m) \/ RatingFailed(m) PROVE RowsInserted'
  BY <1>2, <1>9 DEF RatingApplied, RatingFailed, history
<1>10. ASSUME NEW next \in Releases, Restart(next) PROVE RowsInserted'
  BY <1>0, <1>1, <1>10 DEF Restart, RowsInserted, history
<1>11. ASSUME UNCHANGED vars PROVE RowsInserted'
  BY <1>2, <1>11 DEF vars, history, memory
<1> QED BY <1>3, <1>4, <1>a, <1>b, <1>5, <1>6, <1>7, <1>8, <1>9, <1>10, <1>11 DEF Next

LEMMA SeatStep == SeatInv /\ [Next]_vars => SeatInv'
BY TypeStep, PairingsStep, InsertedStep DEF SeatInv

LEMMA SeatStarts == Init => SeatInv
<1> SUFFICES ASSUME Init PROVE SeatInv
  OBVIOUS
<1>1. TypeOK
  BY BoundsAreNat DEF Init, Queue!Init, TypeOK, Releases
<1> QED BY <1>1 DEF Init, Queue!Init, SeatInv, PairingsAgree, EntriesHeld, RowsInserted, Seats

(* The pipeline's tables, queue and requests are always well formed.       *)
THEOREM TypeCorrect == Spec => []TypeOK
<1>1. SeatInv => TypeOK
  BY DEF SeatInv
<1> QED BY <1>1, SeatStarts, SeatStep, PTL DEF Spec

-----------------------------------------------------------------------------
(* Builds and their authors.                                               *)

(* Builds are saved in order, and whatever the tables, a request or the    *)
(* queue hold of a player's warband, the player saved; what the queue holds*)
(* was saved before it was taken in.                                       *)
SavedInOrder ==
  \A b, c \in Builds : author[b] # NoRow /\ c < b => author[c] # NoRow

OwnBuilds ==
  /\ \A w \in Warbands : warbands[w] # NoRow => author[warbands[w].data] = warbands[w].userId
  /\ \A s \in Slots : requests[s] # NoRow => author[requests[s].build] = requests[s].user
  /\ \A u \in Users : entry[u] # NoRow =>
       author[entry[u].build] = u /\ entry[u].build <= entry[u].saved

AuthorInv == SavedInOrder /\ OwnBuilds

(* A build that has been saved is among the first ones.                    *)
LEMMA SavedIsCounted ==
  ASSUME TypeOK, SavedInOrder, NEW b \in Builds, author[b] # NoRow
  PROVE  b <= Saves
<1> DEFINE S == {c \in Builds : author[c] # NoRow}
<1>1. b \in 1..MaxSaves /\ b \in Nat
  BY BoundsAreNat DEF Builds
<1>2. IsFiniteSet(1..MaxSaves) /\ IsFiniteSet(1..b) /\ Cardinality(1..b) = b
  BY <1>1, BoundsAreNat, FS_Interval
<1>3. IsFiniteSet(S)
  BY <1>2, FS_Subset DEF Builds
<1>4. 1..b \in SUBSET S
  BY <1>1, BoundsAreNat DEF SavedInOrder, Builds
<1>5. Cardinality(1..b) <= Cardinality(S)
  BY <1>3, <1>4, FS_Subset
<1> QED BY <1>2, <1>5 DEF Saves

(* A step that only drops what is held keeps it its players' own.          *)
LEMMA AuthorKept ==
  ASSUME SeatInv, AuthorInv, UNCHANGED author,
         \A w \in Warbands : warbands'[w] \in {warbands[w], NoRow},
         \A s \in Slots : requests'[s] \in {requests[s], NoRow},
         \A u \in Users : entry'[u] \in {entry[u], NoRow}
  PROVE  AuthorInv'
BY DEF AuthorInv, SavedInOrder, OwnBuilds

(* Every step keeps builds with their authors.                             *)
LEMMA AuthorStep == SeatInv /\ AuthorInv /\ [Next]_vars => AuthorInv'
<1> SUFFICES ASSUME SeatInv, AuthorInv, [Next]_vars PROVE AuthorInv'
  OBVIOUS
<1>0. TypeOK
  BY DEF SeatInv
<1>1. ASSUME NEW u \in Users, NEW w \in Warbands, CreateWarband(u, w) \/ UpdateWarband(u, w)
      PROVE  AuthorInv'
  <2>1. Save(u, w) /\ UNCHANGED <<requests, entry>>
    BY <1>1 DEF CreateWarband, UpdateWarband, memory
  <2>2. PICK body \in Builds :
          /\ NextBuild(body)
          /\ warbands' = [warbands EXCEPT ![w] = [userId |-> u, data |-> body]]
          /\ author' = [b \in Builds |-> IF b = body THEN u ELSE author[b]]
    BY <1>0, <2>1, SaveWrites
  <2>3. author'[body] = u /\ u # NoRow /\ \A b \in Builds \ {body} : author'[b] = author[b]
    BY <2>2, RowsArePresent
  <2>4. author[body] = NoRow /\ \A c \in Builds : c < body => author[c] # NoRow
    BY <2>2 DEF NextBuild
  <2>5. SavedInOrder'
    <3> SUFFICES ASSUME NEW b \in Builds, NEW c \in Builds, author'[b] # NoRow, c < b
                 PROVE  author'[c] # NoRow
      BY DEF SavedInOrder
    <3> QED BY <2>3, <2>4 DEF AuthorInv, SavedInOrder
  <2>6. \A b \in Builds : author[b] # NoRow => author'[b] = author[b]
    BY <2>3, <2>4
  <2>7. ASSUME NEW x \in Warbands, warbands'[x] # NoRow
        PROVE  author'[warbands'[x].data] = warbands'[x].userId
    <3>1. CASE x = w
      <4>1. warbands'[x] = [userId |-> u, data |-> body]
        BY <1>0, <2>2, <3>1 DEF TypeOK
      <4> QED BY <2>3, <4>1
    <3>2. CASE x # w
      <4>1. warbands'[x] = warbands[x] /\ warbands[x] \in WarbandRow
        BY <1>0, <2>2, <2>7, <3>2 DEF TypeOK
      <4>2. author[warbands[x].data] = warbands[x].userId
            /\ warbands[x].data \in Builds /\ warbands[x].userId # NoRow
        BY <2>7, <4>1, RowsArePresent DEF AuthorInv, OwnBuilds, WarbandRow
      <4> QED BY <2>6, <4>1, <4>2
    <3> QED BY <3>1, <3>2
  <2>8. ASSUME NEW s \in Slots, requests'[s] # NoRow
        PROVE  author'[requests'[s].build] = requests'[s].user
    <3>1. requests'[s] = requests[s] /\ requests[s] \in Request
      BY <1>0, <2>1, <2>8 DEF TypeOK
    <3>2. author[requests[s].build] = requests[s].user
          /\ requests[s].build \in Builds /\ requests[s].user # NoRow
      BY <2>8, <3>1, RowsArePresent DEF AuthorInv, OwnBuilds, Request
    <3> QED BY <2>6, <3>1, <3>2
  <2>9. ASSUME NEW v \in Users, entry'[v] # NoRow
        PROVE  author'[entry'[v].build] = v /\ entry'[v].build <= entry'[v].saved
    <3>1. entry'[v] = entry[v] /\ entry[v] \in Entry
      BY <1>0, <2>1, <2>9 DEF TypeOK
    <3>2. author[entry[v].build] = v /\ entry[v].build <= entry[v].saved
          /\ entry[v].build \in Builds /\ v # NoRow
      BY <2>9, <3>1, RowsArePresent DEF AuthorInv, OwnBuilds, Entry
    <3> QED BY <2>6, <3>1, <3>2
  <2> QED BY <2>5, <2>7, <2>8, <2>9 DEF AuthorInv, OwnBuilds
<1>2. ASSUME NEW u \in Users, NEW w \in Warbands, DeleteWarband(u, w) PROVE AuthorInv'
  BY <1>0, <1>2, AuthorKept DEF DeleteWarband, TypeOK, memory, history
<1>3. ASSUME NEW u \in Users, NEW w \in Warbands, NEW s \in Slots, ReadWarband(u, w, s)
      PROVE  AuthorInv'
  <2> DEFINE q == [user |-> u, build |-> warbands[w].data, ratingRead |-> FALSE]
  <2>1. /\ warbands[w] # NoRow /\ warbands[w].userId = u
        /\ requests' = [requests EXCEPT ![s] = q]
        /\ UNCHANGED <<author, warbands, entry>>
    BY <1>3 DEF ReadWarband, Own, tables, history
  <2>2. requests'[s] = q /\ \A t \in Slots \ {s} : requests'[t] = requests[t]
    BY <1>0, <2>1 DEF TypeOK
  <2>3. q.user = u /\ q.build = warbands[w].data
    OBVIOUS
  <2> HIDE DEF q
  <2> QED BY <2>1, <2>2, <2>3 DEF AuthorInv, SavedInOrder, OwnBuilds
<1>4. ASSUME NEW s \in Slots, ReadRating(s) PROVE AuthorInv'
  <2>1. /\ requests[s] \in Request /\ requests[s] # NoRow
        /\ requests' = [requests EXCEPT ![s].ratingRead = TRUE]
        /\ UNCHANGED <<author, warbands, entry>>
    BY <1>0, <1>4 DEF ReadRating, TypeOK, tables, history
  <2>2. /\ requests'[s].user = requests[s].user /\ requests'[s].build = requests[s].build
        /\ \A t \in Slots \ {s} : requests'[t] = requests[t]
    BY <1>0, <2>1 DEF TypeOK, Request
  <2> QED BY <2>1, <2>2 DEF AuthorInv, SavedInOrder, OwnBuilds
<1>5. ASSUME NEW s \in Slots, Enqueue(s) PROVE AuthorInv'
  <2>1. requests[s] \in Request /\ UNCHANGED <<author, warbands>>
        /\ \A t \in Slots : requests'[t] \in {requests[t], NoRow}
    BY <1>0, <1>5 DEF Enqueue, TypeOK, tables
  <2>2. CASE UNCHANGED entry
    BY <2>1, <2>2, AuthorKept
  <2>3. CASE Joins(requests[s].user, requests[s].build)
    <3> DEFINE u == requests[s].user
               b == requests[s].build
               en == [build |-> b, saved |-> Saves]
    <3>1. u \in Users /\ b \in Builds /\ requests[s] # NoRow
      BY <1>5, <2>1 DEF Enqueue, Request
    <3>2. author[b] = u /\ b <= Saves
      BY <1>0, <3>1, SavedIsCounted, RowsArePresent DEF AuthorInv, OwnBuilds
    <3>3. entry'[u] = en /\ \A v \in Users \ {u} : entry'[v] = entry[v]
      BY <1>0, <2>3, <3>1 DEF Joins, TypeOK
    <3>4. en.build = b /\ en.saved = Saves
      OBVIOUS
    <3> HIDE DEF en
    <3>5. \A v \in Users : entry'[v] # NoRow =>
            author[entry'[v].build] = v /\ entry'[v].build <= entry'[v].saved
      BY <3>2, <3>3, <3>4 DEF AuthorInv, OwnBuilds
    <3> QED BY <2>1, <3>5 DEF AuthorInv, SavedInOrder, OwnBuilds
  <2> QED BY <1>5, <2>2, <2>3 DEF Enqueue
<1>6. ASSUME NEW u \in Users, Dequeue(u) PROVE AuthorInv'
  BY <1>0, <1>6, AuthorKept DEF Dequeue, TypeOK, tables, history
<1>7. ASSUME NEW u \in Users, NEW v \in Users, Pair(u, v) PROVE AuthorInv'
  BY <1>7, AuthorKept DEF Pair, tables, history
<1>8. ASSUME NEW c \in resolving, InsertMatch(c) PROVE AuthorInv'
  BY <1>8, AuthorKept DEF InsertMatch, history
<1>9. ASSUME NEW c \in resolving, CompletePairing(c) PROVE AuthorInv'
  BY <1>0, <1>9, AuthorKept DEF CompletePairing, tables, TypeOK
<1>10. ASSUME NEW c \in resolving, NEW back \in SUBSET {c.A, c.B}, FailPairing(c, back)
       PROVE  AuthorInv'
  BY <1>10, AuthorKept DEF FailPairing, tables, history
<1>11. ASSUME NEW m \in rating, RatingApplied(m) \/ RatingFailed(m) PROVE AuthorInv'
  BY <1>11, AuthorKept DEF RatingApplied, RatingFailed, tables, history
<1>12. ASSUME NEW next \in Releases, Restart(next) PROVE AuthorInv'
  BY <1>12, AuthorKept DEF Restart, tables, history
<1>13. ASSUME UNCHANGED vars PROVE AuthorInv'
  BY <1>13, AuthorKept DEF vars, tables, memory, history
<1> QED BY <1>1, <1>2, <1>3, <1>4, <1>5, <1>6, <1>7, <1>8, <1>9, <1>10, <1>11, <1>12,
           <1>13 DEF Next, EditWarband

LEMMA AuthorStarts == Init => AuthorInv
BY DEF Init, AuthorInv, SavedInOrder, OwnBuilds

(* A match is played with builds that its own players saved before they    *)
(* entered the queue, however they edit while they wait or resolve: what   *)
(* POST /queue reads is a snapshot that nothing replaces.                  *)
THEOREM SnapshotIsPlayed == Spec => PlaysWhatWasQueued
<1>1. ASSUME SeatInv, AuthorInv, [Next]_vars, NEW m \in MatchIds,
             matches[m] = NoRow, matches'[m] # NoRow
      PROVE  /\ PlaysQueued(matches'[m].A, matches'[m].buildA)
             /\ PlaysQueued(matches'[m].B, matches'[m].buildB)
  <2>1. PICK c \in resolving : InsertMatch(c)
    BY <1>1, RowsAreInserted
  <2>2. PICK n \in MatchIds \ Inserted, seed \in Seeds :
          /\ matches'[n] = Row(c, seed)
          /\ \A k \in MatchIds \ {n} : matches'[k] = matches[k]
    BY <1>1, <2>1, InsertWrites
  <2>3. matches'[m] = Row(c, seed)
    BY <1>1, <2>2
  <2>4. /\ matches'[m].A = c.A /\ matches'[m].buildA = entry[c.A].build
        /\ matches'[m].B = c.B /\ matches'[m].buildB = entry[c.B].build
    BY <2>3 DEF Row
  <2>5. c.A \in Users /\ c.B \in Users /\ entry[c.A] # NoRow /\ entry[c.B] # NoRow
    BY <1>1 DEF SeatInv, TypeOK, Resolution, EntriesHeld, Seats
  <2> QED BY <1>1, <2>4, <2>5 DEF AuthorInv, OwnBuilds, PlaysQueued
<1>2. SeatInv /\ AuthorInv /\ [Next]_vars =>
        [\A m \in MatchIds : matches[m] = NoRow /\ matches'[m] # NoRow =>
           /\ PlaysQueued(matches'[m].A, matches'[m].buildA)
           /\ PlaysQueued(matches'[m].B, matches'[m].buildB)]_vars
  BY <1>1
<1> QED BY <1>2, SeatStarts, SeatStep, AuthorStarts, AuthorStep, PTL
        DEF Spec, PlaysWhatWasQueued

-----------------------------------------------------------------------------
(* Rows, stays and reports.                                                *)

(* What a step may do to a player's stays: only joining begins a new one,  *)
(* and nobody else who is busy after the step was not busy before it.      *)
StayGoesOn(u) ==
  /\ joins'[u] = joins[u] \/ (joins'[u] = joins[u] + 1 /\ u \notin pool \cup Seats)
  /\ u \in pool' \cup Seats' => u \in pool \cup Seats \/ joins'[u] = joins[u] + 1

(* ... to what is reported: it stays or goes, or this step reported it.    *)
ReportStays(u) ==
  \/ told'[u] = 0
  \/ told'[u] = told[u] /\ result'[u] = result[u] /\ joins'[u] = joins[u]

LEMMA StepEffects ==
  ASSUME SeatInv, [Next]_vars
  PROVE  /\ \A u \in Users : StayGoesOn(u)
         /\ \/ delivered' = delivered /\ \A u \in Users : ReportStays(u)
            \/ \E c \in resolving : CompletePairing(c)
         /\ \/ \A d \in resolving' : d.row # 0 => d \in resolving
            \/ \E c \in resolving : InsertMatch(c)
<1> DEFINE Goal == /\ \A u \in Users : StayGoesOn(u)
                   /\ \/ delivered' = delivered /\ \A u \in Users : ReportStays(u)
                      \/ \E c \in resolving : CompletePairing(c)
                   /\ \/ \A d \in resolving' : d.row # 0 => d \in resolving
                      \/ \E c \in resolving : InsertMatch(c)
<1>0. TypeOK /\ PairingsAgree /\ Queue!Seated = Seats
      /\ \A c \in resolving : c.A \in Users /\ c.B \in Users /\ c.A \in Seats /\ c.B \in Seats
  BY SeatedAreSeats DEF SeatInv, TypeOK, Resolution, Seats
<1>1. CASE UNCHANGED <<pool, resolving, joins, delivered, told, result>>
  BY <1>1 DEF StayGoesOn, ReportStays, Seats
<1>2. ASSUME NEW u \in Users, NEW w \in Warbands, EditWarband(u, w) PROVE Goal
  BY <1>1, <1>2 DEF EditWarband, CreateWarband, UpdateWarband, DeleteWarband, memory, queue, history
<1>3. ASSUME NEW u \in Users, NEW w \in Warbands, NEW s \in Slots, ReadWarband(u, w, s)
      PROVE  Goal
  BY <1>1, <1>3 DEF ReadWarband, queue, history
<1>4. ASSUME NEW s \in Slots, ReadRating(s) PROVE Goal
  BY <1>1, <1>4 DEF ReadRating, queue, history
<1>5. ASSUME NEW s \in Slots, Enqueue(s) PROVE Goal
  <2>1. UNCHANGED <<delivered, resolving>> /\ requests[s] \in Request
    BY <1>0, <1>5 DEF Enqueue, TypeOK
  <2>2. CASE UNCHANGED <<queue, entry, told, joins>>
    BY <1>1, <2>1, <2>2 DEF queue
  <2>3. CASE Joins(requests[s].user, requests[s].build)
    <3> DEFINE v == requests[s].user
    <3>1. v \in Users
      BY <2>1 DEF Request
    <3>2. /\ v \notin pool /\ v \notin Seats /\ pool' = pool \cup {v}
          /\ result' = [result EXCEPT ![v] = {}]
          /\ joins' = [joins EXCEPT ![v] = @ + 1] /\ told' = [told EXCEPT ![v] = 0]
      BY <1>0, <2>3 DEF Joins, Queue!Join
    <3>3. Seats' = Seats
      BY <2>1 DEF Seats
    <3>4. joins'[v] = joins[v] + 1 /\ told'[v] = 0
      BY <1>0, <3>1, <3>2 DEF TypeOK
    <3>5. \A u \in Users \ {v} : joins'[u] = joins[u] /\ told'[u] = told[u] /\ result'[u] = result[u]
      BY <1>0, <3>1, <3>2 DEF TypeOK
    <3> HIDE DEF v
    <3>6. \A u \in Users : StayGoesOn(u) /\ ReportStays(u)
      BY <3>2, <3>3, <3>4, <3>5 DEF StayGoesOn, ReportStays
    <3> QED BY <2>1, <3>6
  <2> QED BY <1>5, <2>2, <2>3 DEF Enqueue
<1>6. ASSUME NEW u \in Users, Dequeue(u) PROVE Goal
  <2>1. pool' \subseteq pool /\ UNCHANGED <<resolving, joins, delivered, told, result>>
    BY <1>6 DEF Dequeue, Queue!Leave, history
  <2> QED BY <2>1 DEF StayGoesOn, ReportStays, Seats
<1>7. ASSUME NEW u \in Users, NEW v \in Users, Pair(u, v) PROVE Goal
  <2> DEFINE d == [A |-> u, B |-> v, row |-> 0]
  <2>1. /\ u \in pool /\ v \in pool /\ pool' = pool \ {u, v}
        /\ resolving' = resolving \cup {d}
        /\ UNCHANGED <<joins, delivered, told, result>>
    BY <1>7 DEF Pair, Queue!Pair, history
  <2>2. d.A = u /\ d.B = v /\ d.row = 0
    OBVIOUS
  <2> HIDE DEF d
  <2>3. Seats' \subseteq Seats \cup {u, v}
    BY <2>1, <2>2 DEF Seats
  <2> QED BY <2>1, <2>2, <2>3 DEF StayGoesOn, ReportStays
<1>8. ASSUME NEW c \in resolving, InsertMatch(c) PROVE Goal
  <2>1. PICK m \in MatchIds : Awaits(c, m)
    BY <1>8 DEF InsertMatch
  <2>2. UNCHANGED <<pool, joins, delivered, told, result>>
    BY <1>8 DEF InsertMatch, queue, history
  <2> DEFINE d == [c EXCEPT !.row = m]
  <2>3. d.A = c.A /\ d.B = c.B /\ resolving' = (resolving \ {c}) \cup {d}
    BY <1>0, <2>1 DEF Awaits, Resolution, TypeOK
  <2> HIDE DEF d
  <2>4. Seats' = Seats
    BY <2>3 DEF Seats
  <2> QED BY <1>8, <2>2, <2>4 DEF StayGoesOn, ReportStays
<1>9. ASSUME NEW c \in resolving, CompletePairing(c) PROVE Goal
  <2>1. pool' = pool /\ resolving' \subseteq resolving /\ UNCHANGED joins
    BY <1>9 DEF CompletePairing, Queue!Deliver
  <2>2. Seats' \subseteq Seats
    BY <2>1 DEF Seats
  <2> QED BY <1>9, <2>1, <2>2 DEF StayGoesOn
<1>10. ASSUME NEW c \in resolving, NEW back \in SUBSET {c.A, c.B}, FailPairing(c, back)
       PROVE  Goal
  <2>1. /\ pool' = pool \cup back /\ resolving' \subseteq resolving
        /\ UNCHANGED <<joins, delivered, told, result>>
    BY <1>10 DEF FailPairing, Queue!Undo, history
  <2>2. Seats' \subseteq Seats /\ back \subseteq Seats
    BY <1>0, <2>1 DEF Seats
  <2> QED BY <2>1, <2>2 DEF StayGoesOn, ReportStays
<1>11. ASSUME NEW m \in rating, RatingApplied(m) \/ RatingFailed(m) PROVE Goal
  BY <1>1, <1>11 DEF RatingApplied, RatingFailed, queue, history
<1>12. ASSUME NEW next \in Releases, Restart(next) PROVE Goal
  <2>1. /\ pool' = {} /\ resolving' = {} /\ told' = [u \in Users |-> 0]
        /\ UNCHANGED <<joins, delivered>>
    BY <1>12 DEF Restart, history
  <2> QED BY <2>1 DEF StayGoesOn, ReportStays, Seats
<1>13. ASSUME UNCHANGED vars PROVE Goal
  BY <1>1, <1>13 DEF vars, memory, queue, history
<1> QED BY <1>2, <1>3, <1>4, <1>5, <1>6, <1>7, <1>8, <1>9, <1>10, <1>11, <1>12, <1>13 DEF Next

(* Rows are between two players, hold what the engine makes of them and    *)
(* belong to stays that have begun.                                        *)
RowsHonest ==
  \A m \in Inserted :
    /\ matches[m].A # matches[m].B
    /\ matches[m].resultHash =
         RunMatch(matches[m].version, matches[m].seed, matches[m].buildA, matches[m].buildB)
    /\ matches[m].joinA <= joins[matches[m].A] /\ matches[m].joinB <= joins[matches[m].B]

(* The row a pairing has inserted is its players' and of their present     *)
(* stay.                                                                   *)
RowsOwed ==
  \A c \in resolving : c.row # 0 =>
    /\ matches[c.row].A = c.A /\ matches[c.row].B = c.B
    /\ matches[c.row].joinA = joins[c.A] /\ matches[c.row].joinB = joins[c.B]

(* Whoever waits or resolves has been told of no match of this stay.       *)
StaysOpen ==
  \A u \in pool \cup Seats : \A m \in delivered \cap History(u) : JoinOf(u, m) # joins[u]

ReportedOnce ==
  \A u \in Users : \A m, n \in delivered \cap History(u) :
    JoinOf(u, m) = JoinOf(u, n) => m = n

RatedWasReported == \A m \in Inserted : matches[m].rated => m \in delivered

RowInv == RowsHonest /\ RowsOwed /\ StaysOpen /\ ReportedOnce /\ RatedWasReported

(* How a row reads to one of its players does not change.                  *)
LEMMA JoinsAreKept ==
  ASSUME SeatInv, [Next]_vars, NEW u \in Users, NEW m \in Inserted
  PROVE  /\ (m \in History(u))' = (m \in History(u))
         /\ JoinOf(u, m)' = JoinOf(u, m)
BY FieldsAreKept DEF History, JoinOf

(* Every step keeps the rows.                                              *)
LEMMA RowStep == SeatInv /\ RowInv /\ [Next]_vars => RowInv'
<1> SUFFICES ASSUME SeatInv, RowInv, [Next]_vars PROVE RowInv'
  OBVIOUS
<1>0. /\ TypeOK /\ PairingsAgree /\ EntriesHeld /\ RowsInserted
      /\ joins \in [Users -> Nat] /\ joins' \in [Users -> Nat]
      /\ \A c \in resolving : c.A \in Users /\ c.B \in Users /\ c.A \in Seats /\ c.B \in Seats
      /\ pool \cup Seats \subseteq Users
  <2>1. TypeOK /\ PairingsAgree /\ EntriesHeld /\ RowsInserted /\ TypeOK'
    BY TypeStep DEF SeatInv
  <2>2. \A c \in resolving : c.A \in Users /\ c.B \in Users /\ c.A \in Seats /\ c.B \in Seats
    BY <2>1 DEF TypeOK, Resolution, Seats
  <2>3. joins \in [Users -> Nat] /\ joins' \in [Users -> Nat]
    BY <2>1, BoundsAreNat DEF TypeOK
  <2>4. pool \cup Seats \subseteq Users
    BY <2>1, <2>2 DEF TypeOK, Seats
  <2> QED BY <2>1, <2>2, <2>3, <2>4
<1>1. \A u \in Users : StayGoesOn(u) /\ joins'[u] >= joins[u]
  BY <1>0, StepEffects DEF StayGoesOn
<1>2. \A u \in Seats : joins'[u] = joins[u]
  BY <1>0, <1>1 DEF StayGoesOn
<1>3. \A m \in Inserted : matches[m] \in MatchRow /\ matches[m].A \in Users
        /\ matches[m].B \in Users /\ matches[m].joinA \in Nat /\ matches[m].joinB \in Nat
  BY <1>0, BoundsAreNat DEF TypeOK, Inserted, MatchRow
<1>4. \A u \in Users : \A m \in Inserted \cap History(u) : JoinOf(u, m) <= joins[u]
  BY <1>3 DEF RowInv, RowsHonest, History, JoinOf
<1>5. ASSUME NEW m \in Inserted', m \notin Inserted
      PROVE  \E c \in resolving :
               /\ matches'[m].A = c.A /\ matches'[m].B = c.B
               /\ matches'[m].joinA = joins[c.A] /\ matches'[m].joinB = joins[c.B]
               /\ matches'[m].rated = FALSE
               /\ matches'[m].resultHash =
                    RunMatch(matches'[m].version, matches'[m].seed,
                             matches'[m].buildA, matches'[m].buildB)
  <2>1. m \in MatchIds /\ matches[m] = NoRow /\ matches'[m] # NoRow
    BY <1>5 DEF Inserted
  <2>2. PICK c \in resolving : InsertMatch(c)
    BY <2>1, RowsAreInserted
  <2>3. PICK n \in MatchIds \ Inserted, seed \in Seeds :
          /\ c.row = 0 /\ matches'[n] = Row(c, seed)
          /\ \A k \in MatchIds \ {n} : matches'[k] = matches[k]
    BY <2>2, InsertWrites
  <2>4. matches'[m] = Row(c, seed)
    BY <2>1, <2>3
  <2>5. /\ Row(c, seed).A = c.A /\ Row(c, seed).B = c.B
        /\ Row(c, seed).joinA = joins[c.A] /\ Row(c, seed).joinB = joins[c.B]
        /\ Row(c, seed).rated = FALSE
        /\ Row(c, seed).resultHash =
             RunMatch(Row(c, seed).version, Row(c, seed).seed,
                      Row(c, seed).buildA, Row(c, seed).buildB)
    BY DEF Row
  <2> QED BY <2>4, <2>5
<1>6. RowsHonest'
  <2> SUFFICES ASSUME NEW m \in Inserted'
               PROVE  /\ matches'[m].A # matches'[m].B
                      /\ matches'[m].resultHash =
                           RunMatch(matches'[m].version, matches'[m].seed,
                                    matches'[m].buildA, matches'[m].buildB)
                      /\ matches'[m].joinA <= joins'[matches'[m].A]
                      /\ matches'[m].joinB <= joins'[matches'[m].B]
    BY DEF RowsHonest
  <2>1. CASE m \in Inserted
    <3>1. /\ matches[m].A # matches[m].B
          /\ matches[m].resultHash =
               RunMatch(matches[m].version, matches[m].seed, matches[m].buildA, matches[m].buildB)
          /\ matches[m].joinA <= joins[matches[m].A] /\ matches[m].joinB <= joins[matches[m].B]
      BY <2>1 DEF RowInv, RowsHonest
    <3>2. matches[m].joinA <= joins'[matches[m].A] /\ matches[m].joinB <= joins'[matches[m].B]
      BY <1>0, <1>1, <1>3, <2>1, <3>1
    <3> QED BY <2>1, <3>1, <3>2, FieldsAreKept
  <2>2. CASE m \notin Inserted
    <3>1. PICK c \in resolving :
            /\ matches'[m].A = c.A /\ matches'[m].B = c.B
            /\ matches'[m].joinA = joins[c.A] /\ matches'[m].joinB = joins[c.B]
            /\ matches'[m].resultHash =
                 RunMatch(matches'[m].version, matches'[m].seed,
                          matches'[m].buildA, matches'[m].buildB)
      BY <1>5, <2>2
    <3>2. c.A # c.B
      BY <1>0 DEF PairingsAgree
    <3>3. joins[c.A] <= joins'[c.A] /\ joins[c.B] <= joins'[c.B]
      BY <1>0, <1>1
    <3> QED BY <3>1, <3>2, <3>3
  <2> QED BY <2>1, <2>2
<1>7. RowsOwed'
  <2> SUFFICES ASSUME NEW d \in resolving', d.row # 0
               PROVE  /\ matches'[d.row].A = d.A /\ matches'[d.row].B = d.B
                      /\ matches'[d.row].joinA = joins'[d.A]
                      /\ matches'[d.row].joinB = joins'[d.B]
    BY DEF RowsOwed
  <2>1. CASE d \in resolving
    <3>1. d.row \in Inserted
      BY <1>0, <2>1 DEF RowsInserted
    <3>2. /\ matches[d.row].A = d.A /\ matches[d.row].B = d.B
          /\ matches[d.row].joinA = joins[d.A] /\ matches[d.row].joinB = joins[d.B]
      BY <2>1 DEF RowInv, RowsOwed
    <3>3. joins'[d.A] = joins[d.A] /\ joins'[d.B] = joins[d.B]
      BY <1>0, <1>2, <2>1
    <3> QED BY <3>1, <3>2, <3>3, FieldsAreKept
  <2>2. CASE d \notin resolving
    <3>1. PICK c \in resolving : InsertMatch(c)
      BY <2>2, StepEffects
    <3>2. PICK m \in MatchIds \ Inserted, seed \in Seeds :
            matches'[m] = Row(c, seed) /\ Awaits(c, m)
      BY <3>1, InsertWrites
    <3>3. d = [c EXCEPT !.row = m]
      BY <2>2, <3>2 DEF Awaits
    <3>4. d.A = c.A /\ d.B = c.B /\ d.row = m
      BY <1>0, <3>3 DEF TypeOK, Resolution
    <3>5. joins'[c.A] = joins[c.A] /\ joins'[c.B] = joins[c.B]
      BY <1>0, <1>2
    <3> QED BY <3>2, <3>4, <3>5 DEF Row
  <2> QED BY <2>1, <2>2
<1>8. ASSUME delivered' = delivered PROVE StaysOpen' /\ ReportedOnce'
  <2>1. \A u \in Users : \A m \in delivered : m \in Inserted
          /\ JoinOf(u, m)' = JoinOf(u, m) /\ (m \in History(u)' <=> m \in History(u))
    BY <1>0, JoinsAreKept DEF RowsInserted
  <2>2. StaysOpen'
    <3> SUFFICES ASSUME NEW u \in pool' \cup Seats', NEW m \in delivered' \cap History(u)'
                 PROVE  JoinOf(u, m)' # joins'[u]
      BY DEF StaysOpen
    <3>1. u \in Users
      <4>1. TypeOK'
        BY TypeStep
      <4> QED BY <4>1 DEF TypeOK, Resolution, Seats
    <3>2. m \in delivered /\ m \in Inserted /\ m \in History(u) /\ JoinOf(u, m)' = JoinOf(u, m)
      BY <1>8, <2>1, <3>1
    <3>3. CASE u \in pool \cup Seats /\ joins'[u] = joins[u]
      BY <3>2, <3>3 DEF RowInv, StaysOpen
    <3>4. CASE joins'[u] = joins[u] + 1
      <4>1. JoinOf(u, m) <= joins[u] /\ JoinOf(u, m) \in Nat /\ joins[u] \in Nat
        BY <1>0, <1>3, <1>4, <3>1, <3>2 DEF JoinOf
      <4> QED BY <3>2, <3>4, <4>1
    <3> QED BY <1>1, <3>1, <3>3, <3>4 DEF StayGoesOn
  <2>3. ReportedOnce'
    <3> SUFFICES ASSUME NEW u \in Users, NEW m \in delivered' \cap History(u)',
                        NEW n \in delivered' \cap History(u)', JoinOf(u, m)' = JoinOf(u, n)'
                 PROVE  m = n
      BY DEF ReportedOnce
    <3> QED BY <1>8, <2>1 DEF RowInv, ReportedOnce
  <2> QED BY <2>2, <2>3
<1>9. ASSUME NEW c \in resolving, CompletePairing(c) PROVE StaysOpen' /\ ReportedOnce'
  <2>1. /\ c.row # 0 /\ resolving' = resolving \ {c} /\ delivered' = delivered \cup {c.row}
        /\ pool' = pool /\ UNCHANGED joins
    BY <1>9 DEF CompletePairing, Queue!Deliver
  <2>2. c.row \in Inserted /\ \A m \in delivered' : m \in Inserted
    BY <1>0, <2>1 DEF RowsInserted
  <2>3. \A u \in Users : \A m \in delivered' :
          JoinOf(u, m)' = JoinOf(u, m) /\ (m \in History(u)' <=> m \in History(u))
    BY <2>2, JoinsAreKept
  <2>4. Seats' \subseteq Seats /\ \A u \in pool' \cup Seats' : u \notin {c.A, c.B}
    <3>1. \A d \in resolving' : {d.A, d.B} \cap {c.A, c.B} = {}
      BY <1>0, <2>1 DEF PairingsAgree
    <3> QED BY <1>0, <2>1, <3>1 DEF PairingsAgree, Seats
  <2>5. /\ matches[c.row].A = c.A /\ matches[c.row].B = c.B
        /\ matches[c.row].joinA = joins[c.A] /\ matches[c.row].joinB = joins[c.B]
    BY <2>1 DEF RowInv, RowsOwed
  <2>6. \A u \in Users : c.row \in History(u) => u \in {c.A, c.B} /\ JoinOf(u, c.row) = joins[u]
    BY <2>5 DEF History, JoinOf
  <2>7. StaysOpen'
    <3> SUFFICES ASSUME NEW u \in pool' \cup Seats', NEW m \in delivered' \cap History(u)'
                 PROVE  JoinOf(u, m)' # joins'[u]
      BY DEF StaysOpen
    <3>1. u \in pool \cup Seats /\ u \in Users /\ u \notin {c.A, c.B}
      BY <1>0, <2>1, <2>4
    <3>2. m \in History(u) /\ JoinOf(u, m)' = JoinOf(u, m)
      BY <2>3, <3>1
    <3>3. m \in delivered
      BY <2>1, <2>6, <3>1, <3>2
    <3> QED BY <2>1, <3>1, <3>2, <3>3 DEF RowInv, StaysOpen
  <2>8. ReportedOnce'
    <3> SUFFICES ASSUME NEW u \in Users, NEW m \in delivered' \cap History(u)',
                        NEW n \in delivered' \cap History(u)', JoinOf(u, m)' = JoinOf(u, n)'
                 PROVE  m = n
      BY DEF ReportedOnce
    <3>1. m \in History(u) /\ n \in History(u) /\ JoinOf(u, m) = JoinOf(u, n)
      BY <2>3
    <3>2. ASSUME NEW k \in delivered \cap History(u), u \in {c.A, c.B}
          PROVE  JoinOf(u, k) # joins[u]
      BY <1>0, <3>2 DEF RowInv, StaysOpen
    <3> QED BY <2>1, <2>6, <3>1, <3>2 DEF RowInv, ReportedOnce
  <2> QED BY <2>7, <2>8
<1>10. RatedWasReported'
  <2> SUFFICES ASSUME NEW m \in Inserted', matches'[m].rated PROVE m \in delivered'
    BY DEF RatedWasReported
  <2>1. delivered \subseteq delivered'
    BY StepEffects DEF CompletePairing
  <2>2. CASE m \in Inserted
    <3>1. matches[m].rated \/ m \in rating
      BY <2>2, FieldsAreKept
    <3> QED BY <1>0, <2>1, <2>2, <3>1 DEF RowInv, RatedWasReported, RowsInserted
  <2>3. CASE m \notin Inserted
    BY <1>5, <2>3
  <2> QED BY <2>2, <2>3
<1> QED BY <1>6, <1>7, <1>8, <1>9, <1>10, StepEffects DEF RowInv

LEMMA RowStarts == Init => RowInv
BY DEF Init, Queue!Init, RowInv, RowsHonest, RowsOwed, StaysOpen, ReportedOnce,
       RatedWasReported, Inserted, Seats

(* Entering the queue once brings at most one rated match, and only one    *)
(* that was reported, for any retries, lost answers and restarts.          *)
THEOREM OneRatingPerStay == Spec => []RatedOncePerJoin
<1>1. RowInv => RatedOncePerJoin
  <2> SUFFICES ASSUME RowInv PROVE RatedOncePerJoin
    OBVIOUS
  <2> DEFINE rated == {m \in Inserted : matches[m].rated}
  <2>1. rated \subseteq delivered
    BY DEF RowInv, RatedWasReported
  <2>2. \A u \in Users : \A m, n \in rated \cap History(u) :
          JoinOf(u, m) = JoinOf(u, n) => m = n
    BY <2>1 DEF RowInv, ReportedOnce
  <2> QED BY <2>1, <2>2 DEF RatedOncePerJoin
<1> QED BY <1>1, SeatStarts, SeatStep, RowStarts, RowStep, PTL DEF Spec

(* A match of the ruleset that runs is replayed and verified as it was     *)
(* played, one of another is refused, after any number of releases.        *)
THEOREM ReplaysAgree == Spec => []ReplayAgrees
<1>1. ASSUME RowInv, NEW u \in Users, NEW m \in History(u)
      PROVE  IF matches[m].version = release
             THEN Replay(u, m) = matches[m].resultHash /\ Verify(u, m)
             ELSE Replay(u, m) = Conflict /\ Verify(u, m) = Conflict
  <2>1. CASE matches[m].version = release
    <3>1. SameRelease(matches[m]) /\ Rerun(matches[m]) = matches[m].resultHash
      BY <1>1, <2>1 DEF RowInv, RowsHonest, History, SameRelease, Rerun
    <3>2. Replay(u, m) = matches[m].resultHash
      BY <3>1 DEF Replay
    <3>3. Verify(u, m) = (Rerun(matches[m]) = matches[m].resultHash)
      BY <3>1, Zenon DEF Verify
    <3> QED BY <2>1, <3>1, <3>2, <3>3, Zenon
  <2>2. CASE matches[m].version # release
    <3>1. ~SameRelease(matches[m])
      BY <2>2 DEF SameRelease
    <3>2. Replay(u, m) = Conflict /\ Verify(u, m) = Conflict
      BY <3>1, Zenon DEF Replay, Verify
    <3> QED BY <2>2, <3>2, Zenon
  <2> QED BY <2>1, <2>2, Zenon
<1>2. RowInv => ReplayAgrees
  BY <1>1, Zenon DEF ReplayAgrees
<1> QED BY <1>2, SeatStarts, SeatStep, RowStarts, RowStep, PTL DEF Spec

(* Every step keeps what players are told on record.                       *)
LEMMA ToldStep == SeatInv /\ RowInv /\ ToldIsOnRecord /\ [Next]_vars => ToldIsOnRecord'
<1> DEFINE OnRecord(u, t) ==
      /\ t \in MatchIds /\ matches'[t] # NoRow
      /\ u \in {matches'[t].A, matches'[t].B}
      /\ result'[u] = {matches'[t].A, matches'[t].B}
      /\ (IF matches'[t].A = u THEN matches'[t].joinA ELSE matches'[t].joinB) = joins'[u]
<1> SUFFICES ASSUME SeatInv, RowInv, ToldIsOnRecord, [Next]_vars,
                    NEW u \in Users, told'[u] # 0
             PROVE  OnRecord(u, told'[u])
  BY DEF ToldIsOnRecord, JoinOf, History, Inserted
<1>1. ASSUME told'[u] = told[u], result'[u] = result[u], joins'[u] = joins[u]
      PROVE  OnRecord(u, told'[u])
  <2>1. /\ told[u] \in History(u) /\ told[u] \in Inserted
        /\ result[u] = {matches[told[u]].A, matches[told[u]].B}
        /\ JoinOf(u, told[u]) = joins[u]
    BY <1>1 DEF ToldIsOnRecord, History
  <2>2. /\ matches'[told[u]] \in MatchRow
        /\ matches'[told[u]].A = matches[told[u]].A
        /\ matches'[told[u]].B = matches[told[u]].B
        /\ matches'[told[u]].joinA = matches[told[u]].joinA
        /\ matches'[told[u]].joinB = matches[told[u]].joinB
    BY <2>1, FieldsAreKept
  <2> QED BY <1>1, <2>1, <2>2, RowsArePresent DEF JoinOf, History, Inserted
<1>2. ASSUME NEW c \in resolving, CompletePairing(c) PROVE OnRecord(u, told'[u])
  <2>1. /\ c.A \in Users /\ c.B \in Users /\ c.row # 0 /\ c.row \in Inserted
        /\ told \in [Users -> 0..MaxMatches] /\ result \in [Users -> SUBSET Users]
    BY <1>2 DEF CompletePairing, SeatInv, TypeOK, RowsInserted, Resolution
  <2>2. /\ told' = [told EXCEPT ![c.A] = c.row, ![c.B] = c.row]
        /\ result' = [v \in Users |-> IF v \in {c.A, c.B} THEN {c.A, c.B} ELSE result[v]]
        /\ UNCHANGED <<matches, joins>>
    BY <1>2 DEF CompletePairing, Reported, Queue!Deliver, tables
  <2>3. CASE u \in {c.A, c.B}
    <3>1. told'[u] = c.row /\ result'[u] = {c.A, c.B}
      BY <2>1, <2>2, <2>3
    <3>2. /\ matches[c.row].A = c.A /\ matches[c.row].B = c.B
          /\ matches[c.row].joinA = joins[c.A] /\ matches[c.row].joinB = joins[c.B]
      BY <2>1 DEF RowInv, RowsOwed
    <3>3. c.row \in History(u) /\ JoinOf(u, c.row) = joins[u]
      BY <2>1, <2>3, <3>2 DEF History, JoinOf
    <3> QED BY <2>1, <2>2, <3>1, <3>2, <3>3 DEF History, JoinOf, Inserted
  <2>4. CASE u \notin {c.A, c.B}
    BY <1>1, <2>1, <2>2, <2>4
  <2> QED BY <2>3, <2>4
<1> QED BY <1>1, <1>2, StepEffects DEF ReportStays

(* A player is only ever shown the match of the latest stay, on record and *)
(* against the opponent shown.                                             *)
THEOREM ReportsAreOnRecord == Spec => []ToldIsOnRecord
<1>1. Init => ToldIsOnRecord
  BY DEF Init, ToldIsOnRecord
<1> QED BY <1>1, SeatStarts, SeatStep, RowStarts, RowStep, ToldStep, PTL DEF Spec

-----------------------------------------------------------------------------
(* The queue by itself: what follows from the promise of Matchmaking, for  *)
(* any set of users.                                                       *)

PromiseTypes ==
  /\ pool \in SUBSET Users
  /\ pairs \in SUBSET SUBSET Users
  /\ result \in [Users -> SUBSET Users]

(* A pair is of two players.                                               *)
PairsOfTwo == \A P \in pairs : \E u, v \in Users : u # v /\ P = {u, v}

PromiseInv == PromiseTypes /\ PairsOfTwo /\ Queue!NobodyTwice /\ Queue!ResultsAreOwn

(* PromiseInv holds of every state that the promise allows.                *)
LEMMA PromiseInvariant == Queue!Spec => []PromiseInv
<1> USE DEF PromiseInv, PromiseTypes, PairsOfTwo, Queue!NobodyTwice, Queue!ResultsAreOwn, Queue!Seated
<1>1. Queue!Init => PromiseInv
  BY DEF Queue!Init
<1>2. PromiseInv /\ [Queue!Next]_(Queue!vars) => PromiseInv'
  <2> SUFFICES ASSUME PromiseInv, [Queue!Next]_(Queue!vars) PROVE PromiseInv'
    OBVIOUS
  <2>1. ASSUME NEW u \in Users, Queue!Join(u) PROVE PromiseInv'
    BY <2>1 DEF Queue!Join
  <2>2. ASSUME NEW u \in Users, Queue!Leave(u) PROVE PromiseInv'
    BY <2>2 DEF Queue!Leave
  <2>3. ASSUME NEW u \in Users, NEW v \in Users, Queue!Pair(u, v) PROVE PromiseInv'
    <3>1. PromiseTypes' /\ Queue!ResultsAreOwn'
      BY <2>3 DEF Queue!Pair
    <3>2. PairsOfTwo'
      BY <2>3 DEF Queue!Pair
    <3>3. Queue!NobodyTwice'
      <4>1. ASSUME NEW x \in Queue!Seated' PROVE x \in Queue!Seated \cup {u, v}
        <5>1. PICK P \in pairs' : x \in P
          BY <4>1
        <5> QED BY <2>3, <5>1 DEF Queue!Pair
      <4>2. \A P \in pairs : P \cap {u, v} = {}
        BY <2>3 DEF Queue!Pair
      <4> QED BY <2>3, <4>1, <4>2 DEF Queue!Pair
    <3> QED BY <3>1, <3>2, <3>3
  <2>4. ASSUME NEW P \in pairs, Queue!Deliver(P) PROVE PromiseInv'
    BY <2>4 DEF Queue!Deliver
  <2>5. ASSUME NEW P \in pairs, NEW back \in SUBSET P, Queue!Undo(P, back) PROVE PromiseInv'
    BY <2>5 DEF Queue!Undo
  <2>6. ASSUME UNCHANGED Queue!vars PROVE PromiseInv'
    BY <2>6 DEF Queue!vars
  <2> QED BY <2>1, <2>2, <2>3, <2>4, <2>5, <2>6 DEF Queue!Next
<1> QED BY <1>1, <1>2, PTL DEF Queue!Spec

(* The pool, the seats and the unclaimed results never share a player.     *)
THEOREM NobodyIsTwice == Queue!Spec => []Queue!NobodyTwice
<1>1. PromiseInv => Queue!NobodyTwice
  BY DEF PromiseInv
<1> QED BY <1>1, PromiseInvariant, PTL

(* A player can only fetch a match of their own, against somebody else.    *)
THEOREM ResultsBelongToPlayers == Queue!Spec => []Queue!ResultsAreOwn
<1>1. PromiseInv => Queue!ResultsAreOwn
  BY DEF PromiseInv
<1> QED BY <1>1, PromiseInvariant, PTL
=============================================================================
