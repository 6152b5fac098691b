-------------------------- MODULE MatchQueueProofs --------------------------
(***************************************************************************)
(* Proofs about MatchQueue, for any set of users, any integer ratings and  *)
(* any settings config.ts accepts.                                         *)
(***************************************************************************)
EXTENDS MatchQueue, FiniteSetTheorems, TLAPS

-----------------------------------------------------------------------------
(* Types.                                                                  *)

(* What goes back to the pool after a failure is an entry of the same user,*)
(* or nothing.                                                             *)
LEMMA RestoredType ==
  ASSUME TypeOK, NEW e \in Entry
  PROVE  /\ Restored(e) \in Entry \cup {NoEntry}
         /\ Restored(e) # NoEntry =>
              /\ Restored(e) = [e EXCEPT !.failureCount = @ + 1]
              /\ Restored(e).userId = e.userId
              /\ Restored(e).enqueuedAt = e.enqueuedAt
              /\ Restored(e).failureCount = e.failureCount + 1
              /\ Restored(e).failureCount < MaxFailures
<1>1. CASE Evicts(e)
  BY <1>1 DEF Restored
<1>2. CASE ~Evicts(e)
  <2>1. /\ e.failureCount + 1 < MaxFailures
        /\ e.failureCount + 1 \in 0..MaxFailures
    BY <1>2, ConfigAssumption DEF ConfigAssumption, Evicts, Entry
  <2>2. Restored(e) = [e EXCEPT !.failureCount = @ + 1]
    BY <1>2 DEF Restored
  <2>3. /\ Restored(e) \in Entry
        /\ Restored(e).userId = e.userId
        /\ Restored(e).enqueuedAt = e.enqueuedAt
        /\ Restored(e).failureCount = e.failureCount + 1
    BY <2>1, <2>2 DEF Entry
  <2> QED BY <2>1, <2>2, <2>3
<1> QED BY <1>1, <1>2

(* Arming the timer leaves it off or due within the window.                *)
LEMMA TimerType ==
  ASSUME NEW t \in TimerOff..Window, NEW w
  PROVE  ArmTimerIfPairable(t, w) \in TimerOff..Window
BY ConfigAssumption DEF ConfigAssumption, ArmTimerIfPairable, TimerOff

(* The pool a pass starts from consists of entries.                        *)
LEMMA PoolType ==
  ASSUME NEW w \in [Users -> Entry \cup {NoEntry}]
  PROVE  WaitingEntries(w) \subseteq Entry
BY DEF WaitingEntries, WaitingUsers

(* An iteration of a pass takes two entries of the pool, of two users, the *)
(* first an oldest one and the second a nearest opponent of the first.     *)
LEMMA PassPairsTakes ==
  ASSUME TypeOK, PassPairs
  PROVE  \E pair \in Pairing :
           /\ Take(pair)
           /\ pair.A \in Oldest(pool) /\ pair.B \in Opponents(pool, pair.A)
           /\ pair.A \in pool /\ pair.B \in pool
           /\ pair.A.userId # pair.B.userId
           /\ Players(pair) \subseteq Users
<1>0. PICK first \in Oldest(pool) :
        \E opponent \in Opponents(pool, first) : Take([A |-> first, B |-> opponent])
  BY DEF PassPairs
<1>1. PICK opponent \in Opponents(pool, first) : Take([A |-> first, B |-> opponent])
  BY <1>0
<1>2. /\ first \in pool /\ opponent \in pool
      /\ opponent.userId # first.userId
  BY DEF Oldest, Opponents
<1>3. /\ first \in Entry /\ opponent \in Entry
      /\ first.userId \in Users /\ opponent.userId \in Users
  BY <1>2 DEF TypeOK, Entry
<1> DEFINE pair == [A |-> first, B |-> opponent]
<1>4. pair \in Pairing /\ pair.A = first /\ pair.B = opponent
  BY <1>3 DEF Pairing
<1>5. Players(pair) \subseteq Users
  BY <1>3, <1>4 DEF Players
<1> QED BY <1>1, <1>2, <1>4, <1>5

(* The initial state is well typed.                                        *)
LEMMA TypeInit == Init => TypeOK
<1> SUFFICES ASSUME Init PROVE TypeOK
  OBVIOUS
<1>1. passing \in BOOLEAN /\ open \in BOOLEAN
  BY DEF Init
<1>2. timer \in TimerOff..Window /\ clock \in 0..MaxTime
  BY ConfigAssumption DEF ConfigAssumption, Init, TimerOff
<1> QED BY <1>1, <1>2 DEF Init, TypeOK

(* The types are kept by every step.                                       *)
LEMMA TypeStep == TypeOK /\ [Next]_vars => TypeOK'
<1> SUFFICES ASSUME TypeOK, [Next]_vars PROVE TypeOK'
  OBVIOUS
<1> USE ConfigAssumption DEF ConfigAssumption
<1>1. ASSUME NEW u \in Users, NEW r \in Ratings, Enqueue(u, r) PROVE TypeOK'
  <2>1. waiting' \in [Users -> Entry \cup {NoEntry}]
    BY <1>1 DEF Enqueue, TypeOK, Entry
  <2>2. WaitingEntries(waiting') \subseteq Entry
    BY <2>1, PoolType
  <2>3. timer' \in TimerOff..Window
    <3>1. ArmTimerIfPairable(timer, waiting') \in TimerOff..Window
      BY TimerType DEF TypeOK
    <3> QED BY <1>1, <3>1 DEF Enqueue, TimerOff
  <2>4. passing' \in BOOLEAN /\ pool' \in SUBSET Entry /\ pairings' \in SUBSET Pairing
    BY <1>1, <2>2 DEF Enqueue, TypeOK, StartPass, passVars
  <2>5. matchedResults' \in [Users -> SUBSET Users]
    BY <1>1 DEF Enqueue, TypeOK
  <2> QED BY <1>1, <2>1, <2>3, <2>4, <2>5 DEF Enqueue, TypeOK, resolverVars
<1>2. ASSUME NEW u \in Users, Dequeue(u) PROVE TypeOK'
  BY <1>2 DEF Dequeue, TypeOK, ClearTimerUnlessPairable, passVars, resolverVars, TimerOff
<1>3. ASSUME TimerFires PROVE TypeOK'
  <2>1. WaitingEntries(waiting) \subseteq Entry
    BY PoolType DEF TypeOK
  <2> QED BY <1>3, <2>1 DEF TimerFires, StartPass, TypeOK, resolverVars, TimerOff
<1>4. ASSUME PassPairs PROVE TypeOK'
  <2>1. PICK pair \in Pairing : Take(pair) /\ Players(pair) \subseteq Users
    BY <1>4, PassPairsTakes
  <2> QED BY <1>4, <2>1 DEF PassPairs, Take, TakeBoth, TypeOK, resolverVars
<1>5. ASSUME PassEnds PROVE TypeOK'
  <2>1. timer' \in TimerOff..Window
    BY <1>5, TimerType DEF PassEnds, TypeOK
  <2> QED BY <1>5, <2>1 DEF PassEnds, TypeOK
<1>6. ASSUME NEW p \in inflight, CompletePairing(p) PROVE TypeOK'
  <2>1. Players(p) \subseteq Users
    BY DEF TypeOK, Pairing, Entry, Players
  <2> QED BY <1>6, <2>1 DEF CompletePairing, Settled, TypeOK, passVars
<1>7. ASSUME NEW p \in inflight, FailPairing(p) PROVE TypeOK'
  <2>1. p.A \in Entry /\ p.B \in Entry
    BY DEF TypeOK, Pairing
  <2>2. Restored(p.A) \in Entry \cup {NoEntry} /\ Restored(p.B) \in Entry \cup {NoEntry}
    BY <2>1, RestoredType
  <2>3. waiting' \in [Users -> Entry \cup {NoEntry}]
    BY <1>7, <2>2 DEF FailPairing, RestoreBoth, TypeOK
  <2>4. timer' \in TimerOff..Window
    BY <1>7, TimerType DEF FailPairing, TypeOK
  <2> QED BY <1>7, <2>3, <2>4 DEF FailPairing, Settled, TypeOK, passVars
<1>8. ASSUME Tick PROVE TypeOK'
  BY <1>8 DEF Tick, TypeOK, passVars, resolverVars, TimerOff
<1>9. ASSUME Dispose PROVE TypeOK'
  <2>1. open' \in BOOLEAN
    BY <1>9 DEF Dispose
  <2>2. timer' \in TimerOff..Window
    BY <1>9 DEF Dispose, TimerOff
  <2> QED BY <1>9, <2>1, <2>2 DEF Dispose, TypeOK, passVars, resolverVars
<1>10. ASSUME UNCHANGED vars PROVE TypeOK'
  BY <1>10 DEF vars, TypeOK, passVars, resolverVars
<1> QED BY <1>1, <1>2, <1>3, <1>4, <1>5, <1>6, <1>7, <1>8, <1>9, <1>10 DEF Next, Closed

(* Every variable keeps its type.                                          *)
THEOREM TypeCorrect == Spec => []TypeOK
BY TypeInit, TypeStep, PTL DEF Spec

-----------------------------------------------------------------------------
(* The inductive invariant.                                                *)

(* The map's key is the entry's user.                                      *)
EntriesFiled ==
  \A u \in Users : waiting[u] # NoEntry => waiting[u].userId = u

(* A pass's locals exist while it runs, and it runs with no timer armed.   *)
PassLocals ==
  /\ ~passing => pool = {} /\ pairings = {}
  /\ passing => timer = TimerOff

QueueInv ==
  /\ TypeOK
  /\ EntriesFiled
  /\ PassLocals
  /\ PoolIsWaiting
  /\ PairingsDisjoint
  /\ ResolvingIsPaired
  /\ ExclusiveSeats
  /\ TimerArmedIffPairable

(* The entries of the pool, by user.                                       *)
LEMMA FiledEntries ==
  ASSUME TypeOK, EntriesFiled, NEW e
  PROVE  e \in WaitingEntries(waiting) <=>
           /\ e \in Entry
           /\ e.userId \in Users
           /\ waiting[e.userId] = e
<1>1. ASSUME e \in WaitingEntries(waiting)
      PROVE  e \in Entry /\ e.userId \in Users /\ waiting[e.userId] = e
  <2>1. PICK u \in Users : waiting[u] # NoEntry /\ e = waiting[u]
    BY <1>1 DEF WaitingEntries, WaitingUsers
  <2>2. e.userId = u
    BY <2>1 DEF EntriesFiled
  <2> QED BY <2>1, <2>2 DEF TypeOK
<1>2. ASSUME e \in Entry, e.userId \in Users, waiting[e.userId] = e
      PROVE  e \in WaitingEntries(waiting)
  BY <1>2, ConfigAssumption DEF ConfigAssumption, WaitingEntries, WaitingUsers
<1> QED BY <1>1, <1>2

(* Players of a live pairing are resolving.                                *)
LEMMA LivePlayers ==
  ASSUME ResolvingIsPaired, NEW p \in LivePairings
  PROVE  Players(p) \subseteq resolving
BY DEF ResolvingIsPaired

(* An iteration of a pass seats two waiting players in a fresh pairing.    *)
LEMMA PassPairsSeats ==
  ASSUME QueueInv, PassPairs
  PROVE  \E pair \in Pairing :
           /\ Take(pair)
           /\ pair.A \in Oldest(pool) /\ pair.B \in Opponents(pool, pair.A)
           /\ pair.A.userId # pair.B.userId
           /\ \A u \in Players(pair) :
                /\ u \in Users /\ u \notin resolving
                /\ waiting[u] # NoEntry /\ waiting[u] \in {pair.A, pair.B}
           /\ waiting[pair.A.userId] = pair.A /\ waiting[pair.B.userId] = pair.B
           /\ LivePairings' = LivePairings \cup {pair}
           /\ \A q \in LivePairings : Players(q) \cap Players(pair) = {}
<1>1. TypeOK /\ EntriesFiled /\ pool = WaitingEntries(waiting)
  BY DEF QueueInv, PassPairs, PoolIsWaiting
<1>2. PICK pair \in Pairing :
        /\ Take(pair)
        /\ pair.A \in Oldest(pool) /\ pair.B \in Opponents(pool, pair.A)
        /\ pair.A \in pool /\ pair.B \in pool
        /\ pair.A.userId # pair.B.userId
        /\ Players(pair) \subseteq Users
  BY <1>1, PassPairsTakes
<1>3. /\ waiting[pair.A.userId] = pair.A /\ waiting[pair.B.userId] = pair.B
      /\ pair.A \in Entry /\ pair.B \in Entry
  BY <1>1, <1>2, FiledEntries
<1>4. \A u \in Players(pair) :
        /\ u \in Users /\ u \notin resolving
        /\ waiting[u] # NoEntry /\ waiting[u] \in {pair.A, pair.B}
  <2> SUFFICES ASSUME NEW u \in Players(pair)
               PROVE  /\ u \in Users /\ u \notin resolving
                      /\ waiting[u] # NoEntry /\ waiting[u] \in {pair.A, pair.B}
    OBVIOUS
  <2>1. u \in Users /\ waiting[u] \in {pair.A, pair.B}
    BY <1>2, <1>3 DEF Players
  <2>2. waiting[u] # NoEntry
    BY <2>1, <1>3, ConfigAssumption DEF ConfigAssumption
  <2> QED BY <2>1, <2>2 DEF QueueInv, ExclusiveSeats
<1>5. LivePairings' = LivePairings \cup {pair}
  BY <1>2 DEF PassPairs, Take, LivePairings, resolverVars
<1>6. \A q \in LivePairings : Players(q) \cap Players(pair) = {}
  BY <1>4, LivePlayers DEF QueueInv
<1> QED BY <1>2, <1>3, <1>4, <1>5, <1>6

(* A settled pairing is the only one that goes.                            *)
LEMMA SettledLeaves ==
  ASSUME QueueInv, NEW p \in inflight, Settled(p), ~passing, UNCHANGED passVars
  PROVE  /\ p \in LivePairings
         /\ LivePairings' = LivePairings \ {p}
         /\ Players(p) \subseteq resolving
         /\ p \in Pairing /\ Players(p) \subseteq Users
         /\ resolving' = resolving \ Players(p)
<1>1. LivePairings = inflight /\ LivePairings' = inflight \ {p}
  BY DEF QueueInv, PassLocals, LivePairings, Settled, passVars
<1>2. p \in Pairing /\ Players(p) \subseteq Users
  BY DEF QueueInv, TypeOK, Pairing, Entry, Players
<1> QED BY <1>1, <1>2, LivePlayers DEF QueueInv, Settled

(* Actions that leave the pairings and the set of resolving users alone    *)
(* leave the pairing invariants alone.                                     *)
LEMMA SeatsUntouched ==
  ASSUME QueueInv, LivePairings' = LivePairings, resolving' = resolving
  PROVE  PairingsDisjoint' /\ ResolvingIsPaired'
BY DEF QueueInv, PairingsDisjoint, ResolvingIsPaired

(* QueueInv is inductive.                                                  *)
LEMMA QueueInvStep == QueueInv /\ [Next]_vars => QueueInv'
<1> SUFFICES ASSUME QueueInv, [Next]_vars PROVE QueueInv'
  OBVIOUS
<1>t. TypeOK'
  BY TypeStep DEF QueueInv
<1> USE <1>t
<1>1. ASSUME NEW u \in Users, NEW r \in Ratings, Enqueue(u, r) PROVE QueueInv'
  <2> DEFINE entry == [userId |-> u, rating |-> r, enqueuedAt |-> clock, failureCount |-> 0]
  <2>1. /\ waiting' = [waiting EXCEPT ![u] = entry]
        /\ entry # NoEntry /\ entry.userId = u
    <3>1. entry \in Entry
      BY ConfigAssumption DEF ConfigAssumption, QueueInv, TypeOK, Entry
    <3> QED BY <1>1, <3>1, ConfigAssumption DEF ConfigAssumption, Enqueue
  <2> HIDE DEF entry
  <2>2. EntriesFiled'
    BY <2>1 DEF QueueInv, TypeOK, EntriesFiled
  <2>3. /\ PassLocals' /\ PoolIsWaiting'
        /\ LivePairings' = LivePairings
    BY <1>1 DEF QueueInv, PassLocals, PoolIsWaiting, LivePairings, Enqueue, StartPass,
                passVars, resolverVars
  <2>4. PairingsDisjoint' /\ ResolvingIsPaired'
    BY <1>1, <2>3, SeatsUntouched DEF Enqueue
  <2>5. ExclusiveSeats'
    BY <1>1, <2>1 DEF QueueInv, TypeOK, ExclusiveSeats, Enqueue, Queued
  <2>6. TimerArmedIffPairable'
    <3>1. CASE passing'
      BY <3>1 DEF TimerArmedIffPairable
    <3>2. CASE ~passing'
      <4>1. timer' = ArmTimerIfPairable(timer, waiting') /\ open' = open /\ ~passing
        BY <1>1, <3>2 DEF Enqueue, StartPass
      <4>2. Pairable(waiting) => Pairable(waiting')
        BY <2>1 DEF QueueInv, TypeOK, Pairable, Several, WaitingUsers
      <4>3. Window # TimerOff
        BY ConfigAssumption DEF ConfigAssumption, TimerOff
      <4> QED BY <4>1, <4>2, <4>3 DEF QueueInv, TimerArmedIffPairable, ArmTimerIfPairable
    <3> QED BY <3>1, <3>2
  <2> QED BY <2>2, <2>3, <2>4, <2>5, <2>6 DEF QueueInv
<1>2. ASSUME NEW u \in Users, Dequeue(u) PROVE QueueInv'
  <2>1. EntriesFiled' /\ ExclusiveSeats'
    BY <1>2 DEF QueueInv, TypeOK, EntriesFiled, ExclusiveSeats, Dequeue
  <2>2. PassLocals' /\ PoolIsWaiting' /\ LivePairings' = LivePairings
    BY <1>2 DEF QueueInv, PassLocals, PoolIsWaiting, LivePairings, Dequeue, passVars,
                resolverVars
  <2>3. PairingsDisjoint' /\ ResolvingIsPaired'
    BY <1>2, <2>2, SeatsUntouched DEF Dequeue
  <2>4. TimerArmedIffPairable'
    <3>1. Pairable(waiting') => Pairable(waiting)
      BY <1>2 DEF QueueInv, TypeOK, Dequeue, Pairable, Several, WaitingUsers
    <3> QED BY <1>2, <3>1
        DEF QueueInv, TimerArmedIffPairable, Dequeue, ClearTimerUnlessPairable, passVars
  <2> QED BY <2>1, <2>2, <2>3, <2>4 DEF QueueInv
<1>3. ASSUME TimerFires PROVE QueueInv'
  <2>1. EntriesFiled' /\ ExclusiveSeats' /\ TimerArmedIffPairable'
    BY <1>3 DEF QueueInv, EntriesFiled, ExclusiveSeats, TimerArmedIffPairable, TimerFires,
                StartPass
  <2>2. PassLocals' /\ PoolIsWaiting' /\ LivePairings' = LivePairings
    BY <1>3 DEF QueueInv, PassLocals, PoolIsWaiting, LivePairings, TimerFires, StartPass,
                resolverVars
  <2>3. PairingsDisjoint' /\ ResolvingIsPaired'
    BY <1>3, <2>2, SeatsUntouched DEF TimerFires
  <2> QED BY <2>1, <2>2, <2>3 DEF QueueInv
<1>4. ASSUME PassPairs PROVE QueueInv'
  <2>1. PICK pair \in Pairing :
          /\ Take(pair)
          /\ pair.A.userId # pair.B.userId
          /\ \A u \in Players(pair) : u \in Users /\ u \notin resolving /\ waiting[u] # NoEntry
          /\ LivePairings' = LivePairings \cup {pair}
          /\ \A q \in LivePairings : Players(q) \cap Players(pair) = {}
    BY <1>4, PassPairsSeats
  <2>2. EntriesFiled'
    BY <2>1 DEF QueueInv, EntriesFiled, Take, TakeBoth
  <2>3. PassLocals'
    BY <1>4 DEF QueueInv, PassLocals, PassPairs
  <2>4. PoolIsWaiting'
    <3>1. pool' = {e \in WaitingEntries(waiting) : e.userId \notin Players(pair)}
      BY <1>4, <2>1 DEF QueueInv, PoolIsWaiting, PassPairs, Take
    <3>2. ASSUME NEW e
          PROVE  e \in WaitingEntries(waiting') <=>
                   e \in WaitingEntries(waiting) /\ e.userId \notin Players(pair)
      BY <2>1 DEF QueueInv, EntriesFiled, WaitingEntries, WaitingUsers, Take, TakeBoth
    <3> QED BY <3>1, <3>2 DEF PoolIsWaiting
  <2>5. PairingsDisjoint'
    BY <2>1 DEF QueueInv, PairingsDisjoint
  <2>6. ResolvingIsPaired'
    BY <2>1 DEF QueueInv, ResolvingIsPaired, Take
  <2>7. ExclusiveSeats'
    BY <1>4, <2>1 DEF QueueInv, ExclusiveSeats, Take, TakeBoth, PassPairs
  <2>8. TimerArmedIffPairable'
    BY <1>4 DEF TimerArmedIffPairable, PassPairs
  <2> QED BY <2>2, <2>3, <2>4, <2>5, <2>6, <2>7, <2>8 DEF QueueInv
<1>5. ASSUME PassEnds PROVE QueueInv'
  <2>1. EntriesFiled' /\ ExclusiveSeats'
    BY <1>5 DEF QueueInv, EntriesFiled, ExclusiveSeats, PassEnds
  <2>2. PassLocals' /\ PoolIsWaiting' /\ LivePairings' = LivePairings
    BY <1>5 DEF PassLocals, PoolIsWaiting, LivePairings, PassEnds
  <2>3. PairingsDisjoint' /\ ResolvingIsPaired'
    BY <1>5, <2>2, SeatsUntouched DEF PassEnds
  <2>4. TimerArmedIffPairable'
    <3>1. ~Pairable(waiting)
      <4>1. ~Several(WaitingEntries(waiting))
        BY <1>5 DEF QueueInv, PassEnds, PoolIsWaiting
      <4> QED BY <4>1 DEF QueueInv, EntriesFiled, Pairable, Several, WaitingEntries,
                          WaitingUsers
    <3>2. timer' = TimerOff /\ waiting' = waiting
      BY <1>5, <3>1 DEF QueueInv, PassLocals, PassEnds, ArmTimerIfPairable
    <3> QED BY <3>1, <3>2 DEF TimerArmedIffPairable
  <2> QED BY <2>1, <2>2, <2>3, <2>4 DEF QueueInv
<1>6. ASSUME NEW p \in inflight, CompletePairing(p) PROVE QueueInv'
  <2>1. /\ p \in LivePairings /\ LivePairings' = LivePairings \ {p}
        /\ Players(p) \subseteq resolving
        /\ resolving' = resolving \ Players(p)
    BY <1>6, SettledLeaves DEF CompletePairing
  <2>2. EntriesFiled' /\ PassLocals' /\ PoolIsWaiting' /\ TimerArmedIffPairable'
    BY <1>6 DEF QueueInv, EntriesFiled, PassLocals, PoolIsWaiting, TimerArmedIffPairable,
                CompletePairing, passVars
  <2>3. PairingsDisjoint'
    BY <2>1 DEF QueueInv, PairingsDisjoint
  <2>4. ResolvingIsPaired'
    BY <2>1 DEF QueueInv, PairingsDisjoint, ResolvingIsPaired
  <2>5. ExclusiveSeats'
    BY <1>6, <2>1 DEF QueueInv, ExclusiveSeats, CompletePairing
  <2> QED BY <2>2, <2>3, <2>4, <2>5 DEF QueueInv
<1>7. ASSUME NEW p \in inflight, FailPairing(p) PROVE QueueInv'
  <2>1. /\ p \in LivePairings /\ LivePairings' = LivePairings \ {p}
        /\ p \in Pairing /\ Players(p) \subseteq Users
        /\ Players(p) \subseteq resolving
        /\ resolving' = resolving \ Players(p)
    BY <1>7, SettledLeaves DEF FailPairing
  <2>2. /\ p.A \in Entry /\ p.B \in Entry
        /\ p.A.userId \in Users /\ p.B.userId \in Users
        /\ p.A.userId # p.B.userId
    BY <2>1 DEF QueueInv, PairingsDisjoint, Pairing, Players
  <2>3. \A u \in Users : u \notin Players(p) => waiting'[u] = waiting[u]
    BY <1>7, <2>2 DEF FailPairing, RestoreBoth, Players, QueueInv, TypeOK
  <2>4. /\ waiting'[p.A.userId] = Restored(p.A)
        /\ waiting'[p.B.userId] = Restored(p.B)
    BY <1>7, <2>2 DEF FailPairing, RestoreBoth, QueueInv, TypeOK
  <2>5. EntriesFiled'
    <3>1. /\ Restored(p.A) # NoEntry => Restored(p.A).userId = p.A.userId
          /\ Restored(p.B) # NoEntry => Restored(p.B).userId = p.B.userId
      BY <2>2, RestoredType DEF QueueInv
    <3> QED BY <2>3, <2>4, <3>1 DEF QueueInv, EntriesFiled, Players
  <2>6. PassLocals' /\ PoolIsWaiting'
    BY <1>7 DEF QueueInv, PassLocals, PoolIsWaiting, FailPairing, passVars
  <2>7. PairingsDisjoint'
    BY <2>1 DEF QueueInv, PairingsDisjoint
  <2>8. ResolvingIsPaired'
    BY <2>1 DEF QueueInv, PairingsDisjoint, ResolvingIsPaired
  <2>9. ExclusiveSeats'
    BY <1>7, <2>1, <2>3 DEF QueueInv, ExclusiveSeats, FailPairing
  <2>10. TimerArmedIffPairable'
    <3>1. \A u \in Users : waiting[u] # NoEntry => waiting'[u] # NoEntry
      BY <2>1, <2>3 DEF QueueInv, ExclusiveSeats
    <3>2. Pairable(waiting) => Pairable(waiting')
      BY <3>1 DEF Pairable, Several, WaitingUsers
    <3>3. Window # TimerOff
      BY ConfigAssumption DEF ConfigAssumption, TimerOff
    <3> QED BY <1>7, <3>2, <3>3
        DEF QueueInv, TimerArmedIffPairable, ArmTimerIfPairable, FailPairing, passVars
  <2> QED BY <2>5, <2>6, <2>7, <2>8, <2>9, <2>10 DEF QueueInv
<1>8. ASSUME Tick PROVE QueueInv'
  <2>1. EntriesFiled' /\ ExclusiveSeats' /\ PoolIsWaiting' /\ LivePairings' = LivePairings
    BY <1>8 DEF QueueInv, EntriesFiled, ExclusiveSeats, PoolIsWaiting, LivePairings, Tick,
                passVars, resolverVars
  <2>2. timer' = TimerOff <=> timer = TimerOff
    BY <1>8 DEF QueueInv, TypeOK, Tick, TimerOff
  <2>3. PassLocals' /\ TimerArmedIffPairable'
    BY <1>8, <2>2 DEF QueueInv, PassLocals, TimerArmedIffPairable, Tick, passVars
  <2>4. PairingsDisjoint' /\ ResolvingIsPaired'
    BY <1>8, <2>1, SeatsUntouched DEF Tick
  <2> QED BY <2>1, <2>3, <2>4 DEF QueueInv
<1>9. ASSUME Dispose PROVE QueueInv'
  <2>1. /\ EntriesFiled' /\ ExclusiveSeats' /\ PoolIsWaiting' /\ PassLocals'
        /\ LivePairings' = LivePairings
    BY <1>9 DEF QueueInv, EntriesFiled, ExclusiveSeats, PoolIsWaiting, PassLocals,
                LivePairings, Dispose, passVars, resolverVars
  <2>2. TimerArmedIffPairable'
    BY <1>9 DEF TimerArmedIffPairable, Dispose
  <2>3. PairingsDisjoint' /\ ResolvingIsPaired'
    BY <1>9, <2>1, SeatsUntouched DEF Dispose
  <2> QED BY <2>1, <2>2, <2>3 DEF QueueInv
<1>10. ASSUME UNCHANGED vars PROVE QueueInv'
  <2>1. /\ EntriesFiled' /\ ExclusiveSeats' /\ PoolIsWaiting' /\ PassLocals'
        /\ LivePairings' = LivePairings /\ TimerArmedIffPairable'
    BY <1>10 DEF QueueInv, EntriesFiled, ExclusiveSeats, PoolIsWaiting, PassLocals,
                 LivePairings, TimerArmedIffPairable, vars, passVars, resolverVars
  <2>2. PairingsDisjoint' /\ ResolvingIsPaired'
    BY <1>10, <2>1, SeatsUntouched DEF vars
  <2> QED BY <2>1, <2>2 DEF QueueInv
<1> QED BY <1>1, <1>2, <1>3, <1>4, <1>5, <1>6, <1>7, <1>8, <1>9, <1>10 DEF Next, Closed

(* The inductive invariant holds of every reachable state.                 *)
THEOREM QueueInvariant == Spec => []QueueInv
<1>1. Init => QueueInv
  <2> SUFFICES ASSUME Init PROVE QueueInv
    OBVIOUS
  <2>1. TypeOK
    BY TypeInit
  <2>2. EntriesFiled /\ PassLocals /\ PoolIsWaiting /\ ExclusiveSeats
    BY DEF Init, EntriesFiled, PassLocals, PoolIsWaiting, ExclusiveSeats
  <2>3. LivePairings = {}
    BY DEF Init, LivePairings
  <2>4. PairingsDisjoint /\ ResolvingIsPaired
    BY <2>3 DEF Init, PairingsDisjoint, ResolvingIsPaired
  <2>5. TimerArmedIffPairable
    BY DEF Init, TimerArmedIffPairable, Pairable, Several, WaitingUsers
  <2> QED BY <2>1, <2>2, <2>4, <2>5 DEF QueueInv
<1> QED BY <1>1, QueueInvStep, PTL DEF Spec

(* A player has one seat: no interleaving of requests, passes and late     *)
(* resolutions pairs a player twice or loses track of one.                 *)
THEOREM OneSeatForEach == Spec => []OneSeat
<1>1. QueueInv => OneSeat
  BY DEF QueueInv, OneSeat
<1> QED BY <1>1, QueueInvariant, PTL

(* Between critical sections the timer is armed exactly when the pool is   *)
(* pairable; so the re-arm at the end of a pass never does anything.       *)
THEOREM TimerIsArmed == Spec => []TimerArmedIffPairable
<1>1. QueueInv => TimerArmedIffPairable
  BY DEF QueueInv
<1> QED BY <1>1, QueueInvariant, PTL

(* A pass's copy of the pool never goes stale.                             *)
THEOREM PassPoolFresh == Spec => []PoolIsWaiting
<1>1. QueueInv => PoolIsWaiting
  BY DEF QueueInv
<1> QED BY <1>1, QueueInvariant, PTL

-----------------------------------------------------------------------------
(* Order and retries.                                                      *)

(* Only an iteration of a pass adds a live pairing.                        *)
LEMMA PairingsGrowInPasses ==
  ASSUME QueueInv, [Next]_vars
  PROVE  PassPairs \/ LivePairings' \subseteq LivePairings
<1> USE DEF LivePairings, passVars, resolverVars
<1>1. ASSUME NEW u \in Users, NEW r \in Ratings, Enqueue(u, r)
      PROVE  LivePairings' \subseteq LivePairings
  BY <1>1 DEF Enqueue, StartPass
<1>2. ASSUME NEW u \in Users, Dequeue(u) PROVE LivePairings' \subseteq LivePairings
  BY <1>2 DEF Dequeue
<1>3. ASSUME NEW p \in inflight, CompletePairing(p) \/ FailPairing(p)
      PROVE  LivePairings' \subseteq LivePairings
  BY <1>3 DEF CompletePairing, FailPairing, Settled
<1>4. ASSUME TimerFires \/ PassEnds \/ Tick \/ Dispose \/ UNCHANGED vars
      PROVE  LivePairings' \subseteq LivePairings
  BY <1>4 DEF TimerFires, PassEnds, Tick, Dispose, vars, StartPass
<1> QED BY <1>1, <1>2, <1>3, <1>4 DEF Next, Closed

(* Side A of every pairing queued no later than side B.                    *)
THEOREM SideAIsEarlier == Spec => []EarlierIsSideA
<1>1. Init => EarlierIsSideA
  BY DEF Init, EarlierIsSideA, LivePairings
<1>2. QueueInv /\ EarlierIsSideA /\ [Next]_vars => EarlierIsSideA'
  <2> SUFFICES ASSUME QueueInv, EarlierIsSideA, [Next]_vars PROVE EarlierIsSideA'
    OBVIOUS
  <2>1. CASE PassPairs
    <3>1. PICK pair \in Pairing :
            /\ pair.A \in Oldest(pool) /\ pair.B \in Opponents(pool, pair.A)
            /\ LivePairings' = LivePairings \cup {pair}
      BY <2>1, PassPairsSeats
    <3>2. pair.A.enqueuedAt <= pair.B.enqueuedAt
      BY <3>1 DEF Oldest, Opponents
    <3> QED BY <3>1, <3>2 DEF EarlierIsSideA
  <2>2. CASE LivePairings' \subseteq LivePairings
    BY <2>2 DEF EarlierIsSideA
  <2> QED BY <2>1, <2>2, PairingsGrowInPasses
<1> QED BY <1>1, <1>2, QueueInvariant, PTL DEF Spec

(* Whoever a pass has left over is neither older than a side A it picked,  *)
(* nor nearer in rating to that side A than the opponent it got.           *)
THEOREM PassIsFair == Spec => []FairPass
<1>1. Init => FairPass
  BY DEF Init, FairPass
<1>2. QueueInv /\ FairPass /\ [Next]_vars => FairPass'
  <2> SUFFICES ASSUME QueueInv, FairPass, [Next]_vars PROVE FairPass'
    OBVIOUS
  <2>1. ASSUME PassPairs PROVE FairPass'
    <3>1. PICK pair \in Pairing :
            /\ Take(pair)
            /\ pair.A \in Oldest(pool) /\ pair.B \in Opponents(pool, pair.A)
      BY <2>1, PassPairsSeats
    <3>2. ASSUME NEW e \in pool'
          PROVE  /\ e \in pool
                 /\ pair.A.enqueuedAt <= e.enqueuedAt
                 /\ RatingGap(pair.A, pair.B) <= RatingGap(pair.A, e)
      <4>1. e \in pool /\ e.userId # pair.A.userId
        BY <3>1, <3>2 DEF Take, Players
      <4>2. pair.A.enqueuedAt <= e.enqueuedAt
        BY <3>1, <4>1 DEF Oldest
      <4>3. \/ RatingGap(pair.B, pair.A) < RatingGap(e, pair.A)
            \/ RatingGap(pair.B, pair.A) = RatingGap(e, pair.A)
        BY <3>1, <4>1 DEF Opponents
      <4>4. /\ pair.A.rating \in Int /\ pair.B.rating \in Int /\ e.rating \in Int
        BY <4>1, ConfigAssumption DEF ConfigAssumption, QueueInv, TypeOK, Pairing, Entry
      <4>5. RatingGap(pair.A, pair.B) <= RatingGap(pair.A, e)
        BY <4>3, <4>4 DEF RatingGap
      <4> QED BY <4>1, <4>2, <4>5
    <3> QED BY <3>1, <3>2 DEF FairPass, Take
  <2>2. ASSUME ~PassPairs PROVE pairings' = {} \/ UNCHANGED <<pool, pairings>>
    BY <2>2 DEF Next, Enqueue, Dequeue, TimerFires, PassEnds, CompletePairing, FailPairing,
                Tick, Dispose, Closed, StartPass, passVars, vars
  <2> QED BY <2>1, <2>2 DEF FairPass
<1> QED BY <1>1, <1>2, QueueInvariant, PTL DEF Spec

(* A live entry is in the pool or is a side of a live pairing.             *)
LEMMA LiveEntryCases ==
  ASSUME NEW e
  PROVE  e \in LiveEntries <=>
           \/ e \in WaitingEntries(waiting)
           \/ \E p \in LivePairings : e = p.A \/ e = p.B
BY DEF LiveEntries, EntriesOf

(* The user of a live entry is queued, and is resolving when the entry is a*)
(* side of a pairing and only then.                                        *)
LEMMA LiveEntrySeat ==
  ASSUME QueueInv, NEW e \in LiveEntries
  PROVE  /\ e \in Entry /\ e.userId \in Users
         /\ e \in WaitingEntries(waiting) =>
              waiting[e.userId] = e /\ e # NoEntry /\ e.userId \notin resolving
         /\ e \notin WaitingEntries(waiting) =>
              /\ e.userId \in resolving
              /\ \E p \in LivePairings : e = p.A \/ e = p.B
<1>1. CASE e \in WaitingEntries(waiting)
  <2>1. e \in Entry /\ e.userId \in Users /\ waiting[e.userId] = e
    BY <1>1, FiledEntries DEF QueueInv
  <2>2. e # NoEntry
    BY <2>1, ConfigAssumption DEF ConfigAssumption
  <2> QED BY <1>1, <2>1, <2>2 DEF QueueInv, ExclusiveSeats
<1>2. CASE e \notin WaitingEntries(waiting)
  <2>1. PICK p \in LivePairings : e = p.A \/ e = p.B
    BY <1>2, LiveEntryCases
  <2>2. e \in Entry
    BY <2>1 DEF LivePairings, QueueInv, TypeOK, Pairing
  <2>3. e.userId \in Players(p)
    BY <2>1 DEF Players
  <2> QED BY <1>2, <2>1, <2>2, <2>3, LivePlayers DEF QueueInv, Entry
<1> QED BY <1>1, <1>2

(* A user has one live entry.                                              *)
LEMMA UniqueEntries ==
  ASSUME QueueInv, NEW e \in LiveEntries, NEW f \in LiveEntries, e.userId = f.userId
  PROVE  e = f
<1>1. CASE e \in WaitingEntries(waiting) \/ f \in WaitingEntries(waiting)
  BY <1>1, LiveEntrySeat
<1>2. CASE e \notin WaitingEntries(waiting) /\ f \notin WaitingEntries(waiting)
  <2>1. PICK p \in LivePairings : e = p.A \/ e = p.B
    BY <1>2, LiveEntrySeat
  <2>2. PICK q \in LivePairings : f = q.A \/ f = q.B
    BY <1>2, LiveEntrySeat
  <2>3. p = q
    BY <2>1, <2>2 DEF QueueInv, PairingsDisjoint, Players
  <2> QED BY <2>1, <2>2, <2>3 DEF QueueInv, PairingsDisjoint
<1> QED BY <1>1, <1>2

(* Where a live entry of the next state comes from: it was live, or its    *)
(* user has just joined, or it is what a failed pairing gave back.         *)
LEMMA LiveEntriesStep ==
  ASSUME QueueInv, [Next]_vars, NEW f \in LiveEntries'
  PROVE  \/ f \in LiveEntries
         \/ f.failureCount = 0 /\ ~Queued(f.userId)
         \/ \E e \in LiveEntries :
              f = Restored(e) /\ f # NoEntry /\ e.userId = f.userId
<1> DEFINE Origin ==
      \/ f \in LiveEntries
      \/ f.failureCount = 0 /\ ~Queued(f.userId)
      \/ \E e \in LiveEntries : f = Restored(e) /\ f # NoEntry /\ e.userId = f.userId
<1> SUFFICES Origin
  OBVIOUS
<1>1. \/ \E u \in Users : waiting'[u] = f /\ waiting'[u] # NoEntry
      \/ \E p \in LivePairings' : f = p.A \/ f = p.B
  BY DEF LiveEntries, EntriesOf, WaitingEntries, WaitingUsers
<1>2. ASSUME NEW p \in LivePairings', f = p.A \/ f = p.B PROVE f \in LiveEntries
  <2>1. CASE p \in LivePairings
    BY <1>2, <2>1, LiveEntryCases
  <2>2. CASE p \notin LivePairings
    <3>1. PassPairs
      BY <1>2, <2>2, PairingsGrowInPasses
    <3>2. PICK pair \in Pairing :
            /\ pair.A \in Oldest(pool) /\ pair.B \in Opponents(pool, pair.A)
            /\ LivePairings' = LivePairings \cup {pair}
      BY <3>1, PassPairsSeats
    <3>3. p = pair /\ pair.A \in pool /\ pair.B \in pool
      BY <1>2, <2>2, <3>2 DEF Oldest, Opponents
    <3>4. pool = WaitingEntries(waiting)
      BY <3>1 DEF QueueInv, PoolIsWaiting, PassPairs
    <3> QED BY <1>2, <3>3, <3>4, LiveEntryCases
  <2> QED BY <2>1, <2>2
<1>3. ASSUME NEW u \in Users, waiting'[u] = f, waiting'[u] # NoEntry PROVE Origin
  <2>1. CASE waiting'[u] = waiting[u]
    <3>1. f \in WaitingEntries(waiting)
      BY <1>3, <2>1 DEF WaitingEntries, WaitingUsers
    <3> QED BY <3>1, LiveEntryCases
  <2>2. CASE waiting'[u] # waiting[u]
    <3>1. ASSUME NEW v \in Users, NEW r \in Ratings, Enqueue(v, r) PROVE Origin
      <4>1. f = [userId |-> v, rating |-> r, enqueuedAt |-> clock, failureCount |-> 0]
        BY <1>3, <2>2, <3>1 DEF Enqueue, QueueInv, TypeOK
      <4> QED BY <3>1, <4>1 DEF Enqueue
    <3>2. ASSUME NEW p \in inflight, FailPairing(p) PROVE Origin
      <4>1. p \in LivePairings /\ p.A \in Entry /\ p.B \in Entry
        BY DEF LivePairings, QueueInv, TypeOK, Pairing
      <4>2. \/ u = p.A.userId /\ f = Restored(p.A)
            \/ u = p.B.userId /\ f = Restored(p.B)
        BY <1>3, <2>2, <3>2 DEF FailPairing, RestoreBoth, QueueInv, TypeOK
      <4>3. PICK e \in {p.A, p.B} : u = e.userId /\ f = Restored(e)
        BY <4>2
      <4>4. e \in LiveEntries /\ e \in Entry
        BY <4>1, LiveEntryCases
      <4>5. f.userId = e.userId
        BY <1>3, <4>3, <4>4, RestoredType DEF QueueInv
      <4> QED BY <1>3, <4>3, <4>4, <4>5
    <3>3. ASSUME \/ \E v \in Users : Dequeue(v)
                 \/ PassPairs
          PROVE FALSE
      <4>1. waiting'[u] \in {NoEntry, waiting[u]}
        BY <3>3, PassPairsTakes DEF Dequeue, Take, TakeBoth, QueueInv, TypeOK
      <4> QED BY <1>3, <2>2, <4>1
    <3>4. ASSUME \/ TimerFires \/ PassEnds \/ Tick \/ Dispose \/ UNCHANGED vars
                 \/ \E p \in inflight : CompletePairing(p)
          PROVE FALSE
      BY <2>2, <3>4 DEF TimerFires, PassEnds, Tick, Dispose, CompletePairing, vars
    <3> QED BY <3>1, <3>2, <3>3, <3>4 DEF Next, Closed
  <2> QED BY <2>1, <2>2
<1> QED BY <1>1, <1>2, <1>3

(* No entry is offered again after MaxFailures failed attempts.            *)
THEOREM RetriesAreBounded == Spec => []BoundedRetries
<1>1. Init => BoundedRetries
  BY DEF Init, BoundedRetries, LiveEntries, LivePairings, WaitingEntries, WaitingUsers,
         EntriesOf
<1>2. QueueInv /\ BoundedRetries /\ [Next]_vars => BoundedRetries'
  <2> SUFFICES ASSUME QueueInv, BoundedRetries, [Next]_vars, NEW f \in LiveEntries'
               PROVE  f.failureCount < MaxFailures
    BY DEF BoundedRetries
  <2>1. CASE f \in LiveEntries
    BY <2>1 DEF BoundedRetries
  <2>2. CASE f.failureCount = 0
    BY <2>2, ConfigAssumption DEF ConfigAssumption
  <2>3. CASE \E e \in LiveEntries : f = Restored(e) /\ f # NoEntry
    BY <2>3, LiveEntrySeat, RestoredType DEF QueueInv
  <2> QED BY <2>1, <2>2, <2>3, LiveEntriesStep
<1> QED BY <1>1, <1>2, QueueInvariant, PTL DEF Spec

-----------------------------------------------------------------------------
(* What a step may never do.                                               *)

(* An entry keeps its rating and its place in line as long as it is queued.*)
THEOREM IdentityIsKept == Spec => EntryIdentityKept
<1>1. QueueInv /\ [Next]_vars => [KeepsIdentity]_vars
  <2> SUFFICES ASSUME QueueInv, [Next]_vars, NEW e \in LiveEntries, NEW f \in LiveEntries',
                      e.userId = f.userId
               PROVE  /\ f.rating = e.rating /\ f.enqueuedAt = e.enqueuedAt
                      /\ f.failureCount \in {e.failureCount, e.failureCount + 1}
    BY DEF KeepsIdentity
  <2>1. CASE f \in LiveEntries
    BY <2>1, UniqueEntries
  <2>2. CASE ~Queued(f.userId)
    BY <2>2, LiveEntrySeat DEF Queued
  <2>3. ASSUME NEW g \in LiveEntries, f = Restored(g), f # NoEntry, g.userId = f.userId
        PROVE  /\ f.rating = e.rating /\ f.enqueuedAt = e.enqueuedAt
               /\ f.failureCount \in {e.failureCount, e.failureCount + 1}
    <3>1. g = e /\ e \in Entry
      BY <2>3, UniqueEntries, LiveEntrySeat
    <3>2. f = [e EXCEPT !.failureCount = @ + 1]
      BY <2>3, <3>1, RestoredType DEF QueueInv
    <3> QED BY <3>1, <3>2 DEF Entry
  <2> QED BY <2>1, <2>2, <2>3, LiveEntriesStep
<1> QED BY <1>1, QueueInvariant, PTL DEF Spec, EntryIdentityKept

(* A player who waits stays queued until asking to leave: no pass, failure *)
(* or tick, and nobody else's request, takes the entry out of the queue.   *)
LEMMA WaitingPlayersStay ==
  ASSUME QueueInv, [Next]_vars, NEW u \in Users, waiting[u] # NoEntry, ~Dequeue(u)
  PROVE  \E f \in LiveEntries' : f.userId = u
<1>1. waiting[u] \in Entry /\ waiting[u].userId = u
  BY DEF QueueInv, EntriesFiled, TypeOK
<1>2. ASSUME waiting'[u] = waiting[u] PROVE \E f \in LiveEntries' : f.userId = u
  BY <1>1, <1>2 DEF LiveEntries, WaitingEntries, WaitingUsers
<1>3. ASSUME NEW p \in inflight, CompletePairing(p) \/ FailPairing(p)
      PROVE  waiting'[u] = waiting[u]
  <2>1. Players(p) \subseteq resolving /\ u \notin resolving
    BY <1>3, SettledLeaves DEF CompletePairing, FailPairing, QueueInv, ExclusiveSeats
  <2> QED BY <1>3, <2>1 DEF CompletePairing, FailPairing, RestoreBoth, Players, QueueInv, TypeOK
<1>4. ASSUME PassPairs PROVE \E f \in LiveEntries' : f.userId = u
  <2>1. PICK pair \in Pairing :
          /\ Take(pair) /\ LivePairings' = LivePairings \cup {pair}
          /\ waiting[pair.A.userId] = pair.A /\ waiting[pair.B.userId] = pair.B
    BY <1>4, PassPairsSeats
  <2>2. CASE u \in Players(pair)
    BY <1>1, <2>1, <2>2 DEF Players, LiveEntries, EntriesOf
  <2>3. CASE u \notin Players(pair)
    BY <1>2, <2>1, <2>3 DEF Take, TakeBoth
  <2> QED BY <2>2, <2>3
<1>5. ASSUME NEW v \in Users, Dequeue(v) \/ \E r \in Ratings : Enqueue(v, r)
      PROVE  waiting'[u] = waiting[u]
  BY <1>5 DEF Dequeue, Enqueue, Queued, QueueInv, TypeOK
<1>6. CASE TimerFires \/ PassEnds \/ Tick \/ Dispose \/ UNCHANGED vars
  BY <1>2, <1>6 DEF TimerFires, PassEnds, Tick, Dispose, vars
<1> QED BY <1>2, <1>3, <1>4, <1>5, <1>6 DEF Next, Closed

(* A player who waits stops being queued by asking to leave, one who has   *)
(* been paired by the match or the eviction policy; in no other way.       *)
THEOREM NobodyEjectedSilently == Spec => NoSilentEjection
<1>1. QueueInv /\ [Next]_vars => [EjectsForCause]_vars
  <2> SUFFICES ASSUME QueueInv, [Next]_vars, NEW e \in LiveEntries,
                      \A f \in LiveEntries' : f.userId # e.userId,
                      ~Dequeue(e.userId)
               PROVE  /\ e.userId \in resolving
                      /\ e.userId \in matchedResults'[e.userId] \/ Evicts(e)
    BY DEF EjectsForCause
  <2>0. e.userId \in resolving
    BY LiveEntrySeat, WaitingPlayersStay
  <2>1. PICK p \in LivePairings : e = p.A \/ e = p.B
    BY <2>0, LiveEntrySeat
  <2>2. e \in Entry /\ e.userId \in Users /\ e.userId \in Players(p)
    BY <2>1, LiveEntrySeat DEF Players
  <2>3. p \notin LivePairings'
    BY <2>1 DEF LiveEntries, EntriesOf
  <2>4. PICK q \in inflight : CompletePairing(q) \/ FailPairing(q)
    <3>1. CASE PassPairs
      BY <2>1, <2>3, <3>1, PassPairsSeats
    <3>2. CASE TimerFires \/ PassEnds \/ Tick \/ Dispose \/ UNCHANGED vars
      BY <2>1, <2>3, <3>2 DEF QueueInv, PassLocals, LivePairings, TimerFires, PassEnds, Tick,
                              Dispose, vars, StartPass, passVars, resolverVars
    <3>3. CASE \E u \in Users : Dequeue(u) \/ \E r \in Ratings : Enqueue(u, r)
      BY <2>1, <2>3, <3>3 DEF QueueInv, PassLocals, LivePairings, Dequeue, Enqueue, StartPass,
                              passVars, resolverVars
    <3> QED BY <3>1, <3>2, <3>3 DEF Next, Closed
  <2>5. q = p
    BY <2>1, <2>3, <2>4, SettledLeaves DEF CompletePairing, FailPairing
  <2>6. CASE CompletePairing(q)
    BY <2>0, <2>2, <2>5, <2>6 DEF CompletePairing
  <2>7. CASE FailPairing(q)
    <3>1. p \in Pairing /\ p.A.userId # p.B.userId
      BY <2>1 DEF QueueInv, PairingsDisjoint, LivePairings, TypeOK
    <3>2. waiting'[e.userId] = Restored(e)
      BY <2>1, <2>2, <2>5, <2>7, <3>1 DEF FailPairing, RestoreBoth, QueueInv, TypeOK, Pairing,
                                          Entry
    <3>3. ASSUME Restored(e) # NoEntry PROVE FALSE
      <4>1. Restored(e) \in WaitingEntries(waiting')
        BY <2>2, <3>2, <3>3 DEF WaitingEntries, WaitingUsers
      <4>2. Restored(e) \in LiveEntries' /\ Restored(e).userId = e.userId
        BY <2>2, <3>3, <4>1, RestoredType DEF QueueInv, LiveEntries
      <4> QED BY <4>2
    <3>4. ~Evicts(e) => Restored(e) = [e EXCEPT !.failureCount = @ + 1]
      BY DEF Restored
    <3>5. ~Evicts(e) => Restored(e) # NoEntry
      <4>1. ~Evicts(e) => e.failureCount + 1 \in 0..MaxFailures
        BY <2>2, ConfigAssumption DEF ConfigAssumption, Evicts, Entry
      <4>2. ~Evicts(e) => Restored(e) \in Entry
        BY <2>2, <3>4, <4>1 DEF Entry
      <4> QED BY <4>2, ConfigAssumption DEF ConfigAssumption
    <3> QED BY <2>0, <3>3, <3>5
  <2> QED BY <2>4, <2>6, <2>7
<1> QED BY <1>1, QueueInvariant, PTL DEF Spec, NoSilentEjection

(* An unclaimed result stays until its user queues again.                  *)
THEOREM ResultIsRetained == Spec => ResultRetained
<1>1. QueueInv /\ [Next]_vars => [DropsOnlySuperseded]_vars
  <2> SUFFICES ASSUME QueueInv, [Next]_vars, NEW u \in Users,
                      matchedResults[u] # {}, matchedResults'[u] # matchedResults[u]
               PROVE  matchedResults'[u] = {} /\ waiting[u] = NoEntry /\ waiting'[u] # NoEntry
    BY DEF DropsOnlySuperseded
  <2>1. ASSUME NEW v \in Users, NEW r \in Ratings, Enqueue(v, r)
        PROVE  matchedResults'[u] = {} /\ waiting[u] = NoEntry /\ waiting'[u] # NoEntry
    <3>1. u = v /\ matchedResults'[u] = {} /\ waiting[u] = NoEntry
      BY <2>1 DEF Enqueue, Queued, QueueInv, TypeOK
    <3>2. [userId |-> v, rating |-> r, enqueuedAt |-> clock, failureCount |-> 0] \in Entry
      BY ConfigAssumption DEF ConfigAssumption, QueueInv, TypeOK, Entry
    <3> QED BY <2>1, <3>1, <3>2, ConfigAssumption
        DEF ConfigAssumption, Enqueue, QueueInv, TypeOK
  <2>2. ASSUME NEW p \in inflight, CompletePairing(p) PROVE FALSE
    <3>1. u \in Players(p) /\ Players(p) \subseteq resolving
      BY <2>2, SettledLeaves DEF CompletePairing
    <3> QED BY <3>1 DEF QueueInv, ExclusiveSeats
  <2>3. ASSUME \/ TimerFires \/ PassPairs \/ PassEnds \/ Tick \/ Dispose \/ UNCHANGED vars
               \/ \E v \in Users : Dequeue(v)
               \/ \E p \in inflight : FailPairing(p)
        PROVE FALSE
    BY <2>3 DEF TimerFires, PassPairs, PassEnds, Tick, Dispose, vars, Dequeue, FailPairing
  <2> QED BY <2>1, <2>2, <2>3 DEF Next, Closed
<1> QED BY <1>1, QueueInvariant, PTL DEF Spec, ResultRetained

-----------------------------------------------------------------------------
(* The queue implements Matchmaking.                                       *)

(* The players of the pairings, as Matchmaking's pairs.                    *)
LEMMA PairsOfLivePairings ==
  ASSUME QueueInv, NEW p \in LivePairings
  PROVE  /\ Players(p) \in {Players(q) : q \in LivePairings}
         /\ {Players(q) : q \in LivePairings \ {p}} =
              {Players(q) : q \in LivePairings} \ {Players(p)}
<1>1. \A q \in LivePairings : Players(q) = Players(p) => q = p
  BY DEF QueueInv, PairingsDisjoint, Players
<1> QED BY <1>1

(* Every step of the queue is a step of Matchmaking or a stutter.          *)
LEMMA StepsMap == QueueInv /\ [Next]_vars => [Matchmaking!Next]_(Matchmaking!vars)
<1> SUFFICES ASSUME QueueInv, [Next]_vars
             PROVE  Matchmaking!Next \/ UNCHANGED Matchmaking!vars
  OBVIOUS
<1> DEFINE Pairs == {Players(q) : q \in LivePairings}
           Pool == WaitingUsers(waiting)
<1>a. UNION Pairs = resolving
  BY DEF QueueInv, ResolvingIsPaired
<1>b. ASSUME UNCHANGED <<waiting, matchedResults>>, LivePairings' = LivePairings
      PROVE  UNCHANGED Matchmaking!vars
  BY <1>b DEF Matchmaking!vars
<1>1. ASSUME NEW u \in Users, NEW r \in Ratings, Enqueue(u, r) PROVE Matchmaking!Join(u)
  <2> DEFINE entry == [userId |-> u, rating |-> r, enqueuedAt |-> clock, failureCount |-> 0]
  <2>1. entry # NoEntry
    BY ConfigAssumption DEF ConfigAssumption, QueueInv, TypeOK, Entry
  <2>2. waiting' = [waiting EXCEPT ![u] = entry]
    BY <1>1 DEF Enqueue
  <2> HIDE DEF entry
  <2>3. Pool' = Pool \cup {u}
    BY <2>1, <2>2 DEF QueueInv, TypeOK, WaitingUsers
  <2>4. u \notin Pool /\ u \notin UNION Pairs
    BY <1>1, <1>a DEF Enqueue, Queued, WaitingUsers
  <2>5. LivePairings' = LivePairings
    BY <1>1 DEF QueueInv, PassLocals, LivePairings, Enqueue, StartPass, passVars, resolverVars
  <2>6. matchedResults' = [matchedResults EXCEPT ![u] = {}]
    BY <1>1 DEF Enqueue
  <2> QED BY <2>3, <2>4, <2>5, <2>6 DEF Matchmaking!Join, Matchmaking!Seated
<1>2. ASSUME NEW u \in Users, Dequeue(u) PROVE Matchmaking!Leave(u)
  <2>1. u \in Pool /\ Pool' = Pool \ {u}
    BY <1>2 DEF Dequeue, QueueInv, TypeOK, WaitingUsers
  <2>2. LivePairings' = LivePairings /\ matchedResults' = matchedResults
    BY <1>2 DEF LivePairings, Dequeue, passVars, resolverVars
  <2> QED BY <2>1, <2>2 DEF Matchmaking!Leave
<1>3. ASSUME PassPairs PROVE \E u, v \in Users : Matchmaking!Pair(u, v)
  <2>1. PICK pair \in Pairing :
          /\ Take(pair)
          /\ pair.A.userId # pair.B.userId
          /\ \A u \in Players(pair) : u \in Users /\ waiting[u] # NoEntry
          /\ LivePairings' = LivePairings \cup {pair}
    BY <1>3, PassPairsSeats
  <2>2. Pool' = Pool \ Players(pair)
    BY <2>1 DEF Take, TakeBoth, WaitingUsers
  <2>3. Pairs' = Pairs \cup {Players(pair)}
    BY <2>1
  <2>4. pair.A.userId \in Users /\ pair.B.userId \in Users
    BY <2>1 DEF Players
  <2>5. pair.A.userId \in Pool /\ pair.B.userId \in Pool
    BY <2>1, <2>4 DEF Players, WaitingUsers
  <2>6. matchedResults' = matchedResults
    BY <1>3 DEF PassPairs
  <2>7. Matchmaking!Pair(pair.A.userId, pair.B.userId)
    BY <2>1, <2>2, <2>3, <2>5, <2>6 DEF Matchmaking!Pair, Players
  <2> QED BY <2>4, <2>7
<1>4. ASSUME NEW p \in inflight, CompletePairing(p)
      PROVE  \E P \in Pairs : Matchmaking!Deliver(P)
  <2>1. p \in LivePairings /\ LivePairings' = LivePairings \ {p}
    BY <1>4, SettledLeaves DEF CompletePairing
  <2>2. Players(p) \in Pairs /\ Pairs' = Pairs \ {Players(p)}
    BY <2>1, PairsOfLivePairings
  <2>3. Pool' = Pool
    BY <1>4 DEF CompletePairing, WaitingUsers
  <2>4. Matchmaking!Deliver(Players(p))
    BY <1>4, <2>2, <2>3 DEF CompletePairing, Matchmaking!Deliver
  <2> QED BY <2>2, <2>4
<1>5. ASSUME NEW p \in inflight, FailPairing(p)
      PROVE  \E P \in Pairs : \E back \in SUBSET P : Matchmaking!Undo(P, back)
  <2> DEFINE back == {u \in Players(p) : waiting'[u] # NoEntry}
  <2>1. /\ p \in LivePairings /\ LivePairings' = LivePairings \ {p}
        /\ Players(p) \subseteq resolving /\ Players(p) \subseteq Users
    BY <1>5, SettledLeaves DEF FailPairing
  <2>2. Players(p) \in Pairs /\ Pairs' = Pairs \ {Players(p)}
    BY <2>1, PairsOfLivePairings
  <2>3. \A u \in Users : u \notin Players(p) => waiting'[u] = waiting[u]
    BY <1>5 DEF FailPairing, RestoreBoth, Players, QueueInv, TypeOK
  <2>4. \A u \in Players(p) : waiting[u] = NoEntry
    BY <2>1 DEF QueueInv, ExclusiveSeats
  <2>5. Pool' = Pool \cup back
    BY <2>1, <2>3, <2>4 DEF WaitingUsers
  <2>6. matchedResults' = matchedResults
    BY <1>5 DEF FailPairing
  <2>7. Matchmaking!Undo(Players(p), back)
    BY <2>2, <2>5, <2>6 DEF Matchmaking!Undo
  <2> QED BY <2>2, <2>7
<1>6. ASSUME TimerFires \/ PassEnds \/ Tick \/ Dispose \/ UNCHANGED vars
      PROVE  UNCHANGED Matchmaking!vars
  <2>1. /\ UNCHANGED <<waiting, matchedResults>>
        /\ LivePairings' = LivePairings
    BY <1>6 DEF QueueInv, PassLocals, LivePairings, TimerFires, PassEnds, Tick, Dispose, vars,
                StartPass, passVars, resolverVars
  <2> QED BY <1>b, <2>1
<1> QED BY <1>1, <1>2, <1>3, <1>4, <1>5, <1>6 DEF Next, Closed, Matchmaking!Next

(* The queue does what Matchmaking promises its players.                   *)
THEOREM QueueImplementsMatchmaking == Spec => ImplementsMatchmaking
<1>1. Init => Matchmaking!Init
  BY DEF Init, Matchmaking!Init, LivePairings, WaitingUsers
<1> QED BY <1>1, StepsMap, QueueInvariant, PTL
        DEF Spec, ImplementsMatchmaking, Matchmaking!Spec

-----------------------------------------------------------------------------
(* Why waiting ends: what the liveness properties of the queue rest on.    *)

(* Two players are some.                                                   *)
LEMMA TwoAreSeveral ==
  ASSUME NEW S, IsFiniteSet(S), Cardinality(S) >= 2
  PROVE  Several(S)
<1> SUFFICES ASSUME ~Several(S) PROVE FALSE
  OBVIOUS
<1>1. CASE S = {}
  BY <1>1, FS_EmptySet
<1>2. CASE S # {}
  <2>1. PICK s : s \in S
    BY <1>2
  <2>2. S = {s}
    BY <2>1 DEF Several
  <2> QED BY <2>2, FS_Singleton
<1> QED BY <1>1, <1>2

(* The pool's entries are as many as its users.                            *)
LEMMA SeveralWait ==
  ASSUME TypeOK, EntriesFiled, Pairable(waiting)
  PROVE  Several(WaitingEntries(waiting))
<1>1. PICK u, v \in WaitingUsers(waiting) : u # v
  BY DEF Pairable, Several
<1>2. waiting[u].userId = u /\ waiting[v].userId = v
  BY <1>1 DEF EntriesFiled, WaitingUsers
<1>3. waiting[u] \in WaitingEntries(waiting) /\ waiting[v] \in WaitingEntries(waiting)
  BY <1>1 DEF WaitingEntries
<1> QED BY <1>1, <1>2, <1>3 DEF Several

(* However many players there are, only finitely many have come.           *)
FewWait == IsFiniteSet(WaitingUsers(waiting))

LEMMA FewMoreWait == TypeOK /\ FewWait /\ [Next]_vars => FewWait'
<1> SUFFICES ASSUME TypeOK, FewWait, [Next]_vars PROVE FewWait'
  OBVIOUS
<1> DEFINE W == WaitingUsers(waiting)
<1>1. ASSUME NEW S, IsFiniteSet(S), WaitingUsers(waiting)' \subseteq W \cup S PROVE FewWait'
  <2>1. IsFiniteSet(W \cup S)
    BY <1>1, FS_Union DEF FewWait
  <2> QED BY <1>1, <2>1, FS_Subset DEF FewWait
<1>2. ASSUME NEW S, IsFiniteSet(S), \A u \in Users : u \notin S => waiting'[u] \in {NoEntry, waiting[u]}
      PROVE  FewWait'
  BY <1>1, <1>2 DEF WaitingUsers
<1> HIDE DEF W
<1>3. ASSUME NEW v \in Users, NEW r \in Ratings, Enqueue(v, r) PROVE FewWait'
  <2>1. \A u \in Users : u \notin {v} => waiting'[u] \in {NoEntry, waiting[u]}
    BY <1>3 DEF Enqueue, TypeOK
  <2>2. IsFiniteSet({v})
    BY FS_Singleton
  <2> HIDE DEF FewWait
  <2> QED BY <2>1, <2>2, <1>2
<1>4. ASSUME NEW p \in inflight, FailPairing(p) PROVE FewWait'
  <2>1. \A u \in Users : u \notin Players(p) => waiting'[u] \in {NoEntry, waiting[u]}
    BY <1>4 DEF FailPairing, RestoreBoth, TypeOK, Players
  <2>2. IsFiniteSet(Players(p))
    <3>1. IsFiniteSet({p.A.userId}) /\ IsFiniteSet({p.B.userId})
      BY FS_Singleton
    <3>2. Players(p) = {p.A.userId} \cup {p.B.userId}
      BY DEF Players
    <3> QED BY <3>1, <3>2, FS_Union
  <2> QED BY <2>1, <2>2, <1>2
<1>5. ASSUME \/ \E v \in Users : Dequeue(v)
             \/ PassPairs \/ TimerFires \/ PassEnds \/ Tick \/ Dispose \/ UNCHANGED vars
             \/ \E p \in inflight : CompletePairing(p)
      PROVE  FewWait'
  <2>1. \A u \in Users : waiting'[u] \in {NoEntry, waiting[u]}
    BY <1>5, PassPairsTakes DEF Dequeue, Take, TakeBoth, TimerFires, PassEnds, Tick, Dispose,
       CompletePairing, vars, TypeOK
  <2>2. IsFiniteSet({})
    BY FS_EmptySet
  <2> QED BY <2>1, <2>2, <1>2
<1> QED BY <1>3, <1>4, <1>5 DEF Next, Closed

(* A pass is never entered for nothing, whatever players do while its timer*)
(* runs: it has taken a pair or is about to.                               *)
PassTakesSomebody == passing => Several(pool) \/ pairings # {}

(* Neither the timer's callback nor the arrival that fills the pool starts *)
(* a pass with fewer than two players.                                     *)
THEOREM PassesServe == Spec => []PassTakesSomebody
<1>1. Init => FewWait /\ PassTakesSomebody
  <2> SUFFICES ASSUME Init PROVE FewWait /\ PassTakesSomebody
    OBVIOUS
  <2>1. WaitingUsers(waiting) = {}
    BY DEF Init, WaitingUsers
  <2> QED BY <2>1, FS_EmptySet DEF Init, FewWait, PassTakesSomebody
<1>2. QueueInv /\ FewWait /\ PassTakesSomebody /\ [Next]_vars => FewWait' /\ PassTakesSomebody'
  <2> SUFFICES ASSUME QueueInv, FewWait, PassTakesSomebody, [Next]_vars
               PROVE  FewWait' /\ PassTakesSomebody'
    OBVIOUS
  <2>1. FewWait' /\ TypeOK /\ QueueInv'
    BY FewMoreWait, QueueInvStep DEF QueueInv
  <2>2. ASSUME NEW u \in Users, NEW r \in Ratings, Enqueue(u, r) PROVE PassTakesSomebody'
    <3>1. CASE Cardinality(WaitingUsers(waiting')) >= MaxPool
      <4>1. MaxPool >= 2 /\ MaxPool \in Nat
        BY ConfigAssumption DEF ConfigAssumption
      <4>2. Cardinality(WaitingUsers(waiting')) \in Nat /\ IsFiniteSet(WaitingUsers(waiting'))
        BY <2>1, FS_CardinalityType DEF FewWait, WaitingUsers
      <4>3. Pairable(waiting')
        BY <3>1, <4>1, <4>2, TwoAreSeveral DEF Pairable
      <4>4. ASSUME TypeOK', EntriesFiled', Pairable(waiting)'
            PROVE  Several(WaitingEntries(waiting'))
        <5>1. PICK v, w \in WaitingUsers(waiting') : v # w
          BY <4>3 DEF Pairable, Several
        <5>2. waiting'[v].userId = v /\ waiting'[w].userId = w
          BY <4>4, <5>1 DEF EntriesFiled, WaitingUsers
        <5>3. /\ waiting'[v] \in WaitingEntries(waiting')
              /\ waiting'[w] \in WaitingEntries(waiting')
          BY <5>1 DEF WaitingEntries
        <5> QED BY <5>1, <5>2, <5>3 DEF Several
      <4>5. Several(WaitingEntries(waiting'))
        BY <2>1, <4>3, <4>4 DEF QueueInv, Pairable, WaitingUsers
      <4> QED BY <2>2, <3>1, <4>5 DEF Enqueue, StartPass, PassTakesSomebody, Several
    <3>2. CASE ~(Cardinality(WaitingUsers(waiting')) >= MaxPool)
      BY <2>2, <3>2 DEF Enqueue, passVars, PassTakesSomebody
    <3> QED BY <3>1, <3>2
  <2>3. ASSUME TimerFires PROVE PassTakesSomebody'
    <3>1. Pairable(waiting)
      BY <2>3 DEF TimerFires, QueueInv, TimerArmedIffPairable, TimerOff
    <3>2. Several(WaitingEntries(waiting))
      BY <3>1, SeveralWait DEF QueueInv
    <3> QED BY <2>3, <3>2 DEF TimerFires, StartPass, PassTakesSomebody, Several
  <2>4. ASSUME PassPairs PROVE PassTakesSomebody'
    BY <2>4, PassPairsTakes DEF QueueInv, Take, PassTakesSomebody
  <2>5. ASSUME \/ \E u \in Users : Dequeue(u)
               \/ \E p \in inflight : CompletePairing(p) \/ FailPairing(p)
               \/ PassEnds \/ Tick \/ Dispose \/ UNCHANGED vars
        PROVE  PassTakesSomebody'
    BY <2>5 DEF Dequeue, CompletePairing, FailPairing, PassEnds, Tick, Dispose, vars, passVars,
       PassTakesSomebody, Several
  <2> QED BY <2>1, <2>2, <2>3, <2>4, <2>5 DEF Next, Closed
<1> QED BY <1>1, <1>2, QueueInvariant, PTL DEF Spec

(* A window that two players wait out is never prolonged: a player who     *)
(* joins or leaves, or a failure that gives two more back, lets the timer  *)
(* run on, and time brings it nearer.                                      *)
WindowRunsDown ==
  [][~passing /\ open /\ Pairable(waiting) =>
       \/ passing' \/ ~open' \/ ~Pairable(waiting')
       \/ timer' \in 0..timer /\ (Tick => timer = 0 \/ timer' < timer)]_vars

THEOREM WindowsRunDown == Spec => WindowRunsDown
<1>1. QueueInv /\ [Next]_vars =>
        [~passing /\ open /\ Pairable(waiting) =>
           \/ passing' \/ ~open' \/ ~Pairable(waiting')
           \/ timer' \in 0..timer /\ (Tick => timer = 0 \/ timer' < timer)]_vars
  <2> SUFFICES ASSUME QueueInv, [Next]_vars, ~passing, open, Pairable(waiting),
                      ~passing', open', Pairable(waiting')
               PROVE  timer' \in 0..timer /\ (Tick => timer = 0 \/ timer' < timer)
    OBVIOUS
  <2>1. timer \in Nat
    BY ConfigAssumption DEF QueueInv, TypeOK, TimerArmedIffPairable, TimerOff, ConfigAssumption
  <2>2. ASSUME Tick PROVE timer' \in 0..timer /\ (timer = 0 \/ timer' < timer)
    BY <2>1, <2>2 DEF Tick
  <2>3. ASSUME ~Tick PROVE timer' = timer
    BY <2>1, <2>3 DEF Next, Closed, Enqueue, Dequeue, TimerFires, PassPairs, PassEnds,
       CompletePairing, FailPairing, Dispose, vars, StartPass, ArmTimerIfPairable,
       ClearTimerUnlessPairable, TimerOff
  <2> QED BY <2>1, <2>2, <2>3
<1> QED BY <1>1, QueueInvariant, PTL DEF Spec, WindowRunsDown

SpendsChances ==
  \A f \in LiveEntries' :
    \/ ~Queued(f.userId)
    \/ \E e \in LiveEntries :
         /\ e.userId = f.userId /\ e.failureCount <= f.failureCount
         /\ (\E p \in inflight : f.userId \in Players(p) /\ FailPairing(p)) =>
              f.failureCount = e.failureCount + 1

(* A failure costs both its players one of their MaxFailures chances, and  *)
(* only who queues afresh gets them back: with BoundedRetries, the reason  *)
(* why the queue drains once nobody joins.                                 *)
RetriesRunDown == [][SpendsChances]_vars

THEOREM RetriesAreSpent == Spec => RetriesRunDown
<1>1. QueueInv /\ [Next]_vars => [SpendsChances]_vars
  <2> SUFFICES ASSUME QueueInv, [Next]_vars, NEW f \in LiveEntries', Queued(f.userId)
               PROVE  \E e \in LiveEntries :
                        /\ e.userId = f.userId /\ e.failureCount <= f.failureCount
                        /\ (\E p \in inflight : f.userId \in Players(p) /\ FailPairing(p)) =>
                             f.failureCount = e.failureCount + 1
    BY DEF SpendsChances
  <2>1. ASSUME NEW p \in inflight, f.userId \in Players(p), FailPairing(p)
        PROVE  \E e \in LiveEntries :
                 e.userId = f.userId /\ e.failureCount <= f.failureCount
                 /\ f.failureCount = e.failureCount + 1
    <3>1. /\ p \in LivePairings /\ p \in Pairing /\ p.A \in Entry /\ p.B \in Entry
          /\ LivePairings' = LivePairings \ {p}
      BY <2>1, SettledLeaves DEF FailPairing, Pairing
    <3>2. ASSUME NEW q \in LivePairings', f = q.A \/ f = q.B PROVE FALSE
      <4>1. q \in LivePairings /\ q # p /\ f.userId \in Players(q)
        BY <3>1, <3>2 DEF Players
      <4> QED BY <2>1, <3>1, <4>1 DEF QueueInv, PairingsDisjoint
    <3>3. PICK u \in Users : waiting'[u] = f /\ f # NoEntry
      BY <3>2 DEF LiveEntries, EntriesOf, WaitingEntries, WaitingUsers
    <3>4. u = f.userId
      BY <3>3, QueueInvStep DEF QueueInv, EntriesFiled
    <3>5. PICK e \in {p.A, p.B} : e.userId = u /\ f = Restored(e)
      BY <2>1, <3>3, <3>4 DEF FailPairing, RestoreBoth, Players, QueueInv, TypeOK
    <3>6. e \in LiveEntries /\ e \in Entry
      BY <3>1, LiveEntryCases
    <3>7. f.failureCount = e.failureCount + 1 /\ e.failureCount \in Nat
      BY <3>3, <3>5, <3>6, RestoredType DEF QueueInv, Entry
    <3> QED BY <3>4, <3>5, <3>6, <3>7
  <2>2. \E e \in LiveEntries : e.userId = f.userId /\ e.failureCount <= f.failureCount
    <3>1. CASE f \in LiveEntries
      BY <3>1, LiveEntrySeat DEF Entry
    <3>2. ASSUME NEW e \in LiveEntries, f = Restored(e), f # NoEntry, e.userId = f.userId
          PROVE  e.failureCount <= f.failureCount
      <4>1. f.failureCount = e.failureCount + 1 /\ e.failureCount \in Nat
        BY <3>2, LiveEntrySeat, RestoredType DEF QueueInv, Entry
      <4> QED BY <4>1
    <3> QED BY <3>1, <3>2, LiveEntriesStep
  <2> QED BY <2>1, <2>2
<1> QED BY <1>1, QueueInvariant, PTL DEF Spec, RetriesRunDown
=============================================================================
