----------------------------- MODULE MatchQueue -----------------------------
(***************************************************************************)
(* The in-memory matchmaking queue of packages/server: the class           *)
(* QueueService of src/queue/service.ts, driven by the handlers and the    *)
(* resolver of src/queue/routes.ts.                                        *)
(*                                                                         *)
(* Every method of QueueService is one synchronous critical section of the *)
(* Node event loop and is one action here.  The pairing pass, which loops, *)
(* is kept at the grain of its loop: PassPairs is one iteration, PassEnds  *)
(* what follows the loop, and `passing` holds every other handler back     *)
(* until the pass has run to completion (time may pass meanwhile).         *)
(*                                                                         *)
(* Two entries stamped by the same Date.now() are ordered by Map insertion *)
(* order in the code; that order is not kept here, both orders are allowed.*)
(***************************************************************************)
EXTENDS Integers, FiniteSets

CONSTANTS
  Users,        (* players with an account                                 *)
  Ratings,      (* ladder ratings an entry may carry                       *)
  MaxPool,      (* QUEUE_MAX_POOL: pool size that triggers a pass at once  *)
  Window,       (* QUEUE_WINDOW_MS, in ticks of the model's clock          *)
  MaxFailures,  (* QUEUE_MAX_FAILURES                                      *)
  MaxAge,       (* QUEUE_MAX_AGE_MS, in ticks                              *)
  MaxTime,      (* bound: the model's clock, and with it arrivals, stop here*)
  NoEntry       (* what a lookup of an absent user returns                 *)

(* WaitingEntry, without the warband build, which pairing never reads      *)
Entry == [userId : Users, rating : Ratings, enqueuedAt : 0..MaxTime,
          failureCount : 0..MaxFailures]

(* What config.ts accepts from the environment.                            *)
ASSUME ConfigAssumption ==
  /\ Ratings \subseteq Int
  /\ NoEntry \notin Entry
  /\ MaxPool \in Nat /\ MaxPool >= 2
  /\ Window \in Nat \ {0}
  /\ MaxFailures \in Nat \ {0}
  /\ MaxAge \in Nat \ {0}
  /\ MaxTime \in Nat

VARIABLES
  waiting,         (* the Map userId -> WaitingEntry                       *)
  resolving,       (* the Set of users whose pairing is being resolved     *)
  matchedResults,  (* players of the delivered match, {} when there is none*)
  timer,           (* ticks until the batching-window timer is due         *)
  passing,         (* a pairing pass is on the call stack                  *)
  pool,            (* the pass's local copy of the pool                    *)
  pairings,        (* the pass's local list of pairings                    *)
  inflight,        (* pairings handed to the resolver, not yet settled     *)
  latestPass,      (* those of them that settled() still waits for         *)
  clock,           (* Date.now(), in ticks                                 *)
  open             (* the app has not been closed                          *)

passVars == <<passing, pool, pairings>>
resolverVars == <<inflight, latestPass>>
vars == <<waiting, resolving, matchedResults, timer, passVars, resolverVars,
          clock, open>>

TimerOff == -1

Pairing == [A : Entry, B : Entry]

TypeOK ==
  /\ waiting \in [Users -> Entry \cup {NoEntry}]
  /\ resolving \in SUBSET Users
  /\ matchedResults \in [Users -> SUBSET Users]
  /\ timer \in TimerOff..Window
  /\ passing \in BOOLEAN
  /\ pool \in SUBSET Entry
  /\ pairings \in SUBSET Pairing
  /\ inflight \in SUBSET Pairing
  /\ latestPass \in SUBSET inflight
  /\ clock \in 0..MaxTime
  /\ open \in BOOLEAN

-----------------------------------------------------------------------------
(* State functions.                                                        *)

WaitingUsers(w) == {u \in Users : w[u] # NoEntry}

WaitingEntries(w) == {w[u] : u \in WaitingUsers(w)}

(* `this.waiting.size >= 2`, and `pool.length >= 2`                        *)
Several(S) == \E s, t \in S : s # t

Pairable(w) == Several(WaitingUsers(w))

(* What enqueue refuses; the mutant has forgotten half of it.              *)
QueuedIfWaiting(u) == waiting[u] # NoEntry

Queued(u) == waiting[u] # NoEntry \/ u \in resolving

Players(p) == {p.A.userId, p.B.userId}

(* Every pairing whose players are marked resolving.                       *)
LivePairings == inflight \cup pairings

EntriesOf(P) == {p.A : p \in P} \cup {p.B : p \in P}

(* Entries the queue holds, waiting or inside a pairing.                   *)
LiveEntries == WaitingEntries(waiting) \cup EntriesOf(LivePairings)

RatingGap(e, f) ==
  IF e.rating >= f.rating THEN e.rating - f.rating ELSE f.rating - e.rating

(* pool[0] after the sort by enqueuedAt; the mutant does not sort          *)
Anyone(S) == S

Oldest(S) == {e \in S : \A f \in S : e.enqueuedAt <= f.enqueuedAt}

(* What selectOpponent may return for the entry `first` of S.              *)
Opponents(S, first) ==
  LET candidates == {e \in S : e.userId # first.userId}
  IN  {e \in candidates : \A f \in candidates :
         \/ RatingGap(e, first) < RatingGap(f, first)
         \/ /\ RatingGap(e, first) = RatingGap(f, first)
            /\ e.enqueuedAt <= f.enqueuedAt}

-----------------------------------------------------------------------------
(* Steps shared by the methods.                                            *)

(* armTimerIfPairable: the handle after the call, for the pool w; the      *)
(* mutant wants a third player                                             *)
ArmTimerIfCrowded(t, w) ==
  IF t = TimerOff /\ Cardinality(WaitingUsers(w)) > 2 THEN Window ELSE t

ArmTimerIfPairable(t, w) ==
  IF t = TimerOff /\ Pairable(w) THEN Window ELSE t

(* dequeue's clearTimer, called with the pool w left; the mutant forgets it*)
KeepTimer(t, w) == t

ClearTimerUnlessPairable(t, w) == IF Pairable(w) THEN t ELSE TimerOff

(* runPass entered with the pool w: collectPairings copies it.             *)
StartPass(w) ==
  /\ passing' = TRUE
  /\ pool' = WaitingEntries(w)
  /\ pairings' = {}

(* The pool w once the pass has taken both sides of p; the mutant clears it*)
TakeEveryone(w, p) == [u \in Users |-> NoEntry]

TakeBoth(w, p) == [u \in Users |-> IF u \in Players(p) THEN NoEntry ELSE w[u]]

(* restoreOrEvict: does the policy drop the entry, and if not, what goes   *)
(* back to the pool; the mutant does not count the failure.                *)
Evicts(e) ==
  \/ e.failureCount + 1 >= MaxFailures
  \/ clock - e.enqueuedAt >= MaxAge

RestoredUncounted(e) == IF Evicts(e) THEN NoEntry ELSE e

Restored(e) ==
  IF Evicts(e) THEN NoEntry ELSE [e EXCEPT !.failureCount = @ + 1]

(* The pool w after both sides of p were restored; the mutant is #57's rule*)
RestoreSideA(w, p) == [w EXCEPT ![p.A.userId] = Restored(p.A)]

RestoreBoth(w, p) ==
  [w EXCEPT ![p.A.userId] = Restored(p.A), ![p.B.userId] = Restored(p.B)]

-----------------------------------------------------------------------------
Init ==
  /\ waiting = [u \in Users |-> NoEntry]
  /\ resolving = {}
  /\ matchedResults = [u \in Users |-> {}]
  /\ timer = TimerOff
  /\ passing = FALSE /\ pool = {} /\ pairings = {}
  /\ inflight = {} /\ latestPass = {}
  /\ clock = 0
  /\ open = TRUE

(* POST /queue, after its reads: a queued user is refused (409, no effect).*)
Enqueue(u, r) ==
  /\ ~passing /\ open
  /\ clock < MaxTime
  /\ ~Queued(u)
  /\ matchedResults' = [matchedResults EXCEPT ![u] = {}]
  /\ waiting' = [waiting EXCEPT ![u] =
       [userId |-> u, rating |-> r, enqueuedAt |-> clock, failureCount |-> 0]]
  /\ IF Cardinality(WaitingUsers(waiting')) >= MaxPool
       THEN timer' = TimerOff /\ StartPass(waiting')
       ELSE timer' = ArmTimerIfPairable(timer, waiting') /\ UNCHANGED passVars
  /\ UNCHANGED <<resolving, resolverVars, clock, open>>

(* DELETE /queue: refused for a resolving (409) or an absent user (404).   *)
Dequeue(u) ==
  /\ ~passing /\ open
  /\ u \notin resolving
  /\ waiting[u] # NoEntry
  /\ waiting' = [waiting EXCEPT ![u] = NoEntry]
  /\ timer' = ClearTimerUnlessPairable(timer, waiting')
  /\ UNCHANGED <<resolving, matchedResults, passVars, resolverVars, clock, open>>

(* The callback armed by armTimerIfPairable.                               *)
TimerFires ==
  /\ ~passing
  /\ timer = 0
  /\ timer' = TimerOff
  /\ StartPass(waiting)
  /\ UNCHANGED <<waiting, resolving, matchedResults, resolverVars, clock, open>>

(* Both sides of a pair leave the pool, shared and local, to be resolved.  *)
Take(pair) ==
  /\ waiting' = TakeBoth(waiting, pair)
  /\ resolving' = resolving \cup Players(pair)
  /\ pairings' = pairings \cup {pair}
  /\ pool' = {e \in pool : e.userId \notin Players(pair)}

(* One iteration of collectPairings' loop.                                 *)
PassPairs ==
  /\ passing
  /\ Several(pool)
  /\ \E first \in Oldest(pool) : \E opponent \in Opponents(pool, first) :
       Take([A |-> first, B |-> opponent])
  /\ UNCHANGED <<matchedResults, timer, passing, resolverVars, clock, open>>

(* The rest of runPass: re-arm, hand the batch to the resolver, and make   *)
(* its promise the one settled() returns.                                  *)
PassEnds ==
  /\ passing
  /\ ~Several(pool)
  /\ timer' = ArmTimerIfPairable(timer, waiting)
  /\ inflight' = inflight \cup pairings
  /\ latestPass' = pairings
  /\ passing' = FALSE /\ pool' = {} /\ pairings' = {}
  /\ UNCHANGED <<waiting, resolving, matchedResults, clock, open>>

(* What completePairing and failPairing share; the mutants forget to clear *)
(* `resolving`, and the promise settled() returned.                        *)
SettledStillResolving(p) ==
  /\ inflight' = inflight \ {p}
  /\ latestPass' = latestPass \ {p}
  /\ resolving' = resolving

Settled(p) ==
  /\ inflight' = inflight \ {p}
  /\ latestPass' = latestPass \ {p}
  /\ resolving' = resolving \ Players(p)

(* resolveMatch returned: the resolver calls completePairing.              *)
CompletePairing(p) ==
  /\ ~passing
  /\ p \in inflight
  /\ Settled(p)
  /\ matchedResults' = [u \in Users |->
       IF u \in Players(p) THEN Players(p) ELSE matchedResults[u]]
  /\ UNCHANGED <<waiting, timer, passVars, clock, open>>

(* resolveMatch rejected: the resolver calls failPairing.                  *)
FailPairing(p) ==
  /\ ~passing
  /\ p \in inflight
  /\ Settled(p)
  /\ waiting' = RestoreBoth(waiting, p)
  /\ timer' = ArmTimerIfPairable(timer, waiting')
  /\ UNCHANGED <<matchedResults, passVars, clock, open>>

(* Time passes; a timer due in n ticks is due in n - 1.                    *)
Tick ==
  /\ clock < MaxTime \/ timer > 0
  /\ clock' = IF clock < MaxTime THEN clock + 1 ELSE clock
  /\ timer' = IF timer > 0 THEN timer - 1 ELSE timer
  /\ UNCHANGED <<waiting, resolving, matchedResults, passVars, resolverVars, open>>

(* The onClose hook: requests have drained, pending resolutions have not.  *)
Dispose ==
  /\ ~passing /\ open
  /\ open' = FALSE
  /\ timer' = TimerOff
  /\ UNCHANGED <<waiting, resolving, matchedResults, passVars, resolverVars, clock>>

(* A closed app with nothing left to settle does nothing more.             *)
Closed ==
  /\ ~open /\ ~passing /\ inflight = {}
  /\ UNCHANGED vars

Next ==
  \/ \E u \in Users, r \in Ratings : Enqueue(u, r)
  \/ \E u \in Users : Dequeue(u)
  \/ TimerFires
  \/ PassPairs
  \/ PassEnds
  \/ \E p \in inflight : CompletePairing(p)
  \/ \E p \in inflight : FailPairing(p)
  \/ Tick
  \/ Dispose
  \/ Closed

Spec == Init /\ [][Next]_vars

(* The resolver settles the pairing of u, one way or the other.            *)
Settle(u) ==
  \E p \in inflight : u \in Players(p) /\ (CompletePairing(p) \/ FailPairing(p))

(* A synchronous pass runs to its end, time passes, a due timer's callback *)
(* runs, and resolveOnePairing, which catches everything its awaited query *)
(* can throw, calls the queue back.  Players owe the queue nothing.        *)
Fairness ==
  /\ WF_vars(PassPairs) /\ WF_vars(PassEnds)
  /\ WF_vars(Tick)
  /\ WF_vars(TimerFires)
  /\ \A u \in Users : WF_vars(Settle(u))

FairSpec == Spec /\ Fairness

-----------------------------------------------------------------------------
(* Safety.                                                                 *)

(* A pairing seats two different players, and no player sits in two of     *)
(* them, however many passes have a resolver still running.                *)
PairingsDisjoint ==
  \A p, q \in LivePairings :
    /\ p.A.userId # p.B.userId
    /\ Players(p) \cap Players(q) # {} => p = q

(* The `resolving` set holds the players of the live pairings, no others:  *)
(* a leaked member would answer 409 to its user for ever, a missing one    *)
(* could be paired twice.                                                  *)
ResolvingIsPaired == resolving = UNION {Players(p) : p \in LivePairings}

(* A user is waiting, or resolving, or has an unclaimed result, never two  *)
(* of them: getStatus answers from the first of the three that knows the   *)
(* user.                                                                   *)
ExclusiveSeats ==
  \A u \in Users :
    /\ u \in resolving => waiting[u] = NoEntry
    /\ matchedResults[u] # {} => waiting[u] = NoEntry /\ u \notin resolving

(* A player has one seat: no interleaving of requests, passes and late     *)
(* resolutions ever pairs a player twice or loses track of one.            *)
OneSeat == PairingsDisjoint /\ ResolvingIsPaired /\ ExclusiveSeats

(* Between critical sections a batching-window timer is armed when the     *)
(* pool is pairable and only then: without it two waiting players would    *)
(* never meet, a stray one would shorten somebody's later window.          *)
TimerArmedIffPairable ==
  ~passing => /\ timer # TimerOff => Pairable(waiting)
              /\ open /\ Pairable(waiting) => timer # TimerOff

(* The no-await invariant: while a pass runs, its local copy of the pool   *)
(* is what the shared map holds, so nobody is paired from a stale entry.   *)
PoolIsWaiting == passing => pool = WaitingEntries(waiting)

(* A pass serves the oldest first and nearest first: whoever it has left   *)
(* over so far is neither older than a side A it picked nor nearer in      *)
(* rating to that side A than the side B it got.                           *)
FairPass ==
  \A p \in pairings, e \in pool :
    /\ p.A.enqueuedAt <= e.enqueuedAt
    /\ RatingGap(p.A, p.B) <= RatingGap(p.A, e)

(* Side A, which the simulation resolves first, is the earlier of the two  *)
(* players, restored entries included (packages/server/README.md).         *)
EarlierIsSideA == \A p \in LivePairings : p.A.enqueuedAt <= p.B.enqueuedAt

(* No entry is offered again after MaxFailures failed attempts.            *)
BoundedRetries == \A e \in LiveEntries : e.failureCount < MaxFailures

-----------------------------------------------------------------------------
(* What a step may never do.                                               *)

KeepsIdentity ==
  \A e \in LiveEntries, f \in LiveEntries' :
    e.userId = f.userId =>
      /\ f.rating = e.rating /\ f.enqueuedAt = e.enqueuedAt
      /\ f.failureCount \in {e.failureCount, e.failureCount + 1}

(* An entry keeps its rating and its place in line through every pass,     *)
(* failure and restore; its failure count grows by one at a time.          *)
EntryIdentityKept == [][KeepsIdentity]_vars

EjectsForCause ==
  \A e \in LiveEntries :
    (\A f \in LiveEntries' : f.userId # e.userId) =>
      \/ Dequeue(e.userId)
      \/ e.userId \in resolving /\ e.userId \in matchedResults'[e.userId]
      \/ e.userId \in resolving /\ Evicts(e)

(* Nobody is silently ejected to idle: a player who waits stops being      *)
(* queued only by asking to leave, not by any pass or failure, and one who *)
(* has been paired only by the match or by an entry the policy evicts.     *)
NoSilentEjection == [][EjectsForCause]_vars

DropsOnlySuperseded ==
  \A u \in Users :
    matchedResults[u] \notin {{}, matchedResults'[u]} =>
      /\ matchedResults'[u] = {}
      /\ waiting[u] = NoEntry /\ waiting'[u] # NoEntry

(* An unclaimed result stays until its user queues again: no later pass,   *)
(* and no late resolution of an earlier one, replaces or drops it.         *)
ResultRetained == [][DropsOnlySuperseded]_vars

-----------------------------------------------------------------------------
(* Liveness.                                                               *)

(* Two waiting players are not forgotten: a pass takes place, or the pool  *)
(* stops being pairable, or the app closes.                                *)
PairableIsServed == Pairable(waiting) ~> (passing \/ ~Pairable(waiting) \/ ~open)

(* Nobody resolves for ever.                                               *)
ResolvingEnds == \A u \in Users : u \in resolving ~> u \notin resolving

(* Retries come to an end: once arrivals have stopped, an open queue comes *)
(* to rest with at most a lone waiter, whatever keeps failing.             *)
Drains == []open => <>[](resolving = {} /\ ~Pairable(waiting))

-----------------------------------------------------------------------------
(* The queue does what Matchmaking promises: a pass is a series of Pair    *)
(* steps, a failed pairing an Undo whose survivors the eviction policy     *)
(* chooses; timers, clocks and the close of the app are steps it need not  *)
(* know about.                                                             *)
Matchmaking == INSTANCE Matchmaking
  WITH pool   <- WaitingUsers(waiting),
       pairs  <- {Players(p) : p \in LivePairings},
       result <- matchedResults

ImplementsMatchmaking == Matchmaking!Spec

=============================================================================
