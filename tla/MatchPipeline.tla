---------------------------- MODULE MatchPipeline ----------------------------
(***************************************************************************)
(* From a saved warband to a rated match: the request handlers of          *)
(* packages/server that edit warbands and queue a player, the resolver     *)
(* that plays, persists, reports and rates a pairing, the routes that show *)
(* and replay a match, and a server that may stop between any two of their *)
(* steps and come back with another ruleset.                               *)
(*                                                                         *)
(* The queue itself is the one Matchmaking promises (module MatchQueue     *)
(* implements it); this module adds what the seats carry.  What survives a *)
(* restart is the database: warbands and matches.                          *)
(*                                                                         *)
(* A build is known by the number of the save that wrote it.  The engine   *)
(* is only known to be a function of its four arguments.                   *)
(***************************************************************************)
EXTENDS Integers, FiniteSets

CONSTANTS
  Users,       (* players with an account                                  *)
  Warbands,    (* ids of warband rows                                      *)
  Seeds,       (* seeds randomInt may draw                                 *)
  Slots,       (* bound: POST /queue requests in flight at once            *)
  MaxSaves,    (* bound: builds ever saved                                 *)
  MaxJoins,    (* bound: times each player enters the queue                *)
  MaxMatches,  (* bound: rows ever inserted into `matches`                 *)
  MaxRelease,  (* bound: ruleset versions ever deployed                    *)
  Unplayable,  (* a body with a role, skill or behavior nobody registered  *)
  NoRow        (* what a lookup of an absent row returns                   *)

Builds == 1..MaxSaves
MatchIds == 1..MaxMatches
Releases == 1..MaxRelease

WarbandRow == [userId : Users, data : Builds]

(* What runMatch makes of version, seed and builds: events, winner, hash.  *)
Outcome == Releases \X Seeds \X Builds \X Builds

RunMatch(version, seed, buildA, buildB) == <<version, seed, buildA, buildB>>

(* A row of `matches`; join and join of B are history: which stay in the   *)
(* queue of each of the two players it is owed to.                         *)
MatchRow == [version : Releases, seed : Seeds, A : Users, B : Users,
             buildA : Builds, buildB : Builds, resultHash : Outcome,
             rated : BOOLEAN, joinA : 1..MaxJoins, joinB : 1..MaxJoins]

(* What POST /queue holds between its reads and its critical section.      *)
Request == [user : Users, build : Builds, ratingRead : BOOLEAN]

(* WaitingEntry; `saved` is history: how many builds had been saved by the *)
(* time it was made.                                                       *)
Entry == [build : Builds, saved : 0..MaxSaves]

(* A pairing that is being resolved: row is the match it has inserted.     *)
Resolution == [A : Users, B : Users, row : 0..MaxMatches]

ASSUME PipelineAssumption ==
  /\ NoRow \notin WarbandRow /\ NoRow \notin MatchRow /\ NoRow \notin Entry
  /\ NoRow \notin Users \cup Request /\ Unplayable \notin Builds
  /\ {MaxSaves, MaxJoins, MaxMatches, MaxRelease} \subseteq Nat \ {0}

VARIABLES
  release,   (* RULESET_VERSION of the server that runs                    *)
  warbands,  (* table: warband rows by id                                  *)
  matches,   (* table: match rows in the order of their insertion          *)
  author,    (* history: who saved each build                              *)
  joins,     (* history: how often each player has entered the queue       *)
  delivered, (* history: matches completePairing was called for            *)
  requests,  (* POST /queue requests in flight, by slot                    *)
  pool, pairs, result,   (* the queue, as in Matchmaking                   *)
  entry,     (* what the queue holds of a waiting or resolving player      *)
  told,      (* the match behind the player's result, 0 for none           *)
  resolving, (* resolveMatch calls in flight                               *)
  rating     (* matches whose applyMatchRatings is in flight               *)

tables == <<warbands, matches>>
history == <<author, joins, delivered>>
queue == <<pool, pairs, result>>
memory == <<requests, queue, entry, told, resolving, rating>>
vars == <<release, tables, history, memory>>

Queue == INSTANCE Matchmaking

TypeOK ==
  /\ release \in Releases
  /\ warbands \in [Warbands -> WarbandRow \cup {NoRow}]
  /\ matches \in [MatchIds -> MatchRow \cup {NoRow}]
  /\ author \in [Builds -> Users \cup {NoRow}]
  /\ joins \in [Users -> 0..MaxJoins]
  /\ delivered \in SUBSET MatchIds
  /\ requests \in [Slots -> Request \cup {NoRow}]
  /\ pool \in SUBSET Users
  /\ pairs \in SUBSET SUBSET Users
  /\ result \in [Users -> SUBSET Users]
  /\ entry \in [Users -> Entry \cup {NoRow}]
  /\ told \in [Users -> 0..MaxMatches]
  /\ resolving \in SUBSET Resolution
  /\ rating \in SUBSET MatchIds

Init ==
  /\ release = 1
  /\ warbands = [w \in Warbands |-> NoRow]
  /\ matches = [m \in MatchIds |-> NoRow]
  /\ author = [b \in Builds |-> NoRow]
  /\ joins = [u \in Users |-> 0]
  /\ delivered = {}
  /\ requests = [s \in Slots |-> NoRow]
  /\ Queue!Init
  /\ entry = [u \in Users |-> NoRow]
  /\ told = [u \in Users |-> 0]
  /\ resolving = {} /\ rating = {}

-----------------------------------------------------------------------------
(* The tables.                                                             *)

Saves == Cardinality({b \in Builds : author[b] # NoRow})

Inserted == {m \in MatchIds : matches[m] # NoRow}

(* WHERE id = :id AND user_id = :sessionUserId.                            *)
Own(u, w) == warbands[w] # NoRow /\ warbands[w].userId = u

(* WarbandSchema and findUnknownContentId: a body that names an unknown    *)
(* role, skill or behavior is refused with 400; the mutant leaves that to  *)
(* the match.  Augments and rosters are not looked at: a build with an     *)
(* unknown augment is among the Builds, and so is one whose behavior       *)
(* refuses the match; the engine throws for them (FailPairing).            *)
AcceptsAny(body) == TRUE

Accepts(body) == body # Unplayable

(* An accepted body becomes the row's data.                                *)
NextBuild(b) == author[b] = NoRow /\ \A c \in Builds : c < b => author[c] # NoRow

Save(u, w) ==
  \E body \in {b \in Builds : NextBuild(b)} \cup {Unplayable} :
    /\ Accepts(body)
    /\ warbands' = [warbands EXCEPT ![w] = [userId |-> u, data |-> body]]
    /\ author' = [b \in Builds |-> IF b = body THEN u ELSE author[b]]

(* POST /warbands                                                          *)
CreateWarband(u, w) ==
  /\ warbands[w] = NoRow
  /\ Save(u, w)
  /\ UNCHANGED <<release, matches, joins, delivered, memory>>

(* PUT /warbands/:id                                                       *)
UpdateWarband(u, w) ==
  /\ Own(u, w)
  /\ Save(u, w)
  /\ UNCHANGED <<release, matches, joins, delivered, memory>>

(* DELETE /warbands/:id                                                    *)
DeleteWarband(u, w) ==
  /\ Own(u, w)
  /\ warbands' = [warbands EXCEPT ![w] = NoRow]
  /\ UNCHANGED <<release, matches, history, memory>>

-----------------------------------------------------------------------------
(* POST /queue and DELETE /queue.                                          *)

(* The first read: a row that is not the caller's is a 404.                *)
ReadWarband(u, w, s) ==
  /\ Own(u, w)
  /\ requests[s] = NoRow
  /\ requests' = [requests EXCEPT ![s] =
       [user |-> u, build |-> warbands[w].data, ratingRead |-> FALSE]]
  /\ UNCHANGED <<release, tables, history, queue, entry, told, resolving, rating>>

(* The second read; what it returns only steers the choice of an opponent. *)
ReadRating(s) ==
  /\ requests[s] # NoRow /\ ~requests[s].ratingRead
  /\ requests' = [requests EXCEPT ![s].ratingRead = TRUE]
  /\ UNCHANGED <<release, tables, history, queue, entry, told, resolving, rating>>

(* enqueue: 409 for a player who waits or resolves already.                *)
Joins(u, build) ==
  /\ joins[u] < MaxJoins
  /\ Queue!Join(u)
  /\ entry' = [entry EXCEPT ![u] = [build |-> build, saved |-> Saves]]
  /\ told' = [told EXCEPT ![u] = 0]
  /\ joins' = [joins EXCEPT ![u] = @ + 1]

Enqueue(s) ==
  /\ requests[s] # NoRow /\ requests[s].ratingRead
  /\ IF requests[s].user \in pool \cup Queue!Seated
     THEN UNCHANGED <<queue, entry, told, joins>>
     ELSE Joins(requests[s].user, requests[s].build)
  /\ requests' = [requests EXCEPT ![s] = NoRow]
  /\ UNCHANGED <<release, tables, author, delivered, resolving, rating>>

Dequeue(u) ==
  /\ Queue!Leave(u)
  /\ entry' = [entry EXCEPT ![u] = NoRow]
  /\ UNCHANGED <<release, tables, history, requests, told, resolving, rating>>

-----------------------------------------------------------------------------
(* The resolver.                                                           *)

(* A pass pairs u, who is side A, with v and hands them to the resolver.   *)
Pair(u, v) ==
  /\ Queue!Pair(u, v)
  /\ resolving' = resolving \cup {[A |-> u, B |-> v, row |-> 0]}
  /\ UNCHANGED <<release, tables, history, requests, entry, told, rating>>

(* The row that resolveMatch inserts for c: pinned version, drawn seed, the*)
(* snapshots and what was played with them.  The mutant plays what the     *)
(* warband table holds by now.                                             *)
Latest(u) ==
  LET own == {w \in Warbands : Own(u, w)} IN
  IF own = {} THEN entry[u].build ELSE warbands[CHOOSE w \in own : TRUE].data

RowOfLatest(c, seed) ==
  [version |-> release, seed |-> seed, A |-> c.A, B |-> c.B,
   buildA |-> Latest(c.A), buildB |-> Latest(c.B),
   resultHash |-> RunMatch(release, seed, Latest(c.A), Latest(c.B)),
   rated |-> FALSE, joinA |-> joins[c.A], joinB |-> joins[c.B]]

Row(c, seed) ==
  [version |-> release, seed |-> seed, A |-> c.A, B |-> c.B,
   buildA |-> entry[c.A].build, buildB |-> entry[c.B].build,
   resultHash |-> RunMatch(release, seed, entry[c.A].build, entry[c.B].build),
   rated |-> FALSE, joinA |-> joins[c.A], joinB |-> joins[c.B]]

(* The INSERT takes effect; its answer is still on the way.  The mutant has*)
(* the rating follow the row at once.                                      *)
AwaitsRating(c, m) ==
  /\ resolving' = (resolving \ {c}) \cup {[c EXCEPT !.row = m]}
  /\ rating' = rating \cup {m}

Awaits(c, m) ==
  /\ resolving' = (resolving \ {c}) \cup {[c EXCEPT !.row = m]}
  /\ UNCHANGED rating

InsertMatch(c) ==
  /\ c.row = 0
  /\ \E m \in MatchIds \ Inserted, seed \in Seeds :
       /\ \A n \in MatchIds : n < m => n \in Inserted
       /\ matches' = [matches EXCEPT ![m] = Row(c, seed)]
       /\ Awaits(c, m)
  /\ UNCHANGED <<release, warbands, history, requests, queue, entry, told>>

(* The match id that is reported; the mutant finds the row by its players. *)
FirstRowOfPair(c) ==
  CHOOSE m \in Inserted : \A n \in Inserted :
    m <= n \/ {matches[n].A, matches[n].B} # {c.A, c.B}

Reported(c) == c.row

(* resolveMatch returned: completePairing, and on to applyMatchRatings.    *)
CompletePairing(c) ==
  /\ c.row # 0
  /\ Queue!Deliver({c.A, c.B})
  /\ resolving' = resolving \ {c}
  /\ told' = [told EXCEPT ![c.A] = Reported(c), ![c.B] = Reported(c)]
  /\ entry' = [entry EXCEPT ![c.A] = NoRow, ![c.B] = NoRow]
  /\ delivered' = delivered \cup {c.row}
  /\ rating' = rating \cup {c.row}
  /\ UNCHANGED <<release, tables, author, joins, requests>>

(* resolveMatch threw: the simulation refuses a build (for an augment it   *)
(* does not know, or a behavior that was trained for another roster), or   *)
(* the INSERT failed, or it took effect and its answer was lost.           *)
(* Each side is put back or evicted (MatchQueue says which).               *)
FailPairing(c, back) ==
  /\ Queue!Undo({c.A, c.B}, back)
  /\ resolving' = resolving \ {c}
  /\ entry' = [u \in Users |->
       IF u \in {c.A, c.B} \ back THEN NoRow ELSE entry[u]]
  /\ UNCHANGED <<release, tables, history, requests, told, rating>>

(* applyMatchRatings, see AtomicRatings: all of it, or none and a line in *)
(* the log; nobody tries again.                                            *)
RatingApplied(m) ==
  /\ matches' = [matches EXCEPT ![m].rated = TRUE]
  /\ rating' = rating \ {m}
  /\ UNCHANGED <<release, warbands, history, requests, queue, entry, told, resolving>>

RatingFailed(m) ==
  /\ rating' = rating \ {m}
  /\ UNCHANGED <<release, tables, history, requests, queue, entry, told, resolving>>

-----------------------------------------------------------------------------
(* The process dies and is started again, perhaps as another release.      *)
Restart(next) ==
  /\ release' = next
  /\ requests' = [s \in Slots |-> NoRow]
  /\ pool' = {} /\ pairs' = {} /\ result' = [u \in Users |-> {}]
  /\ entry' = [u \in Users |-> NoRow]
  /\ told' = [u \in Users |-> 0]
  /\ resolving' = {} /\ rating' = {}
  /\ UNCHANGED <<tables, history>>

EditWarband(u, w) ==
  CreateWarband(u, w) \/ UpdateWarband(u, w) \/ DeleteWarband(u, w)

Next ==
  \/ \E u \in Users, w \in Warbands : EditWarband(u, w)
  \/ \E u \in Users, w \in Warbands, s \in Slots : ReadWarband(u, w, s)
  \/ \E s \in Slots : ReadRating(s) \/ Enqueue(s)
  \/ \E u \in Users : Dequeue(u)
  \/ \E u, v \in Users : Pair(u, v)
  \/ \E c \in resolving : InsertMatch(c) \/ CompletePairing(c)
  \/ \E c \in resolving : \E back \in SUBSET {c.A, c.B} : FailPairing(c, back)
  \/ \E m \in rating : RatingApplied(m) \/ RatingFailed(m)
  \/ \E next \in {release, release + 1} \cap Releases : Restart(next)

Spec == Init /\ [][Next]_vars

-----------------------------------------------------------------------------
(* What the match routes show.                                             *)

(* GET /matches, but for its limit                                         *)
History(u) == {m \in Inserted : u \in {matches[m].A, matches[m].B}}

(* The check before every re-run; the mutant leaves it to the hash.        *)
AnyRelease(row) == TRUE

SameRelease(row) == row.version = release

Rerun(row) == RunMatch(release, row.seed, row.buildA, row.buildB)

NotFound == "404"
Conflict == "409"
Mismatch == "500"

(* GET /matches/:id/replay: what is served                                 *)
Replay(u, m) ==
  CASE m \notin History(u) -> NotFound
    [] m \in History(u) /\ ~SameRelease(matches[m]) -> Conflict
    [] m \in History(u) /\ SameRelease(matches[m]) ->
         IF Rerun(matches[m]) # matches[m].resultHash THEN Mismatch
         ELSE Rerun(matches[m])

(* GET /matches/:id/verify                                                 *)
Verify(u, m) ==
  CASE m \notin History(u) -> NotFound
    [] m \in History(u) /\ ~SameRelease(matches[m]) -> Conflict
    [] m \in History(u) /\ SameRelease(matches[m]) ->
         Rerun(matches[m]) = matches[m].resultHash

-----------------------------------------------------------------------------
(* Safety.                                                                 *)

(* A match of this ruleset is replayed to its participants exactly as it   *)
(* was played and verifies; one of another ruleset is refused before it is *)
(* run, never served wrong and never an internal error.                    *)
ReplayAgrees ==
  \A u \in Users : \A m \in History(u) :
    IF matches[m].version = release
    THEN Replay(u, m) = matches[m].resultHash /\ Verify(u, m)
    ELSE Replay(u, m) = Conflict /\ Verify(u, m) = Conflict

JoinOf(u, m) == IF matches[m].A = u THEN matches[m].joinA ELSE matches[m].joinB

(* A player who is shown a match finds it in the history, against the      *)
(* opponent shown, and played for the latest stay in the queue: no late    *)
(* answer of an earlier pairing, and no row whose INSERT answer was lost,  *)
(* is ever reported in its place.                                          *)
ToldIsOnRecord ==
  \A u \in Users : told[u] # 0 =>
    /\ told[u] \in History(u)
    /\ result[u] = {matches[told[u]].A, matches[told[u]].B}
    /\ JoinOf(u, told[u]) = joins[u]

(* Entering the queue once brings at most one rated match, however often   *)
(* the pairing is retried, its INSERT's answer is lost or the server dies; *)
(* and what is rated was reported to its players first.                    *)
RatedOncePerJoin ==
  LET rated == {m \in Inserted : matches[m].rated} IN
  /\ rated \subseteq delivered
  /\ \A u \in Users : \A m, n \in rated \cap History(u) :
       JoinOf(u, m) = JoinOf(u, n) => m = n

-----------------------------------------------------------------------------
(* What a step may never do.                                               *)

PlaysQueued(u, build) == author[build] = u /\ build <= entry[u].saved

(* A match is played with builds its players saved themselves, before they *)
(* entered the queue: an edit made while they wait, or while the pairing   *)
(* resolves or is retried, is never played.                                *)
PlaysWhatWasQueued ==
  [][\A m \in MatchIds : matches[m] = NoRow /\ matches'[m] # NoRow =>
       /\ PlaysQueued(matches'[m].A, matches'[m].buildA)
       /\ PlaysQueued(matches'[m].B, matches'[m].buildB)]_vars
=============================================================================
