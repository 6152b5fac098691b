------------------------- MODULE RatingTransactions -------------------------
(***************************************************************************)
(* Concurrent calls of applyMatchRatings (packages/server,                 *)
(* src/ratings/service.ts), each one transaction on Postgres at READ       *)
(* COMMITTED, at the grain of the row locks its statements take.           *)
(*                                                                         *)
(* Postgres is external and is modelled by what the code relies on: a row  *)
(* lock is held to the end of its transaction, a waiting statement re-reads*)
(* the row once it has the lock, INSERT ... ON CONFLICT DO NOTHING waits   *)
(* for an uncommitted version of the row but not for a mere lock on it (as *)
(* src/ratings/service.test.ts observes), and a statement over several rows*)
(* takes them one at a time.  A rating is the number of times each match   *)
(* has been counted in it: Glicko's arithmetic plays no part here.         *)
(***************************************************************************)
EXTENDS Integers

CONSTANTS
  Calls,     (* calls of applyMatchRatings                                 *)
  Matches,   (* persisted matches                                          *)
  Users,     (* their players, numbered in the order of their ids          *)
  LastUser,  (* bound on those numbers                                     *)
  MatchOf,   (* the match each call rates                                  *)
  SideA, SideB,
  NoRow,     (* a ratings row that was never written                       *)
  Nobody     (* holder of a free lock                                      *)

Rating == [Matches -> Nat]

ASSUME RatingAssumption ==
  /\ LastUser \in Nat /\ Users \subseteq 0..LastUser
  /\ MatchOf \in [Calls -> Matches]
  /\ SideA \in [Matches -> Users] /\ SideB \in [Matches -> Users]
  /\ \A m \in Matches : SideA[m] # SideB[m]
  /\ NoRow \notin Rating
  /\ Nobody \notin Calls

VARIABLES
  rated,     (* matches whose committed rated_at is not null               *)
  ratings,   (* committed ratings rows                                     *)
  claimer,   (* who holds the lock on a matches row                        *)
  owner,     (* who holds the lock on a ratings row                        *)
  dirty,     (* ratings rows of which an uncommitted version exists        *)
  step,      (* the statement a call has reached                           *)
  todo,      (* the rows that statement has still to take                  *)
  seen,      (* the ratings a call has read                                *)
  outcome    (* what the call returned                                     *)

dbVars == <<rated, ratings>>
lockVars == <<claimer, owner, dirty>>
callVars == <<step, todo, seen, outcome>>
vars == <<dbVars, lockVars, callVars>>

Steps == {"claim", "insert", "select", "update", "commit", "end"}
Outcomes == {"none", "applied", "already-rated", "error"}

(* What an absent row counts as: DEFAULT_RATING and its companions.        *)
DefaultRating == [m \in Matches |-> 0]

Players(m) == {SideA[m], SideB[m]}

PlayersOf(c) == Players(MatchOf[c])

(* The rating a row holds, or the default for want of a row.               *)
Current(u) == IF ratings[u] = NoRow THEN DefaultRating ELSE ratings[u]

TypeOK ==
  /\ rated \in SUBSET Matches
  /\ ratings \in [Users -> Rating \cup {NoRow}]
  /\ claimer \in [Matches -> Calls \cup {Nobody}]
  /\ owner \in [Users -> Calls \cup {Nobody}]
  /\ dirty \in SUBSET Users
  /\ step \in [Calls -> Steps]
  /\ todo \in [Calls -> SUBSET Users]
  /\ seen \in [Calls -> [Users -> Rating]]
  /\ outcome \in [Calls -> Outcomes]

-----------------------------------------------------------------------------
Init ==
  /\ rated = {}
  /\ ratings \in [Users -> {NoRow, DefaultRating}]
  /\ claimer = [m \in Matches |-> Nobody]
  /\ owner = [u \in Users |-> Nobody]
  /\ dirty = {}
  /\ step = [c \in Calls |-> "claim"]
  /\ todo = [c \in Calls |-> {}]
  /\ seen = [c \in Calls |-> [u \in Users |-> DefaultRating]]
  /\ outcome = [c \in Calls |-> "none"]

(* The next statement starts on the rows R.                                *)
Begin(c, s, R) ==
  /\ step' = [step EXCEPT ![c] = s]
  /\ todo' = [todo EXCEPT ![c] = R]

(* The statement goes on, or is over when it has no row left; `s` is next. *)
Advance(c, u, s) ==
  IF todo[c] = {u} THEN Begin(c, s, PlayersOf(c))
                   ELSE Begin(c, step[c], todo[c] \ {u})

Ends(c, result) ==
  /\ Begin(c, "end", {})
  /\ outcome' = [outcome EXCEPT ![c] = result]

(* The transaction's locks go, and with them its uncommitted rows.         *)
Releases(c) ==
  /\ claimer' = [m \in Matches |-> IF claimer[m] = c THEN Nobody ELSE claimer[m]]
  /\ owner' = [u \in Users |-> IF owner[u] = c THEN Nobody ELSE owner[u]]
  /\ dirty' = {u \in dirty : owner[u] # c}

(* The row a statement takes next: orderedIds is ascending, and so is      *)
(* ORDER BY user_id; the mutant takes side A first.                        *)
SideAFirst(c, u) == u \in todo[c] /\ (u = SideA[MatchOf[c]] \/ todo[c] = {u})

IsNext(c, u) == u \in todo[c] /\ \A v \in todo[c] : u <= v

(* The mutant marks the match outside the transaction.                     *)
ClaimAtOnce(c) ==
  LET m == MatchOf[c] IN
  /\ step[c] = "claim"
  /\ claimer[m] = Nobody
  /\ IF m \in rated
       THEN Ends(c, "already-rated") /\ UNCHANGED rated
       ELSE /\ rated' = rated \cup {m}
            /\ Begin(c, "insert", PlayersOf(c))
            /\ UNCHANGED outcome
  /\ UNCHANGED <<ratings, lockVars, seen>>

(* UPDATE matches SET rated_at ... WHERE rated_at IS NULL.                 *)
Claim(c) ==
  LET m == MatchOf[c] IN
  /\ step[c] = "claim"
  /\ claimer[m] = Nobody
  /\ IF m \in rated
       THEN Ends(c, "already-rated") /\ UNCHANGED claimer
       ELSE /\ claimer' = [claimer EXCEPT ![m] = c]
            /\ Begin(c, "insert", PlayersOf(c))
            /\ UNCHANGED outcome
  /\ UNCHANGED <<dbVars, owner, dirty, seen>>

(* INSERT ... ON CONFLICT DO NOTHING, one row of it.                       *)
InsertRow(c, u) ==
  /\ step[c] = "insert" /\ IsNext(c, u)
  /\ u \notin dirty \/ owner[u] = c
  /\ IF ratings[u] = NoRow
       THEN owner' = [owner EXCEPT ![u] = c] /\ dirty' = dirty \cup {u}
       ELSE UNCHANGED <<owner, dirty>>
  /\ Advance(c, u, "select")
  /\ UNCHANGED <<dbVars, claimer, seen, outcome>>

(* SELECT ... ORDER BY user_id FOR UPDATE, one row of it; the mutant reads *)
(* without the lock.                                                       *)
ReadRow(c, u) ==
  /\ step[c] = "select" /\ IsNext(c, u)
  /\ seen' = [seen EXCEPT ![c][u] = Current(u)]
  /\ Advance(c, u, "update")
  /\ UNCHANGED <<dbVars, lockVars, outcome>>

LockRow(c, u) ==
  /\ step[c] = "select" /\ IsNext(c, u)
  /\ owner[u] \in {Nobody, c}
  /\ owner' = [owner EXCEPT ![u] = c]
  /\ seen' = [seen EXCEPT ![c][u] = Current(u)]
  /\ Advance(c, u, "update")
  /\ UNCHANGED <<dbVars, claimer, dirty, outcome>>

(* The two UPDATE statements, side A's first; each takes a row lock.       *)
UpdateRow(c, u) ==
  /\ step[c] = "update" /\ SideAFirst(c, u)
  /\ owner[u] \in {Nobody, c}
  /\ owner' = [owner EXCEPT ![u] = c]
  /\ dirty' = dirty \cup {u}
  /\ Advance(c, u, "commit")
  /\ UNCHANGED <<dbVars, claimer, seen, outcome>>

(* updateGlicko2Period on the rating c has read                            *)
NewRating(c, u) == [seen[c][u] EXCEPT ![MatchOf[c]] = @ + 1]

(* COMMIT: both ratings and rated_at together.  The connection may be lost *)
(* after the server has committed, and the call then fails all the same.   *)
Commit(c) ==
  /\ step[c] = "commit"
  /\ rated' = rated \cup {MatchOf[c]}
  /\ ratings' = [u \in Users |-> IF u \in PlayersOf(c) THEN NewRating(c, u) ELSE ratings[u]]
  /\ Releases(c)
  /\ \E result \in {"applied", "error"} : Ends(c, result)
  /\ UNCHANGED seen

(* A statement fails, or the connection is lost before COMMIT.             *)
Abort(c) ==
  /\ step[c] # "end"
  /\ Releases(c)
  /\ Ends(c, "error")
  /\ UNCHANGED <<dbVars, seen>>

Works(c) ==
  \/ Claim(c)
  \/ \E u \in Users : InsertRow(c, u) \/ LockRow(c, u) \/ UpdateRow(c, u)
  \/ Commit(c)

AllEnded == (\A c \in Calls : step[c] = "end") /\ UNCHANGED vars

Next == (\E c \in Calls : Works(c) \/ Abort(c)) \/ AllEnded

Spec == Init /\ [][Next]_vars

(* Postgres goes on with every statement that is not waiting for a lock.   *)
(* Which waiter gets a freed lock is left open, and no failure is owed.    *)
FairSpec == Spec /\ \A c \in Calls : WF_vars(Works(c))

-----------------------------------------------------------------------------
(* A committed rating counts every rated match of its player once and no   *)
(* other match: no match is counted twice, none is half applied, and no    *)
(* concurrent match of the same player overwrites another.                 *)
RatingsCountRatedMatches ==
  \A u \in Users, m \in Matches :
    Current(u)[m] = IF m \in rated /\ u \in Players(m) THEN 1 ELSE 0

(* From its SELECT ... FOR UPDATE to its COMMIT a call works on the        *)
(* ratings the database holds, both players' at once.                      *)
ReadsStayFresh ==
  \A c \in Calls : step[c] \in {"update", "commit"} =>
    \A u \in PlayersOf(c) : seen[c][u] = Current(u)

(* What a call reports: only one of the calls for a match applies it, and  *)
(* "already-rated" is true.                                                *)
OutcomesAreTrue ==
  /\ \A c \in Calls : outcome[c] \in {"applied", "already-rated"} => MatchOf[c] \in rated
  /\ \A c, d \in Calls :
       outcome[c] = "applied" /\ outcome[d] = "applied" /\ MatchOf[c] = MatchOf[d] => c = d

(* c's next statement cannot go on before d's transaction ends.            *)
WaitsFor(c, d) ==
  /\ c # d
  /\ \/ step[c] = "claim" /\ claimer[MatchOf[c]] = d
     \/ \E u \in Users :
          /\ owner[u] = d
          /\ \/ step[c] = "insert" /\ IsNext(c, u) /\ u \in dirty
             \/ step[c] = "select" /\ IsNext(c, u)
             \/ step[c] = "update" /\ SideAFirst(c, u)

(* "Deadlock-safe": no set of calls wait for each other, whichever order   *)
(* the players of shared matches come in and whichever rows are missing.   *)
NoDeadlock ==
  \A S \in (SUBSET Calls) \ {{}} : \E c \in S : \A d \in S : ~WaitsFor(c, d)

(* A match once rated stays rated, with its effect on both ratings.        *)
RatingIsFinal ==
  [][\A m \in rated : m \in rated' /\
       \A u \in Players(m) : Current(u)'[m] = Current(u)[m]]_vars

(* The transactions, statement by statement and lock by lock, are the one- *)
(* step calls of AtomicRatings: a call takes effect where it commits, finds*)
(* its match rated or fails, and there on what the database then holds.    *)
Atomic == INSTANCE AtomicRatings

ImplementsAtomicRatings == Atomic!Spec

(* Every call returns.                                                     *)
CallsEnd == \A c \in Calls : <>(step[c] = "end")
=============================================================================
