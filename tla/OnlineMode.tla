----------------------------- MODULE OnlineMode -----------------------------
(***************************************************************************)
(* The online panel of the web client (packages/web: OnlineMode.tsx with   *)
(* online-flow.ts and api-client.ts) against a server reached over a       *)
(* network that delays, reorders and loses.                                *)
(*                                                                         *)
(* An operation is one async handler of the panel between its first await  *)
(* and its continuation.  A handler notes pollGenerationRef before it      *)
(* awaits and compares it afterwards; all that the comparison can tell is  *)
(* kept as `live`: clearPoll(), which bumps the counter, makes every       *)
(* operation in flight stale.                                              *)
(*                                                                         *)
(* Of the server the module keeps the browser's session, see auth/routes.ts*)
(* and where each user stands in the queue, as module MatchQueue lets it   *)
(* change.  Warbands and error texts are left out.                         *)
(***************************************************************************)
EXTENDS Integers, FiniteSets

CONSTANTS
  Users,      (* accounts that log in from this browser                    *)
  MaxLogins,  (* bound: sessions the server issues to it                   *)
  MaxClicks,  (* bound: buttons pressed, tab changes included              *)
  MaxOps,     (* bound: operations in flight at once                       *)
  Nobody,     (* not signed in                                             *)
  NoOp        (* a free slot                                               *)

Kinds == {"resume", "login", "logout", "join", "leave", "poll"}

(* The network steps of an operation: a mutation first fetches a CSRF      *)
(* token, then sends its request, then waits for the answer.               *)
Stages == {"csrf", "sent", "answered"}

Standings == {"idle", "waiting", "resolving", "matched"}
Panels == {"idle", "waiting", "matched", "error"}
Answers == {"none", "ok", "failed", "idle", "waiting", "matched",
            "already queued", "resolving"}

Sessions == 0..MaxLogins
Slots == 1..MaxOps

Op == [kind : Kinds, stage : Stages, live : BOOLEAN, mounted : BOOLEAN,
       session : Sessions, who : Users \cup {Nobody}, answer : Answers]

ASSUME OnlineAssumption ==
  /\ Nobody \notin Users /\ NoOp \notin Op
  /\ MaxClicks \in Nat /\ {MaxLogins, MaxOps} \subseteq Nat \ {0}

VARIABLES
  mounted,     (* App shows the online tab                                 *)
  user,        (* the account the panel says is signed in                  *)
  panel,       (* queueState.status                                        *)
  timer,       (* pollTimeoutRef holds an armed timeout                    *)
  ops,         (* operations in flight                                     *)
  cookie,      (* the session the browser's cookie names, 0 for none       *)
  owner,       (* server: the account of each session, Nobody once it ends *)
  issued,      (* server: sessions issued so far                           *)
  standing,    (* server: where each user is in the queue                  *)
  clicks,      (* buttons pressed so far                                   *)
  loggedOut    (* history: Log out has been pressed on this panel          *)

client == <<mounted, user, panel, timer, loggedOut>>
server == <<owner, issued, standing>>
vars == <<client, server, ops, cookie, clicks>>

-----------------------------------------------------------------------------
(* clearPoll() and schedulePoll(), with what they make of the operations.  *)

Stale(os) ==
  [s \in Slots |-> IF os[s] = NoOp THEN NoOp ELSE [os[s] EXCEPT !.live = FALSE]]

ClearPoll(os) == timer' = FALSE /\ ops' = Stale(os)

SchedulePoll(os) == timer' = TRUE /\ ops' = Stale(os)

(* interpretQueueStatus and interpretEnqueueResult.  A match that was      *)
(* resolved under another ruleset version is refused.                      *)
Interpreted(answer) ==
  CASE answer \in {"idle", "waiting"} -> {answer}
    [] answer = "already queued" -> {"waiting"}
    [] answer = "matched" -> {"matched", "error"}
    [] OTHER -> {"error"}

(* applyQueueAction; the mutant arms no poll.                              *)
ApplyUnarmed(answer, os) ==
  /\ panel' \in Interpreted(answer)
  /\ ClearPoll(os)

ApplyQueueAction(answer, os) ==
  /\ panel' \in Interpreted(answer)
  /\ IF panel' = "waiting" THEN SchedulePoll(os) ELSE ClearPoll(os)

-----------------------------------------------------------------------------
(* Buttons.                                                                *)

Free == {s \in Slots : ops[s] = NoOp}

(* The operations with a new one among them.  A query goes out at once.    *)
Started(kind, who, os) ==
  LET slot == CHOOSE s \in Free : \A t \in Free : s <= t IN
  [os EXCEPT ![slot] =
     [kind |-> kind, stage |-> IF kind \in {"resume", "poll"} THEN "sent" ELSE "csrf",
      live |-> TRUE, mounted |-> TRUE, session |-> cookie, who |-> who,
      answer |-> "none"]]

Click == clicks < MaxClicks /\ clicks' = clicks + 1

(* Log in, or register: both end in a fresh session.                       *)
HandleLogin(u) ==
  /\ mounted /\ user = Nobody /\ Free # {} /\ Click
  /\ ops' = Started("login", u, ops)
  /\ UNCHANGED <<client, server, cookie>>

HandleLogout ==
  /\ mounted /\ user # Nobody /\ panel # "matched" /\ Free # {} /\ Click
  /\ timer' = FALSE
  /\ ops' = Started("logout", user, Stale(ops))
  /\ loggedOut' = TRUE
  /\ UNCHANGED <<mounted, user, panel, server, cookie>>

HandleJoin ==
  /\ mounted /\ user # Nobody /\ panel \in {"idle", "error"} /\ Free # {} /\ Click
  /\ ops' = Started("join", user, ops)
  /\ UNCHANGED <<client, server, cookie>>

HandleLeave ==
  /\ mounted /\ user # Nobody /\ panel = "waiting" /\ Free # {} /\ Click
  /\ timer' = FALSE
  /\ ops' = Started("leave", user, Stale(ops))
  /\ UNCHANGED <<mounted, user, panel, loggedOut, server, cookie>>

HandleDismissMatch ==
  /\ mounted /\ panel = "matched" /\ Click
  /\ panel' = "idle"
  /\ ClearPoll(ops)
  /\ UNCHANGED <<mounted, user, loggedOut, server, cookie>>

(* App shows the other tab: the effect's cleanup clears the poll, and the  *)
(* component that operations in flight belong to is gone.                  *)
Gone(os) ==
  [s \in Slots |-> IF os[s] = NoOp THEN NoOp
                   ELSE [os[s] EXCEPT !.live = FALSE, !.mounted = FALSE]]

Unmount ==
  /\ mounted /\ Click
  /\ mounted' = FALSE /\ timer' = FALSE /\ ops' = Gone(ops)
  /\ user' = Nobody /\ panel' = "idle"
  /\ UNCHANGED <<loggedOut, server, cookie>>

(* A new panel starts by asking who is signed in.                          *)
Mount ==
  /\ ~mounted /\ Free # {} /\ Click
  /\ mounted' = TRUE /\ loggedOut' = FALSE
  /\ ops' = Started("resume", Nobody, ops)
  /\ UNCHANGED <<user, panel, timer, server, cookie>>

TimerFires ==
  /\ timer /\ Free # {}
  /\ timer' = FALSE
  /\ ops' = Started("poll", Nobody, ops)
  /\ UNCHANGED <<mounted, user, panel, loggedOut, server, cookie, clicks>>

-----------------------------------------------------------------------------
(* The network and the server.                                             *)

(* The CSRF token has come: the request leaves with the cookie of now.     *)
Proceed(s) ==
  /\ ops[s] # NoOp /\ ops[s].stage = "csrf"
  /\ ops' = [ops EXCEPT ![s].stage = "sent", ![s].session = cookie]
  /\ UNCHANGED <<client, server, cookie, clicks>>

(* The server has heard nothing, or the answer is lost, or it is an error  *)
(* (a token of another session, too many requests): `failed`.              *)
Fail(s) ==
  /\ ops[s] # NoOp /\ ops[s].answer # "failed"
  /\ ops' = [ops EXCEPT ![s].stage = "answered", ![s].answer = "failed"]
  /\ UNCHANGED <<client, server, cookie, clicks>>

Answered(s, answer) ==
  ops' = [ops EXCEPT ![s].stage = "answered", ![s].answer = answer]

(* POST /auth/login and /auth/register: a new session in place of the old. *)
ServeLogin(s) ==
  /\ issued < MaxLogins
  /\ issued' = issued + 1
  /\ owner' = [owner EXCEPT ![ops[s].session] = Nobody, ![issued + 1] = ops[s].who]
  /\ ops' = [ops EXCEPT ![s].stage = "answered", ![s].answer = "ok",
                        ![s].session = issued + 1]
  /\ UNCHANGED standing

ServeLogout(s) ==
  /\ owner' = [owner EXCEPT ![ops[s].session] = Nobody]
  /\ Answered(s, "ok")
  /\ UNCHANGED <<issued, standing>>

(* GET /auth/me                                                            *)
ServeResume(s, u) ==
  /\ ops' = [ops EXCEPT ![s].stage = "answered", ![s].answer = "ok", ![s].who = u]
  /\ UNCHANGED server

(* POST /queue: QueueService.enqueue                                       *)
ServeJoin(s, u) ==
  /\ IF standing[u] \in {"waiting", "resolving"}
     THEN Answered(s, "already queued") /\ UNCHANGED standing
     ELSE Answered(s, "waiting") /\ standing' = [standing EXCEPT ![u] = "waiting"]
  /\ UNCHANGED <<owner, issued>>

(* DELETE /queue: QueueService.dequeue                                     *)
ServeLeave(s, u) ==
  /\ CASE standing[u] = "waiting" ->
            Answered(s, "ok") /\ standing' = [standing EXCEPT ![u] = "idle"]
       [] standing[u] = "resolving" ->
            Answered(s, "resolving") /\ UNCHANGED standing
       [] OTHER -> Answered(s, "failed") /\ UNCHANGED standing
  /\ UNCHANGED <<owner, issued>>

(* GET /queue: QueueService.getStatus                                      *)
ServePoll(s, u) ==
  /\ Answered(s, IF standing[u] = "resolving" THEN "waiting" ELSE standing[u])
  /\ UNCHANGED server

(* The onRequest hooks: without a session, no answer but an error (Fail).  *)
Serve(s) ==
  /\ ops[s] # NoOp /\ ops[s].stage = "sent"
  /\ LET u == owner[ops[s].session] IN
       \/ ops[s].kind = "login" /\ ServeLogin(s)
       \/ ops[s].kind = "logout" /\ ServeLogout(s)
       \/ /\ u # Nobody
          /\ \/ ops[s].kind = "resume" /\ ServeResume(s, u)
             \/ ops[s].kind = "join" /\ ServeJoin(s, u)
             \/ ops[s].kind = "leave" /\ ServeLeave(s, u)
             \/ ops[s].kind = "poll" /\ ServePoll(s, u)
  /\ UNCHANGED <<client, cookie, clicks>>

Moves(u, from, to) ==
  /\ standing[u] = from
  /\ standing' = [standing EXCEPT ![u] = to]
  /\ UNCHANGED <<client, owner, issued, ops, cookie, clicks>>

(* A pass pairs u; the match is delivered; or its resolution fails and u is*)
(* restored to the pool or evicted.                                        *)
Paired(u) == Moves(u, "waiting", "resolving")
Delivered(u) == Moves(u, "resolving", "matched")
Restored(u) == Moves(u, "resolving", "waiting")
Evicted(u) == Moves(u, "resolving", "idle")

-----------------------------------------------------------------------------
(* Continuations, each with the slot of its operation freed.               *)

Done(s) == [ops EXCEPT ![s] = NoOp]

Ignored(s) == ops' = Done(s) /\ UNCHANGED <<client, cookie>>

(* The browser has stored the cookie before the handler goes on.           *)
LoginAnswered(s) ==
  /\ cookie' = IF ops[s].answer = "ok" THEN ops[s].session ELSE cookie
  /\ user' = IF ops[s].mounted /\ ops[s].answer = "ok" THEN ops[s].who ELSE user
  /\ ops' = Done(s)
  /\ UNCHANGED <<mounted, panel, timer, loggedOut>>

ResumeAnswered(s) ==
  /\ user' = IF ops[s].mounted /\ ops[s].answer = "ok" THEN ops[s].who ELSE user
  /\ ops' = Done(s)
  /\ UNCHANGED <<mounted, panel, timer, loggedOut, cookie>>

(* Whatever the answer, the panel is signed out.                           *)
LogoutAnswered(s) ==
  /\ cookie' = IF ops[s].answer = "ok" THEN 0 ELSE cookie
  /\ user' = IF ops[s].mounted THEN Nobody ELSE user
  /\ panel' = IF ops[s].mounted THEN "idle" ELSE panel
  /\ ops' = Done(s)
  /\ UNCHANGED <<mounted, timer, loggedOut>>

(* The answer of a poll or a join counts only while nothing has cleared the*)
(* poll since; the mutant lets it count in any case.                       *)
AlwaysAnswered(s) ==
  /\ ApplyQueueAction(ops[s].answer, Done(s))
  /\ UNCHANGED <<mounted, user, loggedOut, cookie>>

QueueAnswered(s) ==
  IF ops[s].live
  THEN /\ ApplyQueueAction(ops[s].answer, Done(s))
       /\ UNCHANGED <<mounted, user, loggedOut, cookie>>
  ELSE Ignored(s)

(* handleLeave: out of the queue; or still resolving; or an error, after   *)
(* which a poll finds out.  The mutant leaves it at the error.             *)
LeaveAnsweredOnce(s) ==
  IF ops[s].live
  THEN /\ CASE ops[s].answer = "ok" -> panel' = "idle" /\ timer' = timer /\ ops' = Done(s)
            [] ops[s].answer = "resolving" -> panel' = "waiting" /\ SchedulePoll(Done(s))
            [] OTHER -> panel' = panel /\ timer' = timer /\ ops' = Done(s)
       /\ UNCHANGED <<mounted, user, loggedOut, cookie>>
  ELSE Ignored(s)

LeaveAnswered(s) ==
  IF ops[s].live
  THEN /\ CASE ops[s].answer = "ok" -> panel' = "idle" /\ timer' = timer /\ ops' = Done(s)
            [] ops[s].answer = "resolving" -> panel' = "waiting" /\ SchedulePoll(Done(s))
            [] OTHER -> panel' = panel /\ SchedulePoll(Done(s))
       /\ UNCHANGED <<mounted, user, loggedOut, cookie>>
  ELSE Ignored(s)

Continue(s) ==
  /\ ops[s] # NoOp /\ ops[s].stage = "answered"
  /\ \/ ops[s].kind = "login" /\ LoginAnswered(s)
     \/ ops[s].kind = "resume" /\ ResumeAnswered(s)
     \/ ops[s].kind = "logout" /\ LogoutAnswered(s)
     \/ ops[s].kind \in {"join", "poll"} /\ QueueAnswered(s)
     \/ ops[s].kind = "leave" /\ LeaveAnswered(s)
  /\ UNCHANGED <<server, clicks>>

-----------------------------------------------------------------------------
(* A first visit, or a reload with a session still open: both mount.       *)
Init ==
  /\ mounted = FALSE /\ user = Nobody /\ panel = "idle" /\ timer = FALSE
  /\ ops = [s \in Slots |-> NoOp]
  /\ \E u \in Users \cup {Nobody} :
       /\ owner = [i \in Sessions |-> IF i = 1 THEN u ELSE Nobody]
       /\ issued = (IF u = Nobody THEN 0 ELSE 1)
       /\ cookie = (IF u = Nobody THEN 0 ELSE 1)
  /\ standing = [u \in Users |-> "idle"]
  /\ clicks = 0 /\ loggedOut = FALSE

Buttons ==
  \/ \E u \in Users : HandleLogin(u)
  \/ HandleLogout \/ HandleJoin \/ HandleLeave \/ HandleDismissMatch
  \/ Mount \/ Unmount

Network(s) == Proceed(s) \/ Serve(s) \/ Continue(s)

Queue(u) == Paired(u) \/ Delivered(u) \/ Restored(u) \/ Evicted(u)

Next ==
  \/ Buttons \/ TimerFires
  \/ \E s \in Slots : Network(s) \/ Fail(s)
  \/ \E u \in Users : Queue(u)

Spec == Init /\ [][Next]_vars

(* Timers fire and requests come back, with an answer or with an error.    *)
FairSpec ==
  /\ Spec
  /\ WF_vars(TimerFires)
  /\ \A s \in Slots : WF_vars(Network(s) \/ Fail(s))

-----------------------------------------------------------------------------
TypeOK ==
  /\ mounted \in BOOLEAN /\ timer \in BOOLEAN /\ loggedOut \in BOOLEAN
  /\ user \in Users \cup {Nobody}
  /\ panel \in Panels
  /\ ops \in [Slots -> Op \cup {NoOp}]
  /\ cookie \in Sessions /\ issued \in Sessions
  /\ owner \in [Sessions -> Users \cup {Nobody}]
  /\ standing \in [Users -> Standings]
  /\ clicks \in 0..MaxClicks

Pending(kinds) ==
  \E s \in Slots : ops[s] # NoOp /\ ops[s].kind \in kinds /\ ops[s].live

LoggingOut == \E s \in Slots : ops[s] # NoOp /\ ops[s].kind = "logout" /\ ops[s].mounted

(* A panel that shows "waiting" is never stranded: a poll is armed, or one *)
(* or a Leave is under way whose answer will be heard, or a Log out is.    *)
NotStranded ==
  mounted /\ panel = "waiting" =>
    timer \/ Pending({"poll", "leave"}) \/ LoggingOut

(* Once the panel has left the queue, only the answer to a Join brings it  *)
(* back to waiting: no poll, join or leave of before does, however late its*)
(* answer comes.  (Not so once Log out has been pressed: a Join or a Leave *)
(* pressed while the logout is under way carries the new generation and    *)
(* arms a poll that the logout's continuation does not clear.)             *)
LeaveIsFinal ==
  [][~loggedOut /\ panel \in {"idle", "error"} /\ panel' = "waiting" =>
       (\E s \in Slots : /\ ops[s] # NoOp /\ ops'[s] = NoOp
                         /\ ops[s].kind = "join" /\ ops[s].live)]_vars

(* A player whose match is ready does not wait for it for ever: the panel  *)
(* shows the match, or that something failed, or is signed out or left,    *)
(* unless a Join that comes late queues the player anew or the browser is  *)
(* given another session.                                                  *)
WaitingIsAnswered ==
  \A u \in Users :
    panel = "waiting" /\ owner[cookie] = u /\ standing[u] = "matched"
      ~> panel # "waiting" \/ standing[u] # "matched" \/ owner[cookie] # u
=============================================================================
