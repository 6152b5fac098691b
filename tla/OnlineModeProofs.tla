--------------------------- MODULE OnlineModeProofs ---------------------------
(***************************************************************************)
(* Proofs about OnlineMode, for any accounts and any number of logins,     *)
(* presses and operations in flight.                                       *)
(***************************************************************************)
EXTENDS OnlineMode, WellFoundedInduction, TLAPS

Operations == [Slots -> Op \cup {NoOp}]

(* Of the operations os: those of which an answer keeps the panel waiting  *)
(* or makes it wait, the logouts of this panel, and all that are this      *)
(* panel's.                                                                *)
Heard(os) == {s \in Slots : os[s] # NoOp /\ os[s].kind \in {"poll", "leave"} /\ os[s].live}
Logouts(os) == {s \in Slots : os[s] # NoOp /\ os[s].kind = "logout" /\ os[s].mounted}
Own(os) == {s \in Slots : os[s] # NoOp /\ (os[s].live \/ os[s].mounted)}

(* A panel that is gone has left nothing behind that could touch it.       *)
NothingLeft == ~mounted => panel = "idle" /\ ~timer /\ Own(ops) = {}

(* A panel whose logout is under way knows that Log out has been pressed.  *)
LogoutsKnown == Logouts(ops) # {} => loggedOut

(* Until Log out is pressed there is at most one armed timer, poll or Leave*)
(* to be heard, and none for a panel that does not wait.                   *)
OnePoll ==
  ~loggedOut =>
    /\ \A s, t \in Heard(ops) : s = t
    /\ timer => Heard(ops) = {}
    /\ panel \in {"idle", "error"} => ~timer /\ Heard(ops) = {}

(* A waiting panel will hear of the queue, in the words of this module.    *)
Awaits ==
  mounted /\ panel = "waiting" => timer \/ Heard(ops) # {} \/ Logouts(ops) # {}

PanelInv == TypeOK /\ NothingLeft /\ LogoutsKnown /\ OnePoll /\ Awaits

LEMMA AwaitsIsNotStranded == Awaits => NotStranded
BY DEF Awaits, NotStranded, Heard, Logouts, Pending, LoggingOut

-----------------------------------------------------------------------------
(* What the helpers make of the operations.                                *)

LEMMA OpIsNotFree == NoOp \notin Op /\ Nobody \notin Users
BY OnlineAssumption DEF OnlineAssumption

LEMMA Bounds == MaxLogins \in Nat \ {0} /\ MaxOps \in Nat \ {0} /\ MaxClicks \in Nat
BY OnlineAssumption DEF OnlineAssumption

LEMMA StaleOps ==
  ASSUME NEW os \in Operations
  PROVE  /\ Stale(os) \in Operations
         /\ Heard(Stale(os)) = {} /\ Logouts(Stale(os)) = Logouts(os)
         /\ Own(Stale(os)) \subseteq Own(os)
         /\ \A s \in Slots : Stale(os)[s] = NoOp <=> os[s] = NoOp
<1>1. ASSUME NEW s \in Slots, os[s] # NoOp
      PROVE  /\ Stale(os)[s] \in Op /\ Stale(os)[s] # NoOp
             /\ Stale(os)[s].live = FALSE /\ Stale(os)[s].kind = os[s].kind
             /\ Stale(os)[s].mounted = os[s].mounted
  <2>1. os[s] \in Op /\ Stale(os)[s] = [os[s] EXCEPT !.live = FALSE]
    BY <1>1 DEF Stale, Operations
  <2>2. Stale(os)[s] \in Op
    BY <2>1 DEF Op
  <2> QED BY <2>1, <2>2, OpIsNotFree DEF Op
<1>2. ASSUME NEW s \in Slots, os[s] = NoOp PROVE Stale(os)[s] = NoOp
  BY <1>2 DEF Stale
<1>3. Stale(os) \in Operations
  <2>1. \A s \in Slots : Stale(os)[s] \in Op \cup {NoOp}
    BY <1>1, <1>2
  <2>2. Stale(os) = [s \in Slots |-> Stale(os)[s]]
    BY DEF Stale
  <2> HIDE DEF Operations
  <2> QED BY <2>1, <2>2 DEF Operations
<1> QED BY <1>1, <1>2, <1>3 DEF Heard, Logouts, Own

LEMMA GoneOps ==
  ASSUME NEW os \in Operations
  PROVE  Gone(os) \in Operations /\ Own(Gone(os)) = {} /\ Logouts(Gone(os)) = {}
         /\ Heard(Gone(os)) = {}
<1>1. ASSUME NEW s \in Slots, os[s] # NoOp
      PROVE  /\ Gone(os)[s] \in Op
             /\ Gone(os)[s].live = FALSE /\ Gone(os)[s].mounted = FALSE
  <2>1. os[s] \in Op /\ Gone(os)[s] = [os[s] EXCEPT !.live = FALSE, !.mounted = FALSE]
    BY <1>1 DEF Gone, Operations
  <2> QED BY <2>1 DEF Op
<1>2. ASSUME NEW s \in Slots, os[s] = NoOp PROVE Gone(os)[s] = NoOp
  BY <1>2 DEF Gone
<1>3. Gone(os) \in Operations
  <2>1. \A s \in Slots : Gone(os)[s] \in Op \cup {NoOp}
    BY <1>1, <1>2
  <2>2. Gone(os) = [s \in Slots |-> Gone(os)[s]]
    BY DEF Gone
  <2> QED BY <2>1, <2>2 DEF Operations
<1> QED BY <1>1, <1>2, <1>3 DEF Heard, Logouts, Own

LEMMA DoneOps ==
  ASSUME NEW os \in Operations, NEW s \in Slots, ops = os
  PROVE  /\ Done(s) \in Operations
         /\ Heard(Done(s)) = Heard(os) \ {s} /\ Logouts(Done(s)) = Logouts(os) \ {s}
         /\ Own(Done(s)) = Own(os) \ {s} /\ Done(s)[s] = NoOp
BY DEF Done, Operations, Heard, Logouts, Own

(* An operation that goes on in its slot is still what it was.             *)
LEMMA SameOps ==
  ASSUME NEW os \in Operations, NEW s \in Slots, os[s] # NoOp, NEW o \in Op,
         o.kind = os[s].kind, o.live = os[s].live, o.mounted = os[s].mounted,
         NEW new, new = [os EXCEPT ![s] = o]
  PROVE  /\ new \in Operations /\ Heard(new) = Heard(os)
         /\ Logouts(new) = Logouts(os) /\ Own(new) = Own(os)
<1>1. new[s] = o /\ o # NoOp /\ \A t \in Slots \ {s} : new[t] = os[t]
  BY OpIsNotFree DEF Operations
<1>2. new \in Operations
  BY DEF Operations
<1>3. Heard(new) = Heard(os) /\ Logouts(new) = Logouts(os) /\ Own(new) = Own(os)
  BY <1>1 DEF Heard, Logouts, Own
<1> QED BY <1>2, <1>3

(* There is a least free slot, and the new operation takes it.             *)
LEMMA LeastFree ==
  ASSUME Free # {}
  PROVE  (CHOOSE s \in Free : \A t \in Free : s <= t) \in Free
<1>1. Free \subseteq Nat
  BY Bounds DEF Free, Slots
<1>2. PICK x \in Free : \A y \in Free : ~ (<<y, x>> \in OpToRel(<, Nat))
  BY <1>1, WFMin, NatLessThanWellFounded
<1>3. ASSUME NEW y \in Free PROVE x <= y
  <2>1. x \in Nat /\ y \in Nat
    BY <1>1
  <2>2. <<y, x>> \notin OpToRel(<, Nat)
    BY <1>2
  <2>3. ~ (y < x)
    BY <2>1, <2>2 DEF OpToRel
  <2> QED BY <2>1, <2>3
<1> QED BY <1>3

LEMMA StartedOps ==
  ASSUME TypeOK, Free # {}, NEW os \in Operations,
         \A s \in Slots : os[s] = NoOp <=> ops[s] = NoOp,
         NEW kind \in Kinds, NEW who \in Users \cup {Nobody}
  PROVE  \E slot \in Slots :
           LET new == Started(kind, who, os) IN
           /\ new \in Operations /\ slot \notin Own(os)
           /\ Heard(new) = IF kind \in {"poll", "leave"} THEN Heard(os) \cup {slot} ELSE Heard(os)
           /\ Logouts(new) = IF kind = "logout" THEN Logouts(os) \cup {slot} ELSE Logouts(os)
<1> DEFINE slot == CHOOSE s \in Free : \A t \in Free : s <= t
           o == [kind |-> kind, stage |-> IF kind \in {"resume", "poll"} THEN "sent" ELSE "csrf",
                 live |-> TRUE, mounted |-> TRUE, session |-> cookie, who |-> who,
                 answer |-> "none"]
           new == Started(kind, who, os)
<1>1. slot \in Free
  BY LeastFree
<1>2. slot \in Slots /\ os[slot] = NoOp
  BY <1>1 DEF Free
<1>3. new = [os EXCEPT ![slot] = o]
  BY DEF Started
<1>4. o \in Op
  BY DEF Op, TypeOK, Stages, Answers
<1> HIDE DEF slot
<1>5. /\ new[slot] = o /\ o # NoOp /\ new \in Operations
      /\ \A t \in Slots \ {slot} : new[t] = os[t]
  BY <1>2, <1>3, <1>4, OpIsNotFree DEF Operations
<1>6. o.kind = kind /\ o.live = TRUE /\ o.mounted = TRUE
  OBVIOUS
<1> HIDE DEF o, new
<1>7. /\ slot \notin Own(os)
      /\ Heard(new) = IF kind \in {"poll", "leave"} THEN Heard(os) \cup {slot} ELSE Heard(os)
      /\ Logouts(new) = IF kind = "logout" THEN Logouts(os) \cup {slot} ELSE Logouts(os)
  BY <1>2, <1>5, <1>6 DEF Heard, Logouts, Own
<1> QED BY <1>2, <1>5, <1>7 DEF new

-----------------------------------------------------------------------------
(* The steps.                                                              *)

(* What is left of TypeOK when the operations are known to be well formed. *)
Rest ==
  /\ mounted \in BOOLEAN /\ timer \in BOOLEAN /\ loggedOut \in BOOLEAN
  /\ user \in Users \cup {Nobody}
  /\ panel \in Panels
  /\ cookie \in Sessions /\ issued \in Sessions
  /\ owner \in [Sessions -> Users \cup {Nobody}]
  /\ standing \in [Users -> Standings]
  /\ clicks \in 0..MaxClicks

LEMMA TypeParts == TypeOK <=> Rest /\ ops \in Operations
BY DEF TypeOK, Rest, Operations

LEMMA TypeNext == Rest' /\ ops' \in Operations => TypeOK'
BY DEF TypeOK, Rest, Operations

Steady == UNCHANGED <<mounted, user, panel, timer, loggedOut>>

LEMMA ClickCounts == TypeOK /\ Click => clicks' \in 0..MaxClicks
BY Bounds DEF TypeOK, Click

(* A step that starts an operation no answer of which the panel waits for. *)
LEMMA StartIdle ==
  ASSUME PanelInv, Rest', Steady, mounted, Free # {},
         NEW kind \in {"resume", "login", "join"}, NEW who \in Users \cup {Nobody},
         ops' = Started(kind, who, ops)
  PROVE  PanelInv'
<1>1. ops \in Operations /\ kind \in Kinds
  BY TypeParts DEF PanelInv, Kinds
<1>2. ops' \in Operations /\ Heard(ops') = Heard(ops) /\ Logouts(ops') = Logouts(ops)
  BY <1>1, StartedOps DEF PanelInv
<1>3. TypeOK'
  BY <1>2, TypeNext
<1> QED BY <1>2, <1>3 DEF PanelInv, Steady, NothingLeft, LogoutsKnown, OnePoll, Awaits

LEMMA ButtonStep == PanelInv /\ Buttons => PanelInv'
<1> SUFFICES ASSUME PanelInv, Buttons PROVE PanelInv'
  OBVIOUS
<1>0. Rest /\ ops \in Operations /\ TypeOK
  BY TypeParts DEF PanelInv
<1>1. clicks' \in 0..MaxClicks /\ UNCHANGED <<server, cookie>>
  BY <1>0, ClickCounts DEF Buttons, HandleLogin, HandleLogout, HandleJoin, HandleLeave,
     HandleDismissMatch, Mount, Unmount
<1>2. ASSUME NEW u \in Users, HandleLogin(u) PROVE PanelInv'
  <2>1. Steady /\ mounted /\ Free # {} /\ ops' = Started("login", u, ops)
    BY <1>2 DEF HandleLogin, client, Steady
  <2>2. Rest'
    BY <1>0, <1>1, <2>1 DEF Rest, Steady, server
  <2> QED BY <2>1, <2>2, StartIdle
<1>3. CASE HandleJoin
  <2>1. Steady /\ mounted /\ Free # {} /\ ops' = Started("join", user, ops)
    BY <1>3 DEF HandleJoin, client, Steady
  <2>2. Rest'
    BY <1>0, <1>1, <2>1 DEF Rest, Steady, server
  <2> QED BY <1>0, <2>1, <2>2, StartIdle DEF Rest
<1>4. CASE HandleLogout
  <2>1. /\ mounted /\ Free # {} /\ timer' = FALSE /\ loggedOut' = TRUE
        /\ ops' = Started("logout", user, Stale(ops))
        /\ UNCHANGED <<mounted, user, panel>>
    BY <1>4 DEF HandleLogout
  <2>2. Rest'
    BY <1>0, <1>1, <2>1 DEF Rest, server
  <2>3. /\ Stale(ops) \in Operations
        /\ \A s \in Slots : Stale(ops)[s] = NoOp <=> ops[s] = NoOp
    BY <1>0, StaleOps
  <2>4. PICK slot \in Slots :
          ops' \in Operations /\ Logouts(ops') = Logouts(Stale(ops)) \cup {slot}
    <3> DEFINE from == Stale(ops)
    <3>1. /\ from \in Operations /\ Free # {} /\ ops' = Started("logout", user, from)
          /\ \A s \in Slots : from[s] = NoOp <=> ops[s] = NoOp
      BY <2>1, <2>3
    <3>2. "logout" \in Kinds /\ user \in Users \cup {Nobody} /\ "logout" \notin {"poll", "leave"}
      BY <1>0 DEF Rest, Kinds
    <3> HIDE DEF from
    <3>3. \E slot \in Slots :
            ops' \in Operations /\ Logouts(ops') = Logouts(from) \cup {slot}
      BY <1>0, <3>1, <3>2, StartedOps
    <3> QED BY <3>3 DEF from
  <2>5. TypeOK'
    BY <2>2, <2>4, TypeNext
  <2> QED BY <2>1, <2>4, <2>5 DEF PanelInv, NothingLeft, LogoutsKnown, OnePoll, Awaits
<1>5. CASE HandleLeave
  <2>1. /\ mounted /\ panel = "waiting" /\ Free # {} /\ timer' = FALSE
        /\ ops' = Started("leave", user, Stale(ops))
        /\ UNCHANGED <<mounted, user, panel, loggedOut>>
    BY <1>5 DEF HandleLeave
  <2>2. Rest'
    BY <1>0, <1>1, <2>1 DEF Rest, server
  <2>3. /\ Stale(ops) \in Operations
        /\ Heard(Stale(ops)) = {} /\ Logouts(Stale(ops)) = Logouts(ops)
        /\ \A s \in Slots : Stale(ops)[s] = NoOp <=> ops[s] = NoOp
    BY <1>0, StaleOps
  <2>4. PICK slot \in Slots :
          /\ ops' \in Operations /\ Heard(ops') = {slot}
          /\ Logouts(ops') = Logouts(ops)
    BY <1>0, <2>1, <2>3, StartedOps DEF Rest, Kinds
  <2>5. TypeOK'
    BY <2>2, <2>4, TypeNext
  <2> QED BY <2>1, <2>4, <2>5 DEF PanelInv, NothingLeft, LogoutsKnown, OnePoll, Awaits
<1>6. CASE HandleDismissMatch
  <2>1. /\ mounted /\ timer' = FALSE /\ ops' = Stale(ops) /\ panel' = "idle"
        /\ UNCHANGED <<mounted, user, loggedOut>>
    BY <1>6 DEF HandleDismissMatch, ClearPoll
  <2>2. Rest'
    BY <1>0, <1>1, <2>1 DEF Rest, server, Panels
  <2>3. ops' \in Operations /\ Heard(ops') = {} /\ Logouts(ops') = Logouts(ops)
    BY <1>0, <2>1, StaleOps
  <2>4. TypeOK'
    BY <2>2, <2>3, TypeNext
  <2> QED BY <2>1, <2>3, <2>4 DEF PanelInv, NothingLeft, LogoutsKnown, OnePoll, Awaits
<1>7. CASE Unmount
  <2>1. /\ mounted' = FALSE /\ timer' = FALSE /\ ops' = Gone(ops)
        /\ user' = Nobody /\ panel' = "idle" /\ UNCHANGED loggedOut
    BY <1>7 DEF Unmount
  <2>2. Rest'
    BY <1>0, <1>1, <2>1 DEF Rest, server, Panels
  <2>3. ops' \in Operations /\ Heard(ops') = {} /\ Logouts(ops') = {} /\ Own(ops') = {}
    BY <1>0, <2>1, GoneOps
  <2>4. TypeOK'
    BY <2>2, <2>3, TypeNext
  <2> QED BY <2>1, <2>3, <2>4 DEF PanelInv, NothingLeft, LogoutsKnown, OnePoll, Awaits
<1>8. CASE Mount
  <2>1. /\ ~mounted /\ mounted' = TRUE /\ Free # {} /\ loggedOut' = FALSE
        /\ ops' = Started("resume", Nobody, ops) /\ UNCHANGED <<user, panel, timer>>
    BY <1>8 DEF Mount
  <2>2. Rest'
    BY <1>0, <1>1, <2>1 DEF Rest, server
  <2>3. /\ ops' \in Operations
        /\ Heard(ops') = Heard(ops) /\ Logouts(ops') = Logouts(ops)
    BY <1>0, <2>1, StartedOps DEF Kinds
  <2>4. panel = "idle" /\ ~timer /\ Heard(ops) = {} /\ Logouts(ops) = {}
    BY <2>1 DEF PanelInv, NothingLeft, Own, Heard, Logouts
  <2>5. TypeOK'
    BY <2>2, <2>3, TypeNext
  <2> QED BY <2>1, <2>3, <2>4, <2>5 DEF PanelInv, NothingLeft, LogoutsKnown, OnePoll, Awaits
<1> QED BY <1>2, <1>3, <1>4, <1>5, <1>6, <1>7, <1>8 DEF Buttons

LEMMA TimerStep == PanelInv /\ TimerFires => PanelInv'
<1> SUFFICES ASSUME PanelInv, TimerFires PROVE PanelInv'
  OBVIOUS
<1>1. Rest /\ ops \in Operations /\ TypeOK
  BY TypeParts DEF PanelInv
<1>2. /\ timer /\ Free # {} /\ timer' = FALSE /\ ops' = Started("poll", Nobody, ops)
      /\ UNCHANGED <<mounted, user, panel, loggedOut, server, cookie, clicks>>
  BY DEF TimerFires
<1>3. Rest'
  BY <1>1, <1>2 DEF Rest, server
<1>4. PICK slot \in Slots : /\ ops' \in Operations /\ Logouts(ops') = Logouts(ops)
                            /\ Heard(ops') = Heard(ops) \cup {slot}
  BY <1>1, <1>2, StartedOps DEF Kinds
<1>5. TypeOK'
  BY <1>3, <1>4, TypeNext
<1> QED BY <1>2, <1>4, <1>5 DEF PanelInv, NothingLeft, LogoutsKnown, OnePoll, Awaits

(* A step after which every operation is what it was.                      *)
LEMMA Undisturbed ==
  ASSUME PanelInv, Rest', Steady, ops' \in Operations, Heard(ops') = Heard(ops),
         Logouts(ops') = Logouts(ops), Own(ops') = Own(ops)
  PROVE  PanelInv'
<1>1. TypeOK'
  BY TypeNext
<1> QED BY <1>1 DEF PanelInv, Steady, NothingLeft, LogoutsKnown, OnePoll, Awaits

(* What the network and the server write into an operation.                *)
LEMMA Written ==
  ASSUME ops \in Operations, NEW s \in Slots, ops[s] # NoOp,
         NEW stage \in Stages, NEW answer \in Answers, NEW session \in Sessions,
         NEW who \in Users \cup {Nobody},
         ops' = [ops EXCEPT ![s] = [ops[s] EXCEPT !.stage = stage, !.answer = answer,
                                                  !.session = session, !.who = who]]
  PROVE  /\ ops' \in Operations /\ Heard(ops') = Heard(ops)
         /\ Logouts(ops') = Logouts(ops) /\ Own(ops') = Own(ops)
<1> DEFINE o == [ops[s] EXCEPT !.stage = stage, !.answer = answer,
                               !.session = session, !.who = who]
<1>1. ops[s] \in Op
  BY DEF Operations
<1>2. o \in Op
  BY <1>1 DEF Op
<1>3. o.kind = ops[s].kind /\ o.live = ops[s].live /\ o.mounted = ops[s].mounted
  BY <1>1 DEF Op
<1>4. ops' = [ops EXCEPT ![s] = o]
  OBVIOUS
<1> HIDE DEF o
<1>5. \A new : new = [ops EXCEPT ![s] = o] =>
        /\ new \in Operations /\ Heard(new) = Heard(ops)
        /\ Logouts(new) = Logouts(ops) /\ Own(new) = Own(ops)
  BY <1>2, <1>3, SameOps
<1> QED BY <1>4, <1>5

LEMMA RemoteStep ==
  ASSUME PanelInv, NEW s \in Slots, Proceed(s) \/ Fail(s) \/ Serve(s)
  PROVE  PanelInv'
<1>1. Rest /\ ops \in Operations /\ TypeOK
  BY TypeParts DEF PanelInv
<1>2. ops[s] # NoOp /\ Steady /\ UNCHANGED <<cookie, clicks>>
  BY DEF Proceed, Fail, Serve, client, Steady
<1> DEFINE o == ops[s]
<1>3. /\ o \in Op /\ o.stage \in Stages /\ o.answer \in Answers /\ o.session \in Sessions
      /\ o.who \in Users \cup {Nobody}
  BY <1>1, <1>2 DEF Operations, Op
<1>4. o = [kind |-> o.kind, stage |-> o.stage, live |-> o.live, mounted |-> o.mounted,
           session |-> o.session, who |-> o.who, answer |-> o.answer]
  BY <1>3 DEF Op
<1> DEFINE Writes(stage, answer, session, who) ==
      ops' = [ops EXCEPT ![s] = [o EXCEPT !.stage = stage, !.answer = answer,
                                          !.session = session, !.who = who]]
<1>5. ASSUME NEW stage \in Stages, NEW answer \in Answers, NEW session \in Sessions,
             NEW who \in Users \cup {Nobody}, Writes(stage, answer, session, who), Rest'
      PROVE  PanelInv'
  BY <1>1, <1>2, <1>5, Written, Undisturbed
<1>6. "sent" \in Stages /\ "answered" \in Stages
      /\ {"failed", "ok", "idle", "waiting", "matched", "already queued", "resolving"}
           \subseteq Answers
  BY DEF Stages, Answers
<1>7. CASE Proceed(s)
  <2>1. Rest'
    BY <1>1, <1>2, <1>7 DEF Proceed, Rest, Steady, server
  <2>2. Writes("sent", o.answer, cookie, o.who)
    BY <1>1, <1>2, <1>3, <1>4, <1>7 DEF Proceed, Operations
  <2> QED BY <1>1, <1>3, <1>5, <1>6, <2>1, <2>2 DEF Rest
<1>8. CASE Fail(s)
  <2>1. Rest'
    BY <1>1, <1>2, <1>8 DEF Fail, Rest, Steady, server
  <2>2. Writes("answered", "failed", o.session, o.who)
    BY <1>1, <1>2, <1>3, <1>4, <1>8 DEF Fail, Operations
  <2> QED BY <1>3, <1>5, <1>6, <2>1, <2>2
<1>9. CASE Serve(s)
  <2> DEFINE u == owner[o.session]
  <2>1. ASSUME NEW answer \in Answers, Answered(s, answer), Rest' PROVE PanelInv'
    <3>1. Writes("answered", answer, o.session, o.who)
      BY <1>1, <1>2, <1>3, <1>4, <2>1 DEF Answered, Operations
    <3> QED BY <1>3, <1>5, <1>6, <2>1, <3>1
  <2>2. u \in Users \cup {Nobody}
    BY <1>1, <1>3 DEF Rest
  <2>3. CASE ServeLogin(s)
    <3>1. issued + 1 \in Sessions
      BY <1>1, <2>3, Bounds DEF ServeLogin, Rest, Sessions
    <3>2. Rest'
      BY <1>1, <1>2, <1>3, <2>3, <3>1 DEF ServeLogin, Rest, Steady
    <3>3. Writes("answered", "ok", issued + 1, o.who)
      BY <1>1, <1>2, <1>3, <1>4, <2>3 DEF ServeLogin, Operations
    <3> QED BY <1>3, <1>5, <1>6, <3>1, <3>2, <3>3
  <2>4. CASE ServeLogout(s)
    <3>1. Rest'
      BY <1>1, <1>2, <1>3, <2>4 DEF ServeLogout, Rest, Steady
    <3> QED BY <1>6, <2>1, <2>4, <3>1 DEF ServeLogout
  <2>5. CASE ServeResume(s, u)
    <3>1. Rest'
      BY <1>1, <1>2, <2>5 DEF ServeResume, Rest, Steady, server
    <3>2. Writes("answered", "ok", o.session, u)
      BY <1>1, <1>2, <1>3, <1>4, <2>5 DEF ServeResume, Operations
    <3> QED BY <1>3, <1>5, <1>6, <2>2, <3>1, <3>2
  <2>6. CASE u \in Users /\ ServeJoin(s, u)
    <3>1. Rest'
      BY <1>1, <1>2, <2>6 DEF ServeJoin, Rest, Steady, Standings
    <3> QED BY <1>6, <2>1, <2>6, <3>1 DEF ServeJoin
  <2>7. CASE u \in Users /\ ServeLeave(s, u)
    <3>1. Rest'
      BY <1>1, <1>2, <2>7 DEF ServeLeave, Rest, Steady, Standings
    <3> QED BY <1>6, <2>1, <2>7, <3>1 DEF ServeLeave
  <2>8. CASE u \in Users /\ ServePoll(s, u)
    <3>1. Rest'
      BY <1>1, <1>2, <2>8 DEF ServePoll, Rest, Steady, server
    <3>2. standing[u] \in Standings
      BY <1>1, <2>8 DEF Rest
    <3> QED BY <1>6, <2>1, <2>8, <3>1, <3>2 DEF ServePoll, Standings
  <2> QED BY <1>9, <2>2, <2>3, <2>4, <2>5, <2>6, <2>7, <2>8 DEF Serve
<1> QED BY <1>7, <1>8, <1>9

LEMMA QueueStep ==
  ASSUME PanelInv, NEW u \in Users, Queue(u)
  PROVE  PanelInv'
<1>1. Rest /\ ops \in Operations
  BY TypeParts DEF PanelInv
<1>2. Steady /\ UNCHANGED <<ops, cookie, clicks, owner, issued>>
      /\ standing' \in [Users -> Standings]
  BY <1>1 DEF Queue, Paired, Delivered, Restored, Evicted, Moves, Rest, Standings, client, Steady
<1>3. Rest'
  BY <1>1, <1>2 DEF Rest, Steady
<1> QED BY <1>1, <1>2, <1>3, Undisturbed

(* Continuations.  Only the answer to a live Join makes a panel wait that  *)
(* does not, while Log out has not been pressed.                           *)
ByJoin(s) == ops[s].kind = "join" /\ ops[s].live /\ ops'[s] = NoOp

LEMMA ContinueStep ==
  ASSUME PanelInv, NEW s \in Slots, Continue(s)
  PROVE  /\ PanelInv'
         /\ ~loggedOut /\ panel \in {"idle", "error"} /\ panel' = "waiting" => ByJoin(s)
<1> DEFINE o == ops[s]
           Goal == /\ PanelInv'
                   /\ ~loggedOut /\ panel \in {"idle", "error"} /\ panel' = "waiting" => ByJoin(s)
<1>1. Rest /\ ops \in Operations /\ TypeOK
  BY TypeParts DEF PanelInv
<1>2. o # NoOp /\ o \in Op /\ o.session \in Sessions /\ o.who \in Users \cup {Nobody}
      /\ UNCHANGED <<owner, issued, standing, clicks>>
  BY <1>1 DEF Continue, Operations, Op, server
<1>3. /\ Done(s) \in Operations /\ Done(s)[s] = NoOp
      /\ Heard(Done(s)) = Heard(ops) \ {s} /\ Logouts(Done(s)) = Logouts(ops) \ {s}
      /\ Own(Done(s)) = Own(ops) \ {s}
  BY <1>1, DoneOps
<1>4. /\ Stale(Done(s)) \in Operations /\ Stale(Done(s))[s] = NoOp
      /\ Heard(Stale(Done(s))) = {} /\ Logouts(Stale(Done(s))) = Logouts(ops) \ {s}
      /\ Own(Stale(Done(s))) \subseteq Own(ops) \ {s}
  BY <1>3, StaleOps
<1>5. /\ s \in Heard(ops) <=> o.kind \in {"poll", "leave"} /\ o.live
      /\ s \in Logouts(ops) <=> o.kind = "logout" /\ o.mounted
      /\ o.live \/ o.mounted => s \in Own(ops)
  BY <1>2 DEF Heard, Logouts, Own
<1>6. mounted \/ ~(o.live \/ o.mounted)
  BY <1>5 DEF PanelInv, NothingLeft
(* The panel goes on as it was, or signed in as somebody.                  *)
<1>7. ASSUME UNCHANGED <<mounted, panel, timer, loggedOut>>, ops' = Done(s), Rest',
             s \notin Heard(ops), s \notin Logouts(ops)
      PROVE  Goal
  <2>1. TypeOK'
    BY <1>3, <1>7, TypeNext
  <2>2. Heard(ops') = Heard(ops) /\ Logouts(ops') = Logouts(ops) /\ Own(ops') \subseteq Own(ops)
    BY <1>3, <1>7
  <2> QED BY <1>7, <2>1, <2>2 DEF PanelInv, NothingLeft, LogoutsKnown, OnePoll, Awaits
(* The panel of a live operation does as the server answered.              *)
<1>8. ASSUME UNCHANGED <<mounted, loggedOut>>, mounted, ops' = Stale(Done(s)), Rest',
             IF panel' = "waiting" THEN timer' = TRUE ELSE timer' = FALSE,
             s \notin Logouts(ops)
      PROVE  PanelInv'
  <2>1. TypeOK'
    BY <1>4, <1>8, TypeNext
  <2>2. Heard(ops') = {} /\ Logouts(ops') = Logouts(ops)
    BY <1>4, <1>8
  <2> QED BY <1>8, <2>1, <2>2 DEF PanelInv, NothingLeft, LogoutsKnown, OnePoll, Awaits
<1>9. CASE o.kind = "login" /\ LoginAnswered(s)
  <2>1. UNCHANGED <<mounted, panel, timer, loggedOut>> /\ ops' = Done(s)
    BY <1>9 DEF LoginAnswered
  <2>2. Rest'
    BY <1>1, <1>2, <1>9, <2>1 DEF LoginAnswered, Rest
  <2> QED BY <1>5, <1>7, <1>9, <2>1, <2>2
<1>10. CASE o.kind = "resume" /\ ResumeAnswered(s)
  <2>1. UNCHANGED <<mounted, panel, timer, loggedOut>> /\ ops' = Done(s)
    BY <1>10 DEF ResumeAnswered
  <2>2. Rest'
    BY <1>1, <1>2, <1>10, <2>1 DEF ResumeAnswered, Rest
  <2> QED BY <1>5, <1>7, <1>10, <2>1, <2>2
<1>11. ASSUME Ignored(s), ~o.live, o.kind # "logout" PROVE Goal
  <2>1. UNCHANGED <<mounted, user, panel, timer, loggedOut, cookie>> /\ ops' = Done(s)
    BY <1>11 DEF Ignored, client
  <2>2. Rest'
    BY <1>1, <1>2, <2>1 DEF Rest
  <2> QED BY <1>5, <1>7, <1>11, <2>1, <2>2
<1>12. CASE o.kind = "logout" /\ LogoutAnswered(s)
  <2>1. UNCHANGED <<mounted, timer, loggedOut>> /\ ops' = Done(s)
        /\ user' = (IF o.mounted THEN Nobody ELSE user)
        /\ panel' = (IF o.mounted THEN "idle" ELSE panel)
    BY <1>12 DEF LogoutAnswered
  <2>2. Rest'
    BY <1>1, <1>2, <1>12, <2>1, Bounds DEF LogoutAnswered, Rest, Panels, Sessions
  <2>3. CASE ~o.mounted
    BY <1>5, <1>7, <1>12, <2>1, <2>2, <2>3
  <2>4. CASE o.mounted
    <3>1. TypeOK'
      BY <1>3, <2>1, <2>2, TypeNext
    <3>2. loggedOut /\ panel' = "idle" /\ mounted
      BY <1>5, <1>6, <1>12, <2>1, <2>4 DEF PanelInv, LogoutsKnown
    <3> QED BY <2>1, <3>1, <3>2
            DEF PanelInv, NothingLeft, LogoutsKnown, OnePoll, Awaits
  <2> QED BY <2>3, <2>4
<1>13. CASE o.kind \in {"join", "poll"} /\ QueueAnswered(s)
  <2>1. CASE ~o.live
    BY <1>11, <1>13, <2>1 DEF QueueAnswered
  <2>2. CASE o.live
    <3>1. /\ UNCHANGED <<mounted, user, loggedOut, cookie>> /\ ops' = Stale(Done(s))
          /\ panel' \in Interpreted(o.answer)
          /\ IF panel' = "waiting" THEN timer' = TRUE ELSE timer' = FALSE
      BY <1>13, <2>2 DEF QueueAnswered, ApplyQueueAction, SchedulePoll, ClearPoll
    <3>2. panel' \in Panels
      BY <3>1 DEF Interpreted, Panels
    <3>3. Rest'
      BY <1>1, <1>2, <3>1, <3>2 DEF Rest
    <3>4. PanelInv'
      BY <1>5, <1>6, <1>8, <1>13, <2>2, <3>1, <3>3
    <3>5. o.kind = "poll" => loggedOut \/ panel \notin {"idle", "error"}
      BY <1>5, <2>2 DEF PanelInv, OnePoll
    <3> QED BY <1>4, <1>13, <2>2, <3>1, <3>4, <3>5 DEF ByJoin
  <2> QED BY <1>2, <2>1, <2>2
<1>14. CASE o.kind = "leave" /\ LeaveAnswered(s)
  <2>1. CASE ~o.live
    BY <1>11, <1>14, <2>1 DEF LeaveAnswered
  <2>2. CASE o.live
    <3>1. UNCHANGED <<mounted, user, loggedOut, cookie>>
      BY <1>14, <2>2 DEF LeaveAnswered
    <3>2. loggedOut \/ (panel \notin {"idle", "error"} /\ ~timer /\ Heard(ops) = {s})
      BY <1>5, <1>14, <2>2 DEF PanelInv, OnePoll
    <3>3. CASE o.answer = "ok"
      <4>1. panel' = "idle" /\ timer' = timer /\ ops' = Done(s)
        BY <1>14, <2>2, <3>3 DEF LeaveAnswered
      <4>2. Rest'
        BY <1>1, <1>2, <3>1, <4>1 DEF Rest, Panels
      <4>3. TypeOK'
        BY <1>3, <4>1, <4>2, TypeNext
      <4>4. Heard(ops') = Heard(ops) \ {s} /\ Logouts(ops') = Logouts(ops) /\ mounted
        BY <1>3, <1>5, <1>6, <1>14, <2>2, <4>1
      <4> QED BY <3>1, <3>2, <4>1, <4>3, <4>4
              DEF PanelInv, NothingLeft, LogoutsKnown, OnePoll, Awaits
    <3>4. CASE o.answer # "ok"
      <4>1. timer' = TRUE /\ ops' = Stale(Done(s)) /\ panel' \in {panel, "waiting"}
        BY <1>14, <2>2, <3>4 DEF LeaveAnswered, SchedulePoll
      <4>2. Rest'
        BY <1>1, <1>2, <3>1, <4>1 DEF Rest, Panels
      <4>3. TypeOK'
        BY <1>4, <4>1, <4>2, TypeNext
      <4>4. Heard(ops') = {} /\ Logouts(ops') = Logouts(ops) /\ mounted
        BY <1>4, <1>5, <1>6, <1>14, <2>2, <4>1
      <4> QED BY <3>1, <3>2, <4>1, <4>3, <4>4
              DEF PanelInv, NothingLeft, LogoutsKnown, OnePoll, Awaits
    <3> QED BY <3>3, <3>4
  <2> QED BY <1>2, <2>1, <2>2
<1> QED BY <1>9, <1>10, <1>12, <1>13, <1>14 DEF Continue

LEMMA PanelStarts == Init => PanelInv
<1> SUFFICES ASSUME Init PROVE PanelInv
  OBVIOUS
<1>1. /\ mounted = FALSE /\ user = Nobody /\ panel = "idle" /\ timer = FALSE
      /\ ops = [s \in Slots |-> NoOp] /\ clicks = 0 /\ loggedOut = FALSE
      /\ standing = [u \in Users |-> "idle"]
  BY DEF Init
<1>2. PICK u \in Users \cup {Nobody} :
        /\ owner = [i \in Sessions |-> IF i = 1 THEN u ELSE Nobody]
        /\ issued = (IF u = Nobody THEN 0 ELSE 1)
        /\ cookie = (IF u = Nobody THEN 0 ELSE 1)
  BY DEF Init
<1>3. 0 \in Sessions /\ 1 \in Sessions /\ 0 \in 0..MaxClicks
  BY Bounds DEF Sessions
<1>4. Rest
  BY <1>1, <1>2, <1>3 DEF Rest, Panels, Standings
<1>5. ops \in Operations /\ \A s \in Slots : ops[s] = NoOp
  BY <1>1 DEF Operations
<1>6. Heard(ops) = {} /\ Logouts(ops) = {} /\ Own(ops) = {}
  BY <1>5 DEF Heard, Logouts, Own
<1> QED BY <1>1, <1>4, <1>5, <1>6, TypeParts
        DEF PanelInv, NothingLeft, LogoutsKnown, OnePoll, Awaits

LEMMA PanelStep == PanelInv /\ [Next]_vars => PanelInv'
<1>1. PanelInv /\ UNCHANGED vars => PanelInv'
  <2> SUFFICES ASSUME PanelInv, UNCHANGED vars PROVE PanelInv'
    OBVIOUS
  <2>1. Rest /\ ops \in Operations
    BY TypeParts DEF PanelInv
  <2>2. Steady /\ ops' = ops /\ UNCHANGED <<server, cookie, clicks>>
    BY DEF vars, client, Steady
  <2>3. Rest'
    BY <2>1, <2>2 DEF Rest, Steady, server
  <2> QED BY <2>1, <2>2, <2>3, Undisturbed
<1> QED BY <1>1, ButtonStep, TimerStep, RemoteStep, ContinueStep, QueueStep
        DEF Next, Network

(* A panel that shows "waiting" always has a poll armed, or one or a Leave *)
(* under way whose answer it will hear, or a Log out: for any number of    *)
(* accounts, presses, tab changes and operations in flight.                *)
THEOREM NeverStranded == Spec => []NotStranded
<1>1. PanelInv => NotStranded
  BY AwaitsIsNotStranded DEF PanelInv
<1> QED BY <1>1, PanelStarts, PanelStep, PTL DEF Spec

(* The values of the panel are always those the code can give them.        *)
THEOREM TypeCorrect == Spec => []TypeOK
<1>1. PanelInv => TypeOK
  BY DEF PanelInv
<1> QED BY <1>1, PanelStarts, PanelStep, PTL DEF Spec

(* Until Log out is pressed, a panel that has left the queue waits again   *)
(* only for the answer to a Join: no answer of before brings it back.      *)
THEOREM LeavingIsFinal == Spec => LeaveIsFinal
<1> DEFINE Back == ~loggedOut /\ panel \in {"idle", "error"} /\ panel' = "waiting"
           Brought == \E s \in Slots : /\ ops[s] # NoOp /\ ops'[s] = NoOp
                                       /\ ops[s].kind = "join" /\ ops[s].live
<1>1. ASSUME PanelInv, [Next]_vars, Back PROVE Brought
  <2>1. CASE Buttons
    BY <1>1, <2>1 DEF Buttons, HandleLogin, HandleLogout, HandleJoin, HandleLeave,
       HandleDismissMatch, Mount, Unmount, client
  <2>2. CASE TimerFires
    BY <1>1, <2>2 DEF TimerFires
  <2>3. ASSUME NEW s \in Slots, Proceed(s) \/ Serve(s) \/ Fail(s) PROVE FALSE
    BY <1>1, <2>3 DEF Proceed, Serve, Fail, client
  <2>4. ASSUME NEW s \in Slots, Continue(s) PROVE Brought
    <3>1. ByJoin(s) /\ ops[s] # NoOp
      BY <1>1, <2>4, ContinueStep DEF Continue
    <3> QED BY <3>1 DEF ByJoin
  <2>5. ASSUME NEW u \in Users, Queue(u) PROVE FALSE
    BY <1>1, <2>5 DEF Queue, Paired, Delivered, Restored, Evicted, Moves, client
  <2>6. CASE UNCHANGED vars
    BY <1>1, <2>6 DEF vars, client
  <2> QED BY <1>1, <2>1, <2>2, <2>3, <2>4, <2>5, <2>6 DEF Next, Network
<1>2. PanelInv /\ [Next]_vars => [Back => Brought]_vars
  BY <1>1
<1> QED BY <1>2, PanelStarts, PanelStep, PTL DEF Spec, LeaveIsFinal
=============================================================================
