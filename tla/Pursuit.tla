------------------------------- MODULE Pursuit --------------------------------
(***************************************************************************)
(* One unit of a match with its behavior: how it picks a target among the  *)
(* others (packages/core, src/content/behaviors) and how it walks there    *)
(* (src/sim/resolve/movement.ts and geometry.ts), tick after tick, while   *)
(* the others walk, are hurt, healed and die and its own statuses come and *)
(* go.                                                                     *)
(* BattleLoop leaves open where units stand and whom they choose; this is  *)
(* that part.                                                              *)
(***************************************************************************)
EXTENDS Geometry, Sequences, FiniteSets, Functions, Ordered

CONSTANTS
  LastOther,      (* the others are 1..LastOther, in order of their ids    *)
  OtherMaxHp,     (* their maximal hp                                      *)
  Casters,        (* those of them that have skills                        *)
  MoveSpeed, AttackRangeSquared,   (* of the unit itself                   *)
  SlowMagnitudes, EmpowerMagnitudes, (* in percent; 0 for no status        *)
  Places,         (* bound: where the others may stand and walk to         *)
  Lineups         (* bound: the unit's behaviorId and the teams of the others *)

OtherUnits == 1..LastOther

Behaviors == {"focus-casters", "aggro-lowest-hp", "protect-allies"}

Teams == {"A", "B"}

ASSUME PursuitAssumption ==
  /\ LastOther \in Nat \ {0}
  /\ OtherMaxHp \in [OtherUnits -> Nat \ {0}] /\ Casters \subseteq OtherUnits
  /\ MoveSpeed \in Nat \ {0} /\ AttackRangeSquared \in Nat
  /\ SlowMagnitudes \subseteq 0..100 /\ EmpowerMagnitudes \subseteq Nat
  /\ 0 \in SlowMagnitudes \cap EmpowerMagnitudes
  /\ Places \subseteq Position
  /\ Lineups \subseteq Behaviors \X [OtherUnits -> Teams]

VARIABLES
  behavior,  (* the unit's behaviorId                                      *)
  otherTeam, (* of each of the others; the unit itself is of team "A"      *)
  pos,       (* of the unit, 0, and of the others                          *)
  otherHp,   (* hit points of the others                                   *)
  slow, empower,  (* magnitudes of the unit's statuses                     *)
  goal       (* history: whom its last decision was about, 0 for nobody    *)

fixed == <<behavior, otherTeam>>
pursuitVars == <<fixed, pos, otherHp, slow, empower, goal>>

PursuitTypeOK ==
  /\ behavior \in Behaviors
  /\ otherTeam \in [OtherUnits -> Teams]
  /\ pos \in [0..LastOther -> Position]
  /\ otherHp \in [OtherUnits -> Nat] /\ \A v \in OtherUnits : otherHp[v] <= OtherMaxHp[v]
  /\ slow \in SlowMagnitudes /\ empower \in EmpowerMagnitudes
  /\ goal \in 0..LastOther

PursuitInit ==
  /\ \E lineup \in Lineups : behavior = lineup[1] /\ otherTeam = lineup[2]
  /\ \E start \in Position, places \in [OtherUnits -> Places] :
       pos = [u \in 0..LastOther |-> IF u = 0 THEN start ELSE places[u]]
  /\ otherHp = OtherMaxHp
  /\ slow = 0 /\ empower = 0
  /\ goal = 0

-----------------------------------------------------------------------------
(* The three behaviors.                                                    *)

Living(side) == {v \in OtherUnits : otherHp[v] > 0 /\ otherTeam[v] = side}

alliesOf == Living("A")

enemiesOf == Living("B")

nearer(v, w) == squaredDistance(pos[0], pos[v]) < squaredDistance(pos[0], pos[w])

castersFirst ==
  IF enemiesOf \cap Casters # {} THEN enemiesOf \cap Casters ELSE enemiesOf

lowerHp(v, w) == otherHp[v] < otherHp[w]

lowerRatio(v, w) == otherHp[v] * OtherMaxHp[w] < otherHp[w] * OtherMaxHp[v]

Pool ==
  CASE behavior = "focus-casters" -> castersFirst
    [] behavior = "aggro-lowest-hp" -> enemiesOf
    [] behavior = "protect-allies" -> alliesOf

Better(v, w) ==
  CASE behavior = "focus-casters" -> nearer(v, w)
    [] behavior = "aggro-lowest-hp" -> lowerHp(v, w)
    [] behavior = "protect-allies" -> lowerRatio(v, w)

(* pickBest: the candidates tied for best, in a single pass.  The mutant   *)
(* adds a better one to the tie instead of starting a new one.             *)
TiedSoFar(tied, v) ==
  IF Better(v, Head(tied)) \/ ~Better(Head(tied), v) THEN Append(tied, v)
  ELSE tied

Tied(tied, v) ==
  IF Better(v, Head(tied)) THEN <<v>>
  ELSE IF ~Better(Head(tied), v) THEN Append(tied, v) ELSE tied

pickBest(candidates) ==
  LET upTo[i \in DOMAIN candidates] ==
        IF i = 1 THEN <<candidates[1]>> ELSE Tied(upTo[i - 1], candidates[i])
  IN IF candidates = <<>> THEN <<>> ELSE upTo[Len(candidates)]

(* Whom decide() may name: one, or any of a tie when a draw decides.  The  *)
(* candidates come in order of their ids.                                  *)
Best == pickBest(InOrder(Pool))

InReach(v) ==
  behavior # "protect-allies" /\ isInRange(pos[0], pos[v], AttackRangeSquared)

-----------------------------------------------------------------------------
(* moveUnitToward: empower first, then slow, each rounded down.            *)
StepUnder(faster, slower) ==
  (((MoveSpeed * (100 + faster)) \div 100) * (100 - slower)) \div 100

MaxStep == StepUnder(empower, slow)

StandsIdle ==
  /\ Best = <<>>
  /\ goal' = 0
  /\ UNCHANGED <<fixed, pos, otherHp, slow, empower>>

(* What the attack does is BattleLoop's.                                   *)
AttacksTarget(v) ==
  /\ InReach(v)
  /\ goal' = v
  /\ UNCHANGED <<fixed, pos, otherHp, slow, empower>>

WalksToward(v) ==
  /\ ~InReach(v)
  /\ goal' = v
  /\ pos' = [pos EXCEPT ![0] = stepToward(pos[0], pos[v], MaxStep)]
  /\ UNCHANGED <<fixed, otherHp, slow, empower>>

TakesTurn == StandsIdle \/ \E v \in Range(Best) : AttacksTarget(v) \/ WalksToward(v)

(* The rest of the match: the others have turns of their own in which they *)
(* walk anywhere, they lose hp and die and are healed, and the unit's own  *)
(* statuses are set and expire.                                            *)
OtherWalks(v) ==
  /\ otherHp[v] > 0
  /\ \E place \in Places \ {pos[v]} : pos' = [pos EXCEPT ![v] = place]
  /\ UNCHANGED <<fixed, otherHp, slow, empower, goal>>

(* Also a dead one, by a heal that an external unit decides on.            *)
OtherIsHealed(v) ==
  /\ otherHp[v] < OtherMaxHp[v]
  /\ otherHp' = [otherHp EXCEPT ![v] = @ + 1]
  /\ UNCHANGED <<fixed, pos, slow, empower, goal>>

(* The mutant hits the dead as well.                                       *)
AnyoneIsHurt(v) ==
  /\ otherHp' = [otherHp EXCEPT ![v] = @ - 1]
  /\ UNCHANGED <<fixed, pos, slow, empower, goal>>

OtherIsHurt(v) ==
  /\ otherHp[v] > 0
  /\ otherHp' = [otherHp EXCEPT ![v] = @ - 1]
  /\ UNCHANGED <<fixed, pos, slow, empower, goal>>

(* A skill sets one status, and each has a duration of its own.            *)
StatusChanges ==
  /\ \/ slow' \in SlowMagnitudes \ {slow} /\ empower' = empower
     \/ empower' \in EmpowerMagnitudes \ {empower} /\ slow' = slow
  /\ UNCHANGED <<fixed, pos, otherHp, goal>>

PursuitNext ==
  \/ TakesTurn
  \/ \E v \in OtherUnits : OtherWalks(v) \/ OtherIsHurt(v) \/ OtherIsHealed(v)
  \/ StatusChanges

(* A living unit has its turn in every tick.                               *)
PursuitSpec == PursuitInit /\ [][PursuitNext]_pursuitVars /\ WF_pursuitVars(TakesTurn)

-----------------------------------------------------------------------------
(* Properties.                                                             *)

Between(p, q, r) == (p <= q /\ q <= r) \/ (r <= q /\ q <= p)

StepTo(v) == stepToward(pos[0], pos[v], MaxStep)

(* A step never passes its target on either axis, and is shorter than      *)
(* MaxStep + 1: rounding the distance down cannot carry a unit further.    *)
NeverPastTarget ==
  \A v \in OtherUnits :
    /\ Between(pos[0].x, StepTo(v).x, pos[v].x)
    /\ Between(pos[0].y, StepTo(v).y, pos[v].y)
    /\ squaredDistance(pos[0], StepTo(v)) < (MaxStep + 1) * (MaxStep + 1)

(* A unit that may walk two or more gets nearer with every step: rounding  *)
(* never leaves it standing, or going round in circles.  (With a step of   *)
(* one it can stand still for ever: see the README.)                       *)
NoStall ==
  \A v \in OtherUnits : MaxStep >= 2 /\ pos[0] # pos[v] =>
    squaredDistance(StepTo(v), pos[v]) < squaredDistance(pos[0], pos[v])

(* Every step the unit could take now is a right one.                      *)
StepsAreSound == NeverPastTarget /\ NoStall

(* The single pass of pickBest finds everyone who is bested by nobody, each*)
(* once, and nobody else: no target is overlooked or doubled, and a random *)
(* number is drawn only when there is a real choice.                       *)
TiesAreOptimal ==
  /\ Range(Best) = {v \in Pool : \A w \in Pool : ~Better(w, v)}
  /\ Len(Best) = Cardinality(Range(Best))

Hobbled ==
  \E e \in EmpowerMagnitudes, s \in SlowMagnitudes :
    empower = e /\ slow = s /\ StepUnder(e, s) < 2

Reached == goal # 0 /\ (InReach(goal) \/ pos[0] = pos[goal])

GoalWalks == goal # 0 /\ pos'[goal] # pos[goal]

(* A unit that keeps its target gets there, or within its range, once the  *)
(* target stays where it is, whatever everybody else does, as long as the  *)
(* unit may walk two or more.  Nothing is said of a target that walks on.  *)
PursuitEnds ==
  \/ []<>(Reached \/ Pool = {} \/ Hobbled)
  \/ []<><<goal' # goal>>_pursuitVars
  \/ []<><<GoalWalks>>_pursuitVars
=============================================================================
