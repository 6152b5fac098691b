----------------------------- MODULE BattleLoop -----------------------------
(***************************************************************************)
(* One match of the deterministic core (packages/core, src/sim): stepTick's*)
(* action phase and housekeeping phase, the combat and status rules they   *)
(* call, and createSteppedMatch, which ends the match.  Beside the world it*)
(* keeps the frame that the web viewer's deriveFrame (packages/web,        *)
(* src/frame-state.ts) folds out of the event log: every operator below    *)
(* that emits an event also says what the viewer makes of it.              *)
(*                                                                         *)
(* Where units stand is left open: a target is in range or it is not, and a*)
(* move changes nothing that is kept here.                                 *)
(***************************************************************************)
EXTENDS Roster, Sequences, FiniteSets, Ordered

CONSTANTS
  External,       (* units that draw their actions from outside            *)
  Armor, AttackDamage, AttackCooldown,   (* the rest of a unit's stat-line  *)
  Skills,         (* the skill catalog                                     *)
  SkillsOf,       (* the skills each unit has equipped                     *)
  SkillCooldown,  (* a skill's cooldownTicks                               *)
  Effect,         (* a skill's effect                                      *)
  TickCap,        (* MATCH_TICK_CAP                                        *)
  NoStatus        (* an empty status slot                                  *)

(* The statuses a unit has one slot for; "dot" is the one it can stack.    *)
SlotKinds == {"slow", "shield", "stun", "empower"}
StatusKinds == SlotKinds \cup {"dot"}

Status == [magnitude : Nat, remainingTicks : Nat]

Effects ==
  [kind : {"direct-damage", "heal"}, amount : Nat \ {0}] \cup
  [kind : {"apply-status"}, status : StatusKinds, durationTicks : Nat \ {0}, magnitude : Nat \ {0}]

ASSUME BattleAssumption ==
  /\ External \subseteq Units
  /\ Armor \in [Units -> Nat]
  /\ AttackDamage \in [Units -> Nat \ {0}] /\ AttackCooldown \in [Units -> Nat \ {0}]
  /\ SkillsOf \in [Units -> SUBSET Skills]
  /\ SkillCooldown \in [Skills -> Nat]
  /\ Effect \in [Skills -> Effects]
  /\ TickCap \in Nat \ {0}
  /\ NoStatus \notin Status
  /\ "attack" \notin Skills

VARIABLES
  units,    (* WorldState.units                                            *)
  frame,    (* what deriveFrame shows of each unit                         *)
  tick,     (* WorldState.tick                                             *)
  phase,    (* the part of stepTick that is running                        *)
  turn,     (* the unit whose turn it is in that part                      *)
  bite,     (* the dot of that unit which deals damage next                *)
  result,   (* the winner recorded by finalize()                           *)
  used      (* history: the tick of a unit's last attack and casts         *)

vars == <<units, frame, tick, phase, turn, bite, result, used>>

Phases == {"between", "act", "house", "judge", "thrown", "over"}
Winners == {"A", "B", "draw"}

Unit == [hp : Nat, cooldown : Nat, skills : [Skills -> Nat],
         slot : [SlotKinds -> Status \cup {NoStatus}], activeDots : Seq(Status)]

FrameUnit == [hp : Nat, dead : BOOLEAN, statuses : SUBSET StatusKinds]

Uses == Skills \cup {"attack"}

TypeOK ==
  /\ units \in [Units -> Unit] /\ \A u \in Units : units[u].hp <= MaxHp[u]
  /\ frame \in [Units -> FrameUnit]
  /\ tick \in 0..TickCap
  /\ phase \in Phases
  /\ turn \in Units
  /\ bite \in Nat \ {0}
  /\ result \in Winners \cup {"none"}
  /\ used \in [Units -> [Uses -> 0..TickCap]]

Alive(u) == units[u].hp > 0

Stunned(u) == units[u].slot["stun"] # NoStatus

-----------------------------------------------------------------------------
(* The rules.  A world is the units together with the frame shown of them. *)

Least(a, b) == IF a < b THEN a ELSE b

World == [units |-> units, frame |-> frame]

Become(w) == units' = w.units /\ frame' = w.frame

(* dealDamage: armor, then the shield, then hp.  A "damage" event always,  *)
(* and a "death" event for a unit that was alive.                          *)
Absorbed(x, hit) ==
  IF x.slot["shield"] = NoStatus THEN 0 ELSE Least(hit, x.slot["shield"].magnitude)

Hurt(x, hit, absorbed) ==
  [x EXCEPT !.hp = x.hp - Least(x.hp, hit - absorbed),
            !.slot["shield"] = IF @ = NoStatus THEN @
                               ELSE [magnitude |-> @.magnitude - absorbed,
                                     remainingTicks |-> @.remainingTicks]]

ShowDamage(f, before, after) ==
  [f EXCEPT !.hp = after.hp, !.dead = @ \/ (before.hp > 0 /\ after.hp = 0)]

DealDamage(w, t, raw) ==
  LET x == w.units[t]
      hit == raw - Least(raw, Armor[t])
      y == Hurt(x, hit, Absorbed(x, hit))
  IN [units |-> [w.units EXCEPT ![t] = y],
      frame |-> [w.frame EXCEPT ![t] = ShowDamage(@, x, y)]]

(* heal: up to maxHp, and never a "death" undone.                          *)
ShowHeal(f, before, after, amount) == [f EXCEPT !.hp = after.hp]

Heal(w, t, amount) ==
  LET x == w.units[t]
      y == [x EXCEPT !.hp = Least(@ + amount, MaxHp[t])]
  IN [units |-> [w.units EXCEPT ![t] = y],
      frame |-> [w.frame EXCEPT ![t] = ShowHeal(@, x, y, amount)]]

(* applyStatus: shields add up, dots stack, any other status overwrites.   *)
Applied(x, status) ==
  LET new == [magnitude |-> status.magnitude, remainingTicks |-> status.durationTicks]
      old == x.slot["shield"]
  IN CASE status.status = "dot" -> [x EXCEPT !.activeDots = Append(@, new)]
       [] status.status = "shield" /\ old # NoStatus ->
            [x EXCEPT !.slot["shield"] = [new EXCEPT !.magnitude = @ + old.magnitude]]
       [] OTHER -> [x EXCEPT !.slot[status.status] = new]

ApplyStatus(w, t, status) ==
  [units |-> [w.units EXCEPT ![t] = Applied(@, status)],
   frame |-> [w.frame EXCEPT ![t].statuses = @ \cup {status.status}]]

(* resolveSkillEffect                                                      *)
ApplyEffect(w, t, effect) ==
  CASE effect.kind = "direct-damage" -> DealDamage(w, t, effect.amount)
    [] effect.kind = "heal" -> Heal(w, t, effect.amount)
    [] effect.kind = "apply-status" -> ApplyStatus(w, t, effect)

(* The damage of a basic attack, with empower's percentage.                *)
Blow(u) ==
  LET empower == units[u].slot["empower"] IN
  IF empower = NoStatus THEN AttackDamage[u]
  ELSE (AttackDamage[u] * (100 + empower.magnitude)) \div 100

(* tickStatuses: what is left of a slot, and of the dots.                  *)
Lapses(kind, status) ==
  \/ status.remainingTicks <= 1
  \/ kind = "shield" /\ status.magnitude = 0

Expired(x) == {k \in SlotKinds : x.slot[k] # NoStatus /\ Lapses(k, x.slot[k])}

Older(status) == [status EXCEPT !.remainingTicks = @ - 1]

Lasting(x) == {i \in DOMAIN x.activeDots : ~Lapses("dot", x.activeDots[i])}

LastingDots(x) ==
  [j \in 1..Cardinality(Lasting(x)) |-> Older(x.activeDots[InOrder(Lasting(x))[j]])]

(* Counting down to 0; the mutant goes below.                              *)
MinusOne(n) == n - 1

Less(n) == n - Least(n, 1)

(* tickStatuses and tickCooldowns                                          *)
Housekept(x) ==
  [x EXCEPT !.slot = [k \in SlotKinds |->
                        IF x.slot[k] = NoStatus \/ k \in Expired(x) THEN NoStatus
                        ELSE Older(x.slot[k])],
            !.activeDots = LastingDots(x),
            !.cooldown = Less(@),
            !.skills = [s \in Skills |-> Less(x.skills[s])]]

(* The viewer on "status-expired"; the mutant hears nothing of a shield    *)
(* that has been used up.                                                  *)
ShowOutlived(f, x) ==
  [f EXCEPT !.statuses = @ \ {k \in SlotKinds : x.slot[k] # NoStatus /\ Lapses("slow", x.slot[k])}]

ShowExpired(f, x) ==
  [f EXCEPT !.statuses = @ \ (Expired(x) \cup
      {"dot" : i \in {j \in DOMAIN x.activeDots : Lapses("dot", x.activeDots[j])}})]

-----------------------------------------------------------------------------
Fresh(u) ==
  [hp |-> MaxHp[u], cooldown |-> 0, skills |-> [s \in Skills |-> 0],
   slot |-> [k \in SlotKinds |-> NoStatus], activeDots |-> <<>>]

Init ==
  /\ units = [u \in Units |-> Fresh(u)]
  /\ frame = [u \in Units |-> [hp |-> MaxHp[u], dead |-> FALSE, statuses |-> {}]]
  /\ tick = 0
  /\ phase = "between"
  /\ turn = 0
  /\ bite = 1
  /\ result = "none"
  /\ used = [u \in Units |-> [x \in Uses |-> 0]]

(* step() starts a tick, unless the match is over.                         *)
BeginTick ==
  /\ phase = "between" /\ tick < TickCap
  /\ tick' = tick + 1
  /\ phase' = "act" /\ turn' = 0
  /\ UNCHANGED <<units, frame, bite, result, used>>

(* The turn passes to the next unit, or the phase to the next one.         *)
PassTurn(next) ==
  IF turn < LastUnit THEN turn' = turn + 1 /\ phase' = phase
                     ELSE turn' = 0 /\ phase' = next

(* A unit's turn that changes nothing: it is dead, it is stunned, or it    *)
(* idles, moves, has no target, or is not ready for what it decided on.    *)
Idles(u) ==
  /\ phase = "act" /\ turn = u
  /\ PassTurn("house")
  /\ UNCHANGED <<units, frame, tick, bite, result, used>>

(* Who a unit may act on.  The registered Behaviors act on living enemies  *)
(* only; whoever decides for an external unit is not held to that, and the *)
(* engine does not hold them to it.                                        *)
Targets(u) ==
  IF u \in External THEN Units ELSE {t \in Units : Alive(t) /\ Team[t] # Team[u]}

Marked(u, x) == used' = [used EXCEPT ![u][x] = tick]

(* resolveAttack on a target in range; the mutant forgets the cooldown.    *)
AttacksFreely(u, t) ==
  /\ phase = "act" /\ turn = u /\ Alive(u) /\ ~Stunned(u)
  /\ t \in Targets(u)
  /\ units[u].cooldown = 0
  /\ Become(DealDamage(World, t, Blow(u)))
  /\ Marked(u, "attack")
  /\ PassTurn("house")
  /\ UNCHANGED <<tick, bite, result>>

Attacks(u, t) ==
  /\ phase = "act" /\ turn = u /\ Alive(u) /\ ~Stunned(u)
  /\ t \in Targets(u)
  /\ units[u].cooldown = 0
  /\ LET w == DealDamage(World, t, Blow(u)) IN
     Become([w EXCEPT !.units[u].cooldown = AttackCooldown[u]])
  /\ Marked(u, "attack")
  /\ PassTurn("house")
  /\ UNCHANGED <<tick, bite, result>>

(* applyAction's "cast" on a target in range.                              *)
Casts(u, t, s) ==
  /\ phase = "act" /\ turn = u /\ Alive(u) /\ ~Stunned(u)
  /\ t \in Targets(u) /\ s \in SkillsOf[u]
  /\ units[u].skills[s] = 0
  /\ LET w == ApplyEffect(World, t, Effect[s]) IN
     Become([w EXCEPT !.units[u].skills[s] = SkillCooldown[s]])
  /\ Marked(u, s)
  /\ PassTurn("house")
  /\ UNCHANGED <<tick, bite, result>>

(* No action was supplied for a living external unit: stepTick throws.     *)
Throws(u) ==
  /\ phase = "act" /\ turn = u /\ Alive(u) /\ u \in External
  /\ phase' = "thrown"
  /\ UNCHANGED <<units, frame, tick, turn, bite, result, used>>

(* Housekeeping is for the units that are alive when their turn comes.     *)
Kept(u) == phase = "house" /\ turn = u /\ (Alive(u) \/ bite > 1)

(* applyActiveDots, one dot of it.                                         *)
DotBites(u) ==
  /\ Kept(u)
  /\ bite <= Len(units[u].activeDots)
  /\ Become(DealDamage(World, u, units[u].activeDots[bite].magnitude))
  /\ bite' = bite + 1
  /\ UNCHANGED <<tick, phase, turn, result, used>>

Housekeeps(u) ==
  /\ Kept(u)
  /\ bite > Len(units[u].activeDots)
  /\ units' = [units EXCEPT ![u] = Housekept(@)]
  /\ frame' = [frame EXCEPT ![u] = ShowExpired(@, units[u])]
  /\ bite' = 1
  /\ PassTurn("judge")
  /\ UNCHANGED <<tick, result, used>>

StaysDead(u) ==
  /\ phase = "house" /\ turn = u /\ ~Kept(u)
  /\ PassTurn("judge")
  /\ UNCHANGED <<units, frame, tick, bite, result, used>>

(* checkWinner; "none" is its null.                                        *)
Standing(side) == \E u \in Units : Team[u] = side /\ Alive(u)

CheckWinner ==
  CASE Standing("A") /\ Standing("B") -> "none"
    [] Standing("A") /\ ~Standing("B") -> "A"
    [] ~Standing("A") /\ Standing("B") -> "B"
    [] OTHER -> "draw"

(* The end of a tick, and finalize() when it was the last one.  The mutants*)
(* finalize for a winner only, and give a match that ran out of ticks to A.*)
JudgesWinners ==
  /\ phase = "judge"
  /\ IF CheckWinner # "none"
       THEN phase' = "over" /\ result' = CheckWinner
       ELSE phase' = "between" /\ result' = result
  /\ UNCHANGED <<units, frame, tick, turn, bite, used>>

Judges ==
  /\ phase = "judge"
  /\ IF CheckWinner # "none" \/ tick >= TickCap
       THEN phase' = "over" /\ result' = IF CheckWinner = "none" THEN "draw" ELSE CheckWinner
       ELSE phase' = "between" /\ result' = result
  /\ UNCHANGED <<units, frame, tick, turn, bite, used>>

(* The match is over, or has to be reset.                                  *)
Stops == phase \in {"thrown", "over"} /\ UNCHANGED vars

Turn(u) ==
  \/ Idles(u) \/ \E t \in Units : Attacks(u, t) \/ \E s \in Skills : Casts(u, t, s)
  \/ DotBites(u) \/ Housekeeps(u) \/ StaysDead(u)

Advance == BeginTick \/ (\E u \in Units : Turn(u)) \/ Judges

Next == Advance \/ (\E u \in Units : Throws(u)) \/ Stops

Spec == Init /\ [][Next]_vars

(* step(MATCH_TICK_CAP) runs the loop to its end.                          *)
FairSpec == Spec /\ WF_vars(Advance)

-----------------------------------------------------------------------------
(* The viewer shows the hp the world has: whatever mix of attacks, casts,  *)
(* dots and heals a unit got, the last hpAfter in the log is its hp.       *)
FrameShowsHp == \A u \in Units : frame[u].hp = units[u].hp

(* The viewer shows every dead unit as dead, and a living one as dead only *)
(* when an external unit has cast a heal: the engine would heal a corpse,  *)
(* and no event says that it lives again.                                  *)
FrameShowsDeaths ==
  \A u \in Units :
    /\ ~Alive(u) => frame[u].dead
    /\ frame[u].dead /\ Alive(u) =>
         \E e \in External, s \in Skills : Effect[s].kind = "heal" /\ used[e][s] > 0

(* The viewer shows a slow, shield, stun or empower exactly while the unit *)
(* has it, and a dot only on a unit that has one.                          *)
FrameShowsStatuses ==
  \A u \in Units :
    /\ \A k \in SlotKinds : k \in frame[u].statuses <=> units[u].slot[k] # NoStatus
    /\ "dot" \in frame[u].statuses => units[u].activeDots # <<>>

(* Two attacks of a unit are attackCooldownTicks apart, two casts of one of*)
(* its skills cooldownTicks: the tick in which the first one happens counts*)
(* as one of them.                                                         *)
CooldownOf(u, x) == IF x = "attack" THEN AttackCooldown[u] ELSE SkillCooldown[x]

CooldownsSpaceUses ==
  [][\A u \in Units, x \in Uses :
       used'[u][x] # used[u][x] /\ used[u][x] > 0 =>
         used'[u][x] - used[u][x] >= CooldownOf(u, x)]_vars

(* The recorded winner is the one the last frame shows: the losing side all*)
(* dead, or, for a draw, both sides or a match at the tick cap.            *)
ResultIsShown ==
  /\ phase = "over" <=> result # "none"
  /\ \A side \in {"A", "B"} : result = side =>
       \A u \in Units : Team[u] # side => frame[u].dead /\ frame[u].hp = 0
  /\ result \in {"A", "B"} => \E u \in Units : Team[u] = result /\ frame[u].hp > 0
  /\ result = "draw" => tick = TickCap \/ \A u \in Units : frame[u].dead

(* What the viewer folds out of the log is what the world is, at the end of *)
(* every turn and of every tick, up to the frame that shows the result.    *)
FrameShowsWorld ==
  FrameShowsHp /\ FrameShowsDeaths /\ FrameShowsStatuses /\ ResultIsShown

(* The match ends, or stepTick has thrown.                                 *)
MatchEnds == <>(phase \in {"over", "thrown"})

(* frame-state.ts on deriveFrame: "status presence from applied/expired    *)
(* pairs".  A dot that was applied and has not expired is shown.           *)
FrameShowsDots ==
  \A u \in Units : units[u].activeDots # <<>> => "dot" \in frame[u].statuses
=============================================================================
