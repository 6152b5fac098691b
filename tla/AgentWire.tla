------------------------------ MODULE AgentWire -------------------------------
(***************************************************************************)
(* What the trainable agent is shown and what becomes of its choices: the  *)
(* engine flattens the world into a vector of integers                     *)
(* (packages/core/src/sim/observation.ts), the bridge sends it, the Python *)
(* environment remembers which unit each target slot names and turns a row *)
(* of choices into the tuple of ActionCodec, the reward wrapper reads hit  *)
(* points back out of the vector, and the exported policy makes the same   *)
(* translation again in TypeScript.  One sub-environment, one tick to a    *)
(* step.  The rest of the engine is a world that changes as it likes.      *)
(***************************************************************************)
EXTENDS Roster, ActionCodec, Ordered, FiniteSetsExt

CONSTANTS
  Agent,        \* the unit of build_a whose behavior is external
  Equipped,     \* the agent's skills, in the order of its build
  Cooldown,     \* ticks a skill or an attack takes to be ready again
  Spots,        \* bound: where a unit may stand, records of x and y
  MovesX,       \* bound: the move coordinates the agent may choose
  MovesY,
  MaxChanges    \* bound: units a tick changes beside the agent's own action

(* What initWithRegistry makes of two builds that _validate_builds and the *)
(* Zod schemas accept.  A build may name a skill twice.                    *)
ASSUME WireAssumption ==
  /\ Cooldown \in Nat \ {0} /\ MaxChanges \in Nat
  /\ \A u, v \in Units : Team[u] = "A" /\ Team[v] = "B" => u < v
  /\ Agent \in Units /\ Team[Agent] = "A"
  /\ Equipped \in Seq(CatalogSkills)
  /\ Spots \subseteq [x : Nat, y : Nat] /\ Spots # {} /\ MovesX \cup MovesY \subseteq Nat

VARIABLES
  bodies,     \* the world: hit points and place of every unit
  attackCool, \* the agent's attackCooldownRemaining
  cools,      \* cooldownRemaining of each of the agent's skill states
  row,        \* the row of choices being played, NoRow between steps
  doing,      \* what the bridge decoded from it
  obs,        \* the agent's vector in the frame last returned, <<>> before any
  slots,      \* _slot_to_unit_id: unit ids by target slot, <<>> before any
  ended,      \* the last frame ended its match: _autoreset, _prev_terminated
  prev,       \* RewardShapingWrapper: _prev_obs
  maxima,     \* its _team_max_hp and _enemy_max_hp
  gained      \* the sums of its two hit point terms over the episode

world == <<bodies, attackCool, cools>>
wrapper == <<prev, maxima, gained>>
wireVars == <<world, row, doing, obs, slots, ended, wrapper>>

(***************************************************************************)
(* The vector.                                                             *)
(***************************************************************************)
SKILL_COOLDOWN_ABSENT == -1
OBS_SELF_FIELD_COUNT == 5 + Len(Catalog)
OBS_UNIT_FIELD_COUNT == 6

squaredGap(p, q) == (p.x - q.x) * (p.x - q.x) + (p.y - q.y) * (p.y - q.y)

Allies == {u \in Units : Team[u] = Team[Agent]} \ {Agent}
Enemies == {u \in Units : Team[u] # Team[Agent]}
Others == InOrder(Allies) \o InOrder(Enemies)

\* Mutant: cooldowns in the order of the build instead of the catalog's.
SelfBlockInBuildOrder(w, attack, cs) ==
  <<w[Agent].hp, MaxHp[Agent], w[Agent].x, w[Agent].y, attack>> \o
  [s \in 1 .. Len(Catalog) |-> IF s \in DOMAIN Equipped THEN cs[s] ELSE SKILL_COOLDOWN_ABSENT]

\* The state of a skill named twice is its last.
encodeSelfBlock(w, attack, cs) ==
  <<w[Agent].hp, MaxHp[Agent], w[Agent].x, w[Agent].y, attack>> \o
  [s \in 1 .. Len(Catalog) |->
     LET states == {i \in DOMAIN Equipped : Equipped[i] = Catalog[s]}
     IN  IF states = {} THEN SKILL_COOLDOWN_ABSENT ELSE cs[Max(states)]]

encodeUnitBlock(w, u) ==
  <<u, w[u].hp, MaxHp[u], w[u].x, w[u].y, squaredGap(w[Agent], w[u])>>

encodeObservation(w, attack, cs) ==
  encodeSelfBlock(w, attack, cs) \o
  [i \in 1 .. (OBS_UNIT_FIELD_COUNT * Len(Others)) |->
     encodeUnitBlock(w, Others[(i - 1) \div OBS_UNIT_FIELD_COUNT + 1])
       [((i - 1) % OBS_UNIT_FIELD_COUNT) + 1]]

(***************************************************************************)
(* Reading it: by the environment, by the wrapper, by the exported policy. *)
(***************************************************************************)
NumAllies == Cardinality(Allies)
NumTargetSlots == NumAllies + Cardinality(Enemies)
SlotNumbers == 0 .. NumTargetSlots - 1

computeObservationLength(allies, enemies) ==
  OBS_SELF_FIELD_COUNT + OBS_UNIT_FIELD_COUNT * (allies + enemies)

\* Offsets are the code's, counted from 0.
At(vector, offset) == vector[offset + 1]
Field(vector, slot, offset) ==
  At(vector, OBS_SELF_FIELD_COUNT + slot * OBS_UNIT_FIELD_COUNT + offset)
targetIdForSlot(vector, slot) == Field(vector, slot, 0)

\* _extract_agent_vector raises on a vector of another length.
Extracts(vector) == Len(vector) = computeObservationLength(NumAllies, Cardinality(Enemies))
SlotTable(vector) == [k \in 1 .. NumTargetSlots |-> targetIdForSlot(vector, k - 1)]

Rows == [kind : IDLE .. CAST, slot : SlotNumbers, skill : 0 .. Len(Catalog) - 1,
         x : MovesX, y : MovesY]
NoRow == [kind |-> -1]
Undecodable == [kind |-> "error"]

\* Mutant: every component of the row is sent with a target.
EncodeWholeRow(r, table) ==
  CASE r.kind = IDLE -> <<IDLE, 0, 0, 0>>
    [] r.kind = MOVE -> <<MOVE, r.x, r.y, 0>>
    [] r.kind \in {MOVE_TOWARD, ATTACK, CAST} -> <<r.kind, table[r.slot + 1], 0, r.skill>>

EncodeWireAction(r, table) ==
  LET target == table[r.slot + 1]
  IN  CASE r.kind = IDLE -> <<IDLE, 0, 0, 0>>
        [] r.kind = MOVE -> <<MOVE, r.x, r.y, 0>>
        [] r.kind = MOVE_TOWARD -> <<MOVE_TOWARD, target, 0, 0>>
        [] r.kind = ATTACK -> <<ATTACK, target, 0, 0>>
        [] r.kind = CAST -> <<CAST, target, 0, r.skill>>

\* The exported policy, once inference has produced the row r.
decide(r, vector) ==
  LET target == targetIdForSlot(vector, r.slot)
  IN  CASE r.kind = IDLE -> decodeAction(<<IDLE, 0, 0, 0>>)
        [] r.kind = MOVE -> decodeAction(<<MOVE, r.x, r.y, 0>>)
        [] r.kind \in {MOVE_TOWARD, ATTACK} -> decodeAction(<<r.kind, target, 0, 0>>)
        [] r.kind = CAST -> decodeAction(<<CAST, target, 0, r.skill>>)

\* Mutant: the allies' hit points without the agent's own.
AllyHpSum(vector) ==
  MapThenSumSet(LAMBDA k : Max({Field(vector, k, 1), 0}), 0 .. NumAllies - 1)

TeamHpSum(vector) ==
  Max({At(vector, 0), 0}) +
  MapThenSumSet(LAMBDA k : Max({Field(vector, k, 1), 0}), 0 .. NumAllies - 1)
EnemyHpSum(vector) ==
  MapThenSumSet(LAMBDA k : Max({Field(vector, k, 1), 0}), NumAllies .. NumTargetSlots - 1)
MaxHpSums(vector) ==
  [team |-> At(vector, 1) + MapThenSumSet(LAMBDA k : Field(vector, k, 2), 0 .. NumAllies - 1),
   enemy |-> MapThenSumSet(LAMBDA k : Field(vector, k, 2), NumAllies .. NumTargetSlots - 1)]

(***************************************************************************)
(* The engine.                                                             *)
(***************************************************************************)
UnitStates == {[hp |-> h, x |-> p.x, y |-> p.y] :
                 h \in 0 .. Max({MaxHp[u] : u \in Units}), p \in Spots}

SideDown(w) == \E side \in {"A", "B"} : \A u \in Units : Team[u] = side => w[u].hp = 0

\* The skill state a cast looks at is the skill's first.
StatesOf(s) == {i \in DOMAIN Equipped : Equipped[i] = s}
IsReady(s) == StatesOf(s) # {} /\ cools[Min(StatesOf(s))] = 0

\* Mutant: a cooldown that runs below zero.
OneLess(n) == n - 1

TickedDown(n) == Max({n - 1, 0})

\* What the agent uses in its turn goes on cooldown.
Used(casts) ==
  IF casts THEN [cools EXCEPT ![Min(StatesOf(doing.skillId))] = Cooldown] ELSE cools
Swung(attacks) == IF attacks THEN Cooldown ELSE attackCool

(***************************************************************************)
(* The steps.                                                              *)
(***************************************************************************)
WireInit ==
  /\ bodies = [u \in Units |-> [hp |-> 0, x |-> 0, y |-> 0]]
  /\ attackCool = 0 /\ cools = <<>>
  /\ row = NoRow /\ doing = Idle
  /\ obs = <<>> /\ slots = <<>> /\ ended = FALSE
  /\ prev = <<>> /\ maxima = [team |-> 0, enemy |-> 0]
  /\ gained = [damage |-> 0, ally |-> 0]

\* The world at the first tick of a match: the builds place the units.
FreshMatch ==
  /\ \E place \in [Units -> Spots] :
       bodies' = [u \in Units |-> [hp |-> MaxHp[u], x |-> place[u].x, y |-> place[u].y]]
  /\ attackCool' = 0 /\ cools' = [i \in DOMAIN Equipped |-> 0]

\* The bridge's frame reaches _extract_agent_vector.
TakeFrame ==
  /\ obs' = encodeObservation(bodies', attackCool', cools')
  /\ Extracts(obs')
  /\ slots' = IF slots = <<>> THEN SlotTable(obs') ELSE slots

\* The reset() of the environment and of the wrapper around it.
ResetCall ==
  /\ row = NoRow
  /\ FreshMatch /\ TakeFrame
  /\ ended' = FALSE
  /\ prev' = obs'
  /\ maxima' = IF prev = <<>> THEN MaxHpSums(obs') ELSE maxima
  /\ gained' = [damage |-> 0, ally |-> 0]
  /\ UNCHANGED <<row, doing>>

\* A step() after the end of a match: NEXT_STEP restarts the match, plays no
\* action and shapes no reward.
Restart ==
  /\ row = NoRow /\ ended
  /\ FreshMatch /\ TakeFrame
  /\ ended' = FALSE
  /\ prev' = obs'
  /\ gained' = [damage |-> 0, ally |-> 0]
  /\ UNCHANGED <<row, doing, maxima>>

\* A step(): the row becomes a tuple, the bridge decodes it.
Send ==
  /\ row = NoRow /\ obs # <<>> /\ ~ended
  /\ \E r \in Rows :
       /\ row' = r
       /\ doing' = LET wire == EncodeWireAction(r, slots)
                   IN  IF Decodes(wire) THEN decodeAction(wire) ELSE Undecodable
  /\ UNCHANGED <<world, obs, slots, ended, wrapper>>

\* The wrapper's shaping terms, before their weights and normalizers.
Shape ==
  gained' = [damage |-> gained.damage + (EnemyHpSum(prev) - EnemyHpSum(obs')),
             ally |-> gained.ally + (TeamHpSum(obs') - TeamHpSum(prev))]

\* The tick is played and its frame returned.  The agent acts if it lives at
\* its turn, is not stunned and is in range; its cooldowns tick if it lives at
\* the end of the turns; a match ends when a side is down or at the tick cap.
Answer ==
  /\ row # NoRow /\ doing # Undecodable
  /\ \E S \in {T \in SUBSET Units : Cardinality(T) <= MaxChanges} :
     \E change \in [S -> UnitStates] :
       /\ \A u \in S : change[u].hp <= MaxHp[u]
       /\ bodies' = [u \in Units |-> IF u \in S THEN change[u] ELSE bodies[u]]
  /\ \E acts \in {FALSE, bodies[Agent].hp > 0 \/ bodies'[Agent].hp > 0},
        ticks \in {TRUE, bodies'[Agent].hp > 0} :
       LET swung == Swung(acts /\ doing.kind = "attack" /\ attackCool = 0)
           used == Used(acts /\ doing.kind = "cast" /\ IsReady(doing.skillId))
       IN  /\ attackCool' = IF ticks THEN TickedDown(swung) ELSE swung
           /\ cools' = [i \in DOMAIN cools |-> IF ticks THEN TickedDown(used[i]) ELSE used[i]]
  /\ ended' \in {TRUE, SideDown(bodies')}
  /\ TakeFrame /\ Shape /\ prev' = obs'
  /\ row' = NoRow /\ doing' = Idle
  /\ UNCHANGED maxima

WireNext == ResetCall \/ Restart \/ Send \/ Answer

WireSpec == WireInit /\ [][WireNext]_wireVars

(***************************************************************************)
(* Properties.                                                             *)
(***************************************************************************)
WireTypeOK ==
  /\ bodies \in [Units -> [hp : Nat, x : Nat, y : Nat]] /\ \A u \in Units : bodies[u].hp <= MaxHp[u]
  /\ attackCool \in 0 .. Cooldown /\ cools \in Seq(0 .. Cooldown)
  /\ row \in Rows \cup {NoRow}
  /\ IF row = NoRow THEN doing = Idle
     ELSE doing.kind \in {"idle", "move", "move-toward", "attack", "cast", "error"}
  /\ obs \in Seq(Int) /\ slots \in Seq(Units) /\ ended \in BOOLEAN
  /\ prev = obs /\ maxima \in [team : Nat, enemy : Nat]
  /\ gained \in [damage : Int, ally : Int]

\* The frame in the environment's hands shows every other unit as it is, in
\* the block of the slot whose id names it, so that the same units keep the
\* same slots through deaths, moves and restarts; and of the agent it shows
\* the hit points, the place and no cooldown for a skill it does not have
\* (observation.ts: encodeSelfBlock, encodeUnitBlock).
FrameShowsUnits ==
  obs # <<>> =>
    /\ {slots[k] : k \in DOMAIN slots} = Units \ {Agent}
    /\ Len(slots) = LastUnit
    /\ \A k \in SlotNumbers :
         LET u == slots[k + 1]
             n == NumAllies
         IN  /\ Team[u] = Team[Agent] <=> k < n
             /\ \A f \in 0 .. 5 : Field(obs, k, f) =
                  <<u, bodies[u].hp, MaxHp[u], bodies[u].x, bodies[u].y,
                    squaredGap(bodies[u], bodies[Agent])>>[f + 1]
    /\ <<At(obs, 0), At(obs, 2), At(obs, 3), At(obs, 4)>> =
         <<bodies[Agent].hp, bodies[Agent].x, bodies[Agent].y, attackCool>>
    /\ \A s \in DOMAIN Catalog : At(obs, 4 + s) = -1 <=> StatesOf(Catalog[s]) = {}

\* The action the engine plays is the one the exported policy would have
\* decided on from the vector of the frame, and an action with a target is on
\* the unit whose block the chosen slot showed (env.py: _encode_wire_action,
\* policy-smoke-v1.ts: decide).
PolicyMeansTheSame ==
  row # NoRow =>
    /\ doing = decide(row, obs)
    /\ encodeAction(doing) = EncodeWireAction(row, slots)
    /\ row.kind \in {MOVE_TOWARD, ATTACK, CAST} =>
         /\ doing.targetId \in Units \ {Agent}
         /\ Field(obs, row.slot, 1) = bodies[doing.targetId].hp

\* Over an episode the wrapper's terms add up to the hit points the enemies
\* have lost and the agent's side has lost, whatever was healed in between and
\* however many matches were played before (rewards.py: step).
ShapingAddsUp ==
  obs # <<>> =>
    LET hp(S) == MapThenSumSet(LAMBDA u : bodies[u].hp, S)
        full(S) == MapThenSumSet(LAMBDA u : MaxHp[u], S)
    IN  /\ maxima = [team |-> full(Units \ Enemies), enemy |-> full(Enemies)]
        /\ gained.damage = maxima.enemy - hp(Enemies)
        /\ gained.ally = hp(Units \ Enemies) - maxima.team

\* "0 = ready" (behavior.ts): a skill whose cooldown the vector shows as 0 is
\* one a cast is not refused for.
ShownReadyIsReady ==
  obs # <<>> => \A s \in DOMAIN Catalog : At(obs, 4 + s) = 0 => IsReady(Catalog[s])
=============================================================================
