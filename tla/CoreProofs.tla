----------------------------- MODULE CoreProofs -----------------------------
(***************************************************************************)
(* Proofs about the deterministic core: about BattleLoop, for any units,   *)
(* stat-lines, skills and tick cap; about Pursuit, for any arena, any      *)
(* number of others and any speeds and statuses; and about AgentWire, the  *)
(* vector and the tuple by which a policy sees and acts, for any catalog   *)
(* and any roster.  The three share no state: each theorem is about the    *)
(* specification it names.                                                 *)
(***************************************************************************)
EXTENDS BattleLoop, Pursuit, AgentWire, FiniteSetTheorems, WellFoundedInduction, TLAPS

-----------------------------------------------------------------------------
(* Sets of numbers, and their listing in ascending order.                  *)

LEMMA LeastOf ==
  ASSUME NEW T \in SUBSET Nat, T # {}
  PROVE  \E m \in T : \A n \in T : m <= n
<1>1. PICK m \in T : \A n \in T : ~ (<<n, m>> \in OpToRel(<, Nat))
  BY WFMin, NatLessThanWellFounded
<1>2. ASSUME NEW n \in T PROVE m <= n
  <2>1. <<n, m>> \notin OpToRel(<, Nat)
    BY <1>1
  <2>2. ~ (n < m)
    BY <2>1 DEF OpToRel
  <2> QED BY <2>2
<1> QED BY <1>2

Ascends(f, S) ==
  /\ f \in [1..Cardinality(S) -> S]
  /\ \A i, j \in 1..Cardinality(S) : i < j => f[i] < f[j]

(* The least element in front of an ascending listing of the others.       *)
LEMMA PutInFront ==
  ASSUME NEW S \in SUBSET Nat, IsFiniteSet(S), NEW m \in S, \A n \in S : m <= n,
         NEW g, Ascends(g, S \ {m})
  PROVE  \E f : Ascends(f, S)
<1> DEFINE n == Cardinality(S)
           f == [i \in 1..n |-> IF i = 1 THEN m ELSE g[i - 1]]
<1>1. n \in Nat /\ Cardinality(S \ {m}) = n - 1
  BY FS_CardinalityType, FS_RemoveElement
<1>2. g \in [1..(n - 1) -> S \ {m}] /\ \A i, j \in 1..(n - 1) : i < j => g[i] < g[j]
  BY <1>1 DEF Ascends
<1>3. ASSUME NEW i \in 1..n, i # 1
      PROVE  i - 1 \in 1..(n - 1) /\ g[i - 1] \in S /\ m < g[i - 1]
  <2>1. i - 1 \in 1..(n - 1)
    BY <1>1, <1>3
  <2>2. g[i - 1] \in S \ {m}
    BY <1>2, <2>1
  <2>3. g[i - 1] \in Nat /\ m \in Nat /\ m <= g[i - 1] /\ m # g[i - 1]
    BY <2>2
  <2> QED BY <2>1, <2>2, <2>3
<1>4. f \in [1..n -> S]
  BY <1>3
<1>5. ASSUME NEW i \in 1..n, NEW j \in 1..n, i < j PROVE f[i] < f[j]
  <2>1. CASE i = 1
    BY <1>1, <1>3, <1>5, <2>1
  <2>2. CASE i # 1
    BY <1>1, <1>2, <1>3, <1>5, <2>2
  <2> QED BY <2>1, <2>2
<1> QED BY <1>4, <1>5 DEF Ascends

(* Every finite set of numbers can be listed in ascending order: one with  *)
(* the fewest elements that could not would have a least element to remove.*)
LEMMA CanBeOrdered ==
  ASSUME NEW S \in SUBSET Nat, IsFiniteSet(S)
  PROVE  \E f : Ascends(f, S)
<1> DEFINE Odd == {T \in SUBSET S : ~ \E f : Ascends(f, T)}
           Sizes == {Cardinality(T) : T \in Odd}
<1> SUFFICES ASSUME Odd # {} PROVE FALSE
  OBVIOUS
<1>1. \A T \in SUBSET S : IsFiniteSet(T) /\ Cardinality(T) \in Nat
  BY FS_Subset, FS_CardinalityType
<1>2. Sizes \in SUBSET Nat /\ Sizes # {}
  BY <1>1
<1>3. PICK k \in Sizes : \A n \in Sizes : k <= n
  <2> HIDE DEF Sizes
  <2> QED BY <1>2, LeastOf
<1>4. PICK T \in Odd : Cardinality(T) = k
  BY <1>3
<1>5. T \in SUBSET Nat /\ T \in SUBSET S /\ IsFiniteSet(T) /\ k \in Nat
  BY <1>1, <1>4
<1>6. CASE T = {}
  <2>1. Cardinality(T) = 0
    BY <1>6, FS_EmptySet
  <2>2. 1..Cardinality(T) = {}
    BY <2>1
  <2>3. Ascends([i \in {} |-> 0], T)
    BY <1>6, <2>2 DEF Ascends
  <2> QED BY <1>4, <2>3
<1>7. CASE T # {}
  <2>1. PICK m \in T : \A n \in T : m <= n
    BY <1>5, <1>7, LeastOf
  <2>2. T \ {m} \in SUBSET S /\ Cardinality(T \ {m}) < k
    <3>1. Cardinality(T \ {m}) = Cardinality(T) - 1
      BY <1>5, <2>1, FS_RemoveElement
    <3> QED BY <1>4, <1>5, <3>1
  <2>3. T \ {m} \notin Odd
    <3>1. Cardinality(T \ {m}) \in Nat
      BY <1>1, <2>2
    <3>2. SUFFICES ASSUME T \ {m} \in Odd PROVE FALSE
      OBVIOUS
    <3>3. Cardinality(T \ {m}) \in Sizes
      BY <3>2
    <3> QED BY <1>3, <1>5, <2>2, <3>1, <3>3
  <2>4. PICK g : Ascends(g, T \ {m})
    BY <2>2, <2>3
  <2>5. \E f : Ascends(f, T)
    BY <1>5, <2>1, <2>4, PutInFront
  <2> QED BY <1>4, <2>5
<1> QED BY <1>6, <1>7

(* An ascending listing as long as the set leaves nothing out.             *)
LEMMA AscentsListAll ==
  ASSUME NEW S \in SUBSET Nat, IsFiniteSet(S), NEW f, Ascends(f, S)
  PROVE  {f[i] : i \in 1..Cardinality(S)} = S
<1> DEFINE n == Cardinality(S)
<1>1. n \in Nat
  BY FS_CardinalityType
<1>2. f \in [1..n -> S]
  BY DEF Ascends
<1>3. ASSUME NEW i \in 1..n, NEW j \in 1..n, f[i] = f[j] PROVE i = j
  <2>1. f[i] \in S /\ f[j] \in S
    BY <1>2
  <2>2. f[i] \in Nat /\ f[j] \in Nat
    BY <2>1
  <2>3. (i < j => f[i] < f[j]) /\ (j < i => f[j] < f[i])
    BY DEF Ascends
  <2> QED BY <1>1, <1>3, <2>2, <2>3
<1>4. f \in Injection(1..n, S)
  BY <1>2, <1>3 DEF Injection, IsInjective
<1>5. IsFiniteSet(1..n) /\ Cardinality(1..n) = n
  BY <1>1, FS_Interval
<1>6. f \in Surjection(1..n, S)
  BY <1>4, <1>5, FS_Injection
<1> QED BY <1>6 DEF Surjection

(* What InOrder lists: every element of the set once, in ascending order.  *)
LEMMA InOrderLists ==
  ASSUME NEW S \in SUBSET Nat, IsFiniteSet(S)
  PROVE  /\ InOrder(S) \in [1..Cardinality(S) -> S]
         /\ \A i, j \in 1..Cardinality(S) : i < j => InOrder(S)[i] < InOrder(S)[j]
         /\ {InOrder(S)[i] : i \in 1..Cardinality(S)} = S
<1>1. \E f \in [1..Cardinality(S) -> S] :
        \A i, j \in DOMAIN f : i < j => f[i] < f[j]
  BY CanBeOrdered DEF Ascends
<1>2. Ascends(InOrder(S), S)
  BY <1>1 DEF InOrder, Ascends
<1>3. {InOrder(S)[i] : i \in 1..Cardinality(S)} = S
  BY <1>2, AscentsListAll
<1> QED BY <1>2, <1>3 DEF Ascends
-----------------------------------------------------------------------------
(* A match of BattleLoop.                                                  *)

LEMMA Bounds ==
  /\ LastUnit \in Nat /\ TickCap \in Nat \ {0}
  /\ External \subseteq Units /\ Units \subseteq Nat /\ 0 \in Units
  /\ MaxHp \in [Units -> Nat \ {0}] /\ Armor \in [Units -> Nat]
  /\ AttackDamage \in [Units -> Nat \ {0}] /\ AttackCooldown \in [Units -> Nat \ {0}]
  /\ SkillsOf \in [Units -> SUBSET Skills] /\ SkillCooldown \in [Skills -> Nat]
  /\ Effect \in [Skills -> Effects] /\ Team \in [Units -> {"A", "B"}]
  /\ NoStatus \notin Status /\ "attack" \notin Skills
<1>1. LastUnit \in Nat
  BY BattleAssumption, RosterAssumption DEF BattleAssumption, RosterAssumption
<1>2. Units \subseteq Nat /\ 0 \in Units
  BY <1>1 DEF Units
<1> QED BY <1>1, <1>2, BattleAssumption, RosterAssumption DEF BattleAssumption, RosterAssumption

LEMMA Subtracted ==
  ASSUME NEW a \in Nat, NEW b \in Nat
  PROVE  Least(a, b) \in Nat /\ Least(a, b) <= a /\ Least(a, b) <= b /\ a - Least(a, b) \in Nat
BY DEF Least

(* Units and frames of the right shape, and frames that show their units.  *)
WorldType(us, fs) ==
  /\ us \in [Units -> Unit] /\ \A u \in Units : us[u].hp <= MaxHp[u]
  /\ fs \in [Units -> FrameUnit]

Shown(x, f) ==
  /\ f.hp = x.hp /\ (x.hp = 0 => f.dead)
  /\ \A k \in SlotKinds : k \in f.statuses <=> x.slot[k] # NoStatus
  /\ "dot" \in f.statuses => x.activeDots # <<>>

AllShown(us, fs) == \A u \in Units : Shown(us[u], fs[u])

WorldOK(w) == WorldType(w.units, w.frame) /\ AllShown(w.units, w.frame)

(* What an effect may make of world v, by healing the units in healed: no  *)
(* cooldown moves, and a unit that is shown dead and is alive either was so*)
(* before or has been healed when it was dead.                             *)
Outcome(v, w, healed) ==
  /\ WorldOK(w)
  /\ \A u \in Units :
       /\ w.units[u].cooldown = v.units[u].cooldown
       /\ w.units[u].skills = v.units[u].skills
       /\ w.frame[u].dead /\ w.units[u].hp > 0 =>
            \/ v.frame[u].dead /\ v.units[u].hp > 0
            \/ u \in healed /\ v.units[u].hp = 0

(* What damage leaves of a unit.                                           *)
LEMMA HurtUnit ==
  ASSUME NEW x \in Unit, NEW hit \in Nat, NEW y, y = Hurt(x, hit, Absorbed(x, hit))
  PROVE  /\ y \in Unit /\ y.hp <= x.hp
         /\ \A k \in SlotKinds : y.slot[k] = NoStatus <=> x.slot[k] = NoStatus
         /\ y.activeDots = x.activeDots /\ y.cooldown = x.cooldown /\ y.skills = x.skills
<1> DEFINE a == Absorbed(x, hit)
           shield == x.slot["shield"]
<1>1. shield \in Status \cup {NoStatus}
  BY DEF Unit, SlotKinds
<1>2. a \in Nat /\ a <= hit /\ (shield # NoStatus => shield.magnitude - a \in Nat)
  BY <1>1, Bounds DEF Absorbed, Least, Status
<1>3. x.hp \in Nat /\ hit - a \in Nat
  BY <1>2 DEF Unit
<1> HIDE DEF a
<1> DEFINE hp == x.hp - Least(x.hp, hit - a)
           left == IF shield = NoStatus THEN shield
                   ELSE [magnitude |-> shield.magnitude - a, remainingTicks |-> shield.remainingTicks]
           slot == [x.slot EXCEPT !["shield"] = left]
<1>4. hp \in Nat /\ hp <= x.hp
  <2> DEFINE b == hit - a
  <2>1. b \in Nat /\ hp = x.hp - Least(x.hp, b)
    BY <1>3
  <2> HIDE DEF b, hp
  <2>2. \A p, q \in Nat : p - Least(p, q) \in Nat /\ p - Least(p, q) <= p
    BY DEF Least
  <2> QED BY <1>3, <2>1, <2>2
<1>5. left \in Status \cup {NoStatus} /\ (left = NoStatus <=> shield = NoStatus)
  BY <1>1, <1>2, Bounds DEF Status
<1>6. y = [x EXCEPT !.hp = hp, !.slot = slot]
  BY DEF Hurt, Unit, a
<1> HIDE DEF hp, left
<1>7. slot \in [SlotKinds -> Status \cup {NoStatus}]
      /\ \A k \in SlotKinds : slot[k] = NoStatus <=> x.slot[k] = NoStatus
  BY <1>5 DEF Unit, SlotKinds
<1> HIDE DEF slot
<1> QED BY <1>4, <1>6, <1>7 DEF Unit

(* Only unit t differs, and its frame.                                     *)
OnlyAt(v, w, t) ==
  /\ w.units \in [Units -> Unit] /\ w.frame \in [Units -> FrameUnit]
  /\ \A u \in Units \ {t} : w.units[u] = v.units[u] /\ w.frame[u] = v.frame[u]

LEMMA Replaced ==
  ASSUME NEW v, WorldOK(v), NEW t \in Units, NEW w, OnlyAt(v, w, t), NEW healed,
         w.units[t].hp <= MaxHp[t], Shown(w.units[t], w.frame[t]),
         w.units[t].cooldown = v.units[t].cooldown, w.units[t].skills = v.units[t].skills,
         w.frame[t].dead /\ w.units[t].hp > 0 =>
           \/ v.frame[t].dead /\ v.units[t].hp > 0
           \/ t \in healed /\ v.units[t].hp = 0
  PROVE  Outcome(v, w, healed)
<1>1. WorldType(w.units, w.frame)
  BY DEF WorldOK, WorldType, OnlyAt
<1>2. AllShown(w.units, w.frame)
  BY DEF WorldOK, AllShown, OnlyAt
<1>3. WorldOK(w)
  BY <1>1, <1>2 DEF WorldOK
<1> QED BY <1>3 DEF Outcome, OnlyAt

(* dealDamage: units and frame go on agreeing, nobody gains hp, no cooldown*)
(* moves, and whoever is shown dead and alive was so before.               *)
LEMMA DamageShown ==
  ASSUME NEW v, WorldOK(v), NEW t \in Units, NEW raw, raw \in Nat
  PROVE  Outcome(v, DealDamage(v, t, raw), {})
<1> DEFINE us == v.units
           fs == v.frame
           w == DealDamage(v, t, raw)
<1>0. WorldType(us, fs) /\ AllShown(us, fs)
  BY DEF WorldOK
<1> DEFINE x == us[t]
           hit == raw - Least(raw, Armor[t])
           y == Hurt(x, hit, Absorbed(x, hit))
           f == ShowDamage(fs[t], x, y)
<1>1. x \in Unit /\ fs[t] \in FrameUnit /\ x.hp <= MaxHp[t] /\ Shown(x, fs[t])
  BY <1>0 DEF WorldType, AllShown
<1>2. hit \in Nat
  BY Bounds, Subtracted
<1>3. /\ y \in Unit /\ y.hp <= x.hp
      /\ \A k \in SlotKinds : y.slot[k] = NoStatus <=> x.slot[k] = NoStatus
      /\ y.activeDots = x.activeDots /\ y.cooldown = x.cooldown /\ y.skills = x.skills
  <2> HIDE DEF hit
  <2> QED BY <1>1, <1>2, HurtUnit
<1>4. w.units = [us EXCEPT ![t] = y] /\ w.frame = [fs EXCEPT ![t] = f]
  BY <1>0 DEF DealDamage, WorldType
<1> HIDE DEF y
<1>5. /\ x.hp \in Nat /\ y.hp \in Nat /\ MaxHp[t] \in Nat
  BY <1>1, <1>3, Bounds DEF Unit
<1>6. f \in FrameUnit /\ f.hp = y.hp /\ f.statuses = fs[t].statuses
      /\ (f.dead <=> fs[t].dead \/ (x.hp > 0 /\ y.hp = 0))
  BY <1>1, <1>5 DEF ShowDamage, FrameUnit
<1> HIDE DEF f
<1>7. Shown(y, f)
  BY <1>1, <1>3, <1>5, <1>6 DEF Shown
<1>8. f.dead /\ y.hp > 0 => fs[t].dead /\ x.hp > 0
  BY <1>3, <1>5, <1>6
<1>9. y.hp <= MaxHp[t]
  BY <1>1, <1>3, <1>5
<1> HIDE DEF w
<1>10. OnlyAt(v, w, t) /\ w.units[t] = y /\ w.frame[t] = f
  <2>1. us \in [Units -> Unit] /\ fs \in [Units -> FrameUnit]
    BY <1>0 DEF WorldType
  <2> HIDE DEF us, fs
  <2>2. OnlyAt([units |-> us, frame |-> fs], w, t) /\ w.units[t] = y /\ w.frame[t] = f
    BY <1>3, <1>4, <1>6, <2>1 DEF OnlyAt
  <2> QED BY <2>2 DEF us, fs, OnlyAt
<1>11. /\ w.units[t].hp <= MaxHp[t] /\ Shown(w.units[t], w.frame[t])
       /\ w.units[t].cooldown = v.units[t].cooldown /\ w.units[t].skills = v.units[t].skills
       /\ w.frame[t].dead /\ w.units[t].hp > 0 =>
             v.frame[t].dead /\ v.units[t].hp > 0
  BY <1>3, <1>7, <1>8, <1>9, <1>10
<1> QED BY <1>10, <1>11, Replaced DEF w

(* heal, of a living or a dead unit                                        *)
LEMMA HealShown ==
  ASSUME NEW v, WorldOK(v), NEW t \in Units, NEW amount, amount \in Nat
  PROVE  Outcome(v, Heal(v, t, amount), {t})
<1> DEFINE us == v.units
           fs == v.frame
           w == Heal(v, t, amount)
<1>0. WorldType(us, fs) /\ AllShown(us, fs)
  BY DEF WorldOK
<1> DEFINE x == us[t]
           hp == Least(x.hp + amount, MaxHp[t])
           y == [x EXCEPT !.hp = hp]
           f == [fs[t] EXCEPT !.hp = hp]
<1>1. x \in Unit /\ fs[t] \in FrameUnit /\ x.hp <= MaxHp[t] /\ Shown(x, fs[t])
  BY <1>0 DEF WorldType, AllShown
<1>2. x.hp \in Nat /\ MaxHp[t] \in Nat \ {0} /\ x.hp + amount \in Nat
  BY <1>1, Bounds DEF Unit
<1>3. hp \in Nat /\ hp <= MaxHp[t] /\ (hp = 0 => x.hp = 0)
  BY <1>2 DEF Least
<1>4. w.units = [us EXCEPT ![t] = y] /\ w.frame = [fs EXCEPT ![t] = f]
  BY <1>0, <1>1 DEF Heal, ShowHeal, WorldType, Unit
<1> HIDE DEF hp
<1>5. y \in Unit /\ f \in FrameUnit /\ y.hp = hp /\ f.hp = hp /\ f.dead = fs[t].dead
      /\ f.statuses = fs[t].statuses /\ y.slot = x.slot /\ y.activeDots = x.activeDots
      /\ y.cooldown = x.cooldown /\ y.skills = x.skills
  BY <1>1, <1>3 DEF Unit, FrameUnit
<1>6. Shown(y, f)
  BY <1>1, <1>3, <1>5 DEF Shown
<1> HIDE DEF y, f, w
<1>7. f.dead /\ y.hp > 0 =>
        (fs[t].dead /\ us[t].hp > 0) \/ (t \in {t} /\ us[t].hp = 0)
  <2>1. us[t].hp > 0 \/ us[t].hp = 0
    BY <1>2
  <2>2. f.dead => fs[t].dead
    BY <1>5
  <2> QED BY <2>1, <2>2
<1>9. y.cooldown = us[t].cooldown /\ y.skills = us[t].skills
  BY <1>5
<1>8. OnlyAt(v, w, t) /\ w.units[t] = y /\ w.frame[t] = f
  <2>1. us \in [Units -> Unit] /\ fs \in [Units -> FrameUnit]
    BY <1>0 DEF WorldType
  <2> HIDE DEF us, fs
  <2>2. OnlyAt([units |-> us, frame |-> fs], w, t) /\ w.units[t] = y /\ w.frame[t] = f
    BY <1>4, <1>5, <2>1 DEF OnlyAt
  <2> QED BY <2>2 DEF us, fs, OnlyAt
<1> QED BY <1>3, <1>5, <1>6, <1>7, <1>8, <1>9, Replaced DEF w

(* applyStatus: the status is shown, on the living and on the dead.        *)
LEMMA StatusShown ==
  ASSUME NEW v, WorldOK(v), NEW t \in Units,
         NEW effect \in Effects, effect.kind = "apply-status"
  PROVE  Outcome(v, ApplyStatus(v, t, effect), {})
<1> DEFINE us == v.units
           fs == v.frame
           w == ApplyStatus(v, t, effect)
<1>0. WorldType(us, fs) /\ AllShown(us, fs)
  BY DEF WorldOK
<1> DEFINE x == us[t]
           k == effect.status
           new == [magnitude |-> effect.magnitude, remainingTicks |-> effect.durationTicks]
           old == x.slot["shield"]
           sum == [new EXCEPT !.magnitude = @ + old.magnitude]
           y == Applied(x, effect)
           f == [fs[t] EXCEPT !.statuses = @ \cup {k}]
<1>1. x \in Unit /\ fs[t] \in FrameUnit /\ x.hp <= MaxHp[t] /\ Shown(x, fs[t])
  BY <1>0 DEF WorldType, AllShown
<1>2. k \in StatusKinds /\ effect.magnitude \in Nat /\ effect.durationTicks \in Nat
  BY DEF Effects
<1>3. new \in Status /\ new # NoStatus /\ old \in Status \cup {NoStatus}
  <2>1. new \in Status
    BY <1>2 DEF Status
  <2>2. old \in Status \cup {NoStatus}
    BY <1>1 DEF Unit, SlotKinds
  <2> QED BY <2>1, <2>2, Bounds
<1>4. old # NoStatus => sum \in Status /\ sum # NoStatus
  BY <1>3, Bounds DEF Status
<1> HIDE DEF new, sum
<1>5. /\ y \in Unit /\ y.hp = x.hp /\ y.cooldown = x.cooldown /\ y.skills = x.skills
      /\ \A kk \in SlotKinds : y.slot[kk] # NoStatus <=> kk = k \/ x.slot[kk] # NoStatus
      /\ x.activeDots # <<>> \/ k = "dot" => y.activeDots # <<>>
  <2>1. CASE k = "dot"
    <3>1. y = [x EXCEPT !.activeDots = Append(x.activeDots, new)]
      BY <1>1, <2>1 DEF Applied, Unit, new
    <3>2. x.activeDots \in Seq(Status)
      BY <1>1 DEF Unit
    <3>3. Append(x.activeDots, new) \in Seq(Status) /\ Append(x.activeDots, new) # <<>>
      <4>1. \A d \in Seq(Status) : Append(d, new) \in Seq(Status) /\ Len(Append(d, new)) # 0
        BY <1>3
      <4> HIDE DEF x
      <4>2. Append(x.activeDots, new) \in Seq(Status) /\ Len(Append(x.activeDots, new)) # 0
        BY <3>2, <4>1
      <4> QED BY <4>2
    <3> QED BY <1>1, <2>1, <3>1, <3>3 DEF Unit, SlotKinds
  <2>2. CASE k = "shield" /\ old # NoStatus
    <3>1. y = [x EXCEPT !.slot = [x.slot EXCEPT !["shield"] = sum]]
      BY <1>1, <2>2 DEF Applied, Unit, new, sum
    <3> QED BY <1>1, <1>4, <2>2, <3>1 DEF Unit, SlotKinds
  <2>3. CASE k # "dot" /\ ~(k = "shield" /\ old # NoStatus)
    <3>1. y = [x EXCEPT !.slot = [x.slot EXCEPT ![k] = new]]
      BY <1>1, <2>3 DEF Applied, Unit, new
    <3>2. k \in SlotKinds
      BY <1>2, <2>3 DEF StatusKinds
    <3>3. [x.slot EXCEPT ![k] = new] \in [SlotKinds -> Status \cup {NoStatus}]
      BY <1>1, <1>3, <3>2 DEF Unit
    <3>4. \A kk \in SlotKinds : [x.slot EXCEPT ![k] = new][kk] # NoStatus
                                <=> kk = k \/ x.slot[kk] # NoStatus
      BY <1>1, <1>3, <3>2 DEF Unit
    <3>5. y \in Unit /\ y.hp = x.hp /\ y.cooldown = x.cooldown /\ y.skills = x.skills
          /\ y.slot = [x.slot EXCEPT ![k] = new] /\ y.activeDots = x.activeDots
      BY <1>1, <3>1, <3>3 DEF Unit
    <3> QED BY <2>3, <3>4, <3>5
  <2> QED BY <2>1, <2>2, <2>3
<1>6. f \in FrameUnit /\ f.hp = fs[t].hp /\ f.dead = fs[t].dead
      /\ f.statuses = fs[t].statuses \cup {k}
  BY <1>1, <1>2 DEF FrameUnit
<1>7. w.units = [us EXCEPT ![t] = y] /\ w.frame = [fs EXCEPT ![t] = f]
  BY <1>0, <1>1 DEF ApplyStatus, WorldType, FrameUnit
<1> HIDE DEF y, f, k
<1>8. Shown(y, f)
  BY <1>1, <1>5, <1>6 DEF Shown, SlotKinds
<1> HIDE DEF w
<1>9. y.cooldown = us[t].cooldown /\ y.skills = us[t].skills /\ y.hp <= MaxHp[t]
      /\ (f.dead /\ y.hp > 0 => fs[t].dead /\ us[t].hp > 0)
  BY <1>1, <1>5, <1>6
<1>10. OnlyAt(v, w, t) /\ w.units[t] = y /\ w.frame[t] = f
  <2>1. us \in [Units -> Unit] /\ fs \in [Units -> FrameUnit]
    BY <1>0 DEF WorldType
  <2> HIDE DEF us, fs
  <2>2. OnlyAt([units |-> us, frame |-> fs], w, t) /\ w.units[t] = y /\ w.frame[t] = f
    BY <1>5, <1>6, <1>7, <2>1 DEF OnlyAt
  <2> QED BY <2>2 DEF us, fs, OnlyAt
<1> QED BY <1>8, <1>9, <1>10, Replaced DEF w

(* resolveSkillEffect: units and frame go on agreeing, no cooldown moves,  *)
(* and a unit that is shown dead and alive either was so before or was     *)
(* dead and has been healed.                                               *)
LEMMA EffectShown ==
  ASSUME NEW v, WorldOK(v), NEW t \in Units, NEW effect \in Effects
  PROVE  Outcome(v, ApplyEffect(v, t, effect), IF effect.kind = "heal" THEN {t} ELSE {})
<1>1. \/ effect.kind = "direct-damage" /\ effect.amount \in Nat
      \/ effect.kind = "heal" /\ effect.amount \in Nat
      \/ effect.kind = "apply-status"
  BY DEF Effects
<1>2. CASE effect.kind = "direct-damage" /\ effect.amount \in Nat
  <2>1. ApplyEffect(v, t, effect) = DealDamage(v, t, effect.amount)
    BY <1>2 DEF ApplyEffect
  <2>2. Outcome(v, DealDamage(v, t, effect.amount), {})
    BY <1>2, DamageShown
  <2> QED BY <1>2, <2>1, <2>2 DEF Outcome
<1>3. CASE effect.kind = "heal" /\ effect.amount \in Nat
  <2>1. ApplyEffect(v, t, effect) = Heal(v, t, effect.amount)
    BY <1>3 DEF ApplyEffect
  <2>2. Outcome(v, Heal(v, t, effect.amount), {t})
    BY <1>3, HealShown
  <2> QED BY <1>3, <2>1, <2>2 DEF Outcome
<1>4. CASE effect.kind = "apply-status"
  <2>1. ApplyEffect(v, t, effect) = ApplyStatus(v, t, effect)
    BY <1>4 DEF ApplyEffect
  <2>2. Outcome(v, ApplyStatus(v, t, effect), {})
    BY <1>4, StatusShown
  <2> QED BY <1>4, <2>1, <2>2 DEF Outcome
<1> QED BY <1>1, <1>2, <1>3, <1>4

(* The dots that outlast a tick                                            *)
LEMMA DotsLast ==
  ASSUME NEW x \in Unit
  PROVE  LastingDots(x) \in Seq(Status) /\ (Lasting(x) # {} => LastingDots(x) # <<>>)
<1> DEFINE S == Lasting(x)
           n == Cardinality(S)
<1>1. x.activeDots \in Seq(Status) /\ Len(x.activeDots) \in Nat
      /\ DOMAIN x.activeDots = 1..Len(x.activeDots)
  BY DEF Unit
<1>2. S \in SUBSET Nat /\ IsFiniteSet(S) /\ n \in Nat
  <2>1. S \in SUBSET (1..Len(x.activeDots))
    BY <1>1 DEF Lasting
  <2>2. IsFiniteSet(1..Len(x.activeDots))
    BY <1>1, FS_Interval
  <2>3. IsFiniteSet(S)
    BY <2>1, <2>2, FS_Subset
  <2> QED BY <1>1, <2>1, <2>3, FS_CardinalityType
<1>3. InOrder(S) \in [1..n -> S]
  BY <1>2, InOrderLists
<1>4. ASSUME NEW j \in 1..n PROVE Older(x.activeDots[InOrder(S)[j]]) \in Status
  <2>1. InOrder(S)[j] \in S
    BY <1>3
  <2> DEFINE dot == x.activeDots[InOrder(S)[j]]
  <2>2. dot \in Status /\ ~Lapses("dot", dot)
    <3> DEFINE i == InOrder(S)[j]
    <3>1. i \in 1..Len(x.activeDots) /\ ~Lapses("dot", x.activeDots[i])
      BY <1>1, <2>1 DEF Lasting
    <3> HIDE DEF i
    <3> QED BY <1>1, <3>1 DEF i
  <2> HIDE DEF dot
  <2>3. dot.remainingTicks \in Nat /\ dot.remainingTicks > 1
    BY <2>2 DEF Lapses, Status
  <2>4. dot.remainingTicks - 1 \in Nat
    BY <2>3
  <2>5. Older(dot) \in Status
    BY <2>2, <2>4 DEF Older, Status
  <2> QED BY <2>5 DEF dot
<1>5. LastingDots(x) = [j \in 1..n |-> Older(x.activeDots[InOrder(S)[j]])]
  BY DEF LastingDots
<1>6. LastingDots(x) \in Seq(Status) /\ Len(LastingDots(x)) = n
  <2> HIDE DEF S, n
  <2>1. LastingDots(x) \in [1..n -> Status]
    BY <1>4, <1>5
  <2> QED BY <1>2, <2>1
<1>7. S # {} => n # 0
  BY <1>2, FS_EmptySet
<1> QED BY <1>6, <1>7

(* tickStatuses and tickCooldowns: hp stays, and every counter goes down by*)
(* at most one.                                                            *)
LEMMA HousekeptUnit ==
  ASSUME NEW x \in Unit, NEW y, y = Housekept(x)
  PROVE  /\ y \in Unit /\ y.hp = x.hp
         /\ \A k \in SlotKinds : y.slot[k] # NoStatus <=> x.slot[k] # NoStatus /\ k \notin Expired(x)
         /\ y.activeDots = LastingDots(x)
         /\ y.cooldown >= x.cooldown - 1 /\ \A s \in Skills : y.skills[s] >= x.skills[s] - 1
<1> DEFINE kept(k) == IF x.slot[k] = NoStatus \/ k \in Expired(x) THEN NoStatus ELSE Older(x.slot[k])
           slot == [k \in SlotKinds |-> kept(k)]
           skills == [s \in Skills |-> Less(x.skills[s])]
<1>1. x.slot \in [SlotKinds -> Status \cup {NoStatus}] /\ x.skills \in [Skills -> Nat] /\ x.cooldown \in Nat
  BY DEF Unit
<1>2. \A n \in Nat : Less(n) \in Nat /\ Less(n) >= n - 1
  BY DEF Less, Least
<1>3. ASSUME NEW k \in SlotKinds
      PROVE  /\ kept(k) \in Status \cup {NoStatus}
             /\ kept(k) # NoStatus <=> x.slot[k] # NoStatus /\ k \notin Expired(x)
  <2>1. CASE x.slot[k] = NoStatus \/ k \in Expired(x)
    BY <2>1
  <2>2. CASE x.slot[k] # NoStatus /\ k \notin Expired(x)
    <3> DEFINE status == x.slot[k]
    <3>1. status \in Status /\ ~Lapses(k, status)
      BY <1>1, <2>2 DEF Expired
    <3>2. kept(k) = Older(status)
      BY <2>2
    <3> HIDE DEF status
    <3>3. status.remainingTicks - 1 \in Nat
      BY <3>1 DEF Lapses, Status
    <3>4. Older(status) \in Status
      BY <3>1, <3>3 DEF Older, Status
    <3> QED BY <2>2, <3>2, <3>4, Bounds
  <2> QED BY <2>1, <2>2
<1> HIDE DEF kept
<1>4. slot \in [SlotKinds -> Status \cup {NoStatus}]
      /\ \A k \in SlotKinds : slot[k] # NoStatus <=> x.slot[k] # NoStatus /\ k \notin Expired(x)
  BY <1>3
<1>5. skills \in [Skills -> Nat] /\ \A s \in Skills : skills[s] >= x.skills[s] - 1
  BY <1>1, <1>2
<1>6. LastingDots(x) \in Seq(Status)
  BY DotsLast
<1>7. y = [x EXCEPT !.slot = slot, !.activeDots = LastingDots(x), !.cooldown = Less(x.cooldown),
                    !.skills = skills]
  BY DEF Housekept, Unit, kept
<1> HIDE DEF slot, skills
<1>8. /\ y \in Unit /\ y.hp = x.hp /\ y.slot = slot /\ y.skills = skills
      /\ y.activeDots = LastingDots(x) /\ y.cooldown = Less(x.cooldown)
  BY <1>1, <1>2, <1>4, <1>5, <1>6, <1>7 DEF Unit
<1> QED BY <1>1, <1>2, <1>4, <1>5, <1>8

(* The viewer hears of every slot that is emptied; it forgets the dots when*)
(* one of them lapses.                                                     *)
LEMMA HousekeptShown ==
  ASSUME NEW x \in Unit, NEW f \in FrameUnit, Shown(x, f)
  PROVE  /\ ShowExpired(f, x) \in FrameUnit /\ ShowExpired(f, x).dead = f.dead
         /\ Shown(Housekept(x), ShowExpired(f, x))
<1> DEFINE y == Housekept(x)
           gone == Expired(x) \cup
             {"dot" : i \in {j \in DOMAIN x.activeDots : Lapses("dot", x.activeDots[j])}}
           g == [f EXCEPT !.statuses = f.statuses \ gone]
<1>1. g = ShowExpired(f, x)
  BY DEF ShowExpired, FrameUnit
<1>2. /\ g \in FrameUnit /\ g.dead = f.dead /\ g.hp = f.hp /\ g.statuses = f.statuses \ gone
  BY DEF FrameUnit
<1>3. /\ y \in Unit /\ y.hp = x.hp
      /\ \A k \in SlotKinds : y.slot[k] # NoStatus <=> x.slot[k] # NoStatus /\ k \notin Expired(x)
      /\ y.activeDots = LastingDots(x)
  BY HousekeptUnit
<1>4. ASSUME NEW k \in SlotKinds PROVE k \in gone <=> k \in Expired(x)
  BY DEF SlotKinds
<1>5. ASSUME "dot" \in f.statuses, "dot" \notin gone PROVE LastingDots(x) # <<>>
  <2>1. \A j \in DOMAIN x.activeDots : ~Lapses("dot", x.activeDots[j])
    BY <1>5
  <2>2. x.activeDots # <<>> /\ x.activeDots \in Seq(Status)
    BY <1>5 DEF Shown, Unit
  <2>3. 1 \in DOMAIN x.activeDots
    BY <2>2
  <2>4. Lasting(x) # {}
    BY <2>1, <2>3 DEF Lasting
  <2> QED BY <2>4, DotsLast
<1> HIDE DEF y, g, gone
<1>6. Shown(y, g)
  BY <1>2, <1>3, <1>4, <1>5 DEF Shown
<1> QED BY <1>1, <1>2, <1>6 DEF y

(* The damage of a blow                                                    *)
LEMMA BlowIsNat ==
  ASSUME NEW u \in Units, units \in [Units -> Unit]
  PROVE  Blow(u) \in Nat
<1> DEFINE e == units[u].slot["empower"]
           m == e.magnitude
           d == AttackDamage[u]
<1>1. e \in Status \cup {NoStatus} /\ d \in Nat
  BY Bounds DEF Unit, SlotKinds
<1>2. CASE e = NoStatus
  BY <1>1, <1>2 DEF Blow
<1>3. CASE e # NoStatus
  <2>1. m \in Nat
    BY <1>1, <1>3 DEF Status
  <2>2. Blow(u) = (d * (100 + m)) \div 100
    BY <1>3 DEF Blow
  <2> HIDE DEF m, d
  <2>3. d * (100 + m) \in Nat
    BY <1>1, <2>1
  <2> DEFINE n == d * (100 + m)
  <2> HIDE DEF n
  <2>4. n \in Nat => n \div 100 \in Nat
    OBVIOUS
  <2> QED BY <2>2, <2>3, <2>4 DEF n
<1> QED BY <1>2, <1>3

-----------------------------------------------------------------------------
(* The inductive invariant.                                                *)

(* What is left of the cooldown of an attack or of a skill                 *)
Left(us, u, x) == IF x = "attack" THEN us[u].cooldown ELSE us[u].skills[x]

(* u has had its housekeeping in this tick, or will have none.             *)
Settled(u) ==
  phase \in {"judge", "between", "over"} \/ (phase = "house" /\ u < turn)

TicksOf(u) == IF Settled(u) THEN 1 ELSE 0

(* From a use on, what is left of the cooldown and the housekeepings since *)
(* then make up the whole of it: one in each tick, counting this one when  *)
(* it is done.                                                             *)
CooldownsHold ==
  \A u \in Units, x \in Uses : used[u][x] > 0 =>
    Left(units, u, x) + (tick - used[u][x]) + TicksOf(u) >= CooldownOf(u, x)

(* Nothing is used before the first tick or after this one.                *)
TicksRun ==
  /\ phase # "between" => tick > 0
  /\ \A u \in Units, x \in Uses : used[u][x] <= tick

BattleInv == TypeOK /\ FrameShowsWorld /\ TicksRun /\ CooldownsHold

(* The world of a state that satisfies the invariant, and back             *)
LEMMA WorldIsOK == TypeOK /\ FrameShowsWorld => WorldOK(World)
<1> SUFFICES ASSUME TypeOK, FrameShowsWorld PROVE WorldOK(World)
  OBVIOUS
<1>1. World.units = units /\ World.frame = frame
  BY DEF World
<1>2. WorldType(units, frame)
  BY DEF TypeOK, WorldType
<1>3. \A u \in Units : units[u].hp \in Nat
  BY DEF TypeOK, Unit
<1>4. AllShown(units, frame)
  BY <1>3 DEF AllShown, Shown, FrameShowsWorld, FrameShowsHp, FrameShowsDeaths, FrameShowsStatuses,
              Alive
<1> QED BY <1>1, <1>2, <1>4 DEF WorldOK

(* A world that is shown as it is shows hp, the dead and the statuses.     *)
ShowsAll(us, fs) ==
  \A u \in Units :
    /\ fs[u].hp = us[u].hp
    /\ ~(us[u].hp > 0) => fs[u].dead
    /\ \A k \in SlotKinds : k \in fs[u].statuses <=> us[u].slot[k] # NoStatus
    /\ "dot" \in fs[u].statuses => us[u].activeDots # <<>>

LEMMA OKShows ==
  ASSUME NEW us, NEW fs, WorldType(us, fs), AllShown(us, fs)
  PROVE  ShowsAll(us, fs)
<1>1. \A u \in Units : us[u].hp \in Nat
  BY DEF WorldType, Unit
<1> QED BY <1>1 DEF ShowsAll, AllShown, Shown

(* Whose turn comes next, and in which phase.                              *)
LEMMA TurnPasses ==
  ASSUME NEW next \in Phases, TypeOK, PassTurn(next)
  PROVE  /\ turn' \in Units /\ phase' \in {phase, next}
         /\ phase' = phase => turn' = turn + 1 \/ (turn' = 0 /\ phase = next)
         /\ phase' # phase => turn = LastUnit /\ turn' = 0
BY Bounds DEF PassTurn, TypeOK, Units

(* A step in which unit u uses x on the world and changes it to w          *)
LEMMA UseKeeps ==
  ASSUME BattleInv, NEW u \in Units, NEW x \in Uses, phase = "act",
         Left(units, u, x) = 0, NEW healed,
         NEW w, WorldOK(w), units' = w.units, frame' = w.frame,
         \A v \in Units, z \in Uses :
           Left(w.units, v, z) = IF v = u /\ z = x THEN CooldownOf(u, x) ELSE Left(units, v, z),
         \A v \in Units : frame'[v].dead /\ units'[v].hp > 0 =>
           \/ frame[v].dead /\ units[v].hp > 0
           \/ v \in healed /\ units[v].hp = 0,
         \A v \in healed : units[v].hp = 0 => u \in External /\ x # "attack" /\ Effect[x].kind = "heal",
         Marked(u, x), PassTurn("house"), UNCHANGED <<tick, bite, result>>
  PROVE  BattleInv'
<1>1. /\ WorldType(units', frame') /\ AllShown(units', frame')
  BY DEF WorldOK
<1>2. ShowsAll(units', frame')
  BY <1>1, OKShows
<1>3. tick \in 1..TickCap /\ tick' = tick /\ used \in [Units -> [Uses -> 0..TickCap]]
      /\ TickCap \in Nat
  BY Bounds DEF BattleInv, TypeOK, TicksRun
<1>4. /\ used' \in [Units -> [Uses -> 0..TickCap]]
      /\ \A v \in Units, z \in Uses :
           used'[v][z] = IF v = u /\ z = x THEN tick ELSE used[v][z]
  BY <1>3 DEF Marked
<1>5. turn' \in Units /\ phase' \in {"act", "house"} /\ (phase' = "house" => turn' = 0)
  BY TurnPasses DEF BattleInv, Phases
<1>6. TypeOK'
  BY <1>1, <1>4, <1>5 DEF BattleInv, TypeOK, WorldType, Phases
<1>7. FrameShowsHp' /\ FrameShowsStatuses'
  BY <1>2 DEF ShowsAll, FrameShowsHp, FrameShowsStatuses
<1>8. FrameShowsDeaths'
  <2> SUFFICES ASSUME NEW v \in Units
               PROVE  /\ ~(units'[v].hp > 0) => frame'[v].dead
                      /\ frame'[v].dead /\ units'[v].hp > 0 =>
                           \E e \in External, s \in Skills : Effect[s].kind = "heal" /\ used'[e][s] > 0
    BY DEF FrameShowsDeaths, Alive
  <2>1. ~(units'[v].hp > 0) => frame'[v].dead
    BY <1>2 DEF ShowsAll
  <2>2. ASSUME frame'[v].dead, units'[v].hp > 0
        PROVE  \E e \in External, s \in Skills : Effect[s].kind = "heal" /\ used'[e][s] > 0
    <3>1. CASE frame[v].dead /\ units[v].hp > 0
      <4>1. PICK e \in External, s \in Skills : Effect[s].kind = "heal" /\ used[e][s] > 0
        BY <3>1 DEF BattleInv, FrameShowsWorld, FrameShowsDeaths, Alive
      <4>2. used'[e][s] > 0
        BY <1>3, <1>4, <4>1, Bounds DEF Uses
      <4> QED BY <4>1, <4>2
    <3>2. CASE v \in healed /\ units[v].hp = 0
      <4>1. u \in External /\ x \in Skills /\ Effect[x].kind = "heal"
        BY <3>2 DEF Uses
      <4>2. used'[u][x] > 0
        BY <1>3, <1>4
      <4> QED BY <4>1, <4>2
    <3> QED BY <2>2, <3>1, <3>2
  <2> QED BY <2>1, <2>2
<1>9. ResultIsShown'
  BY <1>5 DEF BattleInv, FrameShowsWorld, ResultIsShown
<1>10. TicksRun'
  BY <1>3, <1>4 DEF BattleInv, TicksRun
<1>11. CooldownsHold'
  <2> SUFFICES ASSUME NEW v \in Units, NEW z \in Uses, used'[v][z] > 0
               PROVE  Left(units', v, z) + (tick' - used'[v][z]) + TicksOf(v)' >= CooldownOf(v, z)
    BY DEF CooldownsHold, Left, CooldownOf
  <2>1. TicksOf(v)' = 0 /\ TicksOf(v) = 0
    <3>1. ~ Settled(v)
      BY DEF Settled
    <3>2. v \in Nat
      BY Bounds
    <3>3. ~ (Settled(v)')
      BY <1>5, <3>2 DEF Settled
    <3> QED BY <3>1, <3>3 DEF TicksOf
  <2>2. CASE v = u /\ z = x
    <3>1. Left(units', v, z) = CooldownOf(v, z) /\ tick' - used'[v][z] = 0
      BY <1>3, <1>4, <2>2
    <3>2. CooldownOf(v, z) \in Nat
      BY Bounds DEF CooldownOf, Uses
    <3> QED BY <2>1, <3>1, <3>2
  <2>3. CASE ~(v = u /\ z = x)
    BY <1>3, <1>4, <2>1, <2>3 DEF BattleInv, CooldownsHold
  <2> QED BY <2>2, <2>3
<1> QED BY <1>6, <1>7, <1>8, <1>9, <1>10, <1>11 DEF BattleInv, FrameShowsWorld

(* Outcomes of effects, seen from the unit that uses something             *)
LEMMA OutcomeLeaves ==
  ASSUME NEW v, NEW w, NEW healed, Outcome(v, w, healed), v.units = units, v.frame = frame
  PROVE  /\ WorldOK(w)
         /\ \A u \in Units, z \in Uses : Left(w.units, u, z) = Left(units, u, z)
         /\ \A u \in Units : w.frame[u].dead /\ w.units[u].hp > 0 =>
              \/ frame[u].dead /\ units[u].hp > 0
              \/ u \in healed /\ units[u].hp = 0
BY DEF Outcome, Left

(* A unit whose counters alone are set                                     *)
LEMMA Recharged ==
  ASSUME NEW d, WorldOK(d), NEW u \in Units, NEW w, OnlyAt(d, w, u), w.frame = d.frame,
         w.units[u].hp = d.units[u].hp, w.units[u].slot = d.units[u].slot,
         w.units[u].activeDots = d.units[u].activeDots
  PROVE  WorldOK(w)
<1>1. WorldType(w.units, w.frame)
  BY DEF WorldOK, WorldType, OnlyAt
<1>2. AllShown(w.units, w.frame)
  BY DEF WorldOK, AllShown, Shown, OnlyAt
<1> QED BY <1>1, <1>2 DEF WorldOK

LEMMA AttackKeeps ==
  ASSUME BattleInv, NEW u \in Units, NEW t \in Units, Attacks(u, t)
  PROVE  BattleInv'
<1> DEFINE d == DealDamage(World, t, Blow(u))
           w == [d EXCEPT !.units[u].cooldown = AttackCooldown[u]]
           y == [d.units[u] EXCEPT !.cooldown = AttackCooldown[u]]
<1>1. World.units = units /\ World.frame = frame /\ WorldOK(World)
  BY WorldIsOK DEF World, BattleInv
<1>2. Blow(u) \in Nat
  BY BlowIsNat DEF BattleInv, TypeOK
<1>3. Outcome(World, d, {})
  BY <1>1, <1>2, DamageShown
<1>4. units' = w.units /\ frame' = w.frame
  BY DEF Attacks, Become
<1>5. d = [units |-> d.units, frame |-> d.frame]
  BY DEF DealDamage
<1> HIDE DEF d
<1>6. w.units = [d.units EXCEPT ![u] = y] /\ w.frame = d.frame
  BY <1>5
<1> HIDE DEF w
<1>7. /\ WorldOK(d)
      /\ \A v \in Units, z \in Uses : Left(d.units, v, z) = Left(units, v, z)
      /\ \A v \in Units : d.frame[v].dead /\ d.units[v].hp > 0 =>
              \/ frame[v].dead /\ units[v].hp > 0
              \/ v \in {} /\ units[v].hp = 0
  BY <1>1, <1>3, OutcomeLeaves
<1>8. d.units[u] \in Unit /\ AttackCooldown[u] \in Nat
  BY <1>7, Bounds DEF WorldOK, WorldType
<1>9. /\ y \in Unit /\ y.hp = d.units[u].hp /\ y.slot = d.units[u].slot
      /\ y.skills = d.units[u].skills /\ y.activeDots = d.units[u].activeDots
      /\ y.cooldown = AttackCooldown[u]
  BY <1>8 DEF Unit
<1> HIDE DEF y
<1>10. /\ WorldOK(w) /\ w.units[u] = y
       /\ \A v \in Units \ {u} : w.units[v] = d.units[v]
  <2>1. OnlyAt(d, w, u) /\ w.units[u] = y
    BY <1>6, <1>7, <1>9 DEF OnlyAt, WorldOK, WorldType
  <2>2. WorldOK(w)
    BY <1>6, <1>7, <1>9, <2>1, Recharged
  <2> QED BY <2>1, <2>2 DEF OnlyAt
<1>11. ASSUME NEW v \in Units, NEW z \in Uses
       PROVE  Left(w.units, v, z) = IF v = u /\ z = "attack" THEN CooldownOf(u, "attack")
                                    ELSE Left(units, v, z)
  <2>1. Left(d.units, v, z) = Left(units, v, z)
    BY <1>7
  <2>2. CASE v = u
    BY <1>9, <1>10, <2>1, <2>2 DEF Left, CooldownOf
  <2>3. CASE v # u
    BY <1>10, <2>1, <2>3 DEF Left
  <2> QED BY <2>2, <2>3
<1>12. \A v \in Units : frame'[v].dead /\ units'[v].hp > 0 =>
         \/ frame[v].dead /\ units[v].hp > 0
         \/ v \in {} /\ units[v].hp = 0
  BY <1>4, <1>6, <1>7, <1>9, <1>10
<1>13. /\ phase = "act" /\ Left(units, u, "attack") = 0 /\ "attack" \in Uses
       /\ Marked(u, "attack") /\ PassTurn("house") /\ UNCHANGED <<tick, bite, result>>
  BY DEF Attacks, Left, Uses
<1> DEFINE nobody == {}
<1>14. \A v \in nobody : units[v].hp = 0 =>
         u \in External /\ "attack" # "attack" /\ Effect["attack"].kind = "heal"
  OBVIOUS
<1>15. \A v \in Units : frame'[v].dead /\ units'[v].hp > 0 =>
         \/ frame[v].dead /\ units[v].hp > 0
         \/ v \in nobody /\ units[v].hp = 0
  BY <1>12
<1> HIDE DEF nobody
<1> QED BY <1>4, <1>10, <1>11, <1>13, <1>14, <1>15, UseKeeps

LEMMA CastKeeps ==
  ASSUME BattleInv, NEW u \in Units, NEW t \in Units, NEW s \in Skills, Casts(u, t, s)
  PROVE  BattleInv'
<1> DEFINE d == ApplyEffect(World, t, Effect[s])
           w == [d EXCEPT !.units[u].skills[s] = SkillCooldown[s]]
           z0 == [d.units[u].skills EXCEPT ![s] = SkillCooldown[s]]
           y == [d.units[u] EXCEPT !.skills = z0]
           healed == IF Effect[s].kind = "heal" THEN {t} ELSE {}
<1>1. World.units = units /\ World.frame = frame /\ WorldOK(World)
  BY WorldIsOK DEF World, BattleInv
<1>2. Effect[s] \in Effects
  BY Bounds
<1>3. Outcome(World, d, healed)
  BY <1>1, <1>2, EffectShown
<1>4. units' = w.units /\ frame' = w.frame
  BY DEF Casts, Become
<1>5. d = [units |-> d.units, frame |-> d.frame]
  BY <1>2 DEF ApplyEffect, DealDamage, Heal, ApplyStatus, Effects
<1>6. t \in Targets(u)
  BY DEF Casts
<1>7. ASSUME NEW v \in healed, units[v].hp = 0
      PROVE  u \in External /\ s # "attack" /\ Effect[s].kind = "heal"
  <2>1. v = t /\ Effect[s].kind = "heal"
    BY <1>7
  <2>2. ~ (units[t].hp > 0)
    BY <1>7, <2>1
  <2> QED BY <1>6, <2>1, <2>2, Bounds DEF Targets, Alive
<1> HIDE DEF d, healed
<1>8. w.units = [d.units EXCEPT ![u] = y] /\ w.frame = d.frame
  BY <1>5
<1> HIDE DEF w
<1>9. /\ WorldOK(d)
      /\ \A v \in Units, z \in Uses : Left(d.units, v, z) = Left(units, v, z)
      /\ \A v \in Units : d.frame[v].dead /\ d.units[v].hp > 0 =>
              \/ frame[v].dead /\ units[v].hp > 0
              \/ v \in healed /\ units[v].hp = 0
  BY <1>1, <1>3, OutcomeLeaves
<1>10. d.units[u] \in Unit /\ SkillCooldown[s] \in Nat
  BY <1>9, Bounds DEF WorldOK, WorldType
<1>11. z0 \in [Skills -> Nat] /\ z0[s] = SkillCooldown[s]
       /\ \A z \in Skills \ {s} : z0[z] = d.units[u].skills[z]
  BY <1>10 DEF Unit
<1> HIDE DEF z0
<1>12. /\ y \in Unit /\ y.hp = d.units[u].hp /\ y.slot = d.units[u].slot
       /\ y.skills = z0 /\ y.activeDots = d.units[u].activeDots
       /\ y.cooldown = d.units[u].cooldown
  BY <1>10, <1>11 DEF Unit
<1> HIDE DEF y
<1>13. OnlyAt(d, w, u) /\ w.units[u] = y
  BY <1>8, <1>9, <1>12 DEF OnlyAt, WorldOK, WorldType
<1>14. WorldOK(w)
  BY <1>8, <1>9, <1>12, <1>13, Recharged
<1>15. ASSUME NEW v \in Units, NEW z \in Uses
       PROVE  Left(w.units, v, z) = IF v = u /\ z = s THEN CooldownOf(u, s)
                                    ELSE Left(units, v, z)
  <2>1. Left(d.units, v, z) = Left(units, v, z)
    BY <1>9
  <2>2. s # "attack"
    BY Bounds
  <2>3. CASE v = u
    BY <1>11, <1>12, <1>13, <2>1, <2>2, <2>3 DEF Left, CooldownOf, Uses
  <2>4. CASE v # u
    BY <1>13, <2>1, <2>4 DEF Left, OnlyAt
  <2> QED BY <2>3, <2>4
<1>16. \A v \in Units : frame'[v].dead /\ units'[v].hp > 0 =>
         \/ frame[v].dead /\ units[v].hp > 0
         \/ v \in healed /\ units[v].hp = 0
  <2> SUFFICES ASSUME NEW v \in Units
               PROVE  w.frame[v].dead = d.frame[v].dead /\ w.units[v].hp = d.units[v].hp
    BY <1>4, <1>9
  <2> QED BY <1>8, <1>12, <1>13 DEF OnlyAt
<1>17. /\ phase = "act" /\ Left(units, u, s) = 0 /\ s \in Uses
       /\ Marked(u, s) /\ PassTurn("house") /\ UNCHANGED <<tick, bite, result>>
  BY Bounds DEF Casts, Left, Uses
<1> QED BY <1>4, <1>7, <1>14, <1>15, <1>16, <1>17, UseKeeps

(* A step of the match, before its end, in which nobody uses anything and  *)
(* nobody is healed                                                        *)
LEMMA FramesFollow ==
  ASSUME BattleInv, NEW w, WorldOK(w), units' = w.units, frame' = w.frame,
         \A u \in Units : frame'[u].dead /\ units'[u].hp > 0 => frame[u].dead /\ units[u].hp > 0,
         phase # "over", phase' # "over", UNCHANGED <<used, result>>
  PROVE  FrameShowsWorld'
<1>1. ShowsAll(units', frame')
  BY OKShows DEF WorldOK
<1>2. FrameShowsHp' /\ FrameShowsStatuses'
  BY <1>1 DEF ShowsAll, FrameShowsHp, FrameShowsStatuses
<1>3. FrameShowsDeaths'
  <2> SUFFICES ASSUME NEW v \in Units
               PROVE  /\ ~(units'[v].hp > 0) => frame'[v].dead
                      /\ frame'[v].dead /\ units'[v].hp > 0 =>
                           \E e \in External, s \in Skills : Effect[s].kind = "heal" /\ used'[e][s] > 0
    BY DEF FrameShowsDeaths, Alive
  <2>1. ~(units'[v].hp > 0) => frame'[v].dead
    BY <1>1 DEF ShowsAll
  <2>2. ASSUME frame'[v].dead, units'[v].hp > 0
        PROVE  \E e \in External, s \in Skills : Effect[s].kind = "heal" /\ used'[e][s] > 0
    <3>1. frame[v].dead /\ units[v].hp > 0
      BY <2>2
    <3>2. PICK e \in External, s \in Skills : Effect[s].kind = "heal" /\ used[e][s] > 0
      BY <3>1 DEF BattleInv, FrameShowsWorld, FrameShowsDeaths, Alive
    <3> QED BY <3>2
  <2> QED BY <2>1, <2>2
<1>4. ResultIsShown'
  BY DEF BattleInv, FrameShowsWorld, ResultIsShown
<1> QED BY <1>2, <1>3, <1>4 DEF FrameShowsWorld

(* The turn passes in the housekeeping phase: this unit is settled.        *)
LEMMA HousePasses ==
  ASSUME TypeOK, phase = "house", NEW u \in Units, turn = u, PassTurn("judge")
  PROVE  /\ turn' \in Units /\ phase' \in {"house", "judge"}
         /\ \A v \in Units : TicksOf(v) \in 0..1 /\ TicksOf(v)' \in 0..1 /\ TicksOf(v)' >= TicksOf(v)
         /\ TicksOf(u) = 0 /\ TicksOf(u)' = 1
<1>1. turn \in Units /\ Units = 0..LastUnit /\ LastUnit \in Nat
  BY Bounds DEF TypeOK, Units
<1>2. CASE turn < LastUnit
  <2>1. turn' = turn + 1 /\ phase' = "house"
    BY <1>2 DEF PassTurn
  <2>2. \A v \in Units : (Settled(v) <=> v < turn) /\ (Settled(v)' <=> v < turn + 1)
    BY <2>1 DEF Settled
  <2>3. turn + 1 \in Units
    BY <1>1, <1>2
  <2>4. \A v \in Units : v < turn => v < turn + 1
    BY <1>1
  <2>5. TicksOf(u) = 0
    BY <1>1, <2>2 DEF TicksOf
  <2>6. TicksOf(u)' = 1
    BY <1>1, <2>1, <2>2 DEF TicksOf
  <2> QED BY <1>1, <2>1, <2>2, <2>3, <2>4, <2>5, <2>6 DEF TicksOf
<1>3. CASE ~(turn < LastUnit)
  <2>1. turn' = 0 /\ phase' = "judge"
    BY <1>3 DEF PassTurn
  <2>2. \A v \in Units : TicksOf(v)' = 1 /\ TicksOf(v) \in 0..1
    BY <2>1 DEF Settled, TicksOf
  <2>3. TicksOf(u) = 0
    BY <1>1 DEF Settled, TicksOf
  <2> QED BY <1>1, <2>1, <2>2, <2>3
<1> QED BY <1>2, <1>3

LEMMA BiteKeeps ==
  ASSUME BattleInv, NEW u \in Units, DotBites(u)
  PROVE  BattleInv'
<1> DEFINE m == units[u].activeDots[bite].magnitude
           w == DealDamage(World, u, m)
<1>1. World.units = units /\ World.frame = frame /\ WorldOK(World)
  BY WorldIsOK DEF World, BattleInv
<1>2. m \in Nat
  <2>1. units[u].activeDots \in Seq(Status) /\ bite \in Nat \ {0}
        /\ bite <= Len(units[u].activeDots)
    BY DEF BattleInv, TypeOK, Unit, DotBites
  <2>2. units[u].activeDots[bite] \in Status
    BY <2>1
  <2> QED BY <2>2 DEF Status
<1>3. Outcome(World, w, {})
  BY <1>1, <1>2, DamageShown
<1>4. units' = w.units /\ frame' = w.frame
  BY DEF DotBites, Become
<1> HIDE DEF w
<1>5. /\ WorldOK(w)
      /\ \A v \in Units, z \in Uses : Left(w.units, v, z) = Left(units, v, z)
      /\ \A v \in Units : w.frame[v].dead /\ w.units[v].hp > 0 =>
              \/ frame[v].dead /\ units[v].hp > 0
              \/ v \in {} /\ units[v].hp = 0
  BY <1>1, <1>3, OutcomeLeaves
<1>6. phase = "house" /\ UNCHANGED <<tick, phase, turn, result, used>> /\ bite' = bite + 1
  BY DEF DotBites, Kept
<1>7. FrameShowsWorld'
  BY <1>4, <1>5, <1>6, FramesFollow
<1>8. TypeOK'
  BY <1>4, <1>5, <1>6 DEF BattleInv, TypeOK, WorldOK, WorldType
<1>9. TicksRun'
  BY <1>6 DEF BattleInv, TicksRun
<1>10. CooldownsHold'
  BY <1>4, <1>5, <1>6 DEF BattleInv, CooldownsHold, TicksOf, Settled
<1> QED BY <1>7, <1>8, <1>9, <1>10 DEF BattleInv

LEMMA HousekeepingKeeps ==
  ASSUME BattleInv, NEW u \in Units, Housekeeps(u)
  PROVE  BattleInv'
<1> DEFINE x == units[u]
           f == frame[u]
           w == [units |-> units', frame |-> frame']
<1>1. World.units = units /\ World.frame = frame /\ WorldOK(World)
  BY WorldIsOK DEF World, BattleInv
<1>2. x \in Unit /\ f \in FrameUnit /\ x.hp <= MaxHp[u] /\ Shown(x, f)
      /\ units \in [Units -> Unit] /\ frame \in [Units -> FrameUnit]
  BY <1>1 DEF WorldOK, WorldType, AllShown
<1>3. /\ phase = "house" /\ turn = u /\ PassTurn("judge") /\ UNCHANGED <<tick, result, used>>
      /\ bite' = 1
  BY DEF Housekeeps, Kept
<1> DEFINE y == Housekept(x)
           g == ShowExpired(f, x)
<1>4. /\ y \in Unit /\ y.hp = x.hp
      /\ y.cooldown >= x.cooldown - 1 /\ \A s \in Skills : y.skills[s] >= x.skills[s] - 1
  BY <1>2, HousekeptUnit
<1>5. g \in FrameUnit /\ g.dead = f.dead /\ Shown(y, g)
  BY <1>2, HousekeptShown
<1>6. /\ units' = [units EXCEPT ![u] = y] /\ frame' = [frame EXCEPT ![u] = g]
  BY DEF Housekeeps
<1> HIDE DEF y, g
<1>7. /\ units' \in [Units -> Unit] /\ frame' \in [Units -> FrameUnit]
      /\ units'[u] = y /\ frame'[u] = g
      /\ \A v \in Units \ {u} : units'[v] = units[v] /\ frame'[v] = frame[v]
  BY <1>2, <1>4, <1>5, <1>6
<1>8. w.units = units' /\ w.frame = frame'
  OBVIOUS
<1> HIDE DEF w
<1>9. WorldOK(w)
  <2>1. WorldType(units', frame')
    BY <1>1, <1>2, <1>4, <1>7 DEF WorldOK, WorldType
  <2>2. AllShown(units', frame')
    BY <1>1, <1>5, <1>7 DEF WorldOK, AllShown
  <2> QED BY <1>8, <2>1, <2>2 DEF WorldOK
<1>10. \A v \in Units : frame'[v].dead /\ units'[v].hp > 0 => frame[v].dead /\ units[v].hp > 0
  BY <1>4, <1>5, <1>7
<1>11. /\ turn' \in Units /\ phase' \in {"house", "judge"}
       /\ \A v \in Units : TicksOf(v) \in 0..1 /\ TicksOf(v)' \in 0..1 /\ TicksOf(v)' >= TicksOf(v)
       /\ TicksOf(u) = 0 /\ TicksOf(u)' = 1
  BY <1>3, HousePasses DEF BattleInv
<1>12. FrameShowsWorld'
  BY <1>3, <1>8, <1>9, <1>10, <1>11, FramesFollow
<1>13. TypeOK'
  BY <1>3, <1>8, <1>9, <1>11 DEF BattleInv, TypeOK, WorldOK, WorldType, Phases
<1>14. TicksRun'
  BY <1>3, <1>11 DEF BattleInv, TicksRun
<1>15. CooldownsHold'
  <2> SUFFICES ASSUME NEW v \in Units, NEW z \in Uses, used'[v][z] > 0
               PROVE  Left(units', v, z) + (tick' - used'[v][z]) + TicksOf(v)' >= CooldownOf(v, z)
    BY DEF CooldownsHold, Left, CooldownOf
  <2>1. /\ Left(units, v, z) + (tick - used[v][z]) + TicksOf(v) >= CooldownOf(v, z)
        /\ tick' = tick /\ used' = used
    BY <1>3 DEF BattleInv, CooldownsHold
  <2>2. /\ Left(units, v, z) \in Nat /\ Left(units', v, z) \in Nat /\ CooldownOf(v, z) \in Nat
        /\ tick - used[v][z] \in Int
    <3>1. \A q \in [Units -> Unit] : Left(q, v, z) \in Nat
      BY DEF Left, Unit, Uses
    <3>2. CooldownOf(v, z) \in Nat
      BY Bounds DEF CooldownOf, Uses
    <3>3. tick \in Int /\ used[v][z] \in Int
      BY Bounds DEF BattleInv, TypeOK
    <3> QED BY <1>2, <1>7, <3>1, <3>2, <3>3
  <2>3. CASE v = u
    <3>1. Left(units', v, z) >= Left(units, v, z) - 1
      BY <1>4, <1>7, <2>3 DEF Left, Uses
    <3> QED BY <1>11, <2>1, <2>2, <2>3, <3>1
  <2>4. CASE v # u
    <3>1. Left(units', v, z) = Left(units, v, z)
      BY <1>7, <2>4 DEF Left
    <3> QED BY <1>11, <2>1, <2>2, <3>1
  <2> QED BY <2>3, <2>4
<1> QED BY <1>12, <1>13, <1>14, <1>15 DEF BattleInv

(* Steps in which no unit and no frame changes                             *)
LEMMA StillWorld ==
  ASSUME BattleInv, UNCHANGED <<units, frame, used, result>>,
         phase # "over", phase' # "over"
  PROVE  FrameShowsWorld'
<1>1. World.units = units /\ World.frame = frame /\ WorldOK(World)
  BY WorldIsOK DEF World, BattleInv
<1>2. \A u \in Units : frame'[u].dead /\ units'[u].hp > 0 => frame[u].dead /\ units[u].hp > 0
  OBVIOUS
<1> QED BY <1>1, <1>2, FramesFollow

LEMMA JudgingKeeps ==
  ASSUME BattleInv, Judges
  PROVE  BattleInv'
<1>1. /\ phase = "judge" /\ UNCHANGED <<units, frame, tick, turn, bite, used>>
      /\ result = "none"
  BY DEF Judges, BattleInv, FrameShowsWorld, ResultIsShown
<1>2. CheckWinner \in Winners \cup {"none"}
  BY DEF CheckWinner, Winners
<1>3. /\ phase' \in {"over", "between"} /\ result' \in Winners \cup {"none"}
      /\ (phase' = "over" <=> result' # "none")
  BY <1>1, <1>2 DEF Judges, Winners
<1>4. TypeOK'
  BY <1>1, <1>3 DEF BattleInv, TypeOK, Phases
<1>5. TicksRun' /\ CooldownsHold'
  BY <1>1, <1>3 DEF BattleInv, TicksRun, CooldownsHold, TicksOf, Settled
<1>6. FrameShowsHp' /\ FrameShowsDeaths' /\ FrameShowsStatuses'
  BY <1>1 DEF BattleInv, FrameShowsWorld, FrameShowsHp, FrameShowsDeaths, FrameShowsStatuses, Alive
<1>7. \A u \in Units : /\ units[u].hp \in Nat /\ frame[u].hp = units[u].hp
                       /\ Alive(u) \/ (frame[u].dead /\ frame[u].hp = 0)
                       /\ Team[u] \in {"A", "B"}
  <2> SUFFICES ASSUME NEW u \in Units
               PROVE  /\ units[u].hp \in Nat /\ frame[u].hp = units[u].hp
                      /\ Alive(u) \/ (frame[u].dead /\ frame[u].hp = 0)
                      /\ Team[u] \in {"A", "B"}
    OBVIOUS
  <2>1. units[u].hp \in Nat
    BY DEF BattleInv, TypeOK, Unit
  <2>2. frame[u].hp = units[u].hp /\ (~Alive(u) => frame[u].dead)
    BY DEF BattleInv, FrameShowsWorld, FrameShowsHp, FrameShowsDeaths
  <2> QED BY <2>1, <2>2, Bounds DEF Alive
<1>8. ResultIsShown'
  <2>1. CASE CheckWinner = "none"
    <3>1. result' \in {"none", "draw"} /\ (result' = "draw" => tick >= TickCap)
      BY <1>1, <2>1 DEF Judges
    <3>2. tick \in 0..TickCap /\ TickCap \in Nat
      BY Bounds DEF BattleInv, TypeOK
    <3> QED BY <1>1, <1>3, <3>1, <3>2 DEF ResultIsShown
  <2>2. CASE CheckWinner # "none"
    <3>1. result' = CheckWinner
      BY <2>2 DEF Judges
    <3>2. CASE CheckWinner = "A"
      <4>1. Standing("A") /\ ~Standing("B")
        BY <3>2 DEF CheckWinner
      <4> QED BY <1>1, <1>3, <1>7, <3>1, <3>2, <4>1 DEF ResultIsShown, Standing, Alive
    <3>3. CASE CheckWinner = "B"
      <4>1. Standing("B") /\ ~Standing("A")
        BY <3>3 DEF CheckWinner
      <4> QED BY <1>1, <1>3, <1>7, <3>1, <3>3, <4>1 DEF ResultIsShown, Standing, Alive
    <3>4. CASE CheckWinner = "draw"
      <4>1. ~Standing("B") /\ ~Standing("A")
        BY <3>4 DEF CheckWinner
      <4>2. \A u \in Units : frame[u].dead
        BY <1>7, <4>1 DEF Standing
      <4> QED BY <1>1, <1>3, <3>1, <3>4, <4>2 DEF ResultIsShown
    <3> QED BY <1>2, <2>2, <3>2, <3>3, <3>4 DEF Winners
  <2> QED BY <2>1, <2>2
<1> QED BY <1>4, <1>5, <1>6, <1>8 DEF BattleInv, FrameShowsWorld

LEMMA InitialMatch == Init => BattleInv
<1> SUFFICES ASSUME Init PROVE BattleInv
  OBVIOUS
<1>1. \A u \in Units : /\ units[u] = Fresh(u) /\ units[u].hp = MaxHp[u] /\ units[u].hp > 0
                       /\ units[u].slot = [k \in SlotKinds |-> NoStatus]
                       /\ frame[u] = [hp |-> MaxHp[u], dead |-> FALSE, statuses |-> {}]
  BY Bounds DEF Init, Fresh
<1>2. \A u \in Units : Fresh(u) \in Unit
  BY Bounds DEF Fresh, Unit
<1>3. units \in [Units -> Unit] /\ \A u \in Units : units[u].hp <= MaxHp[u]
  <2>1. units = [u \in Units |-> Fresh(u)]
    BY DEF Init
  <2>2. units \in [Units -> Unit]
    BY <1>2, <2>1
  <2>3. \A u \in Units : MaxHp[u] \in Nat
    BY Bounds
  <2>4. \A u \in Units : units[u].hp <= MaxHp[u]
    <3> SUFFICES ASSUME NEW u \in Units PROVE units[u].hp <= MaxHp[u]
      OBVIOUS
    <3>1. units[u].hp = MaxHp[u]
      BY <1>1
    <3> QED BY <2>3, <3>1
  <2> QED BY <2>2, <2>4
<1>4. frame \in [Units -> FrameUnit]
  BY Bounds DEF Init, FrameUnit
<1>5. TypeOK
  BY <1>3, <1>4, Bounds DEF Init, TypeOK, Phases
<1>6. FrameShowsWorld
  BY <1>1 DEF Init, FrameShowsWorld, FrameShowsHp, FrameShowsDeaths, FrameShowsStatuses, ResultIsShown,
              Alive
<1>7. TicksRun /\ CooldownsHold
  BY DEF Init, TicksRun, CooldownsHold
<1> QED BY <1>5, <1>6, <1>7 DEF BattleInv

(* BattleInv holds of every reachable state.                               *)
LEMMA BattleInvariant == Spec => []BattleInv
<1>1. BattleInv /\ [Next]_vars => BattleInv'
  <2> SUFFICES ASSUME BattleInv, [Next]_vars PROVE BattleInv'
    OBVIOUS
  <2>1. CASE BeginTick
    <3>1. /\ phase = "between" /\ tick < TickCap /\ tick' = tick + 1 /\ phase' = "act" /\ turn' = 0
          /\ UNCHANGED <<units, frame, bite, result, used>>
      BY <2>1 DEF BeginTick
    <3>2. tick \in 0..TickCap /\ TickCap \in Nat /\ used \in [Units -> [Uses -> 0..TickCap]]
      BY Bounds DEF BattleInv, TypeOK
    <3>3. FrameShowsWorld'
      BY <3>1, StillWorld
    <3>4. TypeOK'
      BY <3>1, <3>2, Bounds DEF BattleInv, TypeOK, Phases
    <3>5. TicksRun'
      BY <3>1, <3>2 DEF BattleInv, TicksRun
    <3>6. \A u \in Units : TicksOf(u) = 1 /\ TicksOf(u)' = 0
      BY <3>1 DEF TicksOf, Settled
    <3>7. ASSUME NEW u \in Units, NEW x \in Uses, used'[u][x] > 0
          PROVE  Left(units', u, x) + (tick' - used'[u][x]) + TicksOf(u)' >= CooldownOf(u, x)
      <4>1. Left(units, u, x) + (tick - used[u][x]) + 1 >= CooldownOf(u, x)
        BY <3>1, <3>6, <3>7 DEF BattleInv, CooldownsHold
      <4>2. Left(units, u, x) \in Nat /\ used[u][x] \in Nat
        BY <3>2 DEF BattleInv, TypeOK, Left, Unit, Uses
      <4> QED BY <3>1, <3>2, <3>6, <4>1, <4>2
    <3> QED BY <3>3, <3>4, <3>5, <3>7 DEF BattleInv, CooldownsHold, Left, CooldownOf
  <2>2. ASSUME NEW u \in Units, Idles(u) PROVE BattleInv'
    <3>1. phase = "act" /\ PassTurn("house") /\ UNCHANGED <<units, frame, tick, bite, result, used>>
      BY <2>2 DEF Idles
    <3>2. turn' \in Units /\ phase' \in {"act", "house"} /\ (phase' = "house" => turn' = 0)
      BY <3>1, TurnPasses DEF BattleInv, Phases
    <3>3. \A v \in Units : TicksOf(v) = 0 /\ TicksOf(v)' = 0
      <4>1. \A v \in Units : ~ (v < 0)
        BY Bounds
      <4> QED BY <3>1, <3>2, <4>1 DEF TicksOf, Settled
    <3> QED BY <3>1, <3>2, <3>3, StillWorld
            DEF BattleInv, TypeOK, Phases, TicksRun, CooldownsHold, Left
  <2>3. ASSUME NEW u \in Units, NEW t \in Units, Attacks(u, t) PROVE BattleInv'
    BY <2>3, AttackKeeps
  <2>4. ASSUME NEW u \in Units, NEW t \in Units, NEW s \in Skills, Casts(u, t, s) PROVE BattleInv'
    BY <2>4, CastKeeps
  <2>5. ASSUME NEW u \in Units, DotBites(u) PROVE BattleInv'
    BY <2>5, BiteKeeps
  <2>6. ASSUME NEW u \in Units, Housekeeps(u) PROVE BattleInv'
    BY <2>6, HousekeepingKeeps
  <2>7. ASSUME NEW u \in Units, StaysDead(u) PROVE BattleInv'
    <3>1. /\ phase = "house" /\ turn = u /\ PassTurn("judge")
          /\ UNCHANGED <<units, frame, tick, bite, result, used>>
      BY <2>7 DEF StaysDead
    <3>2. /\ turn' \in Units /\ phase' \in {"house", "judge"}
          /\ \A v \in Units : TicksOf(v) \in 0..1 /\ TicksOf(v)' \in 0..1 /\ TicksOf(v)' >= TicksOf(v)
      BY <3>1, HousePasses DEF BattleInv
    <3>3. FrameShowsWorld'
      BY <3>1, <3>2, StillWorld
    <3>4. TypeOK' /\ TicksRun'
      BY <3>1, <3>2 DEF BattleInv, TypeOK, Phases, TicksRun
    <3>5. ASSUME NEW v \in Units, NEW x \in Uses, used'[v][x] > 0
          PROVE  Left(units', v, x) + (tick' - used'[v][x]) + TicksOf(v)' >= CooldownOf(v, x)
      <4>1. /\ Left(units, v, x) + (tick - used[v][x]) + TicksOf(v) >= CooldownOf(v, x)
        BY <3>1, <3>5 DEF BattleInv, CooldownsHold
      <4>2. Left(units, v, x) \in Nat /\ tick \in Int /\ used[v][x] \in Int
        <5>1. units \in [Units -> Unit]
          BY DEF BattleInv, TypeOK
        <5>2. Left(units, v, x) \in Nat
          BY <5>1 DEF Left, Unit, Uses
        <5> QED BY <5>2, Bounds DEF BattleInv, TypeOK
      <4>3. CooldownOf(v, x) \in Nat
        BY Bounds DEF CooldownOf, Uses
      <4>4. units' = units /\ tick' = tick /\ used' = used
        BY <3>1
      <4> QED BY <3>2, <4>1, <4>2, <4>3, <4>4
    <3> QED BY <3>3, <3>4, <3>5 DEF BattleInv, CooldownsHold, Left, CooldownOf
  <2>8. CASE Judges
    BY <2>8, JudgingKeeps
  <2>9. ASSUME NEW u \in Units, Throws(u) PROVE BattleInv'
    <3>1. phase = "act" /\ phase' = "thrown" /\ UNCHANGED <<units, frame, tick, turn, bite, result, used>>
      BY <2>9 DEF Throws
    <3> QED BY <3>1, StillWorld
            DEF BattleInv, TypeOK, Phases, TicksRun, CooldownsHold, Left, TicksOf, Settled
  <2>10. CASE UNCHANGED vars
    BY <2>10 DEF vars, BattleInv, TypeOK, TicksRun, CooldownsHold, Left, TicksOf, Settled, Alive,
       FrameShowsWorld, FrameShowsHp, FrameShowsDeaths, FrameShowsStatuses, ResultIsShown
  <2> QED BY <2>1, <2>2, <2>3, <2>4, <2>5, <2>6, <2>7, <2>8, <2>9, <2>10
          DEF Next, Advance, Turn, Stops
<1> QED BY <1>1, InitialMatch, PTL DEF Spec

-----------------------------------------------------------------------------
(* The state of a match is well-formed, and nobody has more than maxHp.    *)
THEOREM MatchTypes == Spec => []TypeOK
<1>1. BattleInv => TypeOK
  BY DEF BattleInv
<1> QED BY <1>1, BattleInvariant, PTL

(* What the viewer folds out of the log is what the world is: hp, deaths,  *)
(* statuses and the result.                                                *)
THEOREM ViewerShowsWorld == Spec => []FrameShowsWorld
<1>1. BattleInv => FrameShowsWorld
  BY DEF BattleInv
<1> QED BY <1>1, BattleInvariant, PTL

(* A unit attacks, and casts each of its skills, no sooner than the        *)
(* cooldown allows.                                                        *)
THEOREM UsesAreSpaced == Spec => CooldownsSpaceUses
<1> DEFINE Spaced == \A u \in Units, x \in Uses :
             used'[u][x] # used[u][x] /\ used[u][x] > 0 =>
               used'[u][x] - used[u][x] >= CooldownOf(u, x)
<1>1. BattleInv /\ [Next]_vars => [Spaced]_vars
  <2> SUFFICES ASSUME BattleInv, Next,
                      NEW u \in Units, NEW x \in Uses, used'[u][x] # used[u][x], used[u][x] > 0
               PROVE  used'[u][x] - used[u][x] >= CooldownOf(u, x)
    BY DEF vars
  <2>1. used \in [Units -> [Uses -> 0..TickCap]] /\ TickCap \in Nat /\ tick \in 0..TickCap
    BY Bounds DEF BattleInv, TypeOK
  <2>2. ASSUME NEW v \in Units, NEW z \in Uses, Marked(v, z), Left(units, v, z) = 0, phase = "act"
        PROVE  used'[u][x] - used[u][x] >= CooldownOf(u, x)
    <3>1. v = u /\ z = x /\ used'[u][x] = tick
      BY <2>1, <2>2 DEF Marked
    <3>2. TicksOf(u) = 0
      BY <2>2 DEF TicksOf, Settled
    <3>3. 0 + (tick - used[u][x]) + 0 >= CooldownOf(u, x)
      BY <2>2, <3>1, <3>2 DEF BattleInv, CooldownsHold
    <3>4. CooldownOf(u, x) \in Nat
      BY Bounds DEF CooldownOf, Uses
    <3> QED BY <2>1, <3>1, <3>3, <3>4
  <2>3. ASSUME NEW v \in Units, NEW t \in Units, Attacks(v, t)
        PROVE  used'[u][x] - used[u][x] >= CooldownOf(u, x)
    <3>1. Marked(v, "attack") /\ Left(units, v, "attack") = 0 /\ phase = "act" /\ "attack" \in Uses
      BY <2>3 DEF Attacks, Left, Uses
    <3> QED BY <2>2, <3>1
  <2>4. ASSUME NEW v \in Units, NEW t \in Units, NEW s \in Skills, Casts(v, t, s)
        PROVE  used'[u][x] - used[u][x] >= CooldownOf(u, x)
    <3>1. Marked(v, s) /\ Left(units, v, s) = 0 /\ phase = "act" /\ s \in Uses
      BY <2>4, Bounds DEF Casts, Left, Uses
    <3> QED BY <2>2, <3>1
  <2>5. \/ used' = used
        \/ \E v, t \in Units : Attacks(v, t)
        \/ \E v, t \in Units, s \in Skills : Casts(v, t, s)
    BY DEF Next, Advance, Turn, Stops, vars, BeginTick, Idles, DotBites, Housekeeps, StaysDead,
           Judges, Throws
  <2> QED BY <2>3, <2>4, <2>5
<1> QED BY <1>1, BattleInvariant, PTL DEF Spec, CooldownsSpaceUses

-----------------------------------------------------------------------------
(* Why a match ends: within a tick it goes through its stages once, through*)
(* the units of a stage once, and through the dots of a unit once; and     *)
(* there are only so many ticks.                                           *)

Stage == [act |-> 1, house |-> 2, judge |-> 3, between |-> 4, over |-> 5, thrown |-> 5]

(* The dot that bites next is one the unit still has; biting adds none.    *)
BitesOn ==
  /\ UNCHANGED <<tick, phase, turn>>
  /\ bite <= Len(units[turn].activeDots) /\ bite' = bite + 1
  /\ Len(units'[turn].activeDots) = Len(units[turn].activeDots)

(* Every step of a match is further on in that order, none goes back.      *)
MatchRuns ==
  [][\/ tick' = tick + 1
     \/ tick' = tick /\ Stage[phase'] > Stage[phase]
     \/ tick' = tick /\ phase' = phase /\ turn' = turn + 1
     \/ BitesOn]_vars

(* A match that is not over has a tick left; in every other stage there is *)
(* a next step whatever the world looks like.                              *)
TicksAreLeft == phase = "between" => tick < TickCap

(* A dot's damage leaves the dots alone.                                   *)
LEMMA DamageKeepsDots ==
  ASSUME NEW us, us \in [Units -> Unit], NEW t \in Units, NEW raw \in Nat,
         NEW v, v.units = us
  PROVE  DealDamage(v, t, raw).units[t].activeDots = us[t].activeDots
<1> DEFINE hit == raw - Least(raw, Armor[t])
<1>1. us[t] \in Unit
  OBVIOUS
<1>2. hit \in Nat
  BY Bounds, Subtracted
<1>3. DealDamage(v, t, raw).units[t] = Hurt(us[t], hit, Absorbed(us[t], hit))
  BY DEF DealDamage
<1> HIDE DEF hit
<1>4. Hurt(us[t], hit, Absorbed(us[t], hit)).activeDots = us[t].activeDots
  BY <1>1, <1>2, HurtUnit
<1> QED BY <1>3, <1>4

(* For any units, skills and decisions, external ones included, a match is *)
(* a descent: ticks, then stages, then units, then dots.                   *)
THEOREM MatchGoesForward == Spec => MatchRuns
<1> DEFINE Onward == \/ tick' = tick + 1
                     \/ tick' = tick /\ Stage[phase'] > Stage[phase]
                     \/ tick' = tick /\ phase' = phase /\ turn' = turn + 1
                     \/ BitesOn
<1>1. BattleInv /\ [Next]_vars => [Onward]_vars
  <2> SUFFICES ASSUME BattleInv, Next, ~UNCHANGED vars PROVE Onward
    OBVIOUS
  <2>1. CASE BeginTick
    BY <2>1 DEF BeginTick
  <2>2. ASSUME phase = "act", tick' = tick, PassTurn("house") PROVE Onward
    BY <2>2 DEF PassTurn, Stage
  <2>3. ASSUME phase = "house", tick' = tick, PassTurn("judge") PROVE Onward
    BY <2>3 DEF PassTurn, Stage
  <2>4. ASSUME NEW u \in Units, Idles(u) PROVE Onward
    BY <2>2, <2>4 DEF Idles
  <2>5. ASSUME NEW u \in Units, NEW t \in Units, Attacks(u, t) PROVE Onward
    BY <2>2, <2>5 DEF Attacks
  <2>6. ASSUME NEW u \in Units, NEW t \in Units, NEW s \in Skills, Casts(u, t, s) PROVE Onward
    BY <2>2, <2>6 DEF Casts
  <2>7. ASSUME NEW u \in Units, DotBites(u) PROVE Onward
    <3> DEFINE dots == units[u].activeDots
    <3>1. /\ turn = u /\ bite <= Len(dots) /\ bite' = bite + 1
          /\ UNCHANGED <<tick, phase, turn>>
          /\ units' = DealDamage(World, u, dots[bite].magnitude).units
      BY <2>7 DEF DotBites, Kept, Become
    <3>2. units \in [Units -> Unit] /\ World.units = units
      BY DEF BattleInv, TypeOK, World
    <3>3. dots \in Seq(Status) /\ bite \in Nat \ {0}
      BY <3>2 DEF BattleInv, TypeOK, Unit
    <3>4. dots[bite].magnitude \in Nat
      <4> HIDE DEF dots
      <4>1. dots[bite] \in Status
        BY <3>1, <3>3
      <4> QED BY <4>1 DEF Status
    <3>5. units'[u].activeDots = dots
      BY <3>1, <3>2, <3>4, DamageKeepsDots
    <3> QED BY <3>1, <3>5 DEF BitesOn
  <2>8. ASSUME NEW u \in Units, Housekeeps(u) PROVE Onward
    BY <2>3, <2>8 DEF Housekeeps, Kept
  <2>9. ASSUME NEW u \in Units, StaysDead(u) PROVE Onward
    BY <2>3, <2>9 DEF StaysDead
  <2>10. CASE Judges
    BY <2>10 DEF Judges, Stage
  <2>11. ASSUME NEW u \in Units, Throws(u) PROVE Onward
    BY <2>11 DEF Throws, Stage
  <2> QED BY <2>1, <2>4, <2>5, <2>6, <2>7, <2>8, <2>9, <2>10, <2>11
          DEF Next, Advance, Turn, Stops
<1> QED BY <1>1, BattleInvariant, PTL DEF Spec, MatchRuns

(* A match that is between two ticks is not out of them: finalize() is     *)
(* never late, and the loop never waits for a tick it cannot have.         *)
THEOREM MatchNeverStalls == Spec => []TicksAreLeft
<1>1. Init => TicksAreLeft
  BY Bounds DEF Init, TicksAreLeft
<1>2. BattleInv /\ TicksAreLeft /\ [Next]_vars => TicksAreLeft'
  <2> SUFFICES ASSUME BattleInv, TicksAreLeft, [Next]_vars, phase' = "between"
               PROVE  tick' < TickCap
    BY DEF TicksAreLeft
  <2>1. tick \in Nat /\ TickCap \in Nat
    BY Bounds DEF BattleInv, TypeOK
  <2>2. CASE Judges
    BY <2>1, <2>2 DEF Judges
  <2>3. CASE phase = "between" /\ tick' = tick
    BY <2>3 DEF TicksAreLeft
  <2>4. ASSUME phase \in {"act", "house"}, PassTurn("house") \/ PassTurn("judge") PROVE FALSE
    BY <2>4 DEF PassTurn
  <2>5. \A u \in Units : ~Turn(u)
    BY <2>4 DEF Turn, Idles, Attacks, Casts, DotBites, Kept, Housekeeps, StaysDead
  <2>6. Judges \/ (phase = "between" /\ tick' = tick)
    BY <2>5 DEF Next, Advance, Stops, vars, BeginTick, Throws
  <2> QED BY <2>2, <2>3, <2>6
<1> QED BY <1>1, <1>2, BattleInvariant, PTL DEF Spec

-----------------------------------------------------------------------------
(* Pursuit: one unit of a match with its behavior, in any arena, among any *)
(* number of others.                                                       *)

-----------------------------------------------------------------------------
(* Integer arithmetic, and the square root of geometry.ts.                 *)

LEMMA Quotient ==
  ASSUME NEW p \in Nat, NEW q \in Nat \ {0}
  PROVE  p \div q \in Nat /\ q * (p \div q) <= p /\ p < q * (p \div q) + q
OBVIOUS

LEMMA Mono ==
  ASSUME NEW a \in Nat, NEW b \in Nat, NEW c \in Nat, a <= b
  PROVE  a * c <= b * c /\ c * a <= c * b /\ a * c \in Nat
OBVIOUS

LEMMA StrictMono ==
  ASSUME NEW a \in Nat, NEW b \in Nat, NEW c \in Nat, a * c < b * c
  PROVE  a < b
OBVIOUS

LEMMA SqMono == ASSUME NEW a \in Nat, NEW b \in Nat, a < b PROVE a * a < b * b
OBVIOUS

LEMMA SqMonoInv == ASSUME NEW a \in Nat, NEW b \in Nat, a * a < b * b PROVE a < b
OBVIOUS

LEMMA SqMonoInv2 == ASSUME NEW a \in Nat, NEW b \in Nat, a * a <= b * b PROVE a <= b
OBVIOUS

(* A product is at most the square of the mean.                            *)
LEMMA AmGm == ASSUME NEW a \in Int, NEW b \in Int PROVE 4 * (a * b) <= (a + b) * (a + b)
OBVIOUS

(* One step down never lands below the root.                               *)
LEMMA NewtonAbove ==
  ASSUME NEW n \in Nat, NEW z \in Nat \ {0}, NEW q \in Nat, n < z * q + z,
         NEW y \in Nat, z + q <= 2 * y + 1
  PROVE  n < (y + 1) * (y + 1)
<1>1. 4 * (z * (q + 1)) <= (z + (q + 1)) * (z + (q + 1))
  BY AmGm
<1>2. z * (q + 1) = z * q + z
  OBVIOUS
<1> DEFINE a == z + (q + 1)
           b == 2 * (y + 1)
<1>3. a * a <= b * b
  <2>1. a \in Nat /\ b \in Nat /\ a <= b
    OBVIOUS
  <2> HIDE DEF a, b
  <2> QED BY <2>1
<1>4. b * b = 4 * ((y + 1) * (y + 1))
  OBVIOUS
<1> QED BY <1>1, <1>2, <1>3, <1>4

(* One step of Newton's method                                             *)
NewtonStep(n, z) == (z + n \div z) \div 2

(* Each step stays above the root, and stops only where it is not past it. *)
LEMMA NewtonSteps ==
  ASSUME NEW n \in Nat \ {0, 1}, NEW z \in Nat \ {0}
  PROVE  /\ NewtonStep(n, z) \in Nat \ {0}
         /\ n < (NewtonStep(n, z) + 1) * (NewtonStep(n, z) + 1)
         /\ z <= NewtonStep(n, z) => z * z <= n
<1> DEFINE q == n \div z
           y == NewtonStep(n, z)
<1>1. q \in Nat /\ z * q <= n /\ n < z * q + z
  BY Quotient
<1>2. z = 1 => q >= 2
  BY <1>1
<1>3. y = (z + q) \div 2
  BY DEF NewtonStep
<1> HIDE DEF q, y
<1>4. y \in Nat /\ z + q <= 2 * y + 1 /\ 2 * y <= z + q
  BY <1>1, <1>3
<1>5. y # 0
  BY <1>1, <1>2, <1>4
<1>6. n < (y + 1) * (y + 1)
  BY <1>1, <1>4, NewtonAbove
<1>7. ASSUME z <= y PROVE z * z <= n
  <2>1. z <= q
    BY <1>1, <1>4, <1>7
  <2>2. z * z <= z * q
    BY <1>1, <2>1, Mono
  <2>3. z * z \in Nat /\ z * q \in Nat
    BY <1>1
  <2> QED BY <1>1, <2>2, <2>3
<1> QED BY <1>4, <1>5, <1>6, <1>7 DEF y

Descends(g, n, k) == g = [z \in 1..k |-> IF NewtonStep(n, z) < z THEN g[NewtonStep(n, z)] ELSE z]

(* The recursion of Newton is well defined: each call is of a smaller one. *)
LEMMA DescentExists ==
  ASSUME NEW n \in Nat \ {0, 1}, NEW k \in Nat
  PROVE  \E g : Descends(g, n, k)
<1> DEFINE Odd == {i \in Nat : ~ \E g : Descends(g, n, i)}
<1> SUFFICES ASSUME Odd # {} PROVE FALSE
  OBVIOUS
<1>1. PICK i \in Odd : \A j \in Odd : i <= j
  <2>1. Odd \in SUBSET Nat
    OBVIOUS
  <2> HIDE DEF Odd
  <2> QED BY <2>1, LeastOf
<1>2. CASE i = 0
  <2>1. Descends([z \in 1..0 |-> 0], n, 0)
    BY DEF Descends
  <2> QED BY <1>2, <2>1
<1>3. CASE i # 0
  <2>1. i - 1 \in Nat /\ i - 1 \notin Odd
    BY <1>1, <1>3
  <2>2. PICK g : Descends(g, n, i - 1)
    BY <2>1
  <2> DEFINE last == IF NewtonStep(n, i) < i THEN g[NewtonStep(n, i)] ELSE i
             h == [z \in 1..i |-> IF z = i THEN last ELSE g[z]]
  <2>3. ASSUME NEW z \in 1..i
        PROVE  h[z] = IF NewtonStep(n, z) < z THEN h[NewtonStep(n, z)] ELSE z
    <3>1. NewtonStep(n, z) \in Nat \ {0}
      BY NewtonSteps
    <3>2. NewtonStep(n, z) < z => h[NewtonStep(n, z)] = g[NewtonStep(n, z)]
      BY <3>1
    <3>3. CASE z = i
      BY <3>2, <3>3
    <3>4. CASE z # i
      <4>1. z \in 1..(i - 1)
        BY <3>4
      <4>2. g[z] = IF NewtonStep(n, z) < z THEN g[NewtonStep(n, z)] ELSE z
        BY <2>2, <4>1 DEF Descends
      <4>3. h[z] = g[z]
        BY <3>4
      <4> QED BY <3>2, <4>2, <4>3
    <3> QED BY <3>3, <3>4
  <2>4. Descends(h, n, i)
    BY <2>3 DEF Descends
  <2> QED BY <1>1, <2>4
<1> QED BY <1>2, <1>3

(* Newton's method ends at the integer square root.                        *)
LEMMA NewtonIsRoot ==
  ASSUME NEW n \in Nat \ {0, 1}, NEW x \in 1..MaxSquaredDistance, n < (x + 1) * (x + 1),
         MaxSquaredDistance \in Nat
  PROVE  /\ Newton(n, x) \in Nat
         /\ Newton(n, x) * Newton(n, x) <= n
         /\ n < (Newton(n, x) + 1) * (Newton(n, x) + 1)
<1> DEFINE M == MaxSquaredDistance
           Good(r) == r \in Nat /\ r * r <= n /\ n < (r + 1) * (r + 1)
           F == CHOOSE g : g = [z \in 1..M |->
                  LET y == (z + n \div z) \div 2 IN IF y < z THEN g[y] ELSE z]
<1>1. Newton(n, x) = F[x]
  BY DEF Newton
<1>2. Descends(F, n, M)
  <2>1. \E g : Descends(g, n, M)
    BY DescentExists
  <2>2. \E g : g = [z \in 1..M |-> LET y == (z + n \div z) \div 2 IN IF y < z THEN g[y] ELSE z]
    BY <2>1 DEF Descends, NewtonStep
  <2> QED BY <2>2 DEF Descends, NewtonStep
<1> HIDE DEF F, M, Good
<1> DEFINE Bad == {z \in 1..M : n < (z + 1) * (z + 1) /\ ~ Good(F[z])}
<1>3. Bad = {}
  <2> SUFFICES ASSUME Bad # {} PROVE FALSE
    OBVIOUS
  <2>1. PICK z \in Bad : \A w \in Bad : z <= w
    <3>1. Bad \in SUBSET Nat
      BY DEF M
    <3> HIDE DEF Bad
    <3> QED BY <3>1, LeastOf
  <2>2. z \in 1..M /\ z \in Nat \ {0} /\ M \in Nat
    BY DEF M
  <2> DEFINE y == NewtonStep(n, z)
  <2>3. y \in Nat \ {0} /\ n < (y + 1) * (y + 1) /\ (z <= y => z * z <= n)
    BY <2>2, NewtonSteps
  <2>4. F[z] = IF y < z THEN F[y] ELSE z
    BY <1>2, <2>2 DEF Descends
  <2> HIDE DEF y
  <2>5. CASE y < z
    <3>1. y \in 1..M /\ y \notin Bad
      BY <2>1, <2>2, <2>3, <2>5
    <3>2. Good(F[y])
      BY <2>3, <3>1
    <3> QED BY <2>1, <2>4, <2>5, <3>2
  <2>6. CASE ~ (y < z)
    <3>1. z * z <= n
      BY <2>2, <2>3, <2>6
    <3>2. Good(z)
      BY <2>1, <2>2, <3>1 DEF Good
    <3> QED BY <2>1, <2>4, <2>6, <3>2
  <2> QED BY <2>5, <2>6
<1>4. Good(F[x])
  BY <1>3 DEF M
<1> QED BY <1>1, <1>4 DEF Good

(* isqrt returns the integer square root of every squared distance that    *)
(* the arena has: Newton's method from above ends, and ends there.         *)
THEOREM RootRoundsDown ==
  ASSUME NEW n \in 0..MaxSquaredDistance, MaxSquaredDistance \in Nat
  PROVE  isqrt(n) \in Nat /\ isqrt(n) * isqrt(n) <= n /\ n < (isqrt(n) + 1) * (isqrt(n) + 1)
<1>1. n \in Nat
  OBVIOUS
<1>2. CASE n < 2
  <2>1. isqrt(n) = n /\ (n = 0 \/ n = 1)
    BY <1>1, <1>2 DEF isqrt
  <2> QED BY <2>1
<1>3. CASE n >= 2
  <2> DEFINE y == (n + 1) \div 2
  <2>1. y \in Nat \ {0} /\ y < n /\ n + 1 <= 2 * y + 1
    BY <1>1, <1>3
  <2>2. isqrt(n) = Newton(n, y)
    BY <1>1, <1>3, <2>1 DEF isqrt
  <2> HIDE DEF y
  <2>3. n < (y + 1) * (y + 1)
    <3>1. n < n * 1 + n
      BY <1>3
    <3> QED BY <1>1, <1>3, <2>1, <3>1, NewtonAbove
  <2>4. y \in 1..MaxSquaredDistance
    BY <2>1
  <2> QED BY <1>1, <1>3, <2>2, <2>3, <2>4, NewtonIsRoot
<1> QED BY <1>1, <1>2, <1>3

(* The square of a number and of its opposite.                            *)
LEMMA Squares ==
  ASSUME NEW a \in Int
  PROVE  a * a \in Nat /\ (-a) * (-a) = a * a /\ (a # 0 => a * a > 0)
OBVIOUS

(* s is on the way from 0 to delta, at most m of dist along, and is not 0  *)
(* when m of dist along is 1 or more.                                      *)
PartOf(s, delta, m, dist) ==
  /\ s \in Int
  /\ (delta >= 0 => 0 <= s /\ s <= delta) /\ (delta <= 0 => delta <= s /\ s <= 0)
  /\ dist * dist * (s * s) <= (delta * m) * (delta * m)
  /\ (delta * m >= dist \/ (-delta) * m >= dist => s # 0)

LEMMA ShareIsPart ==
  ASSUME NEW delta \in Int, NEW m \in Nat, NEW dist \in Nat \ {0}, m <= dist,
         NEW s, s = Share(delta, m, dist)
  PROVE  PartOf(s, delta, m, dist)
<1>1. ASSUME NEW d \in Nat, NEW t, t = (d * m) \div dist
      PROVE  /\ t \in Nat /\ t <= d /\ dist * t <= d * m
             /\ (d * m >= dist => t > 0)
  <2>1. d * m \in Nat
    OBVIOUS
  <2>2. t \in Nat /\ dist * t <= d * m /\ d * m < dist * t + dist
    BY <1>1, <2>1, Quotient
  <2>3. d * m <= d * dist
    BY Mono
  <2>4. dist * t <= dist * d
    BY <2>1, <2>2, <2>3
  <2>5. t <= d
    <3> SUFFICES ASSUME d < t PROVE FALSE
      BY <2>2
    <3>1. d + 1 <= t
      BY <2>2
    <3>2. dist * (d + 1) <= dist * t
      BY <2>2, <3>1, Mono
    <3>3. dist * (d + 1) = dist * d + dist
      OBVIOUS
    <3> QED BY <2>2, <2>4, <3>2, <3>3
  <2>6. d * m >= dist => t > 0
    BY <2>1, <2>2
  <2> QED BY <2>2, <2>5, <2>6
<1>2. ASSUME NEW d \in Nat, NEW t \in Nat, dist * t <= d * m
      PROVE  dist * dist * (t * t) <= (d * m) * (d * m)
  <2> DEFINE a == dist * t
             b == d * m
  <2>1. a \in Nat /\ b \in Nat /\ a <= b
    BY <1>2
  <2>2. dist * dist * (t * t) = a * a
    OBVIOUS
  <2> HIDE DEF a, b
  <2>3. a * a <= b * b
    BY <2>1
  <2> QED BY <2>2, <2>3 DEF b
<1>3. CASE delta >= 0
  <2>1. delta \in Nat /\ delta * m \in Nat
    BY <1>3
  <2>2. s = (delta * m) \div dist
    BY <2>1 DEF Share, trunc
  <2>3. /\ s \in Nat /\ s <= delta /\ dist * s <= delta * m
        /\ (delta * m >= dist => s > 0)
    BY <1>1, <2>1, <2>2
  <2>4. dist * dist * (s * s) <= (delta * m) * (delta * m)
    BY <1>2, <2>1, <2>3
  <2>5. (-delta) * m >= dist => delta * m >= dist
    BY <2>1
  <2>6. s \in Int /\ (delta >= 0 => 0 <= s /\ s <= delta) /\ (delta <= 0 => delta <= s /\ s <= 0)
    BY <2>1, <2>3
  <2>7. delta * m >= dist \/ (-delta) * m >= dist => s # 0
    BY <2>3, <2>5
  <2> QED BY <2>4, <2>6, <2>7 DEF PartOf
<1>4. CASE delta < 0
  <2> DEFINE d == -delta
             t == (d * m) \div dist
  <2>1. d \in Nat /\ d * m \in Nat /\ delta * m = -(d * m) /\ d > 0
    BY <1>4
  <2>2. s = -t
    <3>1. CASE delta * m >= 0
      <4>1. m = 0
        BY <1>4, <3>1
      <4>2. delta * m = 0 /\ d * m = 0
        BY <4>1
      <4>3. s = 0 \div dist /\ t = 0 \div dist
        BY <4>2 DEF Share, trunc
      <4> QED BY <4>3
    <3>2. CASE ~(delta * m >= 0)
      <4>1. -(delta * m) = d * m
        BY <2>1
      <4> QED BY <3>2, <4>1 DEF Share, trunc
    <3> QED BY <3>1, <3>2
  <2>3. /\ t \in Nat /\ t <= d /\ dist * t <= d * m
        /\ (d * m >= dist => t > 0)
    BY <1>1, <2>1
  <2> HIDE DEF t
  <2>4. dist * dist * (t * t) <= (d * m) * (d * m)
    BY <1>2, <2>1, <2>3
  <2>5. s * s = t * t /\ (d * m) * (d * m) = (delta * m) * (delta * m)
    BY <2>2, <2>3
  <2>6. delta * m >= dist => FALSE
    BY <2>1
  <2>7. s \in Int /\ (delta >= 0 => 0 <= s /\ s <= delta) /\ (delta <= 0 => delta <= s /\ s <= 0)
    BY <1>4, <2>2, <2>3
  <2>8. (-delta) * m >= dist => s # 0
    BY <2>2, <2>3
  <2>9. s * s \in Nat
    BY <2>2, <2>3
  <2>10. dist * dist * (s * s) <= (delta * m) * (delta * m)
    BY <2>4, <2>5
  <2> QED BY <2>6, <2>7, <2>8, <2>10 DEF PartOf
<1> QED BY <1>3, <1>4

(* What is left of a distance when a part of it is walked.                 *)
LEMMA RestIsLess ==
  ASSUME NEW delta \in Int, NEW s \in Int,
         delta >= 0 => 0 <= s /\ s <= delta, delta <= 0 => delta <= s /\ s <= 0
  PROVE  /\ (delta - s) * (delta - s) <= delta * delta
         /\ s # 0 => (delta - s) * (delta - s) < delta * delta
<1>1. ASSUME NEW d \in Nat, NEW t \in Nat, t <= d
      PROVE  (d - t) * (d - t) <= d * d /\ (t # 0 => (d - t) * (d - t) < d * d)
  <2>1. d - t \in Nat /\ d - t <= d /\ (t # 0 => d - t < d)
    BY <1>1
  <2>2. (d - t) * (d - t) <= d * d
    BY <2>1
  <2>3. t # 0 => (d - t) * (d - t) < d * d
    BY <2>1, SqMono
  <2> QED BY <2>2, <2>3
<1>2. CASE delta >= 0
  BY <1>1, <1>2
<1>3. CASE delta < 0
  <2> DEFINE d == -delta
             t == -s
  <2>1. d \in Nat /\ t \in Nat /\ t <= d /\ (s # 0 => t # 0)
    BY <1>3
  <2>2. (delta - s) * (delta - s) = (d - t) * (d - t) /\ delta * delta = d * d
    BY <2>1
  <2> HIDE DEF d, t
  <2> QED BY <1>1, <2>1, <2>2
<1> QED BY <1>2, <1>3

(* A share of both sides of a right triangle, m of its hypotenuse rounded  *)
(* down, is shorter than m + 1.                                            *)
LEMMA SharesAreShort ==
  ASSUME NEW d2 \in Nat, NEW m \in Nat, NEW dist \in Nat \ {0}, NEW S \in Nat,
         m <= dist, d2 < (dist + 1) * (dist + 1), dist * dist * S <= d2 * (m * m)
  PROVE  S < (m + 1) * (m + 1)
<1> DEFINE k == (m + 1) * (m + 1)
           a == dist * m + m
           b == dist * (m + 1)
<1>0. dist * dist \in Nat \ {0} /\ k \in Nat /\ dist * dist * S \in Nat /\ dist * dist * k \in Nat
  OBVIOUS
<1>1. a \in Nat /\ b \in Nat /\ a <= b
  OBVIOUS
<1>2. a * a <= b * b
  <2> HIDE DEF a, b
  <2> QED BY <1>1
<1>3. b * b = dist * dist * k /\ a * a = (dist + 1) * (dist + 1) * (m * m)
  OBVIOUS
<1>4. dist * dist * S < dist * dist * k
  <2>1. CASE m = 0
    <3>1. dist * dist * S <= 0 /\ dist * dist * k = dist * dist
      BY <2>1
    <3> QED BY <1>0, <3>1
  <2>2. CASE m # 0
    <3> DEFINE c == (dist + 1) * (dist + 1)
               mm == m * m
    <3>1. c \in Nat /\ mm \in Nat \ {0} /\ d2 < c
      BY <2>2
    <3>2. d2 * mm < c * mm
      <4> HIDE DEF c, mm
      <4>1. d2 + 1 <= c
        BY <3>1
      <4>2. (d2 + 1) * mm <= c * mm
        BY <3>1, <4>1, Mono
      <4>3. (d2 + 1) * mm = d2 * mm + mm
        BY <3>1
      <4> QED BY <3>1, <4>2, <4>3
    <3>3. c * mm \in Nat /\ d2 * mm \in Nat
      OBVIOUS
    <3> HIDE DEF c, mm, k, a, b
    <3>4. c * mm <= dist * dist * k /\ dist * dist * S <= d2 * mm
      BY <1>2, <1>3 DEF c, mm
    <3> QED BY <1>0, <3>2, <3>3, <3>4
  <2> QED BY <2>1, <2>2
<1>5. S < k
  <2> DEFINE q == dist * dist
  <2>1. q \in Nat /\ q * S < q * k
    BY <1>0, <1>4
  <2> HIDE DEF q, k
  <2>2. S * q < k * q
    BY <1>0, <2>1
  <2> QED BY <1>0, <2>1, <2>2, StrictMono
<1> QED BY <1>5

(* Every distance of the arena is one isqrt is good for.                   *)
LEMMA ArenaDistances ==
  ASSUME NEW a \in Position, NEW b \in Position
  PROVE  /\ MaxSquaredDistance \in Nat
         /\ squaredDistance(a, b) \in 0..MaxSquaredDistance
         /\ squaredDistance(a, b) = (b.x - a.x) * (b.x - a.x) + (b.y - a.y) * (b.y - a.y)
<1> DEFINE top == ArenaMax * ArenaMax
<1>1. ArenaMax \in Nat
  BY ArenaAssumption DEF ArenaAssumption
<1>2. top \in Nat /\ MaxSquaredDistance = 2 * top
  BY <1>1 DEF MaxSquaredDistance
<1>3. ASSUME NEW v \in 0..ArenaMax, NEW w \in 0..ArenaMax
      PROVE  /\ (v - w) * (v - w) = (w - v) * (w - v)
             /\ (w - v) * (w - v) \in 0..top
  <2>1. v \in Nat /\ w \in Nat
    BY <1>1
  <2>2. (v - w) * (v - w) = (w - v) * (w - v)
    BY <2>1
  <2>3. ASSUME NEW d \in Nat, d <= ArenaMax PROVE d * d \in 0..top
    BY <1>1, <2>3, Mono
  <2>4. CASE v <= w
    <3>1. w - v \in Nat /\ w - v <= ArenaMax
      BY <1>1, <2>1, <2>4
    <3> HIDE DEF top
    <3> QED BY <2>2, <2>3, <3>1
  <2>5. CASE w < v
    <3>1. v - w \in Nat /\ v - w <= ArenaMax
      BY <1>1, <2>1, <2>5
    <3> HIDE DEF top
    <3> QED BY <2>2, <2>3, <3>1
  <2> QED BY <2>1, <2>4, <2>5
<1>4. a.x \in 0..ArenaMax /\ a.y \in 0..ArenaMax /\ b.x \in 0..ArenaMax /\ b.y \in 0..ArenaMax
  BY DEF Position
<1> DEFINE xx == (b.x - a.x) * (b.x - a.x)
           yy == (b.y - a.y) * (b.y - a.y)
<1>5. xx \in 0..top /\ yy \in 0..top /\ squaredDistance(a, b) = xx + yy
  BY <1>3, <1>4 DEF squaredDistance
<1>6. squaredDistance(a, b) \in 0..MaxSquaredDistance
  <2> HIDE DEF xx, yy, top
  <2> QED BY <1>2, <1>5
<1> QED BY <1>2, <1>5, <1>6

LEMMA ClampKeeps ==
  ASSUME NEW p, p.x \in 0..ArenaMax, p.y \in 0..ArenaMax
  PROVE  clampToArena(p) = [x |-> p.x, y |-> p.y]
<1>1. ArenaMax \in Nat
  BY ArenaAssumption DEF ArenaAssumption
<1> QED BY <1>1 DEF clampToArena

ShortOf(from, step, m) == squaredDistance(from, step) < (m + 1) * (m + 1)

(* A step ends in the arena, between the unit and its target on both axes, *)
(* less than maxStep + 1 away; with a maxStep of two or more it brings the *)
(* unit nearer.                                                            *)
LEMMA StepIsSound ==
  ASSUME NEW from \in Position, NEW to \in Position, NEW m, m \in Nat,
         NEW step, step = stepToward(from, to, m)
  PROVE  /\ step \in Position
         /\ Between(from.x, step.x, to.x) /\ Between(from.y, step.y, to.y)
         /\ ShortOf(from, step, m)
         /\ m >= 2 /\ from # to => squaredDistance(step, to) < squaredDistance(from, to)
<1> DEFINE d2 == squaredDistance(from, to)
           dist == isqrt(d2)
           dx == to.x - from.x
           dy == to.y - from.y
<1>1. /\ from.x \in 0..ArenaMax /\ from.y \in 0..ArenaMax
      /\ to.x \in 0..ArenaMax /\ to.y \in 0..ArenaMax
      /\ from = [x |-> from.x, y |-> from.y] /\ to = [x |-> to.x, y |-> to.y]
      /\ ArenaMax \in Nat
  BY ArenaAssumption DEF ArenaAssumption, Position
<1>2. d2 \in 0..MaxSquaredDistance /\ d2 = dx * dx + dy * dy /\ MaxSquaredDistance \in Nat
  BY ArenaDistances
<1>3. dx \in Int /\ dy \in Int /\ dx * dx \in Nat /\ dy * dy \in Nat
  BY <1>1, Squares
<1>4. dist \in Nat /\ dist * dist <= d2 /\ d2 < (dist + 1) * (dist + 1)
  <2> HIDE DEF d2
  <2> QED BY <1>2, RootRoundsDown
<1>5. step = IF d2 <= m * m THEN clampToArena(to)
             ELSE clampToArena([x |-> from.x + Share(dx, m, dist), y |-> from.y + Share(dy, m, dist)])
  BY DEF stepToward, WithinStep
<1> HIDE DEF d2, dist
<1>6. CASE d2 <= m * m
  <2>1. step = to
    BY <1>1, <1>5, <1>6, ClampKeeps
  <2>2. Between(from.x, to.x, to.x) /\ Between(from.y, to.y, to.y)
    BY <1>1 DEF Between
  <2>3. d2 < (m + 1) * (m + 1)
    BY <1>2, <1>6
  <2>4. squaredDistance(to, to) = 0
    BY <1>1 DEF squaredDistance
  <2>5. from # to => d2 > 0
    <3>1. from # to => dx # 0 \/ dy # 0
      BY <1>1
    <3>2. (dx # 0 => dx * dx > 0) /\ (dy # 0 => dy * dy > 0)
      BY <1>3, Squares
    <3> QED BY <1>2, <1>3, <3>1, <3>2
  <2> QED BY <2>1, <2>2, <2>3, <2>4, <2>5 DEF ShortOf, d2
<1>7. CASE ~(d2 <= m * m)
  <2> DEFINE sx == Share(dx, m, dist)
             sy == Share(dy, m, dist)
             p == [x |-> from.x + sx, y |-> from.y + sy]
  <2>1. dist # 0 /\ m <= dist
    <3>1. m * m \in Nat /\ m * m < (dist + 1) * (dist + 1)
      BY <1>2, <1>4, <1>7
    <3>2. m < dist + 1
      BY <1>4, <3>1, SqMonoInv
    <3>3. dist = 0 => d2 < 1
      BY <1>4
    <3> QED BY <1>2, <1>4, <1>7, <3>1, <3>2, <3>3
  <2>2. /\ sx \in Int
        /\ (dx >= 0 => 0 <= sx /\ sx <= dx) /\ (dx <= 0 => dx <= sx /\ sx <= 0)
        /\ dist * dist * (sx * sx) <= (dx * m) * (dx * m)
        /\ (dx * m >= dist \/ (-dx) * m >= dist => sx # 0)
    <3>1. sx = Share(dx, m, dist) /\ dx \in Int /\ dist \in Nat \ {0} /\ m <= dist
      BY <1>3, <1>4, <2>1
    <3> HIDE DEF dx, sx
    <3>2. PartOf(sx, dx, m, dist)
      BY <3>1, ShareIsPart
    <3> QED BY <3>2 DEF PartOf
  <2>3. /\ sy \in Int
        /\ (dy >= 0 => 0 <= sy /\ sy <= dy) /\ (dy <= 0 => dy <= sy /\ sy <= 0)
        /\ dist * dist * (sy * sy) <= (dy * m) * (dy * m)
        /\ (dy * m >= dist \/ (-dy) * m >= dist => sy # 0)
    <3>1. sy = Share(dy, m, dist) /\ dy \in Int /\ dist \in Nat \ {0} /\ m <= dist
      BY <1>3, <1>4, <2>1
    <3> HIDE DEF dy, sy
    <3>2. PartOf(sy, dy, m, dist)
      BY <3>1, ShareIsPart
    <3> QED BY <3>2 DEF PartOf
  <2> HIDE DEF sx, sy
  <2>4. /\ from.x + sx \in 0..ArenaMax /\ from.y + sy \in 0..ArenaMax
        /\ Between(from.x, from.x + sx, to.x) /\ Between(from.y, from.y + sy, to.y)
    BY <1>1, <2>2, <2>3 DEF Between
  <2>5. step = p
    BY <1>5, <1>7, <2>4, ClampKeeps DEF sx, sy
  <2>6. step \in Position /\ step.x = from.x + sx /\ step.y = from.y + sy
    BY <2>4, <2>5 DEF Position
  <2>7. ShortOf(from, step, m)
    <3> DEFINE xx == sx * sx
               yy == sy * sy
               S == xx + yy
    <3>1. xx \in Nat /\ yy \in Nat
      BY <2>2, <2>3, Squares
    <3>2. squaredDistance(from, step) = S
      <4>1. from.x - (from.x + sx) = -sx /\ from.y - (from.y + sy) = -sy
        BY <1>1, <2>2, <2>3
      <4>2. (-sx) * (-sx) = sx * sx /\ (-sy) * (-sy) = sy * sy
        BY <2>2, <2>3
      <4> QED BY <2>6, <4>1, <4>2 DEF squaredDistance
    <3>3. dist * dist * S <= d2 * (m * m)
      <4>1. dist * dist * S = dist * dist * xx + dist * dist * yy
        BY <1>4, <3>1
      <4>2. (dx * m) * (dx * m) = (dx * dx) * (m * m) /\ (dy * m) * (dy * m) = (dy * dy) * (m * m)
        BY <1>3
      <4>3. d2 * (m * m) = (dx * dx) * (m * m) + (dy * dy) * (m * m)
        BY <1>2, <1>3
      <4> DEFINE a == dist * dist * xx
                 b == dist * dist * yy
                 u == (dx * dx) * (m * m)
                 v == (dy * dy) * (m * m)
      <4>4. a \in Nat /\ b \in Nat /\ u \in Nat /\ v \in Nat /\ a <= u /\ b <= v
        BY <1>3, <1>4, <2>2, <2>3, <3>1, <4>2
      <4> HIDE DEF a, b, u, v
      <4>5. a + b <= u + v
        BY <4>4
      <4> QED BY <4>1, <4>3, <4>5 DEF a, b, u, v
    <3>4. S \in Nat
      BY <3>1
    <3> HIDE DEF S
    <3>5. S < (m + 1) * (m + 1)
      BY <1>2, <1>4, <2>1, <3>3, <3>4, SharesAreShort
    <3> QED BY <3>2, <3>5 DEF ShortOf
  <2>8. m >= 2 /\ from # to => squaredDistance(step, to) < squaredDistance(from, to)
    <3> SUFFICES ASSUME m >= 2 PROVE squaredDistance(step, to) < squaredDistance(from, to)
      OBVIOUS
    <3> DEFINE rx == (dx - sx) * (dx - sx)
               ry == (dy - sy) * (dy - sy)
               xx == dx * dx
               yy == dy * dy
    <3>1. squaredDistance(step, to) = rx + ry
      <4>1. step.x - to.x = -(dx - sx) /\ step.y - to.y = -(dy - sy)
        BY <1>1, <2>2, <2>3, <2>6
      <4>2. dx - sx \in Int /\ dy - sy \in Int
        BY <1>3, <2>2, <2>3
      <4>3. (step.x - to.x) * (step.x - to.x) = rx /\ (step.y - to.y) * (step.y - to.y) = ry
        BY <4>1, <4>2, Squares
      <4> QED BY <4>3 DEF squaredDistance
    <3>2. rx <= xx /\ (sx # 0 => rx < xx) /\ rx \in Nat /\ xx \in Nat
      <4>1. dx - sx \in Int
        BY <1>3, <2>2
      <4> HIDE DEF dx
      <4> QED BY <1>3, <2>2, <4>1, RestIsLess, Squares
    <3>3. ry <= yy /\ (sy # 0 => ry < yy) /\ ry \in Nat /\ yy \in Nat
      <4>1. dy - sy \in Int
        BY <1>3, <2>3
      <4> HIDE DEF dy
      <4> QED BY <1>3, <2>3, <4>1, RestIsLess, Squares
    <3>4. ASSUME NEW d \in Nat, d2 <= 2 * (d * d) PROVE dist <= d * m
      <4>1. dist * dist <= (2 * d) * (2 * d)
        <5>1. (2 * d) * (2 * d) = 4 * (d * d) /\ d * d \in Nat
          OBVIOUS
        <5> QED BY <1>2, <1>4, <3>4, <5>1
      <4>2. dist <= 2 * d
        BY <1>4, <4>1, SqMonoInv2
      <4>3. 2 * d <= d * m
        BY Mono
      <4> QED BY <1>4, <4>2, <4>3
    <3>5. sx # 0 \/ sy # 0
      <4>1. ASSUME NEW delta \in Int, d2 <= 2 * (delta * delta)
            PROVE  delta * m >= dist \/ (-delta) * m >= dist
        <5>1. CASE delta >= 0
          BY <1>4, <3>4, <4>1, <5>1
        <5>2. CASE delta < 0
          <6>1. -delta \in Nat /\ (-delta) * (-delta) = delta * delta
            BY <5>2, Squares
          <6>2. dist <= (-delta) * m
            BY <3>4, <4>1, <6>1
          <6>3. (-delta) * m \in Nat
            BY <6>1
          <6> QED BY <1>4, <6>2, <6>3
        <5> QED BY <5>1, <5>2
      <4>2. d2 <= 2 * xx \/ d2 <= 2 * yy
        <5>1. xx \in Nat /\ yy \in Nat /\ d2 = xx + yy
          BY <1>2, <1>3
        <5> HIDE DEF xx, yy
        <5> QED BY <5>1
      <4> HIDE DEF dx, dy
      <4> QED BY <1>3, <2>2, <2>3, <4>1, <4>2
    <3>6. rx + ry < xx + yy
      <4> HIDE DEF rx, ry, xx, yy
      <4> QED BY <3>2, <3>3, <3>5
    <3> QED BY <1>2, <3>1, <3>6 DEF d2
  <2> QED BY <2>4, <2>6, <2>7, <2>8
<1> QED BY <1>6, <1>7

-----------------------------------------------------------------------------
(* Whom a behavior picks.                                                  *)

LEMMA PursuitBounds ==
  /\ LastOther \in Nat \ {0} /\ ArenaMax \in Nat \ {0}
  /\ OtherMaxHp \in [OtherUnits -> Nat \ {0}] /\ Casters \subseteq OtherUnits
  /\ MoveSpeed \in Nat \ {0} /\ AttackRangeSquared \in Nat
  /\ SlowMagnitudes \subseteq 0..100 /\ EmpowerMagnitudes \subseteq Nat
  /\ 0 \in SlowMagnitudes /\ 0 \in EmpowerMagnitudes
  /\ Places \subseteq Position
  /\ Lineups \subseteq Behaviors \X [OtherUnits -> Teams]
  /\ OtherUnits \subseteq Nat /\ IsFiniteSet(OtherUnits) /\ 0 \notin OtherUnits
<1>1. LastOther \in Nat \ {0}
  BY PursuitAssumption DEF PursuitAssumption
<1>2. OtherUnits \subseteq Nat /\ 0 \notin OtherUnits
  BY <1>1 DEF OtherUnits
<1>3. IsFiniteSet(OtherUnits)
  BY <1>1, FS_Interval DEF OtherUnits
<1> QED BY <1>1, <1>2, <1>3, ArenaAssumption, PursuitAssumption DEF PursuitAssumption, ArenaAssumption

LEMMA PoolIsOfOthers ==
  ASSUME PursuitTypeOK
  PROVE  Pool \in SUBSET Nat /\ Pool \subseteq OtherUnits /\ IsFiniteSet(Pool)
<1>1. Pool \subseteq OtherUnits
  BY DEF PursuitTypeOK, Pool, Behaviors, castersFirst, enemiesOf, alliesOf, Living
<1> QED BY <1>1, PursuitBounds, FS_Subset

(* The order of each behavior is a strict weak one: two candidates neither *)
(* of which is better are alike for every third.                           *)
LEMMA BetterOrders ==
  ASSUME PursuitTypeOK, NEW u \in OtherUnits, NEW v \in OtherUnits
  PROVE  /\ Better(u, v) => ~Better(v, u)
         /\ \A w \in OtherUnits : Better(u, v) => Better(u, w) \/ Better(w, v)
<1>1. /\ otherHp \in [OtherUnits -> Nat] /\ OtherMaxHp \in [OtherUnits -> Nat \ {0}]
      /\ behavior \in Behaviors
      /\ \A w \in OtherUnits : squaredDistance(pos[0], pos[w]) \in Int
  <2>1. ASSUME NEW w \in OtherUnits PROVE squaredDistance(pos[0], pos[w]) \in Int
    <3>1. pos[0] \in Position /\ pos[w] \in Position
      BY PursuitBounds DEF PursuitTypeOK, OtherUnits
    <3>2. squaredDistance(pos[0], pos[w]) \in 0..MaxSquaredDistance /\ MaxSquaredDistance \in Nat
      BY <3>1, ArenaDistances
    <3> QED BY <3>2
  <2> QED BY <2>1, PursuitBounds DEF PursuitTypeOK
<1>2. CASE behavior = "focus-casters"
  <2>1. \A a, b : Better(a, b) <=> squaredDistance(pos[0], pos[a]) < squaredDistance(pos[0], pos[b])
    BY <1>2 DEF Better, nearer
  <2> QED BY <1>1, <2>1
<1>3. CASE behavior = "aggro-lowest-hp"
  <2>1. \A a, b : Better(a, b) <=> otherHp[a] < otherHp[b]
    BY <1>3 DEF Better, lowerHp
  <2> QED BY <1>1, <2>1
<1>4. CASE behavior = "protect-allies"
  <2>1. \A a, b : Better(a, b) <=> otherHp[a] * OtherMaxHp[b] < otherHp[b] * OtherMaxHp[a]
    BY <1>4 DEF Better, lowerRatio
  <2>2. Better(u, v) => ~Better(v, u)
    BY <1>1, <2>1
  <2>3. ASSUME NEW a, a \in Nat, NEW A, A \in Nat \ {0}, NEW b, b \in Nat, NEW B, B \in Nat \ {0},
               NEW c, c \in Nat, NEW C, C \in Nat \ {0},
               a * B < b * A, ~(a * C < c * A)
        PROVE  c * B < b * C
    <3>0. b * C \in Nat /\ c * B \in Nat /\ c * A \in Nat /\ a * C \in Nat
      BY <2>3
    <3> SUFFICES ASSUME b * C <= c * B PROVE FALSE
      BY <3>0
    <3>1. c * A <= a * C
      BY <2>3, <3>0
    <3>2. b * C * A <= c * B * A /\ c * A * B <= a * C * B
      BY <2>3, <3>0, <3>1, Mono
    <3>3. c * B * A = c * A * B /\ a * C * B = (a * B) * C /\ b * C * A = (b * A) * C
      BY <2>3
    <3> DEFINE p == b * A
               q == a * B
    <3>4. p \in Nat /\ q \in Nat /\ q < p /\ p * C <= q * C
      BY <2>3, <3>2, <3>3
    <3> HIDE DEF p, q
    <3>5. (q + 1) * C <= p * C
      BY <2>3, <3>4, Mono
    <3>6. (q + 1) * C = q * C + C /\ q * C \in Nat /\ p * C \in Nat
      BY <2>3, <3>4
    <3> QED BY <2>3, <3>4, <3>5, <3>6
  <2>4. ASSUME NEW w \in OtherUnits, Better(u, v) PROVE Better(u, w) \/ Better(w, v)
    <3>1. otherHp[u] \in Nat /\ otherHp[v] \in Nat /\ otherHp[w] \in Nat
      BY <1>1
    <3>2. OtherMaxHp[u] \in Nat \ {0} /\ OtherMaxHp[v] \in Nat \ {0} /\ OtherMaxHp[w] \in Nat \ {0}
      BY <1>1
    <3>3. otherHp[u] * OtherMaxHp[v] < otherHp[v] * OtherMaxHp[u]
      BY <2>1, <2>4
    <3>4. ~(otherHp[u] * OtherMaxHp[w] < otherHp[w] * OtherMaxHp[u]) => otherHp[w] * OtherMaxHp[v] < otherHp[v] * OtherMaxHp[w]
      BY <2>3, <3>1, <3>2, <3>3
    <3> QED BY <2>1, <3>4
  <2> QED BY <2>2, <2>4
<1> QED BY <1>1, <1>2, <1>3, <1>4 DEF Behaviors

Picks(g, c, k) ==
  g = [i \in 1..k |-> IF i = 1 THEN <<c[1]>> ELSE Tied(g[i - 1], c[i])]

(* The recursion of pickBest is well defined: it goes down one by one.     *)
LEMMA PicksExist ==
  ASSUME NEW c, NEW k \in Nat
  PROVE  \E g : Picks(g, c, k)
<1> DEFINE Odd == {i \in Nat : ~ \E g : Picks(g, c, i)}
<1> SUFFICES ASSUME Odd # {} PROVE FALSE
  OBVIOUS
<1>1. PICK i \in Odd : \A j \in Odd : i <= j
  <2>1. Odd \in SUBSET Nat
    OBVIOUS
  <2> HIDE DEF Odd
  <2> QED BY <2>1, LeastOf
<1>2. CASE i = 0
  <2>1. Picks([z \in 1..0 |-> 0], c, 0)
    BY DEF Picks
  <2> QED BY <1>2, <2>1
<1>3. CASE i # 0
  <2>1. i - 1 \in Nat /\ i - 1 \notin Odd
    BY <1>1, <1>3
  <2>2. PICK g : Picks(g, c, i - 1)
    BY <2>1
  <2> DEFINE last == IF i = 1 THEN <<c[1]>> ELSE Tied(g[i - 1], c[i])
             h == [z \in 1..i |-> IF z = i THEN last ELSE g[z]]
  <2>3. ASSUME NEW z \in 1..i
        PROVE  h[z] = IF z = 1 THEN <<c[1]>> ELSE Tied(h[z - 1], c[z])
    <3>1. z # 1 => z - 1 \in 1..i /\ z - 1 # i /\ h[z - 1] = g[z - 1]
      OBVIOUS
    <3>2. CASE z = i
      BY <3>1, <3>2
    <3>3. CASE z # i
      <4>1. z \in 1..(i - 1)
        BY <3>3
      <4>2. g[z] = IF z = 1 THEN <<c[1]>> ELSE Tied(g[z - 1], c[z])
        BY <2>2, <4>1 DEF Picks
      <4>3. h[z] = g[z]
        BY <3>3
      <4> QED BY <3>1, <4>2, <4>3
    <3> QED BY <3>2, <3>3
  <2>4. Picks(h, c, i)
    BY <2>3 DEF Picks
  <2> QED BY <1>1, <2>4
<1> QED BY <1>2, <1>3

(* The sequence lists those of S whom nobody of S bests, each once.        *)
ListsBest(s, S) ==
  /\ s \in Seq(S) /\ s # <<>>
  /\ {s[i] : i \in 1..Len(s)} = {v \in S : \A w \in S : ~Better(w, v)}
  /\ \A i, j \in 1..Len(s) : i # j => s[i] # s[j]

(* One more candidate.                                                     *)
LEMMA TiedListsBest ==
  ASSUME PursuitTypeOK, NEW S \in SUBSET OtherUnits, NEW v \in OtherUnits, v \notin S,
         NEW s, ListsBest(s, S)
  PROVE  ListsBest(Tied(s, v), S \cup {v})
<1> DEFINE T == S \cup {v}
           h == Head(s)
<1>1. s \in Seq(S) /\ Len(s) \in Nat \ {0} /\ h = s[1] /\ 1 \in 1..Len(s)
  BY DEF ListsBest
<1>2. /\ {s[i] : i \in 1..Len(s)} = {u \in S : \A w \in S : ~Better(w, u)}
      /\ \A i, j \in 1..Len(s) : i # j => s[i] # s[j]
      /\ \A i \in 1..Len(s) : s[i] \in S
  BY <1>1 DEF ListsBest
<1>3. h \in S /\ \A w \in S : ~Better(w, h)
  BY <1>1, <1>2
<1>4. \A a, b \in OtherUnits : Better(a, b) => ~Better(b, a)
  BY BetterOrders
<1>5. \A a, b, w \in OtherUnits : Better(a, b) => Better(a, w) \/ Better(w, b)
  BY BetterOrders
<1> HIDE DEF h
<1>6. CASE Better(v, h)
  <2>1. Tied(s, v) = <<v>>
    BY <1>6 DEF Tied, h
  <2>2. \A w \in T : ~Better(w, v)
    BY <1>3, <1>4, <1>5, <1>6
  <2>3. \A u \in S : Better(v, u)
    BY <1>3, <1>5, <1>6
  <2>4. {u \in T : \A w \in T : ~Better(w, u)} = {v}
    BY <2>2, <2>3
  <2>5. ListsBest(<<v>>, T)
    <3>1. <<v>> \in Seq(T) /\ <<v>> # <<>> /\ Len(<<v>>) = 1 /\ <<v>>[1] = v
      OBVIOUS
    <3>2. {<<v>>[i] : i \in 1..Len(<<v>>)} = {v}
      BY <3>1
    <3> QED BY <2>4, <3>1, <3>2 DEF ListsBest
  <2> QED BY <2>1, <2>5
<1>7. CASE ~Better(v, h) /\ ~Better(h, v)
  <2>1. Tied(s, v) = Append(s, v)
    BY <1>7 DEF Tied, h
  <2>2. \A w \in T : ~Better(w, v)
    BY <1>3, <1>4, <1>5, <1>7
  <2>3. \A u \in S : (\A w \in S : ~Better(w, u)) => ~Better(v, u)
    BY <1>3, <1>5, <1>7
  <2> DEFINE t == Append(s, v)
             n == Len(s)
  <2>4. /\ t \in Seq(T) /\ Len(t) = n + 1 /\ t[n + 1] = v
        /\ \A i \in 1..n : t[i] = s[i]
    <3>1. s \in Seq(T)
      BY <1>1
    <3> QED BY <1>1, <3>1
  <2> HIDE DEF t, n
  <2>5. n \in Nat /\ n = Len(s)
    BY <1>1 DEF n
  <2>6. {t[i] : i \in 1..(n + 1)} = {s[i] : i \in 1..n} \cup {v}
    BY <2>4, <2>5
  <2>7. {u \in T : \A w \in T : ~Better(w, u)} = {u \in S : \A w \in S : ~Better(w, u)} \cup {v}
    BY <2>2, <2>3
  <2>8. \A i, j \in 1..(n + 1) : i # j => t[i] # t[j]
    BY <1>2, <2>4, <2>5
  <2>9. t # <<>>
    BY <2>4, <2>5
  <2>10. ListsBest(t, T)
    BY <1>2, <2>4, <2>5, <2>6, <2>7, <2>8, <2>9 DEF ListsBest
  <2> QED BY <2>1, <2>10 DEF t
<1>8. CASE ~Better(v, h) /\ Better(h, v)
  <2>1. Tied(s, v) = s
    BY <1>8 DEF Tied, h
  <2>2. \A u \in S : (\A w \in S : ~Better(w, u)) => ~Better(v, u)
    BY <1>3, <1>5, <1>8
  <2>3. {u \in T : \A w \in T : ~Better(w, u)} = {u \in S : \A w \in S : ~Better(w, u)}
    BY <1>3, <1>4, <1>8, <2>2
  <2>4. s \in Seq(T) /\ s # <<>>
    BY <1>1 DEF ListsBest
  <2>5. ListsBest(s, T)
    BY <1>2, <2>3, <2>4 DEF ListsBest
  <2> QED BY <2>1, <2>5
<1> QED BY <1>6, <1>7, <1>8

(* The candidates c[1] .. c[i]                                             *)
Front(c, i) == {c[j] : j \in 1..i}

LEMMA PickBestLists ==
  ASSUME PursuitTypeOK, NEW k \in Nat \ {0}, NEW c \in [1..k -> OtherUnits],
         \A i, j \in 1..k : i < j => c[i] # c[j]
  PROVE  ListsBest(pickBest(c), Front(c, k))
<1> DEFINE F == CHOOSE g : g = [i \in DOMAIN c |->
                  IF i = 1 THEN <<c[1]>> ELSE Tied(g[i - 1], c[i])]
<1>1. DOMAIN c = 1..k /\ Len(c) = k /\ c # <<>>
  <2>1. c \in Seq(OtherUnits) /\ Len(c) = k
    OBVIOUS
  <2> QED BY <2>1
<1>2. pickBest(c) = F[k]
  BY <1>1 DEF pickBest
<1>3. Picks(F, c, k)
  <2>1. \E g : Picks(g, c, k)
    BY PicksExist
  <2>2. \E g : g = [i \in DOMAIN c |-> IF i = 1 THEN <<c[1]>> ELSE Tied(g[i - 1], c[i])]
    BY <1>1, <2>1 DEF Picks
  <2> QED BY <1>1, <2>2 DEF Picks
<1> HIDE DEF F
<1> DEFINE Bad == {i \in 1..k : ~ ListsBest(F[i], Front(c, i))}
<1>4. Bad = {}
  <2> SUFFICES ASSUME Bad # {} PROVE FALSE
    OBVIOUS
  <2>1. PICK i \in Bad : \A j \in Bad : i <= j
    <3>1. Bad \in SUBSET Nat
      OBVIOUS
    <3> HIDE DEF Bad
    <3> QED BY <3>1, LeastOf
  <2>2. F[i] = IF i = 1 THEN <<c[1]>> ELSE Tied(F[i - 1], c[i])
    BY <1>3, <2>1 DEF Picks
  <2>3. CASE i = 1
    <3>1. F[i] = <<c[1]>> /\ Front(c, i) = {c[1]} /\ c[1] \in OtherUnits
      BY <2>2, <2>3 DEF Front
    <3>2. ~Better(c[1], c[1])
      BY <3>1, BetterOrders
    <3> DEFINE v == c[1]
    <3>3. <<v>> \in Seq({v}) /\ <<v>> # <<>> /\ Len(<<v>>) = 1 /\ <<v>>[1] = v
      OBVIOUS
    <3>4. {<<v>>[j] : j \in 1..Len(<<v>>)} = {v}
      BY <3>3
    <3>5. {u \in {v} : \A w \in {v} : ~Better(w, u)} = {v}
      BY <3>2
    <3>6. ListsBest(<<v>>, {v})
      BY <3>3, <3>4, <3>5 DEF ListsBest
    <3> QED BY <2>1, <3>1, <3>6
  <2>4. CASE i # 1
    <3>1. i - 1 \in 1..k /\ i - 1 \notin Bad
      BY <2>1, <2>4
    <3>2. ListsBest(F[i - 1], Front(c, i - 1))
      BY <3>1
    <3>3. /\ Front(c, i - 1) \in SUBSET OtherUnits /\ c[i] \in OtherUnits
          /\ c[i] \notin Front(c, i - 1)
          /\ Front(c, i) = Front(c, i - 1) \cup {c[i]}
      BY <2>1, <3>1 DEF Front
    <3>4. ListsBest(Tied(F[i - 1], c[i]), Front(c, i - 1) \cup {c[i]})
      BY <3>2, <3>3, TiedListsBest
    <3> QED BY <2>1, <2>2, <2>4, <3>3, <3>4
  <2> QED BY <2>3, <2>4
<1> QED BY <1>2, <1>4

(* decide() chooses among those of its candidates whom nobody bests.       *)
LEMMA BestOfPool ==
  ASSUME PursuitTypeOK
  PROVE  TiesAreOptimal /\ Range(Best) \subseteq OtherUnits
<1> DEFINE S == Pool
           c == InOrder(S)
           k == Cardinality(S)
<1>1. S \in SUBSET Nat /\ S \subseteq OtherUnits /\ IsFiniteSet(S)
  BY PoolIsOfOthers
<1>2. c \in [1..k -> S] /\ (\A i, j \in 1..k : i < j => c[i] < c[j]) /\ {c[i] : i \in 1..k} = S
  <2>1. c = InOrder(S)
    OBVIOUS
  <2> HIDE DEF S, c
  <2> QED BY <1>1, <2>1, InOrderLists
<1>3. k \in Nat
  BY <1>1, FS_CardinalityType
<1>4. Best = pickBest(c)
  BY DEF Best
<1> HIDE DEF S, c, k
<1>5. CASE k = 0
  <2>1. c = <<>> /\ S = {}
    <3>1. c \in Seq(S) /\ Len(c) = 0
      BY <1>2, <1>5
    <3> QED BY <1>2, <1>5, <3>1
  <2>2. Best = <<>>
    BY <1>4, <2>1 DEF pickBest
  <2>3. Range(Best) = {} /\ Len(Best) = 0
    BY <2>2 DEF Range
  <2>4. Cardinality({}) = 0
    BY FS_EmptySet
  <2> QED BY <2>1, <2>3, <2>4 DEF TiesAreOptimal, S
<1>6. CASE k # 0
  <2>1. c \in [1..k -> OtherUnits]
    <3>1. c \in [1..k -> S]
      BY <1>2
    <3>2. S \subseteq OtherUnits
      BY <1>1
    <3> QED BY <3>1, <3>2
  <2>2. ASSUME NEW i \in 1..k, NEW j \in 1..k, i < j PROVE c[i] # c[j]
    <3>1. c[i] \in S /\ c[j] \in S
      BY <1>2
    <3>2. c[i] < c[j]
      BY <1>2, <2>2
    <3>3. c[i] \in Nat /\ c[j] \in Nat
      BY <1>1, <3>1
    <3> QED BY <3>2, <3>3
  <2>3. ListsBest(Best, S)
    BY <1>2, <1>3, <1>4, <1>6, <2>1, <2>2, PickBestLists DEF Front
  <2> DEFINE b == Best
  <2>4. /\ b \in Seq(S) /\ {b[i] : i \in 1..Len(b)} = {v \in S : \A w \in S : ~Better(w, v)}
        /\ \A i, j \in 1..Len(b) : i # j => b[i] # b[j]
    BY <2>3 DEF ListsBest
  <2> HIDE DEF b
  <2>5. DOMAIN b = 1..Len(b) /\ Len(b) \in Nat
    BY <2>4
  <2>6. Range(b) = {b[i] : i \in 1..Len(b)} /\ Range(b) \subseteq OtherUnits
    BY <1>1, <2>4, <2>5 DEF Range
  <2>7. Cardinality(Range(b)) = Len(b)
    <3> DEFINE n == Len(b)
    <3>1. n \in Nat
      BY <2>5
    <3>2. b \in Bijection(1..n, Range(b))
      BY <2>4, <2>5, <2>6 DEF Bijection, Injection, Surjection, IsInjective
    <3> HIDE DEF n
    <3>3. IsFiniteSet(1..n) /\ Cardinality(1..n) = n
      BY <3>1, FS_Interval
    <3>4. ExistsBijection(1..n, Range(b))
      BY <3>2 DEF ExistsBijection
    <3>5. Cardinality(Range(b)) = n
      BY <3>3, <3>4, FS_Bijection
    <3> QED BY <3>5 DEF n
  <2> QED BY <2>4, <2>6, <2>7 DEF TiesAreOptimal, S, b
<1> QED BY <1>5, <1>6

-----------------------------------------------------------------------------
(* The pursuit.                                                            *)

LEMMA MayWalk ==
  ASSUME NEW e \in Nat, NEW s \in 0..100
  PROVE  StepUnder(e, s) \in Nat
<1> DEFINE a == MoveSpeed * (100 + e)
           b == a \div 100
           c == b * (100 - s)
<1>1. a \in Nat
  BY PursuitBounds
<1>2. b \in Nat
  <2> HIDE DEF a
  <2> QED BY <1>1
<1>3. c \in Nat
  <2> HIDE DEF b
  <2> QED BY <1>2
<1>4. c \div 100 \in Nat
  <2> HIDE DEF c
  <2> QED BY <1>3
<1> QED BY <1>4 DEF StepUnder

LEMMA MaxStepIsNat ==
  ASSUME PursuitTypeOK
  PROVE  MaxStep \in Nat
BY MayWalk, PursuitBounds DEF PursuitTypeOK, MaxStep

LEMMA Placed ==
  ASSUME PursuitTypeOK
  PROVE  pos[0] \in Position /\ \A v \in OtherUnits : pos[v] \in Position
BY PursuitBounds DEF PursuitTypeOK, OtherUnits

LEMMA InitialPursuit ==
  PursuitInit => PursuitTypeOK
<1> SUFFICES ASSUME PursuitInit PROVE PursuitTypeOK
  OBVIOUS
<1>1. PICK lineup \in Lineups : behavior = lineup[1] /\ otherTeam = lineup[2]
  BY DEF PursuitInit
<1>2. behavior \in Behaviors /\ otherTeam \in [OtherUnits -> Teams]
  BY <1>1, PursuitBounds
<1>3. PICK start \in Position, places \in [OtherUnits -> Places] :
        pos = [u \in 0..LastOther |-> IF u = 0 THEN start ELSE places[u]]
  BY DEF PursuitInit
<1>4. pos \in [0..LastOther -> Position]
  <2>1. ASSUME NEW u \in 0..LastOther, u # 0 PROVE places[u] \in Position
    <3>1. u \in OtherUnits
      BY <2>1, PursuitBounds DEF OtherUnits
    <3> QED BY <3>1, PursuitBounds
  <2> QED BY <1>3, <2>1
<1>5. otherHp \in [OtherUnits -> Nat] /\ \A v \in OtherUnits : otherHp[v] <= OtherMaxHp[v]
  <2>1. otherHp = OtherMaxHp
    BY DEF PursuitInit
  <2>2. ASSUME NEW v \in OtherUnits PROVE OtherMaxHp[v] \in Nat /\ OtherMaxHp[v] <= OtherMaxHp[v]
    BY PursuitBounds
  <2>3. otherHp \in [OtherUnits -> Nat]
    BY <2>1, PursuitBounds
  <2> QED BY <2>1, <2>2, <2>3
<1>6. slow \in SlowMagnitudes /\ empower \in EmpowerMagnitudes /\ goal \in 0..LastOther
  BY PursuitBounds DEF PursuitInit
<1> QED BY <1>2, <1>4, <1>5, <1>6 DEF PursuitTypeOK

LEMMA PursuitTyped ==
  PursuitTypeOK /\ [PursuitNext]_pursuitVars => PursuitTypeOK'
<1> SUFFICES ASSUME PursuitTypeOK, [PursuitNext]_pursuitVars PROVE PursuitTypeOK'
  OBVIOUS
<1>1. Range(Best) \subseteq OtherUnits /\ OtherUnits \subseteq 0..LastOther
  BY BestOfPool, PursuitBounds DEF OtherUnits
<1>2. CASE StandsIdle
  <2>1. 0 \in 0..LastOther
    BY PursuitBounds
  <2> QED BY <1>2, <2>1 DEF StandsIdle, PursuitTypeOK, fixed
<1>3. ASSUME NEW v \in Range(Best), AttacksTarget(v) PROVE PursuitTypeOK'
  <2>1. v \in 0..LastOther
    BY <1>1
  <2> QED BY <1>3, <2>1 DEF AttacksTarget, PursuitTypeOK, fixed
<1>4. ASSUME NEW v \in Range(Best), WalksToward(v) PROVE PursuitTypeOK'
  <2>1. v \in OtherUnits /\ v \in 0..LastOther
    BY <1>1
  <2> DEFINE step == stepToward(pos[0], pos[v], MaxStep)
  <2>2. step \in Position
    <3>1. MaxStep \in Nat /\ pos[0] \in Position /\ pos[v] \in Position
      BY <2>1, MaxStepIsNat, Placed
    <3> QED BY <3>1, StepIsSound
  <2>3. pos' = [pos EXCEPT ![0] = step] /\ goal' = v /\ UNCHANGED <<fixed, otherHp, slow, empower>>
    BY <1>4 DEF WalksToward
  <2> HIDE DEF step
  <2> QED BY <2>1, <2>2, <2>3 DEF PursuitTypeOK, fixed
<1>5. ASSUME NEW v \in OtherUnits, OtherIsHurt(v) PROVE PursuitTypeOK'
  <2>1. otherHp[v] \in Nat /\ otherHp[v] > 0 /\ otherHp[v] <= OtherMaxHp[v] /\ OtherMaxHp[v] \in Nat
    BY <1>5, PursuitBounds DEF OtherIsHurt, PursuitTypeOK
  <2>2. otherHp[v] - 1 \in Nat /\ otherHp[v] - 1 <= OtherMaxHp[v]
    BY <2>1
  <2>3. otherHp' = [otherHp EXCEPT ![v] = otherHp[v] - 1] /\ UNCHANGED <<fixed, pos, slow, empower, goal>>
    BY <1>5 DEF OtherIsHurt
  <2>4. otherHp' \in [OtherUnits -> Nat] /\ \A w \in OtherUnits : otherHp'[w] <= OtherMaxHp[w]
    BY <2>2, <2>3 DEF PursuitTypeOK
  <2> QED BY <2>3, <2>4 DEF PursuitTypeOK, fixed
<1>6. ASSUME NEW v \in OtherUnits, OtherIsHealed(v) PROVE PursuitTypeOK'
  <2>1. otherHp[v] \in Nat /\ otherHp[v] < OtherMaxHp[v] /\ OtherMaxHp[v] \in Nat
    BY <1>6, PursuitBounds DEF OtherIsHealed, PursuitTypeOK
  <2>2. otherHp[v] + 1 \in Nat /\ otherHp[v] + 1 <= OtherMaxHp[v]
    BY <2>1
  <2>3. otherHp' = [otherHp EXCEPT ![v] = otherHp[v] + 1] /\ UNCHANGED <<fixed, pos, slow, empower, goal>>
    BY <1>6 DEF OtherIsHealed
  <2>4. otherHp' \in [OtherUnits -> Nat] /\ \A w \in OtherUnits : otherHp'[w] <= OtherMaxHp[w]
    BY <2>2, <2>3 DEF PursuitTypeOK
  <2> QED BY <2>3, <2>4 DEF PursuitTypeOK, fixed
<1>7. ASSUME NEW v \in OtherUnits, OtherWalks(v) PROVE PursuitTypeOK'
  <2>1. PICK place \in Places : pos' = [pos EXCEPT ![v] = place]
    BY <1>7 DEF OtherWalks
  <2>2. place \in Position
    BY PursuitAssumption DEF PursuitAssumption
  <2>3. UNCHANGED <<fixed, otherHp, slow, empower, goal>>
    BY <1>7 DEF OtherWalks
  <2> QED BY <2>1, <2>2, <2>3 DEF PursuitTypeOK, fixed
<1>8. CASE StatusChanges
  BY <1>8 DEF StatusChanges, PursuitTypeOK, fixed
<1>9. CASE UNCHANGED pursuitVars
  BY <1>9 DEF pursuitVars, fixed, PursuitTypeOK
<1> QED BY <1>2, <1>3, <1>4, <1>5, <1>6, <1>7, <1>8, <1>9 DEF PursuitNext, TakesTurn

(* In any state of the right types, every step the unit could take is a    *)
(* sound one.                                                              *)
LEMMA AnyStepIsSound ==
  PursuitTypeOK => StepsAreSound
<1> SUFFICES ASSUME PursuitTypeOK, NEW v \in OtherUnits
             PROVE  /\ Between(pos[0].x, StepTo(v).x, pos[v].x)
                    /\ Between(pos[0].y, StepTo(v).y, pos[v].y)
                    /\ squaredDistance(pos[0], StepTo(v)) < (MaxStep + 1) * (MaxStep + 1)
                    /\ MaxStep >= 2 /\ pos[0] # pos[v] =>
                         squaredDistance(StepTo(v), pos[v]) < squaredDistance(pos[0], pos[v])
  BY DEF StepsAreSound, NeverPastTarget, NoStall
<1> DEFINE from == pos[0]
           to == pos[v]
           step == StepTo(v)
<1>1. from \in Position /\ to \in Position /\ MaxStep \in Nat
  BY MaxStepIsNat, Placed
<1>2. step = stepToward(from, to, MaxStep)
  BY DEF StepTo
<1> HIDE DEF from, to, step
<1>3. /\ Between(from.x, step.x, to.x) /\ Between(from.y, step.y, to.y)
      /\ ShortOf(from, step, MaxStep)
      /\ MaxStep >= 2 /\ from # to => squaredDistance(step, to) < squaredDistance(from, to)
  BY <1>1, <1>2, StepIsSound
<1> QED BY <1>3 DEF ShortOf, from, to, step

(* Positions stay in the arena, hp between 0 and its maximum, and a unit's *)
(* decision names one of the others or nobody (movement.ts, geometry.ts).  *)
THEOREM PursuitTypes ==
  PursuitSpec => []PursuitTypeOK
<1> QED BY InitialPursuit, PursuitTyped, PTL DEF PursuitSpec

(* For every arena, speed and status: a step never passes its target, is   *)
(* not carried further by rounding, and brings a unit that may walk two or *)
(* more nearer (stepToward, moveUnitToward).                               *)
THEOREM EveryStepIsSound ==
  PursuitSpec => []StepsAreSound
<1> QED BY PursuitTypes, AnyStepIsSound, PTL

(* For any number of units: pickBest's single pass finds all the best      *)
(* candidates of each behavior, each once, and nobody else (select.ts).    *)
THEOREM PickBestIsOptimal ==
  PursuitSpec => []TiesAreOptimal
<1>1. PursuitTypeOK => TiesAreOptimal
  BY BestOfPool
<1> QED BY <1>1, PursuitTypes, PTL

-----------------------------------------------------------------------------
(* AgentWire: for any catalog, any two warbands, any skills of the agent,  *)
(* repeated or not.                                                        *)

-----------------------------------------------------------------------------
(* Actions and tuples.                                                     *)

(* A skill's index names it: no skill is in the catalog twice.             *)
LEMMA IndexNamesSkill ==
  ASSUME NEW s \in CatalogSkills
  PROVE  skillIndex(s) + 1 \in DOMAIN Catalog /\ Catalog[skillIndex(s) + 1] = s
                              /\ skillIndex(s) \in Int
<1>1. \E i \in DOMAIN Catalog : Catalog[i] = s
  BY DEF CatalogSkills
<1> DEFINE j == CHOOSE i \in DOMAIN Catalog : Catalog[i] = s
<1>2. j \in DOMAIN Catalog /\ Catalog[j] = s
  BY <1>1
<1>3. DOMAIN Catalog \subseteq Int
  BY CatalogAssumption DEF CatalogAssumption
<1>4. skillIndex(s) = j - 1
  BY DEF skillIndex
<1> HIDE DEF j
<1> QED BY <1>2, <1>3, <1>4

LEMMA IndexOfSkill ==
  ASSUME NEW i \in DOMAIN Catalog
  PROVE  skillIndex(Catalog[i]) = i - 1 /\ Catalog[i] \in CatalogSkills
<1>1. Catalog[i] \in CatalogSkills
  BY DEF CatalogSkills
<1> DEFINE j == skillIndex(Catalog[i])
<1>2. j + 1 \in DOMAIN Catalog /\ Catalog[j + 1] = Catalog[i] /\ j \in Int
  BY <1>1, IndexNamesSkill
<1>3. j + 1 = i
  BY <1>2, CatalogAssumption DEF CatalogAssumption
<1>4. i \in Int
  BY CatalogAssumption DEF CatalogAssumption
<1> HIDE DEF j
<1>5. j = i - 1
  BY <1>2, <1>3, <1>4
<1> QED BY <1>1, <1>5 DEF j

(* decodeAction gives back every action that encodeAction was given, and   *)
(* never throws on what encodeAction made (observation.ts).                *)
THEOREM DecodeUndoesEncode ==
  ASSUME NEW a \in Actions
  PROVE  Decodes(encodeAction(a)) /\ decodeAction(encodeAction(a)) = a
<1> USE DEF IDLE, MOVE, MOVE_TOWARD, ATTACK, CAST
<1>1. CASE a = Idle
  BY <1>1 DEF Idle, encodeAction, Decodes, UnusedSlotsAreZero,
              UsedSlots, decodeAction
<1>2. ASSUME NEW x \in Int, NEW y \in Int, a = Move(x, y)
      PROVE  Decodes(encodeAction(a)) /\ decodeAction(encodeAction(a)) = a
  <2>1. encodeAction(a) = <<1, x, y, 0>>
    BY <1>2 DEF Move, encodeAction
  <2>2. Decodes(<<1, x, y, 0>>)
    BY DEF Decodes, UnusedSlotsAreZero, UsedSlots
  <2>3. decodeAction(<<1, x, y, 0>>) = Move(x, y)
    BY DEF decodeAction
  <2> QED BY <1>2, <2>1, <2>2, <2>3
<1>3. ASSUME NEW u \in Int, a = MoveToward(u) \/ a = Attack(u)
      PROVE  Decodes(encodeAction(a)) /\ decodeAction(encodeAction(a)) = a
  <2>1. CASE a = MoveToward(u)
    <3>1. encodeAction(a) = <<2, u, 0, 0>>
      BY <2>1 DEF MoveToward, encodeAction
    <3>2. Decodes(<<2, u, 0, 0>>)
      BY DEF Decodes, UnusedSlotsAreZero, UsedSlots
    <3>3. decodeAction(<<2, u, 0, 0>>) = MoveToward(u)
      BY DEF decodeAction
    <3> QED BY <2>1, <3>1, <3>2, <3>3
  <2>2. CASE a = Attack(u)
    <3>1. encodeAction(a) = <<3, u, 0, 0>>
      BY <2>2 DEF Attack, encodeAction
    <3>2. Decodes(<<3, u, 0, 0>>)
      BY DEF Decodes, UnusedSlotsAreZero, UsedSlots
    <3>3. decodeAction(<<3, u, 0, 0>>) = Attack(u)
      BY DEF decodeAction
    <3> QED BY <2>2, <3>1, <3>2, <3>3
  <2> QED BY <1>3, <2>1, <2>2
<1>4. ASSUME NEW s \in CatalogSkills, NEW u \in Int, a = Cast(s, u)
      PROVE  Decodes(encodeAction(a)) /\ decodeAction(encodeAction(a)) = a
  <2> DEFINE j == skillIndex(s)
  <2>1. j + 1 \in DOMAIN Catalog /\ Catalog[j + 1] = s /\ j \in Int
    BY IndexNamesSkill
  <2>2. encodeAction(a) = <<4, u, 0, j>>
    BY <1>4 DEF Cast, encodeAction
  <2> HIDE DEF j
  <2>3. Decodes(<<4, u, 0, j>>)
    BY <2>1 DEF Decodes, UnusedSlotsAreZero, UsedSlots
  <2>4. decodeAction(<<4, u, 0, j>>) = Cast(s, u)
    BY <2>1 DEF decodeAction
  <2> QED BY <1>4, <2>2, <2>3, <2>4
<1>5. \/ a = Idle
      \/ \E x, y \in Int : a = Move(x, y)
      \/ \E u \in Int : a = MoveToward(u) \/ a = Attack(u)
      \/ \E s \in CatalogSkills, u \in Int : a = Cast(s, u)
  BY DEF Actions
<1> QED BY <1>1, <1>2, <1>3, <1>4, <1>5

LEMMA Quadruple ==
  ASSUME NEW t \in Seq(Int), Len(t) = 4
  PROVE  \E k, p, q, r \in Int : t = <<k, p, q, r>>
<1>1. t \in [1 .. 4 -> Int]
  OBVIOUS
<1>2. t[1] \in Int /\ t[2] \in Int /\ t[3] \in Int /\ t[4] \in Int
  BY <1>1
<1>3. t = <<t[1], t[2], t[3], t[4]>>
  OBVIOUS
<1> QED BY <1>2, <1>3

(* encodeAction gives back every tuple that decodeAction accepts: no two   *)
(* tuples mean the same action (observation.ts: assertUnusedSlotsAreZero). *)
THEOREM EncodeUndoesDecode ==
  ASSUME NEW t \in Tuples, Decodes(t)
  PROVE  decodeAction(t) \in Actions /\ encodeAction(decodeAction(t)) = t
<1> USE DEF IDLE, MOVE, MOVE_TOWARD, ATTACK, CAST
<1>1. PICK k, p, q, r \in Int : t = <<k, p, q, r>>
  BY Quadruple DEF Decodes, Tuples
<1>2. k \in 0 .. 4
  BY <1>1 DEF Decodes
<1>3. \A i \in (2 .. 4) \ UsedSlots(k) : t[i] = 0
  BY <1>1 DEF Decodes, UnusedSlotsAreZero
<1>4. CASE k = 0
  <2>1. t = <<0, 0, 0, 0>>
    BY <1>1, <1>3, <1>4 DEF UsedSlots
  <2> QED BY <2>1 DEF decodeAction, Idle, encodeAction, Actions
<1>5. CASE k = 1
  <2>1. t = <<1, p, q, 0>>
    BY <1>1, <1>3, <1>5 DEF UsedSlots
  <2>2. decodeAction(t) = Move(p, q)
    BY <2>1 DEF decodeAction
  <2>3. encodeAction(Move(p, q)) = t
    BY <2>1 DEF Move, encodeAction
  <2> QED BY <2>2, <2>3 DEF Actions
<1>6. CASE k = 2
  <2>1. t = <<2, p, 0, 0>>
    BY <1>1, <1>3, <1>6 DEF UsedSlots
  <2>2. decodeAction(t) = MoveToward(p)
    BY <2>1 DEF decodeAction
  <2>3. encodeAction(MoveToward(p)) = t
    BY <2>1 DEF MoveToward, encodeAction
  <2> QED BY <2>2, <2>3 DEF Actions
<1>7. CASE k = 3
  <2>1. t = <<3, p, 0, 0>>
    <3>1. UsedSlots(k) = {2}
      BY <1>7 DEF UsedSlots
    <3>2. q = 0 /\ r = 0
      BY <1>1, <1>3, <3>1
    <3> QED BY <1>1, <1>7, <3>2
  <2>2. decodeAction(t) = Attack(p)
    BY <2>1 DEF decodeAction
  <2>3. encodeAction(Attack(p)) = t
    BY <2>1 DEF Attack, encodeAction
  <2> QED BY <2>2, <2>3 DEF Actions
<1>8. CASE k = 4
  <2>1. t = <<4, p, 0, r>>
    BY <1>1, <1>3, <1>8 DEF UsedSlots
  <2>2. r + 1 \in DOMAIN Catalog
    BY <2>1 DEF Decodes
  <2>3. skillIndex(Catalog[r + 1]) = r /\ Catalog[r + 1] \in CatalogSkills
    BY <2>2, IndexOfSkill
  <2>4. decodeAction(t) = Cast(Catalog[r + 1], p)
    BY <2>1 DEF decodeAction
  <2>5. encodeAction(Cast(Catalog[r + 1], p)) = <<4, p, 0, skillIndex(Catalog[r + 1])>>
    BY DEF Cast, encodeAction
  <2>6. Cast(Catalog[r + 1], p) \in Actions
    BY <2>3 DEF Actions
  <2> QED BY <2>1, <2>3, <2>4, <2>5, <2>6
<1> QED BY <1>2, <1>4, <1>5, <1>6, <1>7, <1>8

-----------------------------------------------------------------------------
(* The vector, block by block.                                             *)

LEMMA WireBounds ==
  /\ LastUnit \in Nat /\ Cooldown \in Nat /\ Len(Catalog) \in Nat
  /\ Agent \in Units /\ Units = 0 .. LastUnit
  /\ MaxHp \in [Units -> Nat]
  /\ Equipped \in Seq(CatalogSkills) /\ DOMAIN Catalog = 1 .. Len(Catalog)
  /\ Spots \subseteq [x : Nat, y : Nat]
<1>1. WireAssumption /\ RosterAssumption /\ CatalogAssumption
  BY CatalogAssumption, RosterAssumption, WireAssumption
<1>2. Len(Catalog) \in Nat /\ DOMAIN Catalog = 1 .. Len(Catalog)
  BY <1>1, CatalogAssumption DEF CatalogAssumption
<1>3. MaxHp \in [Units -> Nat]
  BY <1>1 DEF RosterAssumption
<1> QED BY <1>1, <1>2, <1>3, WireAssumption DEF WireAssumption, RosterAssumption, Units

(* Whatever a tick makes of a unit is typed.                               *)
LEMMA UnitStatesAreTyped ==
  ASSUME NEW s \in UnitStates
  PROVE  s \in [hp : Nat, x : Nat, y : Nat]
<1> DEFINE top == 0 .. Max({MaxHp[u] : u \in Units})
<1>1. s \in {[hp |-> h, x |-> p.x, y |-> p.y] : h \in top, p \in Spots}
  BY DEF UnitStates
<1>2. top \subseteq Nat
  OBVIOUS
<1> HIDE DEF top
<1>3. PICK h \in top, p \in Spots : s = [hp |-> h, x |-> p.x, y |-> p.y]
  BY <1>1
<1>4. p \in [x : Nat, y : Nat]
  BY WireBounds
<1> QED BY <1>2, <1>3, <1>4

(* The blocks list every other unit, first the agent's side.               *)
LEMMA OthersListed ==
  /\ Others \in Seq(Units \ {Agent})
  /\ Len(Others) = LastUnit /\ NumTargetSlots = LastUnit
  /\ NumAllies \in 0 .. LastUnit
  /\ {Others[k] : k \in 1 .. LastUnit} = Units \ {Agent}
  /\ \A k \in 1 .. LastUnit :
       Team[Others[k]] = Team[Agent] <=> k <= NumAllies
<1> DEFINE A == Allies
           B == Enemies
           f == InOrder(A)
           g == InOrder(B)
           a == Cardinality(A)
           b == Cardinality(B)
<1>1. Units = 0 .. LastUnit /\ Agent \in Units /\ LastUnit \in Nat
  BY WireBounds
<1>2. A \subseteq Units /\ B \subseteq Units /\ A \cup B = Units \ {Agent}
      /\ A \cap B = {} /\ Agent \notin A /\ Agent \notin B
  BY DEF Allies, Enemies
<1>3. IsFiniteSet(Units) /\ Cardinality(Units) = LastUnit + 1
  BY <1>1, FS_Interval
<1>4. IsFiniteSet(A) /\ IsFiniteSet(B)
  BY <1>2, <1>3, FS_Subset
<1>5. a \in Nat /\ b \in Nat
  BY <1>4, FS_CardinalityType
<1>6. a + b = LastUnit
  <2>1. Cardinality(Units \ {Agent}) = LastUnit
    <3>1. Cardinality(Units \ {Agent}) = Cardinality(Units) - 1
      BY <1>1, <1>3, FS_RemoveElement
    <3> QED BY <1>1, <1>3, <3>1
  <2>2. Cardinality(A \cup B) = a + b - Cardinality(A \cap B)
    BY <1>4, FS_Union
  <2>3. Cardinality({}) = 0
    BY FS_EmptySet
  <2> HIDE DEF A, B
  <2>4. Cardinality(A \cup B) = LastUnit /\ Cardinality(A \cap B) = 0
    BY <1>2, <2>1, <2>3
  <2> QED BY <1>5, <2>2, <2>4
<1>7. A \in SUBSET Nat /\ B \in SUBSET Nat
  BY <1>1, <1>2
<1>8. f \in [1 .. a -> A] /\ {f[i] : i \in 1 .. a} = A
  BY <1>4, <1>7, InOrderLists
<1>9. g \in [1 .. b -> B] /\ {g[i] : i \in 1 .. b} = B
  BY <1>4, <1>7, InOrderLists
<1>10. Others = f \o g /\ NumAllies = a /\ NumTargetSlots = a + b
  BY DEF Others, NumAllies, NumTargetSlots
<1> DEFINE U == Units \ {Agent}
<1>11. A \cup B = U /\ A \cap B = {}
  BY <1>2
<1>12. \A u \in U : Team[u] = Team[Agent] <=> u \in A
  BY DEF Allies
<1> HIDE DEF A, B, f, g, a, b, U
<1>13. f \in Seq(U) /\ Len(f) = a /\ g \in Seq(U) /\ Len(g) = b
  <2>1. f \in [1 .. a -> U] /\ g \in [1 .. b -> U]
    BY <1>8, <1>9, <1>11
  <2> QED BY <1>5, <2>1
<1>14. f \o g \in Seq(U) /\ Len(f \o g) = a + b
  BY <1>5, <1>13
<1>15. \A k \in 1 .. (a + b) : (f \o g)[k] = IF k <= a THEN f[k] ELSE g[k - a]
  BY <1>5, <1>13
<1>16. \A k \in 1 .. (a + b) : (f \o g)[k] \in U /\ ((f \o g)[k] \in A <=> k <= a)
  <2>1. ASSUME NEW k \in 1 .. (a + b), k <= a PROVE (f \o g)[k] \in A
    BY <1>5, <1>8, <1>15, <2>1
  <2>2. ASSUME NEW k \in 1 .. (a + b), ~ (k <= a) PROVE (f \o g)[k] \in B
    <3>1. k - a \in 1 .. b
      BY <1>5, <2>2
    <3> QED BY <1>9, <1>15, <2>2, <3>1
  <2> QED BY <1>11, <2>1, <2>2
<1>17. ASSUME NEW u \in U PROVE \E k \in 1 .. (a + b) : (f \o g)[k] = u
  <2>1. CASE u \in A
    <3>1. PICK i \in 1 .. a : f[i] = u
      BY <1>8, <2>1
    <3>2. i \in 1 .. (a + b) /\ i <= a
      BY <1>5
    <3>3. (f \o g)[i] = u
      BY <1>15, <3>1, <3>2
    <3> QED BY <3>2, <3>3
  <2>2. CASE u \in B
    <3>1. PICK i \in 1 .. b : g[i] = u
      BY <1>9, <2>2
    <3>2. a + i \in 1 .. (a + b) /\ ~ (a + i <= a) /\ (a + i) - a = i
      BY <1>5
    <3>3. (f \o g)[a + i] = g[(a + i) - a]
      BY <1>15, <3>2
    <3>4. (f \o g)[a + i] = u
      BY <3>1, <3>2, <3>3
    <3> QED BY <3>2, <3>4
  <2> QED BY <1>11, <2>1, <2>2
<1>18. {(f \o g)[k] : k \in 1 .. (a + b)} = U
  BY <1>16, <1>17
<1>19. a \in 0 .. LastUnit
  BY <1>5, <1>6
<1> QED BY <1>6, <1>10, <1>12, <1>14, <1>16, <1>18, <1>19 DEF U

ShownWorlds == [Units -> [hp : Nat, x : Nat, y : Nat]]
CoolStates == [DOMAIN Equipped -> Nat]

LEMMA DistanceIsANumber ==
  ASSUME NEW p \in [hp : Nat, x : Nat, y : Nat], NEW q \in [hp : Nat, x : Nat, y : Nat]
  PROVE  squaredGap(p, q) \in Int
<1> DEFINE dx == p.x - q.x
           dy == p.y - q.y
<1>1. dx \in Int /\ dy \in Int
  OBVIOUS
<1>2. squaredGap(p, q) = dx * dx + dy * dy
  BY Zenon DEF squaredGap
<1> HIDE DEF dx, dy
<1>3. dx * dx \in Int /\ dy * dy \in Int
  BY <1>1
<1>4. dx * dx + dy * dy \in Int
  BY <1>3
<1> QED BY <1>2, <1>4

LEMMA UnitBlocks ==
  ASSUME NEW w \in ShownWorlds, NEW u \in Units
  PROVE  encodeUnitBlock(w, u) \in [1 .. 6 -> Int]
<1>1. u \in Int /\ w[u].hp \in Int /\ MaxHp[u] \in Int /\ w[u].x \in Int /\ w[u].y \in Int
  BY WireBounds DEF ShownWorlds
<1>2. squaredGap(w[Agent], w[u]) \in Int
  <2>1. w[Agent] \in [hp : Nat, x : Nat, y : Nat] /\ w[u] \in [hp : Nat, x : Nat, y : Nat]
    BY WireBounds DEF ShownWorlds
  <2> QED BY <2>1, DistanceIsANumber
<1> QED BY <1>1, <1>2 DEF encodeUnitBlock

LEMMA Greatest ==
  ASSUME NEW n \in Nat, NEW S \in SUBSET (1 .. n), S # {}
  PROVE  Max(S) \in S
<1> DEFINE T == {n - i : i \in S}
<1>1. T \in SUBSET Nat /\ T # {}
  <2>1. \A i \in 1 .. n : n - i \in Nat
    OBVIOUS
  <2> QED BY <2>1
<1>2. PICK m \in T : \A t \in T : m <= t
  BY <1>1, LeastOf
<1>3. PICK i \in S : m = n - i
  BY <1>2
<1>4. \A j \in S : i >= j
  <2>1. ASSUME NEW j \in S PROVE i >= j
    <3>1. n - j \in T
      OBVIOUS
    <3>2. n - i <= n - j
      BY <1>2, <1>3, <3>1
    <3>3. i \in Int /\ j \in Int
      OBVIOUS
    <3> QED BY <3>2, <3>3
  <2> QED BY <2>1
<1> QED BY <1>4 DEF Max

Joins(u, s, t, m, n) ==
  /\ u \in Seq(Int) /\ Len(u) = m + n
  /\ \A i \in 1 .. m : u[i] = s[i]
  /\ \A i \in 1 .. n : u[m + i] = t[i]

LEMMA Joined ==
  ASSUME NEW s \in Seq(Int), NEW t \in Seq(Int), NEW m, Len(s) = m, NEW n, Len(t) = n
  PROVE  Joins(s \o t, s, t, m, n)
<1>1. m \in Nat /\ n \in Nat /\ s \o t \in Seq(Int) /\ Len(s \o t) = m + n
  OBVIOUS
<1>2. ASSUME NEW i \in 1 .. m PROVE (s \o t)[i] = s[i]
  BY <1>1
<1>3. ASSUME NEW i \in 1 .. n PROVE (s \o t)[m + i] = t[i]
  BY <1>1
<1> QED BY <1>1, <1>2, <1>3 DEF Joins

(* What b shows of the agent in the world w.                               *)
ShowsSelf(b, w, a) ==
  /\ b \in Seq(Int) /\ Len(b) = 5 + Len(Catalog)
  /\ b[1] = w[Agent].hp /\ b[2] = MaxHp[Agent]
  /\ b[3] = w[Agent].x /\ b[4] = w[Agent].y /\ b[5] = a
  /\ \A s \in DOMAIN Catalog : b[5 + s] = -1 <=> StatesOf(Catalog[s]) = {}

LEMMA SelfShown ==
  ASSUME NEW w \in ShownWorlds, NEW a \in Nat, NEW c \in CoolStates
  PROVE  ShowsSelf(encodeSelfBlock(w, a, c), w, a)
<1> DEFINE n == Len(Catalog)
           head == <<w[Agent].hp, MaxHp[Agent], w[Agent].x, w[Agent].y, a>>
           slot(s) == IF StatesOf(Catalog[s]) = {} THEN -1
                      ELSE c[Max(StatesOf(Catalog[s]))]
           tail == [s \in 1 .. n |-> slot(s)]
<1>1. encodeSelfBlock(w, a, c) = head \o tail
  BY DEF encodeSelfBlock, StatesOf, SKILL_COOLDOWN_ABSENT
<1>2. head \in Seq(Int) /\ Len(head) = 5
  <2>1. w[Agent].hp \in Int /\ MaxHp[Agent] \in Int /\ w[Agent].x \in Int /\ w[Agent].y \in Int
    BY WireBounds DEF ShownWorlds
  <2> QED BY <2>1
<1>3. head[1] = w[Agent].hp /\ head[2] = MaxHp[Agent]
      /\ head[3] = w[Agent].x /\ head[4] = w[Agent].y /\ head[5] = a
  OBVIOUS
<1>4. n \in Nat /\ DOMAIN Catalog = 1 .. n
  BY WireBounds
<1>5. ASSUME NEW s \in 1 .. n
      PROVE  slot(s) \in Int /\ (slot(s) = -1 <=> StatesOf(Catalog[s]) = {})
  <2> DEFINE S == StatesOf(Catalog[s])
  <2>1. Equipped \in Seq(CatalogSkills)
    BY WireBounds
  <2>2. Len(Equipped) \in Nat /\ DOMAIN Equipped = 1 .. Len(Equipped)
    BY <2>1
  <2>3. S \in SUBSET (1 .. Len(Equipped))
    BY <2>2 DEF StatesOf
  <2> HIDE DEF S
  <2>4. S # {} => Max(S) \in DOMAIN Equipped
    BY <2>2, <2>3, Greatest
  <2>5. S # {} => c[Max(S)] \in Nat
    BY <2>4 DEF CoolStates
  <2> QED BY <2>5 DEF S
<1> HIDE DEF head, slot
<1>6. tail \in Seq(Int) /\ Len(tail) = n /\ \A s \in 1 .. n : tail[s] = slot(s)
  BY <1>4, <1>5
<1> HIDE DEF tail, n
<1>7. /\ head \o tail \in Seq(Int) /\ Len(head \o tail) = 5 + n
      /\ \A i \in 1 .. 5 : (head \o tail)[i] = head[i]
      /\ \A s \in 1 .. n : (head \o tail)[5 + s] = tail[s]
  <2>1. Joins(head \o tail, head, tail, 5, n)
    BY <1>2, <1>6, Joined
  <2> QED BY <2>1 DEF Joins
<1>8. \A s \in 1 .. n : (head \o tail)[5 + s] = slot(s)
  BY <1>6, <1>7
<1>9. /\ (head \o tail)[1] = w[Agent].hp /\ (head \o tail)[2] = MaxHp[Agent]
      /\ (head \o tail)[3] = w[Agent].x
      /\ (head \o tail)[4] = w[Agent].y /\ (head \o tail)[5] = a
  <2>1. 1 \in 1 .. 5 /\ 2 \in 1 .. 5 /\ 3 \in 1 .. 5 /\ 4 \in 1 .. 5 /\ 5 \in 1 .. 5
    OBVIOUS
  <2> QED BY <1>3, <1>7, <2>1
<1>10. \A s \in DOMAIN Catalog : (head \o tail)[5 + s] = -1 <=> StatesOf(Catalog[s]) = {}
  BY <1>4, <1>5, <1>8
<1>11. Len(head \o tail) = 5 + Len(Catalog)
  BY <1>7 DEF n
<1> QED BY <1>1, <1>7, <1>9, <1>10, <1>11 DEF ShowsSelf

LEMMA SelfBlock ==
  ASSUME NEW w \in ShownWorlds, NEW a \in Nat, NEW c \in CoolStates
  PROVE  /\ encodeSelfBlock(w, a, c) \in Seq(Int)
         /\ Len(encodeSelfBlock(w, a, c)) = 5 + Len(Catalog)
         /\ encodeSelfBlock(w, a, c)[1] = w[Agent].hp
         /\ encodeSelfBlock(w, a, c)[3] = w[Agent].x
         /\ encodeSelfBlock(w, a, c)[4] = w[Agent].y
         /\ encodeSelfBlock(w, a, c)[5] = a
         /\ \A s \in DOMAIN Catalog :
              encodeSelfBlock(w, a, c)[5 + s] = -1 <=> StatesOf(Catalog[s]) = {}
BY SelfShown DEF ShowsSelf

Numbers(v) == v \in Seq(Int)

(* Reading a vector back: a place of the self block, and a field of the    *)
(* block of a slot.                                                        *)
LEMMA ReadBack ==
  ASSUME NEW w \in ShownWorlds, NEW a \in Nat, NEW c \in CoolStates,
         NEW v, v = encodeObservation(w, a, c)
  PROVE  /\ \A i \in 0 .. 4 + Len(Catalog) : At(v, i) = encodeSelfBlock(w, a, c)[i + 1]
         /\ \A k \in 0 .. LastUnit - 1, f \in 0 .. 5 :
              Field(v, k, f) = encodeUnitBlock(w, Others[k + 1])[f + 1]
         /\ v # <<>> /\ Numbers(v)
<1> DEFINE L == 5 + Len(Catalog)
           self == encodeSelfBlock(w, a, c)
           entry(i) == encodeUnitBlock(w, Others[(i - 1) \div 6 + 1])[((i - 1) % 6) + 1]
           blocks == [i \in 1 .. (6 * LastUnit) |-> entry(i)]
<1>1. v = self \o blocks
  BY OthersListed DEF encodeObservation, OBS_UNIT_FIELD_COUNT
<1>2. self \in Seq(Int) /\ Len(self) = L
  BY SelfBlock
<1>3. L \in Nat /\ L >= 5 /\ LastUnit \in Nat
  BY WireBounds
<1>4. ASSUME NEW i \in 1 .. (6 * LastUnit) PROVE entry(i) \in Int
  <2> DEFINE q == (i - 1) \div 6
             r == (i - 1) % 6
  <2>1. q \in 0 .. LastUnit - 1 /\ r \in 0 .. 5
    BY <1>3
  <2> HIDE DEF q, r
  <2>2. q + 1 \in 1 .. LastUnit /\ r + 1 \in 1 .. 6
    BY <1>3, <2>1
  <2>3. Others[q + 1] \in Units
    BY <2>2, OthersListed
  <2>4. encodeUnitBlock(w, Others[q + 1]) \in [1 .. 6 -> Int]
    BY <2>3, UnitBlocks
  <2>5. encodeUnitBlock(w, Others[q + 1])[r + 1] \in Int
    BY <2>2, <2>4
  <2> QED BY <2>5 DEF q, r
<1>5. ASSUME NEW k \in 0 .. LastUnit - 1, NEW f \in 0 .. 5
      PROVE  /\ 6 * k + f + 1 \in 1 .. (6 * LastUnit)
             /\ entry(6 * k + f + 1) = encodeUnitBlock(w, Others[k + 1])[f + 1]
  <2>1. 6 * k + f + 1 \in 1 .. (6 * LastUnit)
    BY <1>3
  <2>2. ((6 * k + f + 1) - 1) \div 6 = k /\ ((6 * k + f + 1) - 1) % 6 = f
    BY <1>3
  <2> QED BY <2>1, <2>2
<1> HIDE DEF entry, self, L
<1>6. blocks \in Seq(Int) /\ Len(blocks) = 6 * LastUnit
      /\ \A i \in 1 .. (6 * LastUnit) : blocks[i] = entry(i)
  BY <1>3, <1>4
<1> HIDE DEF blocks
<1>7. /\ Len(self \o blocks) = L + 6 * LastUnit /\ self \o blocks \in Seq(Int)
      /\ \A i \in 1 .. L : (self \o blocks)[i] = self[i]
      /\ \A i \in 1 .. (6 * LastUnit) : (self \o blocks)[L + i] = blocks[i]
  <2>1. Joins(self \o blocks, self, blocks, L, 6 * LastUnit)
    BY <1>2, <1>6, Joined
  <2> QED BY <2>1 DEF Joins
<1>8. \A i \in 1 .. (6 * LastUnit) : (self \o blocks)[L + i] = entry(i)
  BY <1>6, <1>7
<1>9. \A i \in 0 .. 4 + Len(Catalog) : At(v, i) = self[i + 1]
  <2>1. ASSUME NEW i \in 0 .. 4 + Len(Catalog) PROVE v[i + 1] = self[i + 1]
    <3>1. i + 1 \in 1 .. L
      BY WireBounds DEF L
    <3> QED BY <1>1, <1>7, <3>1
  <2> QED BY <2>1 DEF At
<1>10. ASSUME NEW k \in 0 .. LastUnit - 1, NEW f \in 0 .. 5
       PROVE  Field(v, k, f) = encodeUnitBlock(w, Others[k + 1])[f + 1]
  <2>1. Field(v, k, f) = v[(L + k * 6 + f) + 1]
    BY DEF Field, At, OBS_SELF_FIELD_COUNT, OBS_UNIT_FIELD_COUNT, L
  <2>2. (L + k * 6 + f) + 1 = L + (6 * k + f + 1)
    BY <1>3
  <2> QED BY <1>1, <1>5, <1>8, <2>1, <2>2
<1>11. v # <<>>
  <2>1. L + 6 * LastUnit # 0
    BY <1>3
  <2>2. Len(v) # 0
    BY <1>1, <1>7, <2>1
  <2>3. Len(<<>>) = 0
    OBVIOUS
  <2> QED BY <2>2, <2>3
<1>12. Numbers(v)
  BY <1>1, <1>7 DEF Numbers
<1> QED BY <1>9, <1>10, <1>11, <1>12 DEF self

-----------------------------------------------------------------------------
(* The invariant: after the first reset the vector in the environment's    *)
(* hands is the present world's, and the slot table lists the blocks; the  *)
(* row being played was one of the action space and became the tuple whose *)
(* decoding is being done.                                                 *)
RowIsSent ==
  row # NoRow =>
    /\ row \in Rows /\ obs # <<>>
    /\ doing = IF Decodes(EncodeWireAction(row, slots))
               THEN decodeAction(EncodeWireAction(row, slots)) ELSE Undecodable

FrameIsPresent ==
  obs # <<>> =>
    /\ bodies \in ShownWorlds /\ attackCool \in Nat /\ cools \in CoolStates
    /\ obs = encodeObservation(bodies, attackCool, cools)
    /\ slots = Others

WireInv == RowIsSent /\ FrameIsPresent /\ (obs = <<>> => slots = <<>>)

LEMMA NotBelowZero ==
  ASSUME NEW n \in Int
  PROVE  Max({n, 0}) \in Nat
<1>1. \E x \in {n, 0} : \A y \in {n, 0} : x >= y
  <2>1. n >= 0 \/ 0 >= n
    OBVIOUS
  <2>2. n >= n /\ 0 >= 0
    OBVIOUS
  <2> QED BY <2>1, <2>2
<1>2. Max({n, 0}) \in {n, 0} /\ \A y \in {n, 0} : Max({n, 0}) >= y
  BY <1>1 DEF Max
<1>3. ASSUME NEW m, m \in {n, 0}, \A y \in {n, 0} : m >= y PROVE m \in Nat
  <2>1. m \in Int /\ m >= 0
    BY <1>3
  <2> QED BY <2>1
<1> QED BY <1>2, <1>3

(* A fresh match and a frame of it make the invariant afresh.              *)
LEMMA FramesArePresent ==
  ASSUME obs = <<>> => slots = <<>>, obs # <<>> => slots = Others,
         bodies' \in ShownWorlds, attackCool' \in Nat, cools' \in CoolStates, TakeFrame
  PROVE  FrameIsPresent' /\ obs' # <<>> /\ slots' = Others
<1>1. obs' = encodeObservation(bodies', attackCool', cools')
  BY DEF TakeFrame
<1>2. /\ obs' # <<>>
      /\ \A k \in 0 .. LastUnit - 1, f \in 0 .. 5 :
           Field(obs', k, f) = encodeUnitBlock(bodies', Others[k + 1])[f + 1]
  BY <1>1, ReadBack
<1>3. SlotTable(obs') = Others
  <2>1. NumTargetSlots = LastUnit /\ Others \in Seq(Units \ {Agent})
        /\ Len(Others) = LastUnit
    BY OthersListed
  <2>2. LastUnit \in Nat
    BY WireBounds
  <2>3. ASSUME NEW k \in 1 .. LastUnit PROVE targetIdForSlot(obs', k - 1) = Others[k]
    <3>1. k - 1 \in 0 .. LastUnit - 1 /\ (k - 1) + 1 = k
      BY <2>2
    <3>2. Field(obs', k - 1, 0) = encodeUnitBlock(bodies', Others[k])[1]
      BY <1>2, <3>1
    <3> QED BY <3>2 DEF targetIdForSlot, encodeUnitBlock
  <2>4. SlotTable(obs') = [k \in 1 .. LastUnit |-> Others[k]]
    BY <2>1, <2>3 DEF SlotTable
  <2>5. Others = [k \in 1 .. LastUnit |-> Others[k]]
    BY <2>1
  <2> QED BY <2>4, <2>5
<1>4. slots' = Others
  <2>1. slots' = IF slots = <<>> THEN SlotTable(obs') ELSE slots
    BY DEF TakeFrame
  <2> QED BY <1>3, <2>1
<1> QED BY <1>1, <1>2, <1>4 DEF FrameIsPresent

LEMMA FreshMatches ==
  ASSUME FreshMatch
  PROVE  bodies' \in ShownWorlds /\ attackCool' \in Nat /\ cools' \in CoolStates
<1>1. PICK place \in [Units -> Spots] :
        bodies' = [u \in Units |-> [hp |-> MaxHp[u], x |-> place[u].x, y |-> place[u].y]]
  BY DEF FreshMatch
<1>2. ASSUME NEW u \in Units
      PROVE  [hp |-> MaxHp[u], x |-> place[u].x, y |-> place[u].y] \in [hp : Nat, x : Nat, y : Nat]
  <2>1. place[u] \in [x : Nat, y : Nat] /\ MaxHp[u] \in Nat
    BY WireBounds
  <2> QED BY <2>1
<1>3. bodies' \in ShownWorlds
  BY <1>1, <1>2 DEF ShownWorlds
<1> QED BY <1>3 DEF FreshMatch, CoolStates

LEMMA WireStarts == ASSUME WireInit PROVE WireInv
BY DEF WireInit, WireInv, RowIsSent, FrameIsPresent

LEMMA SendKeeps ==
  ASSUME WireInv, Send
  PROVE  WireInv'
<1>1. PICK r \in Rows :
        /\ row' = r
        /\ doing' = IF Decodes(EncodeWireAction(r, slots))
                    THEN decodeAction(EncodeWireAction(r, slots)) ELSE Undecodable
  BY DEF Send
<1>2. obs # <<>> /\ UNCHANGED <<bodies, attackCool, cools, obs, slots>>
  BY DEF Send, world
<1>3. RowIsSent'
  BY <1>1, <1>2 DEF RowIsSent
<1>4. FrameIsPresent'
  BY <1>2 DEF WireInv, FrameIsPresent
<1> QED BY <1>2, <1>3, <1>4 DEF WireInv

LEMMA AnswerKeeps ==
  ASSUME WireInv, Answer
  PROVE  WireInv' /\ obs' # <<>>
<1>1. obs # <<>> /\ row' = NoRow
  BY DEF WireInv, RowIsSent, Answer
<1>2. bodies \in ShownWorlds /\ attackCool \in Nat /\ cools \in CoolStates /\ slots = Others
  BY <1>1 DEF WireInv, FrameIsPresent
<1>3. bodies' \in ShownWorlds
  <2>4. PICK S \in SUBSET Units : \E change \in [S -> UnitStates] :
          bodies' = [u \in Units |-> IF u \in S THEN change[u] ELSE bodies[u]]
    BY DEF Answer
  <2>1. PICK change \in [S -> UnitStates] :
          bodies' = [u \in Units |-> IF u \in S THEN change[u] ELSE bodies[u]]
    BY <2>4
  <2>2. UnitStates \subseteq [hp : Nat, x : Nat, y : Nat]
    BY UnitStatesAreTyped
  <2>3. ASSUME NEW u \in Units
        PROVE  (IF u \in S THEN change[u] ELSE bodies[u]) \in [hp : Nat, x : Nat, y : Nat]
    BY <1>2, <2>2 DEF ShownWorlds
  <2> QED BY <2>1, <2>3 DEF ShownWorlds
<1>4. Cooldown \in Nat
  BY WireBounds
<1>5. \A n \in Nat : TickedDown(n) \in Nat
  <2>1. ASSUME NEW n \in Nat PROVE TickedDown(n) \in Nat
    <3>1. n - 1 \in Int
      OBVIOUS
    <3> QED BY <3>1, NotBelowZero DEF TickedDown
  <2> QED BY <2>1
<1>6. PICK acts \in BOOLEAN, ticks \in BOOLEAN :
        /\ attackCool' =
             IF ticks
             THEN TickedDown(Swung(acts /\ doing.kind = "attack" /\ attackCool = 0))
             ELSE Swung(acts /\ doing.kind = "attack" /\ attackCool = 0)
        /\ cools' =
             [i \in DOMAIN cools |->
                IF ticks
                THEN TickedDown(
                       Used(acts /\ doing.kind = "cast" /\ IsReady(doing.skillId))[i])
                ELSE Used(acts /\ doing.kind = "cast" /\ IsReady(doing.skillId))[i]]
  BY DEF Answer
<1> DEFINE swung == Swung(acts /\ doing.kind = "attack" /\ attackCool = 0)
           spent == Used(acts /\ doing.kind = "cast" /\ IsReady(doing.skillId))
<1>7. swung \in Nat
  BY <1>2, <1>4 DEF Swung
<1>8. spent \in [DOMAIN Equipped -> Nat]
  BY <1>2, <1>4 DEF Used, CoolStates
<1> HIDE DEF swung, spent
<1>9. attackCool' \in Nat
  BY <1>5, <1>6, <1>7 DEF swung
<1>10. cools' \in CoolStates
  <2>1. DOMAIN cools = DOMAIN Equipped
    BY <1>2 DEF CoolStates
  <2>2. cools' = [i \in DOMAIN Equipped |-> IF ticks THEN TickedDown(spent[i]) ELSE spent[i]]
    BY <1>6, <2>1 DEF spent
  <2>3. ASSUME NEW i \in DOMAIN Equipped
        PROVE  (IF ticks THEN TickedDown(spent[i]) ELSE spent[i]) \in Nat
    BY <1>5, <1>8
  <2> QED BY <2>2, <2>3 DEF CoolStates
<1>11. TakeFrame
  BY DEF Answer
<1>12. FrameIsPresent' /\ obs' # <<>> /\ slots' = Others
  BY <1>1, <1>2, <1>3, <1>9, <1>10, <1>11, FramesArePresent
<1> QED BY <1>1, <1>12 DEF WireInv, RowIsSent

LEMMA WireInvKept ==
  ASSUME WireInv, [WireNext]_wireVars
  PROVE  WireInv'
<1>1. (obs = <<>> => slots = <<>>) /\ (obs # <<>> => slots = Others)
  BY DEF WireInv, FrameIsPresent
<1>2. CASE ResetCall \/ Restart
  <2>1. row = NoRow /\ row' = row /\ FreshMatch /\ TakeFrame
    BY <1>2 DEF ResetCall, Restart
  <2>2. bodies' \in ShownWorlds /\ attackCool' \in Nat /\ cools' \in CoolStates
    BY <2>1, FreshMatches
  <2>3. FrameIsPresent' /\ obs' # <<>>
    BY <1>1, <2>1, <2>2, FramesArePresent
  <2> QED BY <2>1, <2>3 DEF WireInv, RowIsSent
<1>3. CASE Send
  BY <1>3, SendKeeps
<1>4. CASE Answer
  BY <1>4, AnswerKeeps
<1>5. CASE UNCHANGED wireVars
  BY <1>5 DEF wireVars, world, WireInv, RowIsSent, FrameIsPresent
<1> QED BY <1>2, <1>3, <1>4, <1>5 DEF WireNext

LEMMA WireInvariant == WireSpec => []WireInv
<1>1. WireInit => WireInv
  BY WireStarts
<1>2. WireInv /\ [WireNext]_wireVars => WireInv'
  BY WireInvKept
<1> QED BY <1>1, <1>2, PTL DEF WireSpec

(* From whichever end, the distance is the same.                           *)
LEMMA DistanceIsSymmetric ==
  ASSUME NEW p \in [hp : Nat, x : Nat, y : Nat], NEW q \in [hp : Nat, x : Nat, y : Nat]
  PROVE  squaredGap(p, q) = squaredGap(q, p)
<1>1. \A m, n \in Int : (m - n) * (m - n) = (n - m) * (n - m)
  OBVIOUS
<1>2. p.x \in Int /\ p.y \in Int /\ q.x \in Int /\ q.y \in Int
  OBVIOUS
<1>3. /\ (p.x - q.x) * (p.x - q.x) = (q.x - p.x) * (q.x - p.x)
      /\ (p.y - q.y) * (p.y - q.y) = (q.y - p.y) * (q.y - p.y)
  BY <1>1, <1>2
<1> QED BY <1>3 DEF squaredGap

(* What the invariant says of one slot.                                    *)
LEMMA SlotShows ==
  ASSUME WireInv, obs # <<>>, NEW k \in SlotNumbers
  PROVE  /\ slots[k + 1] \in Units \ {Agent}
         /\ Team[slots[k + 1]] = Team[Agent] <=> k < NumAllies
         /\ encodeUnitBlock(bodies, slots[k + 1]) \in [1 .. 6 -> Int]
         /\ \A f \in 0 .. 5 :
              Field(obs, k, f) = encodeUnitBlock(bodies, slots[k + 1])[f + 1]
<1>1. LastUnit \in Nat /\ k \in 0 .. LastUnit - 1
  BY WireBounds, OthersListed DEF SlotNumbers
<1>2. k + 1 \in 1 .. LastUnit
  BY <1>1
<1>3. /\ bodies \in ShownWorlds /\ attackCool \in Nat /\ cools \in CoolStates
      /\ obs = encodeObservation(bodies, attackCool, cools) /\ slots = Others
  BY DEF WireInv, FrameIsPresent
<1>4. slots[k + 1] \in Units \ {Agent}
  BY <1>2, <1>3, OthersListed
<1>5. Team[slots[k + 1]] = Team[Agent] <=> k + 1 <= NumAllies
  BY <1>2, <1>3, OthersListed
<1>6. k + 1 <= NumAllies <=> k < NumAllies
  <2>1. NumAllies \in Int
    BY <1>1, OthersListed
  <2> QED BY <1>1, <2>1
<1>7. \A f \in 0 .. 5 : Field(obs, k, f) = encodeUnitBlock(bodies, slots[k + 1])[f + 1]
  BY <1>1, <1>3, ReadBack
<1> QED BY <1>3, <1>4, <1>5, <1>6, <1>7, UnitBlocks

(* Whatever happened to the units, however often the match was restarted,  *)
(* the frame shows every unit in the slot whose id the environment keeps   *)
(* for it (observation.ts, env.py).                                        *)
THEOREM FramesShowUnits ==
  WireSpec => []FrameShowsUnits
<1>1. ASSUME WireInv, obs # <<>>
      PROVE  /\ {slots[k] : k \in DOMAIN slots} = Units \ {Agent}
             /\ Len(slots) = LastUnit
  <2>1. slots = Others
    BY <1>1 DEF WireInv, FrameIsPresent
  <2>2. slots \in Seq(Units \ {Agent}) /\ Len(slots) = LastUnit
        /\ {slots[k] : k \in 1 .. LastUnit} = Units \ {Agent}
    BY <2>1, OthersListed
  <2>3. DOMAIN slots = 1 .. LastUnit
    BY <2>2
  <2> QED BY <2>2, <2>3
<1>2. ASSUME WireInv, obs # <<>>, NEW k \in SlotNumbers, NEW u, u = slots[k + 1]
      PROVE  /\ Team[u] = Team[Agent] <=> k < NumAllies
             /\ \A f \in 0 .. 5 : Field(obs, k, f) =
                  <<u, bodies[u].hp, MaxHp[u], bodies[u].x, bodies[u].y,
                    squaredGap(bodies[u], bodies[Agent])>>[f + 1]
  <2>1. /\ u \in Units /\ (Team[u] = Team[Agent] <=> k < NumAllies)
        /\ \A f \in 0 .. 5 : Field(obs, k, f) = encodeUnitBlock(bodies, u)[f + 1]
    BY <1>2, SlotShows
  <2>2. bodies \in ShownWorlds /\ Agent \in Units
    BY <1>2, WireBounds DEF WireInv, FrameIsPresent
  <2>3. squaredGap(bodies[u], bodies[Agent]) = squaredGap(bodies[Agent], bodies[u])
    BY <2>1, <2>2, DistanceIsSymmetric DEF ShownWorlds
  <2> QED BY <2>1, <2>3 DEF encodeUnitBlock
<1>3. ASSUME WireInv, obs # <<>>
      PROVE  /\ At(obs, 0) = bodies[Agent].hp /\ At(obs, 2) = bodies[Agent].x
             /\ At(obs, 3) = bodies[Agent].y /\ At(obs, 4) = attackCool
             /\ \A s \in DOMAIN Catalog :
                  At(obs, 4 + s) = -1 <=> StatesOf(Catalog[s]) = {}
  <2> DEFINE self == encodeSelfBlock(bodies, attackCool, cools)
  <2>1. /\ bodies \in ShownWorlds /\ attackCool \in Nat /\ cools \in CoolStates
        /\ obs = encodeObservation(bodies, attackCool, cools)
    BY <1>3 DEF WireInv, FrameIsPresent
  <2>2. \A i \in 0 .. 4 + Len(Catalog) : At(obs, i) = self[i + 1]
    BY <2>1, ReadBack
  <2>3. /\ self[1] = bodies[Agent].hp /\ self[3] = bodies[Agent].x
        /\ self[4] = bodies[Agent].y /\ self[5] = attackCool
        /\ \A s \in DOMAIN Catalog : self[5 + s] = -1 <=> StatesOf(Catalog[s]) = {}
    <3>1. bodies \in ShownWorlds /\ attackCool \in Nat /\ cools \in CoolStates
      BY <2>1
    <3> QED BY <3>1, SelfBlock
  <2> HIDE DEF self
  <2>4. Len(Catalog) \in Nat /\ DOMAIN Catalog = 1 .. Len(Catalog)
    BY WireBounds
  <2>5. At(obs, 0) = self[1] /\ At(obs, 2) = self[3] /\ At(obs, 3) = self[4]
        /\ At(obs, 4) = self[5]
    <3>1. 0 \in 0 .. 4 + Len(Catalog) /\ 2 \in 0 .. 4 + Len(Catalog)
          /\ 3 \in 0 .. 4 + Len(Catalog) /\ 4 \in 0 .. 4 + Len(Catalog)
      BY <2>4
    <3> QED BY <2>2, <3>1
  <2>6. ASSUME NEW s \in DOMAIN Catalog PROVE At(obs, 4 + s) = self[5 + s]
    <3>1. 4 + s \in 0 .. 4 + Len(Catalog) /\ (4 + s) + 1 = 5 + s
      BY <2>4
    <3> QED BY <2>2, <3>1
  <2> QED BY <2>3, <2>5, <2>6
<1>4. WireInv => FrameShowsUnits
  BY <1>1, <1>2, <1>3 DEF FrameShowsUnits
<1>5. WireSpec => []WireInv
  BY WireInvariant
<1> QED BY <1>4, <1>5, PTL

(* A row of the action space becomes a tuple the bridge accepts.           *)
LEMMA RowsDecode ==
  ASSUME WireInv, row # NoRow
  PROVE  /\ EncodeWireAction(row, slots) \in Tuples
         /\ Decodes(EncodeWireAction(row, slots))
         /\ doing = decide(row, obs)
         /\ row.kind \in {2, 3, 4} => doing.targetId = slots[row.slot + 1]
<1> USE DEF IDLE, MOVE, MOVE_TOWARD, ATTACK, CAST
<1> DEFINE t == EncodeWireAction(row, slots)
           target == slots[row.slot + 1]
<1>1. row \in Rows /\ obs # <<>>
      /\ doing = IF Decodes(t) THEN decodeAction(t) ELSE Undecodable
  BY DEF WireInv, RowIsSent
<1>2. /\ row.kind \in 0 .. 4 /\ row.slot \in SlotNumbers
      /\ row.skill \in 0 .. Len(Catalog) - 1 /\ row.x \in MovesX /\ row.y \in MovesY
  BY <1>1 DEF Rows
<1>3. row.x \in Int /\ row.y \in Int
  <2>1. MovesX \cup MovesY \subseteq Nat
    BY WireAssumption DEF WireAssumption
  <2> QED BY <1>2, <2>1
<1>4. target \in Int /\ targetIdForSlot(obs, row.slot) = target
  <2>1. target \in Units /\ Field(obs, row.slot, 0) = encodeUnitBlock(bodies, target)[1]
    BY <1>1, <1>2, SlotShows
  <2>2. target \in Int
    BY <2>1, WireBounds
  <2> QED BY <2>1, <2>2 DEF targetIdForSlot, encodeUnitBlock
<1>5. row.skill \in Int /\ row.skill + 1 \in DOMAIN Catalog
  <2>1. Len(Catalog) \in Nat /\ DOMAIN Catalog = 1 .. Len(Catalog)
    BY WireBounds
  <2> QED BY <1>2, <2>1
<1> HIDE DEF target
<1>6. CASE row.kind = 0
  <2>1. t = <<0, 0, 0, 0>>
    BY <1>6 DEF EncodeWireAction
  <2>2. decide(row, obs) = decodeAction(t)
    BY <1>6, <2>1 DEF decide
  <2>3. Decodes(t) /\ t \in Tuples
    BY <2>1 DEF Decodes, UnusedSlotsAreZero, UsedSlots, Tuples
  <2> QED BY <1>1, <1>6, <2>2, <2>3
<1>7. CASE row.kind = 1
  <2>1. t = <<1, row.x, row.y, 0>>
    BY <1>7 DEF EncodeWireAction
  <2>2. decide(row, obs) = decodeAction(t)
    BY <1>7, <2>1 DEF decide
  <2>3. Decodes(t) /\ t \in Tuples
    BY <1>3, <2>1 DEF Decodes, UnusedSlotsAreZero, UsedSlots, Tuples
  <2> QED BY <1>1, <1>7, <2>2, <2>3
<1>8. CASE row.kind = 2
  <2>1. t = <<2, target, 0, 0>>
    BY <1>8 DEF EncodeWireAction, target
  <2>2. decide(row, obs) = decodeAction(t)
    BY <1>4, <1>8, <2>1 DEF decide
  <2>3. Decodes(t) /\ t \in Tuples
    BY <1>4, <2>1 DEF Decodes, UnusedSlotsAreZero, UsedSlots, Tuples
  <2>4. decodeAction(t).targetId = target
    BY <2>1 DEF decodeAction, MoveToward
  <2> QED BY <1>1, <2>2, <2>3, <2>4 DEF target
<1>9. CASE row.kind = 3
  <2>1. t = <<3, target, 0, 0>>
    BY <1>9 DEF EncodeWireAction, target
  <2>2. decide(row, obs) = decodeAction(t)
    BY <1>4, <1>9, <2>1 DEF decide
  <2>3. Decodes(t) /\ t \in Tuples
    BY <1>4, <2>1 DEF Decodes, UnusedSlotsAreZero, UsedSlots, Tuples
  <2>4. decodeAction(t).targetId = target
    BY <2>1 DEF decodeAction, Attack
  <2> QED BY <1>1, <2>2, <2>3, <2>4 DEF target
<1>10. CASE row.kind = 4
  <2>1. t = <<4, target, 0, row.skill>>
    BY <1>10 DEF EncodeWireAction, target
  <2>2. decide(row, obs) = decodeAction(t)
    BY <1>4, <1>10, <2>1 DEF decide
  <2>3. Decodes(t) /\ t \in Tuples
    BY <1>4, <1>5, <2>1 DEF Decodes, UnusedSlotsAreZero, UsedSlots, Tuples
  <2>4. decodeAction(t).targetId = target
    BY <2>1 DEF decodeAction, Cast
  <2> QED BY <1>1, <2>2, <2>3, <2>4 DEF target
<1> QED BY <1>2, <1>6, <1>7, <1>8, <1>9, <1>10

(* The engine plays what the exported policy would have decided, on the    *)
(* unit that the chosen slot showed (env.py, policy-smoke-v1.ts).          *)
THEOREM PoliciesAgree ==
  WireSpec => []PolicyMeansTheSame
<1> USE DEF IDLE, MOVE, MOVE_TOWARD, ATTACK, CAST
<1>1. ASSUME WireInv, row # NoRow
      PROVE  /\ doing = decide(row, obs)
             /\ encodeAction(doing) = EncodeWireAction(row, slots)
  <2> DEFINE t == EncodeWireAction(row, slots)
  <2>1. t \in Tuples /\ Decodes(t) /\ doing = decide(row, obs)
    BY <1>1, RowsDecode
  <2>2. doing = decodeAction(t)
    BY <1>1, <2>1 DEF WireInv, RowIsSent
  <2> HIDE DEF t
  <2>4. encodeAction(decodeAction(t)) = t
    BY <2>1, EncodeUndoesDecode
  <2> QED BY <2>1, <2>2, <2>4 DEF t
<1>2. ASSUME WireInv, row # NoRow, row.kind \in {2, 3, 4}
      PROVE  /\ doing.targetId \in Units \ {Agent}
             /\ Field(obs, row.slot, 1) = bodies[doing.targetId].hp
  <2>1. row \in Rows /\ obs # <<>>
    BY <1>2 DEF WireInv, RowIsSent
  <2>2. row.slot \in SlotNumbers
    BY <2>1 DEF Rows
  <2>3. doing.targetId = slots[row.slot + 1]
    BY <1>2, RowsDecode
  <2>4. /\ slots[row.slot + 1] \in Units \ {Agent}
        /\ Field(obs, row.slot, 1) = encodeUnitBlock(bodies, slots[row.slot + 1])[1 + 1]
    BY <1>2, <2>1, <2>2, SlotShows
  <2> QED BY <2>3, <2>4 DEF encodeUnitBlock
<1>3. WireInv => PolicyMeansTheSame
  BY <1>1, <1>2 DEF PolicyMeansTheSame
<1>4. WireSpec => []WireInv
  BY WireInvariant
<1> QED BY <1>3, <1>4, PTL

-----------------------------------------------------------------------------
(* Sums, as the community modules fold them.                               *)

First(s) == CHOOSE x \in s : TRUE

(* it[R] adds up f over each subset R of S.                                *)
Sums(it, f, S) ==
  it = [s \in SUBSET S |-> IF s = {} THEN 0 ELSE f[First(s)] + it[s \ {First(s)}]]

LEMMA SubsetsShrink ==
  ASSUME NEW S, IsFiniteSet(S), NEW R \in SUBSET S
  PROVE  /\ IsFiniteSet(R) /\ Cardinality(R) \in Nat /\ Cardinality(R) <= Cardinality(S)
         /\ \A x \in R : R \ {x} \in SUBSET S /\ Cardinality(R \ {x}) = Cardinality(R) - 1
         /\ R # {} => First(R) \in R
<1>1. IsFiniteSet(R) /\ Cardinality(R) <= Cardinality(S)
  BY FS_Subset
<1>2. \A x \in R : Cardinality(R \ {x}) = Cardinality(R) - 1
  BY <1>1, FS_RemoveElement
<1>3. Cardinality(R) \in Nat
  BY <1>1, FS_CardinalityType
<1> QED BY <1>1, <1>2, <1>3 DEF First

(* What holds of a set whenever it holds of the set without any one of its *)
(* elements holds of every finite set: the smallest exception has none.    *)
LEMMA SmallestOf ==
  ASSUME NEW S, IsFiniteSet(S), NEW Odd \in SUBSET (SUBSET S), Odd # {}
  PROVE  \E R \in Odd : \A x \in R : R \ {x} \notin Odd
<1> DEFINE Sizes == {Cardinality(R) : R \in Odd}
<1>1. Sizes \in SUBSET Nat /\ Sizes # {}
  BY SubsetsShrink
<1>2. PICK m \in Sizes : \A n \in Sizes : m <= n
  BY <1>1, LeastOf
<1>3. PICK R \in Odd : m = Cardinality(R)
  BY <1>2
<1>4. ASSUME NEW x \in R, R \ {x} \in Odd PROVE FALSE
  <2>1. Cardinality(R \ {x}) \in Sizes
    BY <1>4
  <2>2. Cardinality(R) <= Cardinality(R \ {x})
    BY <1>2, <1>3, <2>1
  <2>3. Cardinality(R \ {x}) = Cardinality(R) - 1 /\ Cardinality(R) \in Nat
    BY SubsetsShrink
  <2> QED BY <2>2, <2>3
<1> QED BY <1>4

(* The fold is well defined.                                               *)
LEMMA SumsExist ==
  ASSUME NEW S, IsFiniteSet(S), NEW f
  PROVE  \E it : Sums(it, f, S)
<1> DEFINE Small(n) == {s \in SUBSET S : Cardinality(s) <= n}
           Body(it, s) == IF s = {} THEN 0 ELSE f[First(s)] + it[s \ {First(s)}]
           Upto(n) == \E it : it = [s \in Small(n) |-> Body(it, s)]
           Odd == {n \in Nat : ~Upto(n)}
<1>0. Cardinality(S) \in Nat
  BY FS_CardinalityType
<1>1. Upto(0)
  <2> DEFINE it == [s \in Small(0) |-> 0]
  <2>1. \A s \in Small(0) : s = {}
    <3> SUFFICES ASSUME NEW s \in Small(0) PROVE s = {}
      OBVIOUS
    <3>1. s \in SUBSET S /\ Cardinality(s) <= 0
      OBVIOUS
    <3>2. IsFiniteSet(s) /\ Cardinality(s) \in Nat
      BY <3>1, SubsetsShrink
    <3> QED BY <3>1, <3>2, FS_EmptySet
  <2>2. \A s \in Small(0) : Body(it, s) = 0
    BY <2>1
  <2>3. it = [s \in Small(0) |-> Body(it, s)]
    BY <2>2
  <2> QED BY <2>3
<1>2. ASSUME NEW n \in Nat, Upto(n) PROVE Upto(n + 1)
  <2>1. PICK g : g = [s \in Small(n) |-> Body(g, s)]
    BY <1>2
  <2> DEFINE h == [s \in Small(n + 1) |-> Body(g, s)]
  <2>2. ASSUME NEW s \in Small(n) PROVE s \in Small(n + 1) /\ h[s] = g[s]
    <3>1. Cardinality(s) \in Nat /\ s \in SUBSET S /\ Cardinality(s) <= n
      BY SubsetsShrink
    <3>2. s \in Small(n + 1)
      BY <3>1
    <3>3. g[s] = Body(g, s)
      BY <2>1, <2>2
    <3> QED BY <3>2, <3>3
  <2>3. ASSUME NEW s \in Small(n + 1) PROVE Body(g, s) = Body(h, s)
    <3>1. CASE s = {}
      BY <3>1
    <3>2. CASE s # {}
      <4>1. s \in SUBSET S /\ Cardinality(s) <= n + 1
        OBVIOUS
      <4>2. First(s) \in s /\ Cardinality(s) \in Nat
            /\ s \ {First(s)} \in SUBSET S /\ Cardinality(s \ {First(s)}) = Cardinality(s) - 1
        BY <3>2, <4>1, SubsetsShrink
      <4>3. s \ {First(s)} \in Small(n)
        BY <4>1, <4>2
      <4>4. h[s \ {First(s)}] = g[s \ {First(s)}]
        BY <2>2, <4>3
      <4> QED BY <3>2, <4>4
    <3> QED BY <3>1, <3>2
  <2>4. h = [s \in Small(n + 1) |-> Body(h, s)]
    BY <2>3
  <2> QED BY <2>4
<1> HIDE DEF Upto
<1>3. Odd = {}
  <2> SUFFICES ASSUME Odd # {} PROVE FALSE
    OBVIOUS
  <2>1. PICK n \in Odd : \A m \in Odd : n <= m
    <3>1. Odd \in SUBSET Nat
      OBVIOUS
    <3> HIDE DEF Odd
    <3> QED BY <3>1, LeastOf
  <2>2. n \in Nat /\ ~Upto(n)
    BY <2>1
  <2>3. n # 0 /\ n - 1 \in Nat /\ n - 1 \notin Odd
    BY <1>1, <2>1, <2>2
  <2>4. Upto((n - 1) + 1)
    BY <1>2, <2>3
  <2> QED BY <2>2, <2>4
<1>4. Upto(Cardinality(S))
  BY <1>0, <1>3
<1>5. Small(Cardinality(S)) = SUBSET S
  BY SubsetsShrink
<1> QED BY <1>4, <1>5 DEF Upto, Sums

(* The order of the summands does not matter.                              *)
LEMMA SumSplits ==
  ASSUME NEW S, IsFiniteSet(S), NEW f, \A x \in S : f[x] \in Int, NEW it, Sums(it, f, S)
  PROVE  /\ it[{}] = 0
         /\ \A R \in SUBSET S : it[R] \in Int
         /\ \A R \in SUBSET S : \A x \in R : it[R] = f[x] + it[R \ {x}]
<1>0. \A R \in SUBSET S : it[R] = IF R = {} THEN 0 ELSE f[First(R)] + it[R \ {First(R)}]
  BY DEF Sums
<1> DEFINE Wild == {R \in SUBSET S : it[R] \notin Int}
           Odd == {R \in SUBSET S : \E x \in R : it[R] # f[x] + it[R \ {x}]}
<1>1. Wild = {}
  <2> SUFFICES ASSUME Wild # {} PROVE FALSE
    OBVIOUS
  <2>1. PICK R \in Wild : \A x \in R : R \ {x} \notin Wild
    <3>1. Wild \in SUBSET (SUBSET S)
      OBVIOUS
    <3> HIDE DEF Wild
    <3> QED BY <3>1, SmallestOf
  <2>2. R \in SUBSET S /\ it[R] \notin Int
    BY <2>1
  <2> HIDE DEF Wild
  <2>0. it[R] = IF R = {} THEN 0 ELSE f[First(R)] + it[R \ {First(R)}]
    BY <1>0, <2>2
  <2>3. R # {}
    BY <2>0, <2>2
  <2>4. First(R) \in R /\ R \ {First(R)} \in SUBSET S
    BY <2>2, <2>3, SubsetsShrink
  <2>5. it[R \ {First(R)}] \in Int /\ f[First(R)] \in Int
    BY <2>1, <2>2, <2>4 DEF Wild
  <2> QED BY <2>0, <2>2, <2>3, <2>5
<1>2. Odd = {}
  <2> SUFFICES ASSUME Odd # {} PROVE FALSE
    OBVIOUS
  <2>1. PICK R \in Odd : \A x \in R : R \ {x} \notin Odd
    <3>1. Odd \in SUBSET (SUBSET S)
      OBVIOUS
    <3> HIDE DEF Odd
    <3> QED BY <3>1, SmallestOf
  <2>2. PICK x \in R : it[R] # f[x] + it[R \ {x}]
    BY <2>1
  <2> DEFINE c == First(R)
  <2>3. c \in R /\ R \in SUBSET S /\ it[R] = f[c] + it[R \ {c}]
    BY <1>0, <2>1, <2>2, SubsetsShrink
  <2> HIDE DEF c
  <2>4. x # c
    BY <2>2, <2>3
  <2>5. R \ {c} \in SUBSET S /\ R \ {x} \in SUBSET S /\ x \in R \ {c} /\ c \in R \ {x}
    BY <2>2, <2>3, <2>4
  <2>6. it[R \ {c}] = f[x] + it[(R \ {c}) \ {x}] /\ it[R \ {x}] = f[c] + it[(R \ {x}) \ {c}]
    BY <2>1, <2>2, <2>3, <2>5
  <2>7. (R \ {c}) \ {x} = (R \ {x}) \ {c} /\ (R \ {c}) \ {x} \in SUBSET S
    BY <2>3
  <2>8. f[x] \in Int /\ f[c] \in Int /\ it[(R \ {c}) \ {x}] \in Int
    BY <1>1, <2>2, <2>3, <2>7
  <2> DEFINE z == it[(R \ {c}) \ {x}]
  <2>9. it[R] = f[c] + (f[x] + z) /\ it[R \ {x}] = f[c] + z
    BY <2>3, <2>6, <2>7
  <2> HIDE DEF z
  <2>10. z \in Int /\ f[x] \in Int /\ f[c] \in Int
    BY <2>8 DEF z
  <2>11. it[R] = f[x] + it[R \ {x}]
    <3>1. \A m, n, k \in Int : m + (n + k) = n + (m + k)
      OBVIOUS
    <3>2. f[c] + (f[x] + z) = f[x] + (f[c] + z)
      BY <2>10, <3>1
    <3> QED BY <2>9, <3>2
  <2> QED BY <2>2, <2>11
<1>3. it[{}] = 0
  BY <1>0
<1> QED BY <1>1, <1>2, <1>3

(* Nor do the names of what is added up.                                   *)
LEMMA SumsAgree ==
  ASSUME NEW S, IsFiniteSet(S), NEW f, \A x \in S : f[x] \in Int, NEW it, Sums(it, f, S),
         NEW T, IsFiniteSet(T), NEW g, \A y \in T : g[y] \in Int, NEW jt, Sums(jt, g, T),
         NEW b \in [S -> T], \A x, y \in S : b[x] = b[y] => x = y,
         \A x \in S : f[x] = g[b[x]]
  PROVE  \A R \in SUBSET S : it[R] = jt[{b[x] : x \in R}]
<1> DEFINE Image(R) == {b[x] : x \in R}
           Odd == {R \in SUBSET S : it[R] # jt[Image(R)]}
<1> SUFFICES ASSUME Odd # {} PROVE FALSE
  OBVIOUS
<1>1. PICK R \in Odd : \A x \in R : R \ {x} \notin Odd
  <2>1. Odd \in SUBSET (SUBSET S)
    OBVIOUS
  <2> HIDE DEF Odd
  <2> QED BY <2>1, SmallestOf
<1>2. R \in SUBSET S /\ it[R] # jt[Image(R)]
  BY <1>1
<1>3. it[{}] = 0 /\ \A Q \in SUBSET S : \A x \in Q : it[Q] = f[x] + it[Q \ {x}]
  BY SumSplits
<1>4. jt[{}] = 0 /\ \A Q \in SUBSET T : \A y \in Q : jt[Q] = g[y] + jt[Q \ {y}]
  BY SumSplits
<1>5. R # {}
  BY <1>2, <1>3, <1>4
<1>6. PICK x \in R : TRUE
  BY <1>5
<1>7. Image(R \ {x}) = Image(R) \ {b[x]} /\ b[x] \in Image(R) /\ Image(R) \in SUBSET T
  BY <1>2, <1>6
<1>8. it[R \ {x}] = jt[Image(R \ {x})]
  BY <1>1, <1>2, <1>6
<1>9. it[R] = f[x] + it[R \ {x}] /\ jt[Image(R)] = g[b[x]] + jt[Image(R) \ {b[x]}]
  BY <1>2, <1>3, <1>4, <1>6, <1>7
<1>10. f[x] = g[b[x]]
  BY <1>2, <1>6
<1> QED BY <1>2, <1>7, <1>8, <1>9, <1>10

(* n is the sum of f over S.                                               *)
SumOf(n, f, S) == \E it : Sums(it, f, S) /\ n = it[S]


LEMMA SumsEqual ==
  ASSUME NEW S, IsFiniteSet(S), NEW f, \A x \in S : f[x] \in Int, NEW m, SumOf(m, f, S),
         NEW T, IsFiniteSet(T), NEW g, \A y \in T : g[y] \in Int, NEW n, SumOf(n, g, T),
         NEW b \in [S -> T], \A x, y \in S : b[x] = b[y] => x = y, T = {b[x] : x \in S},
         \A x \in S : f[x] = g[b[x]]
  PROVE  m = n
<1>1. PICK it : Sums(it, f, S) /\ m = it[S]
  BY DEF SumOf
<1>2. PICK jt : Sums(jt, g, T) /\ n = jt[T]
  BY DEF SumOf
<1>3. \A R \in SUBSET S : it[R] = jt[{b[x] : x \in R}]
  BY <1>1, <1>2, SumsAgree
<1> QED BY <1>1, <1>2, <1>3

(* One summand and the others.                                             *)
LEMMA SumWith ==
  ASSUME NEW T, IsFiniteSet(T), NEW x \in T, NEW S, S = T \ {x},
         NEW f, \A y \in T : f[y] \in Int, NEW m, SumOf(m, f, T),
         NEW g, \A y \in S : g[y] = f[y], NEW n, SumOf(n, g, S)
  PROVE  m \in Int /\ n \in Int /\ m = f[x] + n
<1> DEFINE b == [y \in S |-> y]
<1>1. IsFiniteSet(S)
  BY FS_RemoveElement
<1>2. PICK it : Sums(it, f, T) /\ m = it[T]
  BY DEF SumOf
<1>3. PICK jt : Sums(jt, g, S) /\ n = jt[S]
  BY DEF SumOf
<1>4. /\ \A R \in SUBSET T : it[R] \in Int
      /\ \A R \in SUBSET T : \A y \in R : it[R] = f[y] + it[R \ {y}]
  BY <1>2, SumSplits
<1>5. T \in SUBSET T /\ S \in SUBSET T
  OBVIOUS
<1>6. m = f[x] + it[S] /\ m \in Int
  BY <1>2, <1>4, <1>5
<1>7. jt[S] = it[S]
  <2>1. b \in [S -> T] /\ (\A y, z \in S : b[y] = b[z] => y = z) /\ (\A y \in S : g[y] = f[b[y]])
    OBVIOUS
  <2>2. \A y \in S : g[y] \in Int
    OBVIOUS
  <2>3. {b[y] : y \in S} = S /\ S \in SUBSET S
    OBVIOUS
  <2> HIDE DEF b
  <2>4. \A R \in SUBSET S : jt[R] = it[{b[y] : y \in R}]
    BY <1>1, <1>2, <1>3, <2>1, <2>2, SumsAgree
  <2> QED BY <2>3, <2>4
<1> QED BY <1>3, <1>4, <1>5, <1>6, <1>7

(* What the model adds up: hit points, full hit points, and fields of the  *)
(* blocks of a vector.                                                     *)
HpOf(w, S) == MapThenSumSet(LAMBDA u : w[u].hp, S)
FullOf(S) == MapThenSumSet(LAMBDA u : MaxHp[u], S)
ShownHp(v, K) == MapThenSumSet(LAMBDA k : Max({Field(v, k, 1), 0}), K)
ShownFull(v, K) == MapThenSumSet(LAMBDA k : Field(v, k, 2), K)

LEMMA SumOfHp ==
  ASSUME NEW S, IsFiniteSet(S), NEW w
  PROVE  SumOf(HpOf(w, S), [u \in S |-> w[u].hp], S)
<1> DEFINE f == [u \in S |-> w[u].hp]
           Folds(it) == it = [s \in SUBSET S |->
                          IF s = {} THEN 0 ELSE w[First(s)].hp + it[s \ {First(s)}]]
           G == CHOOSE it : Folds(it)
<1>1. HpOf(w, S) = G[S]
  BY DEF HpOf, MapThenSumSet, MapThenFoldSet, First
<1>2. ASSUME NEW it PROVE Folds(it) <=> Sums(it, f, S)
  <2>1. \A s \in SUBSET S : s # {} => f[First(s)] = w[First(s)].hp
    BY DEF First
  <2> HIDE DEF f
  <2> QED BY <2>1 DEF Sums
<1>3. \E it : Folds(it)
  BY <1>2, SumsExist
<1>4. Folds(G)
  BY <1>3
<1>5. Sums(G, f, S)
  BY <1>2, <1>4
<1> QED BY <1>1, <1>5 DEF SumOf

LEMMA SumOfFull ==
  ASSUME NEW S, IsFiniteSet(S)
  PROVE  SumOf(FullOf(S), [u \in S |-> MaxHp[u]], S)
<1> DEFINE f == [u \in S |-> MaxHp[u]]
           Folds(it) == it = [s \in SUBSET S |->
                          IF s = {} THEN 0 ELSE MaxHp[First(s)] + it[s \ {First(s)}]]
           G == CHOOSE it : Folds(it)
<1>1. FullOf(S) = G[S]
  BY DEF FullOf, MapThenSumSet, MapThenFoldSet, First
<1>2. ASSUME NEW it PROVE Folds(it) <=> Sums(it, f, S)
  <2>1. \A s \in SUBSET S : s # {} => f[First(s)] = MaxHp[First(s)]
    BY DEF First
  <2> HIDE DEF f
  <2> QED BY <2>1 DEF Sums
<1>3. \E it : Folds(it)
  BY <1>2, SumsExist
<1>4. Folds(G)
  BY <1>3
<1>5. Sums(G, f, S)
  BY <1>2, <1>4
<1> QED BY <1>1, <1>5 DEF SumOf

LEMMA SumOfShownHp ==
  ASSUME NEW S, IsFiniteSet(S), NEW v
  PROVE  SumOf(ShownHp(v, S), [k \in S |-> Max({Field(v, k, 1), 0})], S)
<1> DEFINE f == [k \in S |-> Max({Field(v, k, 1), 0})]
           Folds(it) == it = [s \in SUBSET S |->
                          IF s = {} THEN 0 ELSE Max({Field(v, First(s), 1), 0}) + it[s \ {First(s)}]]
           G == CHOOSE it : Folds(it)
<1>1. ShownHp(v, S) = G[S]
  BY DEF ShownHp, MapThenSumSet, MapThenFoldSet, First
<1>2. ASSUME NEW it PROVE Folds(it) <=> Sums(it, f, S)
  <2>1. \A s \in SUBSET S : s # {} => f[First(s)] = Max({Field(v, First(s), 1), 0})
    BY DEF First
  <2> HIDE DEF f
  <2> QED BY <2>1 DEF Sums
<1>3. \E it : Folds(it)
  BY <1>2, SumsExist
<1>4. Folds(G)
  BY <1>3
<1>5. Sums(G, f, S)
  BY <1>2, <1>4
<1> QED BY <1>1, <1>5 DEF SumOf

LEMMA SumOfShownFull ==
  ASSUME NEW S, IsFiniteSet(S), NEW v
  PROVE  SumOf(ShownFull(v, S), [k \in S |-> Field(v, k, 2)], S)
<1> DEFINE f == [k \in S |-> Field(v, k, 2)]
           Folds(it) == it = [s \in SUBSET S |->
                          IF s = {} THEN 0 ELSE Field(v, First(s), 2) + it[s \ {First(s)}]]
           G == CHOOSE it : Folds(it)
<1>1. ShownFull(v, S) = G[S]
  BY DEF ShownFull, MapThenSumSet, MapThenFoldSet, First
<1>2. ASSUME NEW it PROVE Folds(it) <=> Sums(it, f, S)
  <2>1. \A s \in SUBSET S : s # {} => f[First(s)] = Field(v, First(s), 2)
    BY DEF First
  <2> HIDE DEF f
  <2> QED BY <2>1 DEF Sums
<1>3. \E it : Folds(it)
  BY <1>2, SumsExist
<1>4. Folds(G)
  BY <1>3
<1>5. Sums(G, f, S)
  BY <1>2, <1>4
<1> QED BY <1>1, <1>5 DEF SumOf

-----------------------------------------------------------------------------
(* The vector's sums are the world's.                                      *)

(* The slots K are those of the units S, one each.                         *)
SlotsOf(K, S) ==
  /\ K \in SUBSET (0 .. LastUnit - 1) /\ S \in SUBSET Units
  /\ IsFiniteSet(K) /\ IsFiniteSet(S)
  /\ \A k \in K : Others[k + 1] \in S
  /\ \A j, k \in K : Others[j + 1] = Others[k + 1] => j = k
  /\ \A u \in S : \E k \in K : Others[k + 1] = u

LEMMA SlotsAreShared ==
  /\ SlotsOf(0 .. NumAllies - 1, Allies)
  /\ SlotsOf(NumAllies .. LastUnit - 1, Enemies)
<1> DEFINE n == NumAllies
           o == Others
           U == Units \ {Agent}
<1>1. Units = 0 .. LastUnit /\ Agent \in Units /\ LastUnit \in Nat /\ n \in 0 .. LastUnit
  BY WireBounds, OthersListed
<1>2. o \in [1 .. LastUnit -> U] /\ {o[k] : k \in 1 .. LastUnit} = U
  <2>1. o \in Seq(U) /\ Len(o) = LastUnit /\ {o[k] : k \in 1 .. LastUnit} = U
    BY OthersListed
  <2> HIDE DEF o, U
  <2> QED BY <2>1
<1>3. Cardinality(U) = LastUnit /\ IsFiniteSet(U)
  <2>1. IsFiniteSet(Units) /\ Cardinality(Units) = LastUnit + 1
    BY <1>1, FS_Interval
  <2>2. Cardinality(U) = Cardinality(Units) - 1 /\ IsFiniteSet(U)
    BY <1>1, <2>1, FS_RemoveElement
  <2> QED BY <1>1, <2>1, <2>2
<1>4. \A k \in 1 .. LastUnit : (o[k] \in Allies <=> k <= n) /\ (o[k] \in Enemies <=> n < k)
  <2>1. \A k \in 1 .. LastUnit : Team[o[k]] = Team[Agent] <=> k <= n
    BY OthersListed
  <2>2. \A k \in 1 .. LastUnit : o[k] \in Units /\ o[k] # Agent
    BY <1>2
  <2> HIDE DEF o, n
  <2>3. \A k \in 1 .. LastUnit : ~ (k <= n) <=> n < k
    BY <1>1
  <2> QED BY <2>1, <2>2, <2>3 DEF Allies, Enemies
<1>5. Allies \in SUBSET U /\ Enemies \in SUBSET U
  BY DEF Allies, Enemies
<1>6. \A j, k \in 1 .. LastUnit : o[j] = o[k] => j = k
  <2>1. IsFiniteSet(1 .. LastUnit) /\ Cardinality(1 .. LastUnit) = LastUnit
    BY <1>1, FS_Interval
  <2> HIDE DEF o, U
  <2>2. o \in Surjection(1 .. LastUnit, U)
    BY <1>2 DEF Surjection
  <2>3. o \in Injection(1 .. LastUnit, U)
    BY <1>3, <2>1, <2>2, FS_Surjection
  <2> QED BY <1>2, <2>3 DEF Injection, IsInjective
<1>7. IsFiniteSet(Allies) /\ IsFiniteSet(Enemies)
  BY <1>3, <1>5, FS_Subset
<1>8. IsFiniteSet(0 .. n - 1) /\ IsFiniteSet(n .. LastUnit - 1)
  <2>1. 0 \in Int /\ n \in Int /\ n - 1 \in Int /\ LastUnit - 1 \in Int
    BY <1>1
  <2> QED BY <2>1, FS_Interval
<1> HIDE DEF n, o
<1>9. \A j, k \in 0 .. LastUnit - 1 : o[j + 1] = o[k + 1] => j = k
  <2>1. ASSUME NEW j \in 0 .. LastUnit - 1, NEW k \in 0 .. LastUnit - 1, o[j + 1] = o[k + 1]
        PROVE  j = k
    <3>1. j + 1 \in 1 .. LastUnit /\ k + 1 \in 1 .. LastUnit
      BY <1>1
    <3>2. j + 1 = k + 1
      BY <1>6, <2>1, <3>1
    <3> QED BY <3>2
  <2> QED BY <2>1
<1>10. \A u \in U : \E k \in 0 .. LastUnit - 1 : o[k + 1] = u
  <2>1. ASSUME NEW u \in U PROVE \E k \in 0 .. LastUnit - 1 : o[k + 1] = u
    <3>1. PICK i \in 1 .. LastUnit : o[i] = u
      BY <1>2
    <3>2. i - 1 \in 0 .. LastUnit - 1 /\ (i - 1) + 1 = i
      BY <1>1
    <3> QED BY <3>1, <3>2
  <2> QED BY <2>1
<1>11. \A k \in 0 .. LastUnit - 1 :
         (o[k + 1] \in Allies <=> k < n) /\ (o[k + 1] \in Enemies <=> n <= k)
  <2>1. ASSUME NEW k \in 0 .. LastUnit - 1
        PROVE  (o[k + 1] \in Allies <=> k < n) /\ (o[k + 1] \in Enemies <=> n <= k)
    <3>1. k + 1 \in 1 .. LastUnit /\ (k + 1 <= n <=> k < n) /\ (n < k + 1 <=> n <= k)
      BY <1>1
    <3> QED BY <1>4, <3>1
  <2> QED BY <2>1
<1>12. \A k \in 0 .. n - 1 : k \in 0 .. LastUnit - 1 /\ k < n
  BY <1>1
<1>13. \A k \in n .. LastUnit - 1 : k \in 0 .. LastUnit - 1 /\ n <= k
  BY <1>1
<1>14. \A k \in 0 .. LastUnit - 1 : (k < n => k \in 0 .. n - 1) /\ (n <= k => k \in n .. LastUnit - 1)
  BY <1>1
<1>15. \A u \in Allies : \E k \in 0 .. n - 1 : o[k + 1] = u
  BY <1>5, <1>10, <1>11, <1>14
<1>16. \A u \in Enemies : \E k \in n .. LastUnit - 1 : o[k + 1] = u
  BY <1>5, <1>10, <1>11, <1>14
<1>17. Allies \in SUBSET Units /\ Enemies \in SUBSET Units
  BY <1>5
<1>18. SlotsOf(0 .. n - 1, Allies)
  <2>1. 0 .. n - 1 \in SUBSET (0 .. LastUnit - 1)
    BY <1>12
  <2> QED BY <1>7, <1>8, <1>9, <1>11, <1>12, <1>15, <1>17, <2>1 DEF SlotsOf, o
<1>19. SlotsOf(n .. LastUnit - 1, Enemies)
  <2>1. n .. LastUnit - 1 \in SUBSET (0 .. LastUnit - 1)
    BY <1>13
  <2> QED BY <1>7, <1>8, <1>9, <1>11, <1>13, <1>16, <1>17, <2>1 DEF SlotsOf, o
<1> QED BY <1>18, <1>19 DEF n

LEMMA NatIsItsMax ==
  ASSUME NEW n \in Nat
  PROVE  Max({n, 0}) = n
<1>1. \A y \in {n, 0} : n >= y
  OBVIOUS
<1>2. \A m \in {n, 0} : (\A y \in {n, 0} : m >= y) => m = n
  OBVIOUS
<1> QED BY <1>1, <1>2 DEF Max

(* v shows the hit points of the world w, the agent's own first.           *)
ShowsHp(v, w) ==
  /\ At(v, 0) = w[Agent].hp /\ At(v, 1) = MaxHp[Agent]
  /\ \A k \in 0 .. LastUnit - 1 :
       /\ Field(v, k, 1) = w[Others[k + 1]].hp
       /\ Field(v, k, 2) = MaxHp[Others[k + 1]]

(* Over slots that are a side's, the fields add up to the side's sums.     *)
LEMMA BlocksAddUp ==
  ASSUME NEW w \in ShownWorlds, NEW v, ShowsHp(v, w),
         NEW K, NEW S, SlotsOf(K, S)
  PROVE  /\ ShownHp(v, K) = HpOf(w, S)
         /\ ShownFull(v, K) = FullOf(S)
<1> DEFINE b == [k \in K |-> Others[k + 1]]
<1>1. K \in SUBSET (0 .. LastUnit - 1) /\ S \in SUBSET Units
      /\ IsFiniteSet(K) /\ IsFiniteSet(S)
  BY DEF SlotsOf
<1>2. b \in [K -> S] /\ (\A j, k \in K : b[j] = b[k] => j = k) /\ S = {b[k] : k \in K}
  BY DEF SlotsOf
<1>3. \A u \in S : w[u].hp \in Nat /\ MaxHp[u] \in Nat
  BY <1>1, WireBounds DEF ShownWorlds
<1>4. ASSUME NEW k \in K
      PROVE  Field(v, k, 1) = w[b[k]].hp /\ Field(v, k, 2) = MaxHp[b[k]]
  BY <1>1 DEF ShowsHp
<1> HIDE DEF b
<1>5. ASSUME NEW k \in K PROVE Max({Field(v, k, 1), 0}) = w[b[k]].hp
  <2>1. w[b[k]].hp \in Nat
    BY <1>2, <1>3
  <2> QED BY <1>4, <2>1, NatIsItsMax
<1> DEFINE f == [k \in K |-> Max({Field(v, k, 1), 0})]
           g == [u \in S |-> w[u].hp]
           p == [k \in K |-> Field(v, k, 2)]
           q == [u \in S |-> MaxHp[u]]
<1>6. /\ SumOf(ShownHp(v, K), f, K) /\ SumOf(HpOf(w, S), g, S)
      /\ SumOf(ShownFull(v, K), p, K) /\ SumOf(FullOf(S), q, S)
  <2>1. SumOf(ShownHp(v, K), f, K)
    BY <1>1, SumOfShownHp
  <2>2. SumOf(HpOf(w, S), g, S)
    BY <1>1, SumOfHp
  <2>3. SumOf(ShownFull(v, K), p, K)
    BY <1>1, SumOfShownFull
  <2>4. SumOf(FullOf(S), q, S)
    BY <1>1, SumOfFull
  <2> QED BY <2>1, <2>2, <2>3, <2>4
<1>7. \A u \in S : g[u] \in Int /\ q[u] \in Int
  BY <1>3
<1>8. \A k \in K : f[k] = g[b[k]] /\ p[k] = q[b[k]]
  BY <1>2, <1>4, <1>5
<1> HIDE DEF f, g, p, q
<1>9. \A k \in K : f[k] \in Int /\ p[k] \in Int
  BY <1>2, <1>7, <1>8
<1>10. ShownHp(v, K) = HpOf(w, S)
  BY <1>1, <1>2, <1>6, <1>7, <1>8, <1>9, SumsEqual
<1>11. ShownFull(v, K) = FullOf(S)
  BY <1>1, <1>2, <1>6, <1>7, <1>8, <1>9, SumsEqual
<1> QED BY <1>10, <1>11

LEMMA FramesShowHp ==
  ASSUME NEW w \in ShownWorlds, NEW a \in Nat, NEW c \in CoolStates,
         NEW v, v = encodeObservation(w, a, c)
  PROVE  ShowsHp(v, w)
<1> DEFINE self == encodeSelfBlock(w, a, c)
<1>1. /\ \A i \in 0 .. 4 + Len(Catalog) : At(v, i) = self[i + 1]
      /\ \A k \in 0 .. LastUnit - 1, f \in 0 .. 5 :
           Field(v, k, f) = encodeUnitBlock(w, Others[k + 1])[f + 1]
  BY ReadBack
<1>2. self[1] = w[Agent].hp /\ self[2] = MaxHp[Agent]
  BY SelfShown DEF ShowsSelf
<1> HIDE DEF self
<1>3. 0 \in 0 .. 4 + Len(Catalog) /\ 1 \in 0 .. 4 + Len(Catalog)
  BY WireBounds
<1>4. At(v, 0) = w[Agent].hp /\ At(v, 1) = MaxHp[Agent]
  <2>1. At(v, 0) = self[0 + 1] /\ At(v, 1) = self[1 + 1]
    BY <1>1, <1>3
  <2> QED BY <1>2, <2>1
<1>5. ASSUME NEW k \in 0 .. LastUnit - 1
      PROVE  Field(v, k, 1) = w[Others[k + 1]].hp
             /\ Field(v, k, 2) = MaxHp[Others[k + 1]]
  <2>1. /\ Field(v, k, 1) = encodeUnitBlock(w, Others[k + 1])[1 + 1]
        /\ Field(v, k, 2) = encodeUnitBlock(w, Others[k + 1])[2 + 1]
    <3>1. 1 \in 0 .. 5 /\ 2 \in 0 .. 5
      OBVIOUS
    <3> QED BY <1>1, <3>1
  <2> QED BY <2>1 DEF encodeUnitBlock
<1> QED BY <1>4, <1>5 DEF ShowsHp

OurSide == Units \ Enemies

LEMMA Sides ==
  /\ OurSide = Allies \cup {Agent} /\ Agent \notin Allies
  /\ IsFiniteSet(Allies) /\ IsFiniteSet(OurSide) /\ IsFiniteSet(Enemies)
  /\ OurSide \in SUBSET Units /\ Enemies \in SUBSET Units
<1>1. Agent \in Units /\ IsFiniteSet(Units)
  <2>1. Units = 0 .. LastUnit /\ Agent \in Units /\ LastUnit \in Nat
    BY WireBounds
  <2> QED BY <2>1, FS_Interval
<1>2. OurSide \in SUBSET Units /\ Enemies \in SUBSET Units
      /\ Allies \in SUBSET Units
  BY DEF OurSide, Enemies, Allies
<1>3. IsFiniteSet(Allies) /\ IsFiniteSet(OurSide) /\ IsFiniteSet(Enemies)
  BY <1>1, <1>2, FS_Subset
<1> QED BY <1>1, <1>2, <1>3 DEF OurSide, Enemies, Allies

(* Sums of hit points and of full hit points, and one unit more.           *)
LEMMA HpAddsUp ==
  ASSUME NEW w \in ShownWorlds, NEW S \in SUBSET Units, IsFiniteSet(S)
  PROVE  /\ HpOf(w, S) \in Int /\ FullOf(S) \in Int
         /\ \A x \in S : /\ HpOf(w, S) = w[x].hp + HpOf(w, S \ {x})
                         /\ FullOf(S) = MaxHp[x] + FullOf(S \ {x})
<1> DEFINE f == [u \in S |-> w[u].hp]
           g == [u \in S |-> MaxHp[u]]
<1>1. \A u \in Units : w[u].hp \in Int /\ MaxHp[u] \in Int
  BY WireBounds DEF ShownWorlds
<1>2. SumOf(HpOf(w, S), f, S) /\ SumOf(FullOf(S), g, S)
  BY SumOfHp, SumOfFull
<1>3. HpOf(w, S) \in Int /\ FullOf(S) \in Int
  <2>1. \A u \in S : f[u] \in Int /\ g[u] \in Int
    BY <1>1
  <2> HIDE DEF f, g
  <2>3. PICK it : Sums(it, f, S) /\ HpOf(w, S) = it[S]
    BY <1>2 DEF SumOf
  <2>4. PICK jt : Sums(jt, g, S) /\ FullOf(S) = jt[S]
    BY <1>2 DEF SumOf
  <2>5. it[S] \in Int
    BY <2>1, <2>3, SumSplits
  <2>6. jt[S] \in Int
    BY <2>1, <2>4, SumSplits
  <2> QED BY <2>3, <2>4, <2>5, <2>6
<1>4. ASSUME NEW x \in S
      PROVE  /\ HpOf(w, S) = w[x].hp + HpOf(w, S \ {x})
             /\ FullOf(S) = MaxHp[x] + FullOf(S \ {x})
  <2> DEFINE T == S \ {x}
             ft == [u \in T |-> w[u].hp]
             gt == [u \in T |-> MaxHp[u]]
  <2>1. IsFiniteSet(T)
    BY FS_RemoveElement
  <2>2. SumOf(HpOf(w, T), ft, T) /\ SumOf(FullOf(T), gt, T)
    BY <2>1, SumOfHp, SumOfFull
  <2>3. \A u \in S : f[u] \in Int /\ g[u] \in Int
    BY <1>1
  <2>4. (\A u \in T : ft[u] = f[u]) /\ (\A u \in T : gt[u] = g[u])
    OBVIOUS
  <2>5. T = S \ {x}
    OBVIOUS
  <2>6. f[x] = w[x].hp /\ g[x] = MaxHp[x]
    OBVIOUS
  <2> HIDE DEF f, g, ft, gt, T
  <2>7. HpOf(w, S) = f[x] + HpOf(w, T)
    BY <1>2, <2>2, <2>3, <2>4, <2>5, SumWith
  <2>8. FullOf(S) = g[x] + FullOf(T)
    BY <1>2, <2>2, <2>3, <2>4, <2>5, SumWith
  <2> QED BY <2>5, <2>6, <2>7, <2>8
<1> QED BY <1>3, <1>4

(* A side nobody of which is hurt has its full hit points.                 *)
LEMMA UnhurtIsFull ==
  ASSUME NEW w \in ShownWorlds, NEW S \in SUBSET Units, IsFiniteSet(S),
         \A u \in S : w[u].hp = MaxHp[u]
  PROVE  HpOf(w, S) = FullOf(S)
<1> DEFINE f == [u \in S |-> w[u].hp]
           g == [u \in S |-> MaxHp[u]]
           b == [u \in S |-> u]
<1>1. \A u \in S : f[u] \in Int /\ g[u] \in Int
  BY WireBounds DEF ShownWorlds
<1>2. SumOf(HpOf(w, S), f, S) /\ SumOf(FullOf(S), g, S)
  BY SumOfHp, SumOfFull
<1>3. b \in [S -> S] /\ (\A x, y \in S : b[x] = b[y] => x = y) /\ S = {b[x] : x \in S}
      /\ (\A x \in S : f[x] = g[b[x]])
  OBVIOUS
<1> HIDE DEF f, g, b
<1> QED BY <1>1, <1>2, <1>3, SumsEqual

(* What the reward wrapper reads out of a vector is what it is for.        *)
LEMMA WrapperReads ==
  ASSUME NEW w \in ShownWorlds, NEW v, ShowsHp(v, w)
  PROVE  /\ EnemyHpSum(v) = HpOf(w, Enemies)
         /\ TeamHpSum(v) = HpOf(w, OurSide)
         /\ MaxHpSums(v) = [team |-> FullOf(OurSide), enemy |-> FullOf(Enemies)]
<1>1. /\ SlotsOf(0 .. NumAllies - 1, Allies)
      /\ SlotsOf(NumAllies .. NumTargetSlots - 1, Enemies)
  BY SlotsAreShared, OthersListed
<1> DEFINE K == 0 .. NumAllies - 1
           E == NumAllies .. NumTargetSlots - 1
<1>2. /\ ShownHp(v, K) = HpOf(w, Allies)
      /\ ShownFull(v, K) = FullOf(Allies)
  BY <1>1, BlocksAddUp
<1>3. /\ ShownHp(v, E) = HpOf(w, Enemies)
      /\ ShownFull(v, E) = FullOf(Enemies)
  BY <1>1, BlocksAddUp
<1>4. /\ HpOf(w, OurSide) = w[Agent].hp + HpOf(w, Allies)
      /\ FullOf(OurSide) = MaxHp[Agent] + FullOf(Allies)
  <2>1. Agent \in OurSide /\ OurSide \ {Agent} = Allies
    BY Sides
  <2> QED BY <2>1, Sides, HpAddsUp
<1>5. Max({At(v, 0), 0}) = w[Agent].hp /\ At(v, 1) = MaxHp[Agent]
  <2>1. w[Agent].hp \in Nat
    BY WireBounds DEF ShownWorlds
  <2> QED BY <2>1, NatIsItsMax DEF ShowsHp
<1>6. EnemyHpSum(v) = HpOf(w, Enemies)
  BY <1>3 DEF EnemyHpSum, ShownHp
<1>7. TeamHpSum(v) = HpOf(w, OurSide)
  BY <1>2, <1>4, <1>5 DEF TeamHpSum, ShownHp
<1>8. MaxHpSums(v) = [team |-> FullOf(OurSide), enemy |-> FullOf(Enemies)]
  BY <1>2, <1>3, <1>4, <1>5 DEF MaxHpSums, ShownFull
<1> QED BY <1>6, <1>7, <1>8

-----------------------------------------------------------------------------
(* The inductive invariant of the shaping terms: the wrapper's previous    *)
(* vector is the present one, its maxima are the builds', and its sums are *)
(* what the world has lost; nothing is over before the first frame.        *)
TermsAddUp ==
  obs # <<>> =>
    /\ maxima = [team |-> FullOf(OurSide), enemy |-> FullOf(Enemies)]
    /\ gained.damage = FullOf(Enemies) - HpOf(bodies, Enemies)
    /\ gained.ally = HpOf(bodies, OurSide) - FullOf(OurSide)

SumInv ==
  /\ WireInv /\ TermsAddUp /\ prev = obs
  /\ ended => obs # <<>>
  /\ gained \in [damage : Int, ally : Int]

(* The sums of the vector at hand, and that they are numbers.              *)
LEMMA SumsAtHand ==
  ASSUME WireInv, obs # <<>>
  PROVE  /\ EnemyHpSum(obs) = HpOf(bodies, Enemies)
         /\ TeamHpSum(obs) = HpOf(bodies, OurSide)
         /\ MaxHpSums(obs) = [team |-> FullOf(OurSide), enemy |-> FullOf(Enemies)]
         /\ HpOf(bodies, Enemies) \in Int /\ HpOf(bodies, OurSide) \in Int
         /\ FullOf(Enemies) \in Int /\ FullOf(OurSide) \in Int
<1>1. /\ bodies \in ShownWorlds /\ attackCool \in Nat /\ cools \in CoolStates
      /\ obs = encodeObservation(bodies, attackCool, cools)
  BY DEF WireInv, FrameIsPresent
<1>2. ShowsHp(obs, bodies)
  BY <1>1, FramesShowHp
<1>3. bodies \in ShownWorlds
  BY <1>1
<1>4. /\ HpOf(bodies, Enemies) \in Int /\ HpOf(bodies, OurSide) \in Int
      /\ FullOf(Enemies) \in Int /\ FullOf(OurSide) \in Int
  BY <1>3, Sides, HpAddsUp
<1> QED BY <1>2, <1>3, <1>4, WrapperReads

(* The same of the next vector.                                            *)
LEMMA NextSumsAtHand ==
  ASSUME WireInv', obs' # <<>>
  PROVE  /\ EnemyHpSum(obs') = HpOf(bodies', Enemies)
         /\ TeamHpSum(obs') = HpOf(bodies', OurSide)
         /\ MaxHpSums(obs') = [team |-> FullOf(OurSide), enemy |-> FullOf(Enemies)]
         /\ HpOf(bodies', Enemies) \in Int /\ HpOf(bodies', OurSide) \in Int
         /\ FullOf(Enemies) \in Int /\ FullOf(OurSide) \in Int
<1>1. /\ bodies' \in ShownWorlds /\ attackCool' \in Nat /\ cools' \in CoolStates
      /\ obs' = encodeObservation(bodies', attackCool', cools')
  BY DEF WireInv, FrameIsPresent
<1>2. ShowsHp(obs', bodies')
  BY <1>1, FramesShowHp
<1>3. bodies' \in ShownWorlds
  BY <1>1
<1>4. /\ HpOf(bodies', Enemies) \in Int /\ HpOf(bodies', OurSide) \in Int
      /\ FullOf(Enemies) \in Int /\ FullOf(OurSide) \in Int
  BY <1>3, Sides, HpAddsUp
<1> QED BY <1>2, <1>3, <1>4, WrapperReads

(* A fresh match hurts nobody.                                             *)
LEMMA FreshIsFull ==
  ASSUME FreshMatch
  PROVE  /\ HpOf(bodies', Enemies) = FullOf(Enemies)
         /\ HpOf(bodies', OurSide) = FullOf(OurSide)
<1>1. bodies' \in ShownWorlds
  BY FreshMatches
<1>2. PICK place \in [Units -> Spots] :
        bodies' = [u \in Units |-> [hp |-> MaxHp[u], x |-> place[u].x, y |-> place[u].y]]
  BY DEF FreshMatch
<1>3. \A u \in Units : bodies'[u].hp = MaxHp[u]
  BY <1>2
<1>4. /\ IsFiniteSet(Enemies) /\ Enemies \in SUBSET Units
      /\ IsFiniteSet(OurSide) /\ OurSide \in SUBSET Units
  BY Sides
<1>5. (\A u \in Enemies : bodies'[u].hp = MaxHp[u])
      /\ (\A u \in OurSide : bodies'[u].hp = MaxHp[u])
  BY <1>3, <1>4
<1> QED BY <1>1, <1>4, <1>5, UnhurtIsFull

(* Both ways to a fresh match: the caller's reset and the restart.         *)
LEMMA FreshTermsAddUp ==
  ASSUME SumInv, WireInv', ResetCall \/ Restart
  PROVE  SumInv'
<1>1. FreshMatch /\ TakeFrame /\ ended' = FALSE /\ prev' = obs'
      /\ gained' = [damage |-> 0, ally |-> 0]
  BY DEF ResetCall, Restart
<1>2. obs' # <<>>
  <2>1. bodies' \in ShownWorlds /\ attackCool' \in Nat /\ cools' \in CoolStates
    BY <1>1, FreshMatches
  <2>2. (obs = <<>> => slots = <<>>) /\ (obs # <<>> => slots = Others)
    BY DEF SumInv, WireInv, FrameIsPresent
  <2> QED BY <1>1, <2>1, <2>2, FramesArePresent
<1>3. /\ MaxHpSums(obs') = [team |-> FullOf(OurSide), enemy |-> FullOf(Enemies)]
      /\ FullOf(Enemies) \in Int /\ FullOf(OurSide) \in Int
  BY <1>2, NextSumsAtHand
<1>4. maxima' = [team |-> FullOf(OurSide), enemy |-> FullOf(Enemies)]
  <2>1. CASE ResetCall
    <3>1. maxima' = IF prev = <<>> THEN MaxHpSums(obs') ELSE maxima
      BY <2>1 DEF ResetCall
    <3>2. prev # <<>> => maxima = [team |-> FullOf(OurSide), enemy |-> FullOf(Enemies)]
      BY DEF SumInv, TermsAddUp
    <3> QED BY <1>3, <3>1, <3>2
  <2>2. CASE Restart
    <3>1. ended /\ maxima' = maxima
      BY <2>2 DEF Restart
    <3> QED BY <3>1 DEF SumInv, TermsAddUp
  <2> QED BY <2>1, <2>2
<1>5. /\ gained'.damage = FullOf(Enemies) - HpOf(bodies', Enemies)
      /\ gained'.ally = HpOf(bodies', OurSide) - FullOf(OurSide)
  BY <1>1, <1>3, FreshIsFull
<1>6. TermsAddUp'
  BY <1>4, <1>5 DEF TermsAddUp
<1> QED BY <1>1, <1>6 DEF SumInv

LEMMA AnswerTermsAddUp ==
  ASSUME SumInv, WireInv', Answer
  PROVE  SumInv'
<1>1. obs # <<>> /\ WireInv /\ TermsAddUp /\ prev = obs /\ gained \in [damage : Int, ally : Int]
  BY DEF SumInv, WireInv, RowIsSent, Answer
<1>2. /\ TakeFrame /\ prev' = obs' /\ maxima' = maxima
      /\ gained' = [damage |-> gained.damage + (EnemyHpSum(prev) - EnemyHpSum(obs')),
                    ally |-> gained.ally + (TeamHpSum(obs') - TeamHpSum(prev))]
  BY DEF Answer, Shape
<1>3. obs' # <<>>
  BY <1>1, AnswerKeeps
<1>4. /\ EnemyHpSum(prev) = HpOf(bodies, Enemies)
      /\ TeamHpSum(prev) = HpOf(bodies, OurSide)
      /\ HpOf(bodies, Enemies) \in Int /\ HpOf(bodies, OurSide) \in Int
  BY <1>1, SumsAtHand
<1>5. /\ EnemyHpSum(obs') = HpOf(bodies', Enemies)
      /\ TeamHpSum(obs') = HpOf(bodies', OurSide)
      /\ HpOf(bodies', Enemies) \in Int /\ HpOf(bodies', OurSide) \in Int
      /\ FullOf(Enemies) \in Int /\ FullOf(OurSide) \in Int
  BY <1>3, NextSumsAtHand
<1>6. /\ gained'.damage =
           gained.damage + (HpOf(bodies, Enemies) - HpOf(bodies', Enemies))
      /\ gained'.ally = gained.ally + (HpOf(bodies', OurSide) - HpOf(bodies, OurSide))
  BY <1>2, <1>4, <1>5
<1>7. /\ gained.damage = FullOf(Enemies) - HpOf(bodies, Enemies)
      /\ gained.ally = HpOf(bodies, OurSide) - FullOf(OurSide)
      /\ maxima = [team |-> FullOf(OurSide), enemy |-> FullOf(Enemies)]
  BY <1>1 DEF TermsAddUp
<1>8. /\ gained'.damage = FullOf(Enemies) - HpOf(bodies', Enemies)
      /\ gained'.ally = HpOf(bodies', OurSide) - FullOf(OurSide)
  BY <1>4, <1>5, <1>6, <1>7
<1>9. gained' \in [damage : Int, ally : Int]
  BY <1>1, <1>2, <1>4, <1>5
<1>10. TermsAddUp'
  BY <1>2, <1>7, <1>8 DEF TermsAddUp
<1> QED BY <1>2, <1>3, <1>9, <1>10 DEF SumInv

LEMMA SumInvKept ==
  ASSUME SumInv, [WireNext]_wireVars
  PROVE  SumInv'
<1>1. WireInv'
  BY WireInvKept DEF SumInv
<1>2. CASE ResetCall \/ Restart
  BY <1>1, <1>2, FreshTermsAddUp
<1>3. CASE Send
  <2>1. UNCHANGED <<bodies, obs, ended, prev, maxima, gained>>
    BY <1>3 DEF Send, world, wrapper
  <2> QED BY <1>1, <2>1 DEF SumInv, TermsAddUp
<1>4. CASE Answer
  BY <1>1, <1>4, AnswerTermsAddUp
<1>5. CASE UNCHANGED wireVars
  <2>1. UNCHANGED <<bodies, obs, ended, prev, maxima, gained>>
    BY <1>5 DEF wireVars, world, wrapper
  <2> QED BY <1>1, <2>1 DEF SumInv, TermsAddUp
<1> QED BY <1>2, <1>3, <1>4, <1>5 DEF WireNext

LEMMA SumInvariant == WireSpec => []SumInv
<1>1. WireInit => SumInv
  <2> SUFFICES ASSUME WireInit PROVE SumInv
    OBVIOUS
  <2>1. obs = <<>> /\ prev = <<>> /\ gained = [damage |-> 0, ally |-> 0]
    BY DEF WireInit
  <2>2. ended = FALSE
    BY DEF WireInit
  <2>3. WireInv
    BY WireStarts
  <2>4. TermsAddUp /\ prev = obs /\ gained \in [damage : Int, ally : Int]
    BY <2>1 DEF TermsAddUp
  <2> QED BY <2>2, <2>3, <2>4 DEF SumInv
<1>2. SumInv /\ [WireNext]_wireVars => SumInv'
  BY SumInvKept
<1> QED BY <1>1, <1>2, PTL DEF WireSpec

(* Whatever was healed, and however many matches came before, the damage   *)
(* terms of an episode are what the enemies have lost and the ally terms   *)
(* what the agent's side has lost (rewards.py: step).                      *)
THEOREM ShapedRewardsAddUp ==
  WireSpec => []ShapingAddsUp
<1>1. SumInv => ShapingAddsUp
  BY DEF SumInv, TermsAddUp, ShapingAddsUp, HpOf, FullOf, OurSide
<1>2. WireSpec => []SumInv
  BY SumInvariant
<1> QED BY <1>1, <1>2, PTL

-----------------------------------------------------------------------------
(* Types, and the ranges of hit points and cooldowns.                      *)

(* Full hit points add up to a natural number.                             *)
LEMMA FullIsNatural ==
  ASSUME NEW S \in SUBSET Units, IsFiniteSet(S)
  PROVE  FullOf(S) \in Nat
<1> DEFINE g == [u \in S |-> MaxHp[u]]
<1>1. \A u \in S : g[u] \in Nat
  BY WireBounds
<1>2. SumOf(FullOf(S), g, S)
  BY SumOfFull
<1> HIDE DEF g
<1>3. PICK it : Sums(it, g, S) /\ FullOf(S) = it[S]
  BY <1>2 DEF SumOf
<1>4. /\ it[{}] = 0
      /\ \A R \in SUBSET S : \A x \in R : it[R] = g[x] + it[R \ {x}]
  <2>1. \A u \in S : g[u] \in Int
    BY <1>1
  <2> QED BY <1>3, <2>1, SumSplits
<1> DEFINE Odd == {R \in SUBSET S : it[R] \notin Nat}
<1>5. Odd = {}
  <2> SUFFICES ASSUME Odd # {} PROVE FALSE
    OBVIOUS
  <2>1. PICK R \in Odd : \A x \in R : R \ {x} \notin Odd
    <3>1. Odd \in SUBSET (SUBSET S)
      OBVIOUS
    <3> HIDE DEF Odd
    <3> QED BY <3>1, SmallestOf
  <2>2. R \in SUBSET S /\ it[R] \notin Nat
    BY <2>1
  <2>3. PICK x \in R : TRUE
    <3>1. it[{}] \in Nat
      BY <1>4
    <3>2. R # {}
      BY <2>2, <3>1
    <3> QED BY <3>2
  <2>4. it[R \ {x}] \in Nat /\ g[x] \in Nat /\ it[R] = g[x] + it[R \ {x}]
    BY <1>1, <1>4, <2>1, <2>2, <2>3
  <2> QED BY <2>2, <2>4
<1> QED BY <1>3, <1>5

WireTypes ==
  /\ bodies \in ShownWorlds /\ \A u \in Units : bodies[u].hp <= MaxHp[u]
  /\ attackCool \in 0 .. Cooldown
  /\ cools \in Seq(0 .. Cooldown)
  /\ row = NoRow => doing = Idle
  /\ ended \in BOOLEAN
  /\ maxima \in [team : Nat, enemy : Nat]

(* A cooldown ticks within its range.                                      *)
LEMMA TicksInRange ==
  ASSUME NEW n \in 0 .. Cooldown
  PROVE  TickedDown(n) \in 0 .. Cooldown
<1>1. Cooldown \in Nat
  BY WireBounds
<1>2. Max({n - 1, 0}) \in {n - 1, 0} /\ Max({n - 1, 0}) \in Nat
  <2>1. n - 1 \in Int
    BY <1>1
  <2>2. \E x \in {n - 1, 0} : \A y \in {n - 1, 0} : x >= y
    <3>1. n - 1 >= 0 \/ 0 >= n - 1
      BY <2>1
    <3>2. n - 1 >= n - 1 /\ 0 >= 0
      BY <2>1
    <3> QED BY <3>1, <3>2
  <2> QED BY <2>1, <2>2, NotBelowZero DEF Max
<1>3. ASSUME NEW m \in Nat, m \in {n - 1, 0} PROVE m \in 0 .. Cooldown
  BY <1>1, <1>3
<1> QED BY <1>2, <1>3 DEF TickedDown

LEMMA FreshTypes ==
  ASSUME FreshMatch
  PROVE  /\ bodies' \in ShownWorlds /\ \A u \in Units : bodies'[u].hp <= MaxHp[u]
         /\ attackCool' \in 0 .. Cooldown /\ cools' \in Seq(0 .. Cooldown)
<1>1. bodies' \in ShownWorlds
  BY FreshMatches
<1>2. \A u \in Units : bodies'[u].hp <= MaxHp[u]
  <2>1. PICK place \in [Units -> Spots] :
          bodies' = [u \in Units |-> [hp |-> MaxHp[u], x |-> place[u].x, y |-> place[u].y]]
    BY DEF FreshMatch
  <2>2. \A u \in Units : bodies'[u].hp = MaxHp[u] /\ MaxHp[u] \in Nat
    BY <2>1, WireBounds
  <2> QED BY <2>2
<1>3. 0 \in 0 .. Cooldown
  BY WireBounds
<1>4. attackCool' = 0 /\ cools' = [i \in DOMAIN Equipped |-> 0]
  BY DEF FreshMatch
<1>5. cools' \in Seq(0 .. Cooldown)
  <2>1. Equipped \in Seq(CatalogSkills)
    BY WireBounds
  <2>2. Len(Equipped) \in Nat /\ DOMAIN Equipped = 1 .. Len(Equipped)
    BY <2>1
  <2> QED BY <1>3, <1>4, <2>2
<1> QED BY <1>1, <1>2, <1>3, <1>4, <1>5

(* What is played is never the mark of nothing being played.               *)
LEMMA RowsAreNotNone ==
  ASSUME NEW r \in Rows
  PROVE  r # NoRow
<1>1. r.kind \in 0 .. 4
  BY DEF Rows, IDLE, CAST
<1>2. NoRow.kind = -1
  BY DEF NoRow
<1> QED BY <1>1, <1>2

LEMMA AnswerTypes ==
  ASSUME WireTypes, Answer
  PROVE  WireTypes'
<1>1. /\ bodies \in ShownWorlds /\ (\A u \in Units : bodies[u].hp <= MaxHp[u])
      /\ attackCool \in 0 .. Cooldown /\ cools \in Seq(0 .. Cooldown)
      /\ maxima \in [team : Nat, enemy : Nat]
  BY DEF WireTypes
<1>2. bodies' \in ShownWorlds /\ \A u \in Units : bodies'[u].hp <= MaxHp[u]
  <2>1. PICK S \in SUBSET Units : \E change \in [S -> UnitStates] :
          /\ \A u \in S : change[u].hp <= MaxHp[u]
          /\ bodies' = [u \in Units |-> IF u \in S THEN change[u] ELSE bodies[u]]
    BY DEF Answer
  <2>2. PICK change \in [S -> UnitStates] :
          /\ \A u \in S : change[u].hp <= MaxHp[u]
          /\ bodies' = [u \in Units |-> IF u \in S THEN change[u] ELSE bodies[u]]
    BY <2>1
  <2>3. \A u \in S : change[u] \in [hp : Nat, x : Nat, y : Nat]
    BY <2>2, UnitStatesAreTyped
  <2>4. ASSUME NEW u \in Units
        PROVE  /\ (IF u \in S THEN change[u] ELSE bodies[u]) \in [hp : Nat, x : Nat, y : Nat]
               /\ (IF u \in S THEN change[u] ELSE bodies[u]).hp <= MaxHp[u]
    BY <1>1, <2>2, <2>3 DEF ShownWorlds
  <2> QED BY <2>2, <2>4 DEF ShownWorlds
<1>3. Cooldown \in 0 .. Cooldown
  BY WireBounds
<1>4. PICK acts \in BOOLEAN, ticks \in BOOLEAN :
        /\ attackCool' =
             IF ticks
             THEN TickedDown(Swung(acts /\ doing.kind = "attack" /\ attackCool = 0))
             ELSE Swung(acts /\ doing.kind = "attack" /\ attackCool = 0)
        /\ cools' =
             [i \in DOMAIN cools |->
                IF ticks
                THEN TickedDown(
                       Used(acts /\ doing.kind = "cast" /\ IsReady(doing.skillId))[i])
                ELSE Used(acts /\ doing.kind = "cast" /\ IsReady(doing.skillId))[i]]
  BY DEF Answer
<1> DEFINE swung == Swung(acts /\ doing.kind = "attack" /\ attackCool = 0)
           spent == Used(acts /\ doing.kind = "cast" /\ IsReady(doing.skillId))
<1>5. Len(cools) \in Nat /\ DOMAIN cools = 1 .. Len(cools)
      /\ cools \in [1 .. Len(cools) -> 0 .. Cooldown]
  <2> DEFINE C == 0 .. Cooldown
  <2>1. cools \in Seq(C)
    BY <1>1
  <2> HIDE DEF C
  <2>2. cools \in [1 .. Len(cools) -> C] /\ Len(cools) \in Nat /\ DOMAIN cools = 1 .. Len(cools)
    BY <2>1
  <2> QED BY <2>2 DEF C
<1>6. swung \in 0 .. Cooldown
  BY <1>1, <1>3 DEF Swung
<1>7. spent \in [1 .. Len(cools) -> 0 .. Cooldown]
  BY <1>3, <1>5 DEF Used
<1> HIDE DEF swung, spent
<1>8. attackCool' \in 0 .. Cooldown
  BY <1>4, <1>6, TicksInRange DEF swung
<1>9. cools' \in Seq(0 .. Cooldown)
  <2>1. cools' = [i \in 1 .. Len(cools) |-> IF ticks THEN TickedDown(spent[i]) ELSE spent[i]]
    BY <1>4, <1>5 DEF spent
  <2>2. ASSUME NEW i \in 1 .. Len(cools)
        PROVE  (IF ticks THEN TickedDown(spent[i]) ELSE spent[i]) \in 0 .. Cooldown
    BY <1>7, TicksInRange
  <2> HIDE DEF spent
  <2> QED BY <1>5, <2>1, <2>2
<1>10. doing' = Idle /\ maxima' = maxima
  BY DEF Answer
<1>11. ended' \in BOOLEAN
  <2>1. ended' \in {TRUE, SideDown(bodies')}
    BY DEF Answer
  <2>2. SideDown(bodies') \in BOOLEAN
    BY DEF SideDown
  <2> QED BY <2>1, <2>2
<1> QED BY <1>1, <1>2, <1>8, <1>9, <1>10, <1>11 DEF WireTypes

LEMMA WireTypesKept ==
  ASSUME SumInv, SumInv', WireTypes, [WireNext]_wireVars
  PROVE  WireTypes'
<1>1. CASE ResetCall \/ Restart
  <2>1. /\ FreshMatch /\ TakeFrame /\ ended' = FALSE
        /\ row' = row /\ doing' = doing
    BY <1>1 DEF ResetCall, Restart
  <2>2. maxima' \in [team : Nat, enemy : Nat]
    <3>1. obs' # <<>>
      <4>1. bodies' \in ShownWorlds /\ attackCool' \in Nat /\ cools' \in CoolStates
        BY <2>1, FreshMatches
      <4>2. (obs = <<>> => slots = <<>>) /\ (obs # <<>> => slots = Others)
        BY DEF SumInv, WireInv, FrameIsPresent
      <4> QED BY <2>1, <4>1, <4>2, FramesArePresent
    <3>2. maxima' = [team |-> FullOf(OurSide), enemy |-> FullOf(Enemies)]
      BY <3>1 DEF SumInv, TermsAddUp
    <3>3. FullOf(OurSide) \in Nat /\ FullOf(Enemies) \in Nat
      BY Sides, FullIsNatural
    <3> QED BY <3>2, <3>3
  <2> QED BY <2>1, <2>2, FreshTypes DEF WireTypes
<1>2. CASE Send
  <2>1. UNCHANGED <<bodies, attackCool, cools, ended, maxima>>
    BY <1>2 DEF Send, world, wrapper
  <2>2. row' # NoRow
    BY <1>2, RowsAreNotNone DEF Send
  <2> QED BY <2>1, <2>2 DEF WireTypes
<1>3. CASE Answer
  BY <1>3, AnswerTypes
<1>4. CASE UNCHANGED wireVars
  <2>1. UNCHANGED <<bodies, attackCool, cools, row, doing, ended, maxima>>
    BY <1>4 DEF wireVars, world, wrapper
  <2> QED BY <2>1 DEF WireTypes
<1> QED BY <1>1, <1>2, <1>3, <1>4 DEF WireNext

LEMMA WireTypesHold == WireSpec => [](SumInv /\ WireTypes)
<1>1. WireInit => WireTypes
  <2> SUFFICES ASSUME WireInit PROVE WireTypes
    OBVIOUS
  <2>1. /\ bodies = [u \in Units |-> [hp |-> 0, x |-> 0, y |-> 0]]
        /\ attackCool = 0 /\ cools = <<>> /\ doing = Idle
        /\ maxima = [team |-> 0, enemy |-> 0]
    BY DEF WireInit
  <2>2. ended \in BOOLEAN
    BY DEF WireInit
  <2>3. bodies \in ShownWorlds /\ \A u \in Units : bodies[u].hp <= MaxHp[u]
    BY <2>1, WireBounds DEF ShownWorlds
  <2>4. attackCool \in 0 .. Cooldown /\ cools \in Seq(0 .. Cooldown)
    BY <2>1, WireBounds
  <2> QED BY <2>1, <2>2, <2>3, <2>4 DEF WireTypes
<1>2. SumInv /\ SumInv' /\ WireTypes /\ [WireNext]_wireVars => WireTypes'
  BY WireTypesKept
<1>3. WireSpec => []SumInv
  BY SumInvariant
<1> QED BY <1>1, <1>2, <1>3, PTL DEF WireSpec

(* Type correctness of the agent's wire: hit points never exceed the       *)
(* build's, cooldowns stay in range, and what is played is an action       *)
(* (observation.ts, env.py, rewards.py).                                   *)
THEOREM WireTypesAreCorrect ==
  WireSpec => []WireTypeOK
<1>1. ASSUME SumInv, WireTypes PROVE WireTypeOK
  <2>1. /\ bodies \in [Units -> [hp : Nat, x : Nat, y : Nat]]
        /\ \A u \in Units : bodies[u].hp <= MaxHp[u]
        /\ attackCool \in 0 .. Cooldown /\ cools \in Seq(0 .. Cooldown)
        /\ maxima \in [team : Nat, enemy : Nat] /\ gained \in [damage : Int, ally : Int]
        /\ prev = obs
    BY <1>1 DEF WireTypes, SumInv, ShownWorlds
  <2>2. row \in Rows \cup {NoRow}
    BY <1>1 DEF SumInv, WireInv, RowIsSent
  <2>3. IF row = NoRow THEN doing = Idle
        ELSE doing.kind \in {"idle", "move", "move-toward", "attack", "cast", "error"}
    <3>1. CASE row = NoRow
      BY <1>1, <3>1 DEF WireTypes
    <3>2. CASE row # NoRow
      <4> DEFINE t == EncodeWireAction(row, slots)
      <4>1. t \in Tuples /\ Decodes(t)
        BY <1>1, <3>2, RowsDecode DEF SumInv
      <4>2. doing = decodeAction(t)
        BY <1>1, <3>2, <4>1 DEF SumInv, WireInv, RowIsSent
      <4>3. doing \in Actions
        <5> HIDE DEF t
        <5> QED BY <4>1, <4>2, EncodeUndoesDecode
      <4>4. doing.kind \in {"idle", "move", "move-toward", "attack", "cast"}
        BY <4>3 DEF Actions, Idle, Move, MoveToward, Attack, Cast
      <4> QED BY <3>2, <4>4
    <3> QED BY <3>1, <3>2
  <2>4. obs \in Seq(Int) /\ slots \in Seq(Units)
    <3>1. CASE obs = <<>>
      BY <1>1, <3>1 DEF SumInv, WireInv
    <3>2. CASE obs # <<>>
      <4>1. /\ bodies \in ShownWorlds /\ attackCool \in Nat /\ cools \in CoolStates
            /\ obs = encodeObservation(bodies, attackCool, cools) /\ slots = Others
        BY <1>1, <3>2 DEF SumInv, WireInv, FrameIsPresent
      <4>2. obs \in Seq(Int)
        BY <4>1, ReadBack DEF Numbers
      <4>3. slots \in Seq(Units \ {Agent})
        BY <4>1, OthersListed
      <4>4. slots \in Seq(Units)
        BY <4>3
      <4> QED BY <4>2, <4>4
    <3> QED BY <3>1, <3>2
  <2>5. ended \in BOOLEAN
    BY <1>1 DEF WireTypes
  <2> QED BY <2>1, <2>2, <2>3, <2>4, <2>5 DEF WireTypeOK
<1>2. WireSpec => [](SumInv /\ WireTypes)
  BY WireTypesHold
<1> QED BY <1>1, <1>2, PTL
=============================================================================
