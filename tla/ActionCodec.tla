----------------------------- MODULE ActionCodec -----------------------------
(***************************************************************************)
(* The wire form of an Action: four integers, a kind code and three slots  *)
(* of which a slot the kind does not use must be 0                         *)
(* (packages/core/src/sim/observation.ts).  TLA+ counts a tuple's places   *)
(* from 1: the code's slots 1, 2 and 3 are places 2, 3 and 4 here.         *)
(***************************************************************************)
EXTENDS Integers, Sequences

\* The skill catalog, in the order the wire's skill indices count.
CONSTANT Catalog

\* The registry refuses a catalog that names a skill twice.
ASSUME CatalogAssumption ==
    /\ Catalog \in Seq({Catalog[i] : i \in DOMAIN Catalog})
    /\ \A i, j \in DOMAIN Catalog : Catalog[i] = Catalog[j] => i = j

CatalogSkills == {Catalog[i] : i \in DOMAIN Catalog}

IDLE == 0
MOVE == 1
MOVE_TOWARD == 2
ATTACK == 3
CAST == 4

Idle == [kind |-> "idle"]
Move(x, y) == [kind |-> "move", x |-> x, y |-> y]
MoveToward(u) == [kind |-> "move-toward", targetId |-> u]
Attack(u) == [kind |-> "attack", targetId |-> u]
Cast(s, u) == [kind |-> "cast", skillId |-> s, targetId |-> u]

Actions ==
    {Idle} \cup {Move(x, y) : x \in Int, y \in Int}
           \cup {MoveToward(u) : u \in Int} \cup {Attack(u) : u \in Int}
           \cup {Cast(s, u) : s \in CatalogSkills, u \in Int}

Tuples == Seq(Int)

skillIndex(s) == (CHOOSE i \in DOMAIN Catalog : Catalog[i] = s) - 1

encodeAction(a) ==
    CASE a.kind = "idle" -> <<IDLE, 0, 0, 0>>
      [] a.kind = "move" -> <<MOVE, a.x, a.y, 0>>
      [] a.kind = "move-toward" -> <<MOVE_TOWARD, a.targetId, 0, 0>>
      [] a.kind = "attack" -> <<ATTACK, a.targetId, 0, 0>>
      [] a.kind = "cast" -> <<CAST, a.targetId, 0, skillIndex(a.skillId)>>

UsedSlots(kindCode) ==
    CASE kindCode = IDLE -> {}
      [] kindCode = MOVE -> {2, 3}
      [] kindCode \in {MOVE_TOWARD, ATTACK} -> {2}
      [] kindCode = CAST -> {2, 4}

UnusedSlotsAreZero(t) == \A i \in (2 .. 4) \ UsedSlots(t[1]) : t[i] = 0

\* decodeAction returns, rather than throws.
Decodes(t) ==
    /\ Len(t) = 4
    /\ t[1] \in IDLE .. CAST
    /\ UnusedSlotsAreZero(t)
    /\ t[1] = CAST => t[4] + 1 \in DOMAIN Catalog

decodeAction(t) ==
    CASE t[1] = IDLE -> Idle
      [] t[1] = MOVE -> Move(t[2], t[3])
      [] t[1] = MOVE_TOWARD -> MoveToward(t[2])
      [] t[1] = ATTACK -> Attack(t[2])
      [] t[1] = CAST -> Cast(Catalog[t[4] + 1], t[2])
=============================================================================
