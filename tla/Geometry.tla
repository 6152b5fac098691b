------------------------------- MODULE Geometry -------------------------------
(***************************************************************************)
(* The integer geometry of the arena (packages/core,                       *)
(* src/sim/resolve/geometry.ts), as operators.  The arena is the square    *)
(* 0..ArenaMax by 0..ArenaMax; the code's numbers stay far below the bound *)
(* of exact integers.                                                      *)
(***************************************************************************)
EXTENDS Integers

CONSTANT ArenaMax   (* ARENA_MAX_X and ARENA_MAX_Y                         *)

ASSUME ArenaAssumption == ArenaMax \in Nat \ {0}

Position == [x : 0..ArenaMax, y : 0..ArenaMax]

(* Math.trunc of a quotient with a positive divisor                        *)
trunc(p, q) == IF p >= 0 THEN p \div q ELSE -((-p) \div q)

squaredDistance(a, b) == (a.x - b.x) * (a.x - b.x) + (a.y - b.y) * (a.y - b.y)

MaxSquaredDistance == 2 * ArenaMax * ArenaMax

(* Newton's method from x down.                                            *)
Newton(n, x) ==
  LET descend[z \in 1..MaxSquaredDistance] ==
        LET y == (z + n \div z) \div 2 IN IF y < z THEN descend[y] ELSE z
  IN descend[x]

isqrt(n) ==
  IF n < 2 THEN n
  ELSE LET y == (n + 1) \div 2 IN IF y < n THEN Newton(n, y) ELSE n

clampToArena(p) ==
  LET clamp(v) == IF v < 0 THEN 0 ELSE IF v > ArenaMax THEN ArenaMax ELSE v
  IN [x |-> clamp(p.x), y |-> clamp(p.y)]

(* One axis of a step: the share of delta that maxStep is of the distance. *)
(* The mutant divides before it multiplies.                                *)
ShareOfWhole(delta, maxStep, dist) == delta * trunc(maxStep, dist)

Share(delta, maxStep, dist) == trunc(delta * maxStep, dist)

(* The mutant takes the last step at full length too.                      *)
WithinNothing(d2, maxStep) == d2 = 0

WithinStep(d2, maxStep) == d2 <= maxStep * maxStep

stepToward(from, to, maxStep) ==
  LET d2 == squaredDistance(from, to)
      dist == isqrt(d2)
  IN IF WithinStep(d2, maxStep) THEN clampToArena(to)
     ELSE clampToArena([x |-> from.x + Share(to.x - from.x, maxStep, dist),
                        y |-> from.y + Share(to.y - from.y, maxStep, dist)])

isInRange(from, to, rangeSquared) == squaredDistance(from, to) <= rangeSquared
=============================================================================
