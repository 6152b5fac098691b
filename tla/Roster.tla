-------------------------------- MODULE Roster ---------------------------------
(***************************************************************************)
(* Who takes part in a match: the units of two builds as initWithRegistry  *)
(* (packages/core, src/sim/init.ts) numbers them, with the team and the    *)
(* full hit points of each.  BattleLoop plays them, AgentWire shows them.  *)
(***************************************************************************)
EXTENDS Integers

CONSTANTS
  LastUnit,   (* units are 0..LastUnit, the order of world.units           *)
  Team,       (* "A" or "B" for each unit                                  *)
  MaxHp       (* the hit points each starts with                           *)

Units == 0..LastUnit

ASSUME RosterAssumption ==
  /\ LastUnit \in Nat
  /\ Team \in [Units -> {"A", "B"}]
  /\ \A side \in {"A", "B"} : \E u \in Units : Team[u] = side
  /\ MaxHp \in [Units -> Nat \ {0}]
=============================================================================
