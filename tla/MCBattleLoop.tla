---------------------------- MODULE MCBattleLoop ----------------------------
(* Two units against one, the second of them driven from outside.  Every   *)
(* kind of effect is in the catalog, and a dot outlasts its cooldown, as   *)
(* venom-shot's does in the shipped content.                               *)
EXTENDS BattleLoop, TLC

MCTeam == (0 :> "A") @@ (1 :> "A") @@ (2 :> "B")
MCMaxHp == (0 :> 1) @@ (1 :> 2) @@ (2 :> 3)
MCArmor == (0 :> 0) @@ (1 :> 0) @@ (2 :> 1)
MCAttackDamage == (0 :> 2) @@ (1 :> 2) @@ (2 :> 2)
MCAttackCooldown == (0 :> 2) @@ (1 :> 3) @@ (2 :> 2)

MCSkills == {"venom", "ward", "mend", "bash", "stun", "rage"}
MCSkillsOf ==
  (0 :> {"bash", "mend"}) @@ (1 :> {"venom", "ward", "mend", "rage"}) @@ (2 :> {"stun"})
MCSkillCooldown ==
  ("venom" :> 1) @@ ("ward" :> 1) @@ ("mend" :> 2) @@ ("bash" :> 2) @@ ("stun" :> 3) @@ ("rage" :> 3)

StatusEffect(k, d, m) ==
  [kind |-> "apply-status", status |-> k, durationTicks |-> d, magnitude |-> m]

MCEffect ==
  ("venom" :> StatusEffect("dot", 3, 2)) @@
  ("ward" :> StatusEffect("shield", 2, 2)) @@
  ("mend" :> [kind |-> "heal", amount |-> 2]) @@
  ("bash" :> [kind |-> "direct-damage", amount |-> 3]) @@
  ("stun" :> StatusEffect("stun", 2, 1)) @@
  ("rage" :> StatusEffect("empower", 2, 50))
=============================================================================
