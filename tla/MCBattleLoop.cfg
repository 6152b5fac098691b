SPECIFICATION FairSpec
CONSTANTS
  LastUnit = 2
  Team <- MCTeam
  External = {1}
  MaxHp <- MCMaxHp
  Armor <- MCArmor
  AttackDamage <- MCAttackDamage
  AttackCooldown <- MCAttackCooldown
  Skills <- MCSkills
  SkillsOf <- MCSkillsOf
  SkillCooldown <- MCSkillCooldown
  Effect <- MCEffect
  TickCap = 3
  NoStatus = NoStatus
INVARIANT FrameShowsWorld
PROPERTY CooldownsSpaceUses
PROPERTY MatchEnds
