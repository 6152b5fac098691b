SPECIFICATION PursuitSpec
CONSTANTS
  ArenaMax = 4
  LastOther = 3
  OtherMaxHp <- MaxHpValue
  Casters = {2, 3}
  MoveSpeed = 2
  AttackRangeSquared = 1
  SlowMagnitudes = {0, 50}
  EmpowerMagnitudes = {0, 50}
  Places <- PlacesValue
  Lineups <- LineupsValue
INVARIANT StepsAreSound
INVARIANT TiesAreOptimal
PROPERTY PursuitEnds
