SPECIFICATION Spec
CONSTANTS
  NumEnvs = 2
  Length = 2
  MaxDraws = 7
  MaxSends = 7
  NoCall = NoCall
  NoResult = NoResult
INVARIANT ResultIsCurrent
PROPERTY EpisodesRunToTheirEnd
PROPERTY EndToldOnce
PROPERTY CallsReturn
CHECK_DEADLOCK FALSE
