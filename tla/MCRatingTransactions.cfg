SPECIFICATION FairSpec
CONSTANTS
  c1 = c1
  c2 = c2
  c3 = c3
  c4 = c4
  m12 = m12
  m23 = m23
  m31 = m31
  Calls = {c1, c2, c3, c4}
  Matches = {m12, m23, m31}
  Users = {1, 2, 3}
  LastUser = 3
  MatchOf <- MCMatchOf
  SideA <- MCSideA
  SideB <- MCSideB
  NoRow = NoRow
  Nobody = Nobody
INVARIANT RatingsCountRatedMatches
INVARIANT NoDeadlock
PROPERTY ImplementsAtomicRatings
PROPERTY CallsEnd
