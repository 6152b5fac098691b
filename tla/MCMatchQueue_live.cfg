SPECIFICATION FairSpec
CONSTANTS
  u1 = u1
  u2 = u2
  u3 = u3
  u4 = u4
  Users = {u1, u2, u3, u4}
  Ratings = {0}
  MaxPool = 3
  Window = 1
  MaxFailures = 2
  MaxAge = 5
  MaxTime = 2
  NoEntry = NoEntry
PROPERTY PairableIsServed
PROPERTY ResolvingEnds
PROPERTY Drains
