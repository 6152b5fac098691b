SPECIFICATION Spec
CONSTANTS
  u1 = u1
  u2 = u2
  u3 = u3
  u4 = u4
  Users = {u1, u2, u3, u4}
  Ratings <- MCRatings
  MaxPool = 3
  Window = 1
  MaxFailures = 2
  MaxAge = 2
  MaxTime = 3
  NoEntry = NoEntry
SYMMETRY MCSymmetry
INVARIANT OneSeat
INVARIANT TimerArmedIffPairable
INVARIANT FairPass
PROPERTY NoSilentEjection
PROPERTY ImplementsMatchmaking
