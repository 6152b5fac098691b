SPECIFICATION Spec
CONSTANTS
  Users = {ann, bob}
  Warbands = {w1, w2}
  Seeds = {seed}
  Slots = {s1}
  MaxSaves = 3
  MaxJoins = 2
  MaxMatches = 2
  MaxRelease = 2
  Unplayable = Unplayable
  NoRow = NoRow
SYMMETRY Symmetry
INVARIANT ReplayAgrees
INVARIANT ToldIsOnRecord
INVARIANT RatedOncePerJoin
PROPERTY PlaysWhatWasQueued
