SPECIFICATION Spec
CONSTANTS
  MsPerTick = 1
  SpeedOptions = {1}
  MaxLastTick = 1
  Files <- AugmentFiles
  Sample <- Good
  Squads <- Trained
  Deltas = {1}
  MaxReads = 1
  Corrupt = Corrupt
  None = None
PROPERTY DraftRoundTrips
