SPECIFICATION Spec
CONSTANTS
  MsPerTick = 1
  SpeedOptions = {1, 16}
  MaxLastTick = 1
  Files <- FilesValue
  Sample <- Good
  Squads <- Trained
  Deltas = {1}
  MaxReads = 1
  Corrupt = Corrupt
  None = None
INVARIANT PlaybackFitsMatch
PROPERTY OnlyMisfitsThrow
PROPERTY PausedTimeIsNotPlayed
PROPERTY PlaybackEnds
