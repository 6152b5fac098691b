SPECIFICATION Spec
CONSTANTS
  NumEnvs = 2
  Length = 4
  NumSteps = 4
  NumUpdates = 2
  NumBatches = 2
  MaxEvalSteps = 4
  MaxResets = 3
  NoFrame = NoFrame
  NoReward = NoReward
  NoWinner = NoWinner
INVARIANT EvaluatesPinnedMatches
PROPERTY TrainsOnWhatWasPlayed
PROPERTY AdvantagesStayInEpisode
PROPERTY UpdatesHaveSamples
CHECK_DEADLOCK FALSE
