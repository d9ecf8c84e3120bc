SPECIFICATION FairSpec
CONSTANTS
  MinGain = 0
  MaxGain = 4
  GainStep = 2
  InitSteps = 1
  TimerQueueLength = 2
  MaxPresses = 3
INVARIANTS GainInRange TimersFollowButtons
PROPERTIES ReleaseStopsVolume
