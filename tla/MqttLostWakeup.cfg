SPECIFICATION FairSpec
CONSTANTS
  LedNumbers <- MCLeds
  Delay = 1
  Step = 1
  DelayMax = 3
  DelayBound = 5
PROPERTIES Reconnects
