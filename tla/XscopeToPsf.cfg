SPECIFICATION FairSpec
CONSTANTS
  CountValues = 3
  Slots = 2
  Lengths <- MCLengths
  EventLengths = {2, 12, 44}
  FalseTables <- MCFalseTables
  NumCores = 1
  CoreIds = {0, 1}
  CommandLines <- MCCommandLines
INVARIANTS MetadataLossDetected
PROPERTIES MissingReported RunEnds
CHECK_DEADLOCK FALSE
