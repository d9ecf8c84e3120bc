SPECIFICATION TraceSpec
CONSTANTS
  NumTasks = 2
  SubDelay = 2
  RunDelay = 1
  Timeout = 4
  Iterations = 2
  RefPeriod = 7
  MaxEdges = 3
  MaxBeats = 1
INVARIANTS TimeoutTogglesLed
