SPECIFICATION DemosSpec
CONSTANTS
  NumTasks = 2
  SubDelay = 2
  RunDelay = 1
  Timeout = 4
  Iterations = 2
  RefPeriod = 7
  MaxEdges = 2
  MaxBeats = 1
  FRAME_ADVANCE = 2
  HalfRange = 8
  Files <- MCFiles
  MIN_GAIN = 0
  MAX_GAIN = 4
  GAIN_STEP = 4
  INITIAL_GAIN = 0
  POWER_THRESHOLD = 2
  Levels <- MCLevels
  Capacity = 1
  ByteBase = 4
  WideBytes = 2
  commands <- MCCommands
  Args <- MCArgs
  MaxPrograms = 1
  FileSize = 5
  BlockSize = 2
  MaxFaults = 3
  MAX_TEST_VECT_SIZE = 2
  MaxLost = 1
  appconfSEND_CTRL_TOKEN = 1
  MaxTokens = 2
  Threads = 8
  RampBase = 4
  MaxDropped = 1
  LedNumbers <- MCLeds
  Delay = 1
  Step = 1
  DelayMax = 3
  DelayBound = 5
INVARIANTS DemosTypeOK RequestedRunInOrder OutputRight PowerLedTrue ValuesArrive FirmwareWhole SessionHeldWhileUsed CleanSlate DarkUntilSubscribed
PROPERTIES RunEnds SupportedFileCopied BoardsGoOn FirmwareLoads BackoffKept LostSessionClosed
CHECK_DEADLOCK FALSE
