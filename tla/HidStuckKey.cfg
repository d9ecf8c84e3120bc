SPECIFICATION HidSpec
CONSTANTS
  HidDemos <- MCHidDemos
  MaxPresses = 4
  MaxBusEvents = 1
PROPERTIES KeyReleased
CHECK_DEADLOCK FALSE
