SPECIFICATION TargetSpec
CONSTANTS
  NumDisks = 2
  NumNodes = 4
  MaxTouches = 3
  Platform = "linux"
INVARIANTS TargetTypeOK AcceptedUnmounted AdviceSuffices
PROPERTIES EventuallyFlashed
CHECK_DEADLOCK FALSE
