SPECIFICATION FairSpec
CONSTANTS
  p = p
  w = w
  Scenarios <- HangScenarios
PROPERTIES
  StopEndsTheSession
CHECK_DEADLOCK FALSE
