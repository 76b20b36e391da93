SPECIFICATION Spec
CONSTANTS
  p = p
  w = w
  Scenarios <- EngineScenarios
INVARIANTS
  TypeOK
  WhatIsSaidIsTrue
  NothingIsLeftBehind
PROPERTIES
  OrdersPrecedeTheGoodbye
  NothingIsInstalledAfterTheEnd
CHECK_DEADLOCK FALSE
