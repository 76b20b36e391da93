SPECIFICATION FairSpec
CONSTANTS
  p = p
  w = w
  Scenarios <- StopScenarios
INVARIANTS
  AdmittedOrdersAreSettled
PROPERTIES
  OnlyAPlacementHoldsTheStop
CHECK_DEADLOCK FALSE
