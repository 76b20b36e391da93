SPECIFICATION Spec
CONSTANTS
  Workloads <- MCWorkloads
  TickCap = 2
INVARIANT BarReadersAreServed
CHECK_DEADLOCK FALSE
