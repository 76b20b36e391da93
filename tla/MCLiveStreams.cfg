SPECIFICATION Spec
CONSTANTS
  Workloads <- MCWorkloads
  TickCap = 2
INVARIANTS
  TypeOK
  ReadersAreServed
  NoStreamRunsUnread
  RecordsReachTheirReaders
CHECK_DEADLOCK FALSE
