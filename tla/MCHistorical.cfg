SPECIFICATION Spec
CONSTANTS
  Workloads <- MCWorkloads
  Cap = 2
  ScanLimit = 2
INVARIANTS
  TypeOK
  NobodyIsForgotten
  EndsAreFinal
  RoomIsUsedAndKept
  UpdatesFollowHistory
CHECK_DEADLOCK FALSE
