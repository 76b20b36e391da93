SPECIFICATION Spec
CONSTANTS
  A = A
  B = B
  C = C
  NoContract = NoContract
  Contracts = {A, B, C}
  Requests = {1, 2, 3}
  Series = {"x", "y"}
  Allowance = 2
  Burst = 1
  Scenarios <- MCScenarios
INVARIANTS
  TypeOK
  EveryRequestIsServed
  NothingRunsUnneeded
  SlotsAreSound
  ReaderIsRight
CHECK_DEADLOCK FALSE
