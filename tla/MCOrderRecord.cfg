SPECIFICATION Spec
CONSTANTS
  Size = 2
  Scenarios <- MCScenarios
INVARIANTS
  TypeOK
  AgreesWithTheVenue
  BookedOnce
  WithdrawalsStand
CHECK_DEADLOCK FALSE
