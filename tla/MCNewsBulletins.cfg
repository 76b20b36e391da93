SPECIFICATION Spec
CONSTANTS
  Limit = 2
  MaxStamps = 4
  MaxAsks = 2
INVARIANTS
  TypeOK
  AskingRestatesTheDay
  NothingButWhatWasAsked
CHECK_DEADLOCK FALSE
