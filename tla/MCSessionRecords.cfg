SPECIFICATION FairSpec
CONSTANTS
  QueueOrder <- FourQueues
  MaxRecords = 3
  MaxAsks = 1
INVARIANTS
  TypeOK
  StateIsToldInTurn
  AnswersStayPrivate
PROPERTIES
  ReadsAsOneQueue
  EverythingIsDelivered
CHECK_DEADLOCK FALSE
