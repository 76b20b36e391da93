SPECIFICATION FairSpec
CONSTANTS
  MaxPushes = 2
  MaxWrites = 1
  MaxHooks = 2
INVARIANTS
  TypeOK
  CallsAreDue
  HookSurvivesAnothersPanic
PROPERTIES
  NoWakeIsLost
