SPECIFICATION FairSpec
CONSTANTS
  MaxRestarts = 1
  Total = 5
  Budget <- MCBudget
  Restarts = 1
  ApiErrors = 1
  Evictions = 1
  ContainerCrashes = 2
  Unreadies = 1
  Deletions = 1
  Creations = 2
INVARIANTS TypeOK FailureIsKnown NotGivenUpEarly SettledServing ServingInv
PROPERTIES Refines ComesUp Concludes
CHECK_DEADLOCK FALSE
