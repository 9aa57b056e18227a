SPECIFICATION Spec
CONSTANTS
  MaxRestarts = 0
  Total = 3
  Budget <- MCBudget
  Restarts = 0
  ApiErrors = 0
  Evictions = 1
  ContainerCrashes = 1
  Unreadies = 0
  Deletions = 0
  Creations = 1
INVARIANT FailedHasNoPod
CHECK_DEADLOCK FALSE
