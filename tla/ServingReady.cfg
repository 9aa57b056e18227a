SPECIFICATION Spec
CONSTANTS
  MaxRestarts = 1
  Total = 2
  Budget <- MCBudget
  Restarts = 0
  ApiErrors = 0
  Evictions = 0
  ContainerCrashes = 0
  Unreadies = 1
  Deletions = 0
  Creations = 1
INVARIANT RunningMeansReady
CHECK_DEADLOCK FALSE
