SPECIFICATION Spec
CONSTANTS
  WorldSize = 2
  RetryLimit = 0
  MaxRequeues = 1
  RivalKind = "TrainJob"
  Rights <- AdminRights
  Budget <- MCBudget
  Total = 2
  MaxLag = 3
  Crashes = 0
  ApiErrors = 0
  Evictions = 0
  Failures = 0
  Timeouts = 0
  Preemptions = 1
  Moves = 1
  Plans = 0
INVARIANT FailsForACause
CHECK_DEADLOCK FALSE
