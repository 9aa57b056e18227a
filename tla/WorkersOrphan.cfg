SPECIFICATION Spec
CONSTANTS
  WorldSize = 1
  RetryLimit = 1
  MaxRequeues = 0
  RivalKind = "TrainJob"
  Rights <- AdminRights
  Budget <- MCBudget
  Total = 1
  MaxLag = 3
  Crashes = 0
  ApiErrors = 0
  Evictions = 0
  Failures = 1
  Timeouts = 0
  Preemptions = 0
  Moves = 0
  Plans = 0
INVARIANT NoOrphans
CHECK_DEADLOCK FALSE
