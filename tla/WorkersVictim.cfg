SPECIFICATION FairSpec
CONSTANTS
  WorldSize = 1
  RetryLimit = 0
  MaxRequeues = 1
  RivalKind = "TrainJob"
  Rights <- AdminRights
  Budget <- MCBudget
  Total = 3
  MaxLag = 3
  Crashes = 0
  ApiErrors = 0
  Evictions = 0
  Failures = 0
  Timeouts = 0
  Preemptions = 1
  Moves = 2
  Plans = 0
PROPERTY VictimReturns
CHECK_DEADLOCK FALSE
