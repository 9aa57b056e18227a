SPECIFICATION FairSpec
CONSTANTS
  WorldSize = 1
  RetryLimit = 1
  MaxRequeues = 0
  RivalKind = "TrainJob"
  Rights <- AdminRights
  Budget <- MCBudget
  Total = 2
  MaxLag = 2
  Crashes = 1
  ApiErrors = 1
  Evictions = 1
  Failures = 1
  Timeouts = 0
  Preemptions = 0
  Moves = 0
  Plans = 1
INVARIANTS TypeOK SettledStatus SettledGroup
PROPERTIES ServiceFirst Refines Finishes
CHECK_DEADLOCK FALSE
