SPECIFICATION FairSpec
CONSTANTS
  WorldSize = 1
  RetryLimit = 0
  MaxRequeues = 2
  RivalKind = "InferenceJob"
  Rights <- RoleRights
  Budget <- MCBudget
  Total = 3
  MaxLag = 2
  Crashes = 1
  ApiErrors = 0
  Evictions = 0
  Failures = 0
  Timeouts = 1
  Preemptions = 1
  Moves = 1
  Plans = 0
INVARIANTS SettledStatus SettledGroup WorkersInv
PROPERTIES NamedVictimReturns Refines Finishes
CHECK_DEADLOCK FALSE
