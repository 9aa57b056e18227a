SPECIFICATION Spec
CONSTANTS
  gpu = gpu
  GPUs = 3
  TrainJobs = {t1}
  InferenceJobs = {i1}
  Resources <- MCResources
  Quota <- MCQuota
  Requests <- MCRequests
  WorldSize <- MCWorldSize
  Priority <- MCPriority
  Created <- MCCreated
  MaxLives = 1
  MaxRequeues = 1
  MaxRestarts = 0
INVARIANTS TypeOK AdmittedIsReserved HoldingFitsQuota NoLostWakeup UsedIsClean QuotaInv CalmInv
PROPERTIES TerminalIsFinal InferenceRefines
CHECK_DEADLOCK FALSE
