SPECIFICATION Spec
CONSTANTS
  gpu = gpu
  GPUs = 4
  TrainJobs = {t1}
  InferenceJobs = {}
  Resources <- MCResources
  Quota <- MCQuota
  Requests <- MCRequests
  WorldSize <- MCWorldSize
  Priority <- MCPriority
  Created <- MCCreated
  MaxLives = 2
  MaxRequeues = 1
  MaxRestarts = 0
INVARIANT UsedIsClean
CHECK_DEADLOCK FALSE
