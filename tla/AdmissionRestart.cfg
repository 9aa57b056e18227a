SPECIFICATION FairSpec
CONSTANTS
  gpu = gpu
  GPUs = 4
  TrainJobs = {t1}
  InferenceJobs = {}
  Resources <- MCResources
  Quota <- MCQuota
  Requests <- MCRequests
  WorldSize <- MCWorldSize
  Priority <- MCPriority
  Created <- MCCreated
  MaxLives = 1
  MaxRequeues = 2
  MaxRestarts = 2
INVARIANT AdmittedIsReserved
INVARIANT UsedIsClean
INVARIANT OneEntryPerJob
INVARIANT AdmissionInv
PROPERTY QueuedLeaves
CHECK_DEADLOCK FALSE
