------------------------- MODULE MCQueueAdmission -------------------------
(***************************************************************************)
(* Values for the constants of QueueAdmission.  Every job needs two GPUs:  *)
(* a train job as two workers of one GPU each, the inference job at once.  *)
(* Equal priorities and creation seconds leave the head of the line open,  *)
(* and make the train jobs interchangeable.                                *)
(***************************************************************************)
EXTENDS AdmissionInvariant, TLC

CONSTANTS gpu, GPUs

MCResources == {gpu}
MCQuota == [r \in MCResources |-> GPUs]
MCRequests == [j \in Jobs |-> [r \in MCResources |->
                                 IF j \in TrainJobs THEN 1 ELSE 2]]
MCWorldSize == [j \in TrainJobs |-> 2]
MCPriority == [j \in Jobs |-> 1]
MCCreated == [j \in Jobs |-> 0]
MCSymmetry == Permutations(TrainJobs)
===========================================================================
