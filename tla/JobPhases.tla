---------------------------- MODULE JobPhases ----------------------------
(***************************************************************************)
(* The phase machines of the two job kinds, as constant-level sets: which  *)
(* phases exist and which phases one pass of a job's controller may write  *)
(* from a given phase.  "Absent" stands for an object that is not in the   *)
(* API server, "New" for the empty phase of a freshly created object.      *)
(***************************************************************************)
EXTENDS Naturals

TrainPhases ==
  {"Absent", "New", "Submitted", "Queued", "Starting", "Running",
   "Retrying", "Succeeded", "Failed", "Preempted"}

InferencePhases ==
  {"Absent", "New", "Queued", "Starting", "Running", "Restarting",
   "Failing", "Failed"}

\* A train job in one of these phases is never reconciled further.
TrainTerminal == {"Succeeded", "Failed"}

\* The phases in which a pass drives the worker pods.
TrainActive == {"Retrying", "Starting", "Running"}

InferenceActive == {"Starting", "Running", "Restarting"}

\* A train job past admission that has not finished: the queue controller
\* must keep its quota reserved.
TrainHolding == TrainActive \cup {"Preempted"}

InferenceHolding == InferenceActive \cup {"Failing"}

\* The phases nextPhase returns.
WorkerPhases == {"Starting", "Running", "Succeeded"}

\* The phases handleFailedAttempt sets.
FailurePhases == {"Retrying", "Failed"}

\* The phases ensureWorkerPodGroup sets: from Starting when the pod group
\* failed, from Running when it is preempted.
GroupPhases(phase) ==
  IF phase = "Starting" THEN {"Failed"}
  ELSE IF phase = "Running" THEN {"Preempted"} ELSE {}

\* The phases one pass over an active train job may write.
TrainPassPhases(phase) == WorkerPhases \cup FailurePhases \cup GroupPhases(phase)

\* The phases getInferenceJobNextPhase may return from an active phase.
InferencePassPhases(phase) ==
  {phase, "Running", "Restarting", "Failing"}

==========================================================================
