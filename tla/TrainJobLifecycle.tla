------------------------ MODULE TrainJobLifecycle ------------------------
(***************************************************************************)
(* What a TrainJob promises to whoever watches its status: an abstract     *)
(* specification of the phase, the attempt and the requeue count, without  *)
(* pods, caches or passes.  TrainWorkers implements it.                    *)
(***************************************************************************)
EXTENDS JobPhases

CONSTANT RetryLimit   \* Spec.RetryLimit, a natural number

VARIABLES phase, attempt, requeueCount

lifecycle == <<phase, attempt, requeueCount>>

\* Life begins where QueueAdmission puts a submitted job.
Init == phase = "Queued" /\ attempt = 0 /\ requeueCount = 0

Admit ==
  /\ phase = "Queued"
  /\ phase' = "Starting"
  /\ UNCHANGED <<attempt, requeueCount>>

\* The workers of the current attempt come up, go down or complete.
Progress ==
  /\ phase \in TrainActive
  /\ phase' \in {"Starting", "Running", "Succeeded"} \ {phase}
  /\ UNCHANGED <<attempt, requeueCount>>

\* A worker failed and an attempt is left.
Retry ==
  /\ phase \in TrainActive
  /\ attempt < RetryLimit
  /\ phase' = "Retrying"
  /\ attempt' = attempt + 1
  /\ UNCHANGED requeueCount

\* A worker of the last attempt failed, or the gang of a starting job was
\* given up by the scheduler.
Fail ==
  /\ phase \in TrainActive
  /\ attempt = RetryLimit \/ phase = "Starting"
  /\ phase' = "Failed"
  /\ UNCHANGED <<attempt, requeueCount>>

Preempt ==
  /\ phase = "Running"
  /\ phase' = "Preempted"
  /\ UNCHANGED <<attempt, requeueCount>>

\* A victim is released: it starts over in the same attempt.
Release ==
  /\ phase = "Preempted"
  /\ phase' = "Queued"
  /\ requeueCount' = requeueCount + 1
  /\ UNCHANGED attempt

Next == Admit \/ Progress \/ Retry \/ Fail \/ Preempt \/ Release

Spec == Init /\ [][Next]_lifecycle

==========================================================================
