------------------------- MODULE MCTrainWorkers -------------------------
(***************************************************************************)
(* Values for the constants of TrainWorkers: the rights of a cluster       *)
(* administrator (make run) and of the generated role, and how many        *)
(* mishaps of each kind a run allows.                                      *)
(***************************************************************************)
EXTENDS WorkersInvariant

CONSTANTS Crashes, ApiErrors, Evictions, Failures, Timeouts, Preemptions, Moves, Plans

AdminRights == {"services", "podgroups/status"}

\* config/rbac/role.yaml grants neither.
RoleRights == {}

MCBudget ==
  [m \in Mishaps |->
     CASE m = "crash" -> Crashes [] m = "apiError" -> ApiErrors
       [] m = "eviction" -> Evictions [] m = "workerFailure" -> Failures
       [] m = "gangTimeout" -> Timeouts [] m = "preemption" -> Preemptions
       [] m = "rival" -> Moves [] m = "plan" -> Plans]

=========================================================================
