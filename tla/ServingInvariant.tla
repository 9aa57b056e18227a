------------------------- MODULE ServingInvariant -------------------------
(***************************************************************************)
(* The inductive invariants behind the safety properties of                *)
(* InferenceServing.                                                       *)
(*                                                                         *)
(* Inv: every copy of the job, wherever it waits to be delivered or        *)
(* written, is one that may have been given up only for a reason; every    *)
(* copy of a pod has counted no more crashes than there were; the last     *)
(* version on its way to the cache is the stored one; and a pass writes    *)
(* what one step of the abstract life cycle makes of the copy it has read. *)
(*                                                                         *)
(* CalmInv: while the key is not in the work queue nothing has reached the *)
(* caches since the last pass began, so that what the pass saw is still    *)
(* what the caches show.                                                   *)
(***************************************************************************)
EXTENDS InferenceServing

-----------------------------------------------------------------------------
(* Copies, passes and what is on its way *)

CrashCounts == [Lives -> Nat]

WornOut(c) == \E l \in Lives : c[l] > MaxRestarts

\* Copies of the job that may exist when c counts the crashes.
GoodJobs(c) ==
  {v \in JobVersion :
     v.phase \in {"Failing", "Failed"} => v.failed /\ WornOut(c)}

\* Copies of the pod that may exist when c counts the crashes.
GoodPods(c) ==
  {p \in PodVersion :
     /\ p.restarts <= c[p.owner]
     /\ p.state = "Crashed" => p.restarts < c[p.owner]}

GoodPasses(c) ==
  [pc : {"idle", "finalize", "observe", "ensure", "clear", "deletePod", "write"},
   job : GoodJobs(c), current : BOOLEAN, next : GoodJobs(c)]

\* What one pass may make of a copy of the job.
Leads(v, w) ==
  \/ v.fin = "none" /\ v.phase = "New" /\ w.fin = "set" /\ w.phase = "New"
  \/ /\ v.fin = "set" /\ w.fin = "set"
     /\ \/ v.phase = "New" /\ w.phase = "Queued"
        \/ v.phase = "Queued" /\ w.phase = "Starting"
        \/ v.phase \in InferenceActive /\ w.phase \in InferencePassPhases(v.phase)
        \/ v.phase = "Failing" /\ w.phase = "Failed"
  \/ v.fin = "deleting" /\ w.fin = "none" /\ w.phase = "Absent"

\* Where a pass is says what it has read and what it is about to write; what
\* it holds for current is the stored version.
PassInv(p, c, stored) ==
  /\ p \in GoodPasses(c)
  /\ p.current => p.job = stored
  /\ p.pc = "finalize" => p.job.fin = "deleting"
  /\ p.pc \in {"observe", "ensure"} => p.job.fin = "set" /\ p.job.phase \in InferenceActive
  /\ p.pc = "clear" => p.job.fin = "set" /\ p.job.phase = "Failing"
  /\ p.pc = "deletePod" => p.job.fin = "deleting" \/ p.job.phase = "Failing"
  /\ p.pc \in {"ensure", "write"} => Leads(p.job, p.next)

\* The cache is the stored version, or the stored version is the last to come.
Follows(stored, cached, waiting) ==
  IF waiting = << >> THEN cached = stored ELSE waiting[Len(waiting)] = stored

JobsOK ==
  /\ job \in GoodJobs(crashes) /\ jobCache \in GoodJobs(crashes)
  /\ jobWatch \in Seq(GoodJobs(crashes))
  /\ Follows(job, jobCache, jobWatch)

PodsOK ==
  /\ pod \in GoodPods(crashes) /\ podCache \in GoodPods(crashes)
  /\ podWatch \in Seq(GoodPods(crashes))
  /\ Follows(pod, podCache, podWatch)

Inv ==
  /\ JobsOK
  /\ PodsOK
  /\ todo \in BOOLEAN
  /\ PassInv(pass, crashes, job)
  /\ spent \in [Mishaps -> Nat] /\ \A m \in Mishaps : spent[m] <= Budget[m]
  /\ crashes \in CrashCounts

-----------------------------------------------------------------------------
(* The settled state *)

\* Over these copies of job and pod a pass finds nothing to do but to wait.
SettledBy(v, p) ==
  /\ v.fin = "set" /\ v.phase \in InferenceActive =>
       /\ p.state # "Absent"
       /\ p.restarts <= MaxRestarts
       /\ p.ending => v.phase # "Running"
       /\ ~p.ending =>
            /\ p.state = "Crashed" => p.restarts < MaxRestarts /\ v.phase = "Restarting"
            /\ p.state = "Ready" => v.phase = "Running"
  /\ v.fin = "deleting" \/ v.phase = "Failing" => p.ending

\* While the key is not in the work queue, a pass works on what the caches
\* show, and after a pass there is nothing to do, or something on its way that
\* will wake the job.
CalmInv ==
  ~todo =>
    /\ ~At("idle") => pass.job = jobCache
    /\ At("ensure") => podCache.state = "Absent"
    /\ At("idle") => jobWatch # << >> \/ podWatch # << >> \/ SettledBy(jobCache, podCache)

\* What is true of every copy of job and pod, of every place in a pass, and of
\* the caches while the key is not in the work queue.
ServingInv == Inv /\ CalmInv

===========================================================================
