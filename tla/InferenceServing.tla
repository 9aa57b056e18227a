------------------------- MODULE InferenceServing -------------------------
(***************************************************************************)
(* One InferenceJob, call by call: the passes of the InferenceJob          *)
(* reconciler over its finalizer, its phase and the one pod of its name,   *)
(* against an API server and informer caches that lag behind it, a kubelet *)
(* that restarts the container in place, and users who delete the job, the *)
(* pod, or create the job again under the same name.                       *)
(*                                                                         *)
(* A pass makes one step per call.  Simplifications: the Queued job is     *)
(* admitted by any pass (QueueAdmission says when); the pod has one        *)
(* container; the second Get of ensureWorkerPod and its Create are one     *)
(* step.                                                                   *)
(***************************************************************************)
EXTENDS JobPhases, Integers, Sequences, Functions

CONSTANTS
  MaxRestarts,  \* Spec.MaxRestarts
  Budget,       \* bound: how often each kind of mishap happens
  Total         \* bound: how many mishaps happen altogether

Mishaps == {"crash", "apiError", "eviction", "podCrash", "unready", "delete", "create"}

ASSUME ServingAssumption ==
  /\ MaxRestarts \in Nat
  /\ Budget \in [Mishaps -> Nat] /\ Total \in Nat

VARIABLES
  job, jobCache, jobWatch,   \* the InferenceJob: stored, cached, not yet delivered
  pod, podCache, podWatch,   \* the pod of its name: the same
  todo,      \* whether the job's key is in the work queue
  pass,      \* the pass the worker is in
  spent,     \* how often each mishap has happened
  crashes    \* history: the most crashes of one pod of each life of the job

jobVars == <<job, jobCache, jobWatch>>
podVars == <<pod, podCache, podWatch>>
vars == <<jobVars, podVars, todo, pass, spent, crashes>>

-----------------------------------------------------------------------------
(* Objects and their versions *)

\* A name may be used for several jobs, one life after the other.
Lives == 0 .. Budget["create"]

\* "failed" says whether LastFailure is filled in.  A job whose status was
\* ever written has had its finalizer set before.
JobVersion ==
  {v \in [phase : InferencePhases, fin : {"none", "set", "deleting"},
          failed : BOOLEAN, life : Lives] :
     /\ v.fin = "none" => v.phase \in {"Absent", "New"}
     /\ v.phase = "Absent" => v.fin = "none"}

NoJob == [phase |-> "Absent", fin |-> "none", failed |-> FALSE, life |-> 0]

\* Of the pod: what its container does ("Pending" before the first start,
\* "Crashed" from its end to the next start in place), its restart count,
\* whether it is being deleted, and the life of the job that owns it.
PodVersion ==
  [state : {"Absent", "Pending", "Unready", "Ready", "Crashed"},
   restarts : Nat, ending : BOOLEAN, owner : Lives]

NoPod == [state |-> "Absent", restarts |-> 0, ending |-> FALSE, owner |-> 0]

PutJob(v) ==
  /\ job' = v
  /\ jobWatch' = Append(jobWatch, v)
  /\ jobCache' = jobCache

PutPod(v) ==
  /\ pod' = v
  /\ podWatch' = Append(podWatch, v)
  /\ podCache' = podCache

Spend(mishap) ==
  /\ spent[mishap] < Budget[mishap] /\ SumFunction(spent) < Total
  /\ spent' = [spent EXCEPT ![mishap] = @ + 1]

-----------------------------------------------------------------------------
(* A pass *)

\* Where the pass is, the copy of the job it works on, whether that copy is
\* still the stored version, and the version it will write.
Passes ==
  [pc : {"idle", "finalize", "observe", "ensure", "clear", "deletePod", "write"},
   job : JobVersion, current : BOOLEAN, next : JobVersion]

Idle == [pc |-> "idle", job |-> NoJob, current |-> FALSE, next |-> NoJob]

Init ==
  /\ job = NoJob /\ jobCache = NoJob /\ jobWatch = << >>
  /\ pod = NoPod /\ podCache = NoPod /\ podWatch = << >>
  /\ todo = FALSE
  /\ pass = Idle
  /\ spent = [m \in Mishaps |-> 0]
  /\ crashes = [l \in Lives |-> 0]

\* How a call ends: the pass goes on, is over, or has met an error, for which
\* the key is retried.
GoesOn(p) == pass' = p /\ todo' = todo
Ends == pass' = Idle /\ todo' = todo
Errs == pass' = Idle /\ todo' = TRUE

Bystanders == UNCHANGED <<spent, crashes>>
Reads == UNCHANGED <<jobVars, podVars>> /\ Bystanders

At(pc) == pass.pc = pc

\* The pass will write v, or end when v is what it has read.
Writes(v) ==
  IF v = pass.job THEN Ends
  ELSE GoesOn([pass EXCEPT !.pc = "write", !.next = v])

-----------------------------------------------------------------------------
(* Reconcile *)

\* A pass over the cached job, and one that has its new version already.
Begun(pc) ==
  [pc |-> pc, job |-> jobCache, current |-> jobWatch = << >>, next |-> NoJob]

Wants(v) == [Begun("write") EXCEPT !.next = v]

\* The switch over the phase.
Switch ==
  \/ jobCache.phase = "New" /\ pass' = Wants([jobCache EXCEPT !.phase = "Queued"])
  \/ jobCache.phase = "Queued" /\ pass' = Idle
  \/ jobCache.phase = "Queued" /\ pass' = Wants([jobCache EXCEPT !.phase = "Starting"])
  \/ jobCache.phase \in InferenceActive /\ pass' = Begun("observe")
  \/ jobCache.phase = "Failing" /\ pass' = Begun("clear")
  \/ jobCache.phase = "Failed" /\ pass' = Idle

\* Mutant of Begin: a job without its finalizer is worked on all the same.
SkipsTheFinalizer ==
  /\ At("idle") /\ todo
  /\ todo' = FALSE
  /\ \/ jobCache.phase = "Absent" /\ pass' = Idle
     \/ jobCache.fin = "deleting" /\ pass' = Begun("finalize")
     \/ jobCache.fin # "deleting" /\ Switch
  /\ Reads

\* Get of the job: gone, being deleted, without the finalizer, or a phase.
Begin ==
  /\ At("idle") /\ todo
  /\ todo' = FALSE
  /\ \/ jobCache.phase = "Absent" /\ pass' = Idle
     \/ jobCache.fin = "deleting" /\ pass' = Begun("finalize")
     \/ /\ jobCache.phase # "Absent" /\ jobCache.fin = "none"
        /\ pass' = Wants([jobCache EXCEPT !.fin = "set"])
     \/ jobCache.fin = "set" /\ Switch
  /\ Reads

\* Get of the pod of a job being deleted: the finalizer, and with it the job,
\* goes when the pod is not found; a pod that is ending is waited for.
Finalize ==
  /\ At("finalize")
  /\ \/ podCache.state = "Absent" /\ Writes(NoJob)
     \/ podCache.state # "Absent" /\ podCache.ending /\ Ends
     \/ /\ podCache.state # "Absent" /\ ~podCache.ending
        /\ GoesOn([pass EXCEPT !.pc = "deletePod"])
  /\ Reads

\* getInferenceJobPodStatusByPod.
PodStatus(p) ==
  IF p.state = "Absent" \/ p.ending THEN "NotExist"
  ELSE IF p.state = "Ready" THEN "Ready"
  ELSE IF p.state = "Crashed" THEN "Crash"
  ELSE "NotReady"

\* The phase that follows from the pod while restarts are left.
LivePhase(phase, status) ==
  IF status = "Ready" THEN "Running"
  ELSE IF status = "NotReady" \/ (status = "NotExist" /\ phase = "Starting") THEN phase
  ELSE "Restarting"

\* Mutant of NextPhase: the last restart allowed is one too early.
GivesUpOneEarly(phase, p) ==
  IF \/ p.restarts >= MaxRestarts
     \/ PodStatus(p) = "Crash" /\ p.restarts + 1 >= MaxRestarts
  THEN "Failing" ELSE LivePhase(phase, PodStatus(p))

\* Mutant of NextPhase: only a container that is down right now is looked at.
OverlooksQuickRestarts(phase, p) ==
  IF PodStatus(p) = "Crash" /\ p.restarts >= MaxRestarts
  THEN "Failing" ELSE LivePhase(phase, PodStatus(p))

\* getInferenceJobNextPhase: given up above MaxRestarts, also when the
\* container is up again, and at the limit when it is down once more.
NextPhase(phase, p) ==
  IF \/ p.restarts > MaxRestarts
     \/ PodStatus(p) = "Crash" /\ p.restarts >= MaxRestarts
  THEN "Failing" ELSE LivePhase(phase, PodStatus(p))

\* Mutant of HasTerminated: a container that is up again has not failed.
IsDown(p) == p.state = "Crashed"

\* The pod shows how its container ended, this time or the last.
HasTerminated(p) == p.state = "Crashed" \/ p.restarts > 0

\* The job as the pass sees it after looking at the pod.
Judged(v, p) ==
  LET judged == [v EXCEPT !.phase = NextPhase(v.phase, p)]
  IN  IF judged.phase = "Failing" /\ HasTerminated(p)
      THEN [judged EXCEPT !.failed = TRUE] ELSE judged

\* Get of the pod of an active job; when it is not found one is made.
Observe ==
  /\ At("observe")
  /\ IF podCache.state = "Absent"
     THEN GoesOn([pass EXCEPT !.pc = "ensure",
                              !.next = Judged(pass.job, podCache)])
     ELSE Writes(Judged(pass.job, podCache))
  /\ Reads

\* buildInferencePod, with the job as its owner.
NewPod(v) ==
  [state |-> "Pending", restarts |-> 0, ending |-> FALSE, owner |-> v.life]

\* ensureWorkerPod, then the status.
EnsurePod ==
  /\ At("ensure")
  /\ \/ podCache.state # "Absent" /\ UNCHANGED podVars /\ Writes(pass.next)
     \/ podCache.state = "Absent" /\ pod.state # "Absent" /\ UNCHANGED podVars /\ Errs
     \/ /\ podCache.state = "Absent" /\ pod.state = "Absent"
        /\ PutPod(NewPod(pass.job))
        /\ Writes(pass.next)
  /\ UNCHANGED jobVars /\ Bystanders

\* Get of the pod of a Failing job: Failed when it is gone.
Clear ==
  /\ At("clear")
  /\ IF podCache.state = "Absent"
     THEN Writes([pass.job EXCEPT !.phase = "Failed"])
     ELSE GoesOn([pass EXCEPT !.pc = "deletePod"])
  /\ Reads

\* What deleting a pod may leave: one not yet bound to a node goes at once, one
\* that is bound is given time to end.
Deleted(p) ==
  {[p EXCEPT !.ending = TRUE]} \cup (IF p.state = "Pending" THEN {NoPod} ELSE {})

Delete == \E p \in Deleted(pod) : PutPod(p)

\* Delete by name: whatever pod has the name now.
DeletePod ==
  /\ At("deletePod")
  /\ \/ pod.state = "Absent" /\ UNCHANGED podVars /\ Errs
     \/ pod.state # "Absent" /\ pod.ending /\ UNCHANGED podVars /\ Ends
     \/ pod.state # "Absent" /\ ~pod.ending /\ Delete /\ Ends
  /\ UNCHANGED jobVars /\ Bystanders

\* Mutant of WriteJob: written whatever was written in the meantime.
WritesBlindly ==
  /\ At("write")
  /\ PutJob(pass.next) /\ Ends
  /\ UNCHANGED podVars /\ Bystanders

\* Update and Status().Update of the job.
WriteJob ==
  /\ At("write")
  /\ IF pass.current THEN PutJob(pass.next) /\ Ends
     ELSE UNCHANGED jobVars /\ Errs
  /\ UNCHANGED podVars /\ Bystanders

Reconcile ==
  \/ Begin \/ Finalize \/ Observe \/ EnsurePod \/ Clear \/ DeletePod \/ WriteJob

-----------------------------------------------------------------------------
(* Informers, failures of the manager and of its calls *)

DeliverJob ==
  /\ jobWatch # << >>
  /\ jobCache' = Head(jobWatch) /\ jobWatch' = Tail(jobWatch)
  /\ todo' = TRUE
  /\ UNCHANGED <<job, podVars, pass>> /\ Bystanders

\* Mutant of DeliverPod: the controller does not own its pods.
UnwatchedPod ==
  /\ podWatch # << >>
  /\ podCache' = Head(podWatch) /\ podWatch' = Tail(podWatch)
  /\ todo' = todo
  /\ UNCHANGED <<jobVars, pod, pass>> /\ Bystanders

\* An event of the pod wakes the job of the owner's name.
DeliverPod ==
  /\ podWatch # << >>
  /\ podCache' = Head(podWatch) /\ podWatch' = Tail(podWatch)
  /\ todo' = TRUE
  /\ UNCHANGED <<jobVars, pod, pass>> /\ Bystanders

\* The queue changed, and wakes the job if it is Queued in the cache.
QueueEvent ==
  /\ jobCache.phase = "Queued" /\ ~todo
  /\ todo' = TRUE
  /\ UNCHANGED <<jobVars, podVars, pass>> /\ Bystanders

Crash ==
  /\ Spend("crash")
  /\ jobCache' = job /\ jobWatch' = << >>
  /\ podCache' = pod /\ podWatch' = << >>
  /\ pass' = Idle /\ todo' = TRUE
  /\ UNCHANGED <<job, pod, crashes>>

\* A call returns an error that has nothing to do with the objects.
ApiError ==
  /\ ~At("idle")
  /\ Spend("apiError")
  /\ Errs
  /\ UNCHANGED <<jobVars, podVars, crashes>>

-----------------------------------------------------------------------------
(* Users, kubelet and garbage collector: not part of this repository *)

\* Whoever writes the job outdates the copy a pass works on.
Outdates == pass' = [pass EXCEPT !.current = FALSE] /\ todo' = todo

NewJob(life) == [phase |-> "New", fin |-> "none", failed |-> FALSE, life |-> life]

CreateJob ==
  /\ job.phase = "Absent"
  /\ Spend("create")
  /\ PutJob(NewJob(spent["create"] + 1))
  /\ Outdates
  /\ UNCHANGED <<podVars, crashes>>

\* The finalizer keeps the object, marked as being deleted.
DeleteJob ==
  /\ job.phase # "Absent" /\ job.fin # "deleting"
  /\ Spend("delete")
  /\ PutJob(IF job.fin = "set" THEN [job EXCEPT !.fin = "deleting"] ELSE NoJob)
  /\ Outdates
  /\ UNCHANGED <<podVars, crashes>>

World == UNCHANGED <<jobVars, todo, pass>>

Alive == pod.state # "Absent" /\ ~pod.ending

PodStarts ==
  /\ pod.state = "Pending"
  /\ PutPod([pod EXCEPT !.state = "Unready"])
  /\ World /\ Bystanders

PodReady ==
  /\ Alive /\ pod.state = "Unready"
  /\ PutPod([pod EXCEPT !.state = "Ready"])
  /\ World /\ Bystanders

\* The readiness probe fails; the container runs on.
PodUnready ==
  /\ Alive /\ pod.state = "Ready"
  /\ Spend("unready")
  /\ PutPod([pod EXCEPT !.state = "Unready"])
  /\ World /\ UNCHANGED crashes

\* The container exits, or its liveness or startup probe fails.
PodCrashes ==
  /\ Alive /\ pod.state \in {"Unready", "Ready"}
  /\ Spend("podCrash")
  /\ PutPod([pod EXCEPT !.state = "Crashed"])
  /\ crashes' = [crashes EXCEPT ![pod.owner] =
                   IF @ > pod.restarts THEN @ ELSE pod.restarts + 1]
  /\ World

\* RestartPolicyAlways: the kubelet starts it again in place.
Restarted(p) ==
  [state |-> "Unready", restarts |-> p.restarts + 1, ending |-> p.ending, owner |-> p.owner]

PodRestarts ==
  /\ Alive /\ pod.state = "Crashed"
  /\ PutPod(Restarted(pod))
  /\ World /\ Bystanders

PodEnds ==
  /\ pod.ending
  /\ PutPod(NoPod)
  /\ World /\ Bystanders

\* Somebody deletes the pod: a drained node, an operator.
Evict ==
  /\ Alive
  /\ Spend("eviction")
  /\ Delete
  /\ World /\ UNCHANGED crashes

\* A pod whose owner is gone is collected.
CollectGarbage ==
  /\ Alive
  /\ job.phase = "Absent" \/ job.life # pod.owner
  /\ Delete
  /\ World /\ Bystanders

Environment ==
  \/ CreateJob \/ DeleteJob
  \/ PodStarts \/ PodReady \/ PodUnready \/ PodCrashes \/ PodRestarts
  \/ PodEnds \/ Evict \/ CollectGarbage

Next ==
  \/ Reconcile
  \/ DeliverJob \/ DeliverPod \/ QueueEvent
  \/ Crash \/ ApiError
  \/ Environment

Spec == Init /\ [][Next]_vars

\* A Queued job is seen again and again by the queue, and admitted in the end.
AdmittingPass == Begin /\ pass'.next.phase = "Starting"

\* The manager works, watches deliver, the kubelet starts, restarts and ends
\* pods, a server that is up answers its probe in the end, and garbage is
\* collected.  No crash, eviction, failed probe or user is ever fair.
Fairness ==
  /\ WF_vars(Reconcile)
  /\ WF_vars(DeliverJob) /\ WF_vars(DeliverPod)
  /\ WF_vars(QueueEvent) /\ SF_vars(AdmittingPass)
  /\ WF_vars(PodStarts \/ PodReady \/ PodRestarts \/ PodEnds)
  /\ WF_vars(CollectGarbage)

FairSpec == Spec /\ Fairness

-----------------------------------------------------------------------------
(* Properties *)

\* The variables have their types.
TypeOK ==
  /\ job \in JobVersion /\ jobCache \in JobVersion /\ jobWatch \in Seq(JobVersion)
  /\ pod \in PodVersion /\ podCache \in PodVersion /\ podWatch \in Seq(PodVersion)
  /\ todo \in BOOLEAN
  /\ pass \in Passes
  /\ spent \in [Mishaps -> Nat] /\ \A m \in Mishaps : spent[m] <= Budget[m]
  /\ crashes \in [Lives -> Nat]

\* What happens to status and finalizer is what the abstract life cycle allows.
Lifecycle == INSTANCE InferenceLifecycle WITH phase <- job.phase, fin <- job.fin

Refines == Lifecycle!Spec

\* A job is Failed only once its pod is confirmed gone, so that the quota its
\* entry gives back is really free.
FailedHasNoPod == job.phase = "Failed" => pod.state = "Absent"

\* A job that was given up says how its container ended.
FailureIsKnown == job.phase \in {"Failing", "Failed"} => job.failed

\* No job is given up before one pod crashed more often than MaxRestarts,
\* however its restarts and their reports are interleaved.
NotGivenUpEarly ==
  job.phase \in {"Failing", "Failed"} => \E l \in Lives : crashes[l] > MaxRestarts

Quiescent ==
  /\ ~todo /\ At("idle")
  /\ jobWatch = << >> /\ podWatch = << >>

\* When everything is delivered and served, phase and pod agree: an active job
\* has its pod, one that has not used up its restarts; the phase follows a
\* container that is down or ready, while one that is merely not ready leaves
\* it alone (RunningMeansReady is about that case); what must go is going; and
\* no event that matters was lost.
SettledServing ==
  Quiescent =>
    /\ job.fin = "set" /\ job.phase \in InferenceActive =>
         /\ pod.state # "Absent"
         /\ pod.restarts <= MaxRestarts
         /\ pod.ending => job.phase # "Running"
         /\ ~pod.ending =>
              /\ pod.state = "Crashed" => pod.restarts < MaxRestarts /\ job.phase = "Restarting"
              /\ pod.state = "Ready" => job.phase = "Running"
    /\ job.fin = "deleting" \/ job.phase = "Failing" => pod.ending

\* When everything is delivered and served, a job is Running only if its pod is
\* Ready, as the API says of the readiness probe.  The code leaves the phase
\* alone when a pod is, or is made anew and is, not ready.
RunningMeansReady ==
  Quiescent /\ job.fin = "set" /\ job.phase = "Running" => pod.state = "Ready"

\* A job past admission comes up, is given up, or goes.
ComesUp ==
  job.phase \in {"Starting", "Restarting"}
    ~> (job.phase \notin {"Starting", "Restarting"} \/ job.fin = "deleting")

\* A job that is Failing, or being deleted, gets there.
Concludes ==
  (job.phase = "Failing" \/ job.fin = "deleting")
    ~> (job.phase # "Failing" /\ job.fin # "deleting")

=========================================================================
