-------------------------- MODULE TrainWorkers --------------------------
(***************************************************************************)
(* One TrainJob past admission, call by call: the passes of the TrainJob   *)
(* reconciler over its master service, its pod groups and its worker pods, *)
(* against an API server, informer caches that lag behind it, the          *)
(* scheduler, the kubelets and a job that preempts it.                     *)
(*                                                                         *)
(* A pass makes one step per call.  Gets and Lists read the caches; writes *)
(* go to the API server, which refuses to create what exists, to update    *)
(* from an outdated copy, and what the manager's role does not allow.      *)
(***************************************************************************)
EXTENDS JobPhases, Integers, Sequences, FiniteSets, Functions

CONSTANTS
  WorldSize,    \* Spec.WorldSize
  RetryLimit,   \* Spec.RetryLimit
  RivalKind,    \* the kind of the preempting job
  Rights,       \* the update verbs the manager's role grants
  MaxRequeues,  \* bound: how often the job is requeued
  Budget,       \* bound: how often each kind of mishap happens
  Total,        \* bound: how many mishaps happen altogether
  MaxLag        \* bound: how many versions of an object wait to be delivered

Mishaps == {"crash", "apiError", "eviction", "workerFailure", "gangTimeout",
            "preemption", "rival", "plan"}

ASSUME WorkersAssumption ==
  /\ WorldSize \in Nat /\ RetryLimit \in Nat /\ MaxRequeues \in Nat
  /\ RivalKind \in {"TrainJob", "InferenceJob"}
  /\ Rights \subseteq {"services", "podgroups/status"}
  /\ Budget \in [Mishaps -> Nat] /\ Total \in Nat /\ MaxLag \in Nat

VARIABLES
  store,   \* API server: the current version of every object
  cache,   \* informer caches: the version a Get or List sees
  watch,   \* per object, the versions written but not yet delivered
  todo,    \* whether the job's key is in the work queue
  pass,    \* the pass the worker is in
  spent    \* how often each mishap has happened

objects == <<store, cache, watch>>
vars == <<objects, todo, pass, spent>>

-----------------------------------------------------------------------------
(* Objects and their versions *)

Attempts == 0 .. RetryLimit
Ranks == 0 .. WorldSize - 1

TheJob == <<"job">>
Service == <<"service">>
Rival == <<"rival">>
Group(a) == <<"group", a>>
Pod(a, r) == <<"pod", a, r>>

Groups == {Group(a) : a \in Attempts}
Workers(a) == {Pod(a, r) : r \in Ranks}
Pods == UNION {Workers(a) : a \in Attempts}
Objects == {TheJob, Service, Rival} \cup Groups \cup Pods

JobVersion == [phase : TrainPhases, attempt : Attempts, rc : 0 .. MaxRequeues]

NoService == [attempt |-> -1]
ServiceVersion == [attempt : Attempts \cup {-1}]

\* The pod group: given up by the scheduler, preempted by the rival, and
\* whether it still carries the plan of a preemption in its own favour.
GroupVersion == [exists : BOOLEAN, failed : BOOLEAN, preempted : BOOLEAN,
                 plan : BOOLEAN]
NoGroup == [exists |-> FALSE, failed |-> FALSE, preempted |-> FALSE, plan |-> FALSE]
NewGroup == [NoGroup EXCEPT !.exists = TRUE]

\* A worker pod, "ending" once its deletion is requested.
PodVersion == [phase : {"Absent", "Pending", "Running", "Succeeded", "Failed"},
               ending : BOOLEAN]
NoPod == [phase |-> "Absent", ending |-> FALSE]

\* The preempting job.  "Starting" stands for every phase in which it still
\* needs the place it was given, as Retrying, Preempted or Restarting.  A
\* TrainJob may succeed, an InferenceJob never does.
RivalPhases ==
  {"Starting", "Running", "Failed", "Absent"}
    \cup (IF RivalKind = "TrainJob" THEN {"Succeeded"} ELSE {})
RivalVersion == [phase : RivalPhases]

Versions(o) ==
  IF o = TheJob THEN JobVersion
  ELSE IF o = Service THEN ServiceVersion
  ELSE IF o = Rival THEN RivalVersion
  ELSE IF o \in Groups THEN GroupVersion
  ELSE PodVersion

Job == store[TheJob]

\* A new version of o is stored.
Put(o, v) ==
  /\ Len(watch[o]) < MaxLag
  /\ store' = [store EXCEPT ![o] = v]
  /\ watch' = [watch EXCEPT ![o] = Append(@, v)]
  /\ cache' = cache

\* The cached copy of o is the stored version.
UpToDate(o) == watch[o] = << >>

Spend(mishap) ==
  /\ spent[mishap] < Budget[mishap] /\ SumFunction(spent) < Total
  /\ spent' = [spent EXCEPT ![mishap] = @ + 1]

-----------------------------------------------------------------------------
(* A pass *)

\* Where the pass is, the copy of the job it works on and whether that copy
\* was the stored version, the rank it has come to, the pods it still has to
\* delete and the status it will write.
Passes ==
  [pc : {"idle", "service", "group", "pods", "list", "sweep", "delete",
         "release", "dropGroup", "write"},
   job : JobVersion, current : BOOLEAN, rank : 0 .. WorldSize,
   doomed : SUBSET Pods, next : JobVersion]

QueuedJob == [phase |-> "Queued", attempt |-> 0, rc |-> 0]

Idle == [pc |-> "idle", job |-> QueuedJob, current |-> FALSE, rank |-> 0,
         doomed |-> {}, next |-> QueuedJob]

Init ==
  /\ store = [o \in Objects |->
                IF o = TheJob THEN QueuedJob
                ELSE IF o = Service THEN NoService
                ELSE IF o = Rival THEN [phase |-> "Starting"]
                ELSE IF o \in Groups THEN NoGroup ELSE NoPod]
  /\ cache = store
  /\ watch = [o \in Objects |-> << >>]
  /\ todo = TRUE
  /\ pass = Idle
  /\ spent = [m \in Mishaps |-> 0]

\* How a call ends: the pass goes on, is over, or has met an error, for which
\* the key is retried.
GoesOn(p) == pass' = p /\ todo' = todo
Ends == pass' = Idle /\ todo' = todo
Errs == pass' = Idle /\ todo' = TRUE

Reads == UNCHANGED <<objects, spent>>

At(pc) == pass.pc = pc

\* The status the pass writes at its end.
Writes(phase, attempt, rc) ==
  [pass EXCEPT !.pc = "write",
               !.next = [phase |-> phase, attempt |-> attempt, rc |-> rc]]

\* The same after deleting the worker pods of the attempt.
Sweeps(phase, attempt) ==
  [Writes(phase, attempt, pass.job.rc) EXCEPT !.pc = "sweep"]

-----------------------------------------------------------------------------
(* Reconcile *)

\* Get of the job, and the switch over its phase.
Begin ==
  /\ At("idle") /\ todo
  /\ todo' = FALSE
  /\ LET job == cache[TheJob]
         begun(pc) == [Idle EXCEPT !.pc = pc, !.job = job,
                                   !.current = UpToDate(TheJob)]
         admitted == [begun("write") EXCEPT
                        !.next = [job EXCEPT !.phase = "Starting"]]
     IN  \/ job.phase \in TrainTerminal \cup {"Queued"} /\ pass' = Idle
         \/ job.phase = "Queued" /\ pass' = admitted
         \/ job.phase \in TrainActive /\ pass' = begun("service")
         \/ job.phase = "Preempted" /\ pass' = begun("release")
  /\ Reads

\* ensureMasterService: the service of the cached view is created, left alone,
\* or turned to the workers of the current attempt.
CreateService ==
  /\ At("service") /\ cache[Service] = NoService
  /\ IF store[Service] = NoService
     THEN Put(Service, [attempt |-> pass.job.attempt])
            /\ GoesOn([pass EXCEPT !.pc = "group"])
     ELSE UNCHANGED objects /\ Errs
  /\ UNCHANGED spent

\* Mutant: any service will do.
KeepsAnyService ==
  /\ At("service") /\ cache[Service] # NoService
  /\ GoesOn([pass EXCEPT !.pc = "group"])
  /\ Reads

KeepService ==
  /\ At("service") /\ cache[Service].attempt = pass.job.attempt
  /\ GoesOn([pass EXCEPT !.pc = "group"])
  /\ Reads

\* Mutant: the update lacks the version it is based on, and is refused.
TurnIsRefused ==
  /\ At("service") /\ cache[Service].attempt \notin {-1, pass.job.attempt}
  /\ Errs
  /\ Reads

TurnService ==
  /\ At("service") /\ cache[Service].attempt \notin {-1, pass.job.attempt}
  /\ IF "services" \in Rights /\ UpToDate(Service)
     THEN Put(Service, [attempt |-> pass.job.attempt])
            /\ GoesOn([pass EXCEPT !.pc = "group"])
     ELSE UNCHANGED objects /\ Errs
  /\ UNCHANGED spent

\* ensureWorkerPodGroup.
OwnGroup == Group(pass.job.attempt)

CreateGroup ==
  /\ At("group") /\ ~cache[OwnGroup].exists
  /\ IF store[OwnGroup].exists
     THEN UNCHANGED objects /\ Errs
     ELSE Put(OwnGroup, NewGroup) /\ GoesOn([pass EXCEPT !.pc = "pods"])
  /\ UNCHANGED spent

FindsGroup == At("group") /\ cache[OwnGroup].exists

GangTimedOut ==
  pass.job.phase = "Starting" /\ cache[OwnGroup].failed

WasPreempted ==
  pass.job.phase = "Running" /\ cache[OwnGroup].preempted

\* Mutant of HasUsedPlan: only the plan of a gang that is coming up is used.
PlanOfStarting ==
  /\ pass.job.phase = "Starting"
  /\ ~cache[OwnGroup].preempted /\ cache[OwnGroup].plan

HasUsedPlan ==
  /\ pass.job.phase = "Running"
  /\ ~cache[OwnGroup].preempted /\ cache[OwnGroup].plan

FailGang ==
  /\ FindsGroup /\ GangTimedOut
  /\ GoesOn(Sweeps("Failed", pass.job.attempt))
  /\ Reads

YieldToRival ==
  /\ FindsGroup /\ WasPreempted
  /\ GoesOn(Sweeps("Preempted", pass.job.attempt))
  /\ Reads

ClearPlan ==
  /\ FindsGroup /\ HasUsedPlan
  /\ IF "podgroups/status" \in Rights /\ UpToDate(OwnGroup)
     THEN Put(OwnGroup, [cache[OwnGroup] EXCEPT !.plan = FALSE])
            /\ GoesOn([pass EXCEPT !.pc = "pods"])
     ELSE UNCHANGED objects /\ Errs
  /\ UNCHANGED spent

KeepGroup ==
  /\ FindsGroup
  /\ ~GangTimedOut /\ ~WasPreempted /\ ~HasUsedPlan
  /\ GoesOn([pass EXCEPT !.pc = "pods"])
  /\ Reads

\* ensureWorkerPods, one rank at a time.
ThisPod == Pod(pass.job.attempt, pass.rank)

PastRank == [pass EXCEPT !.rank = @ + 1]

EnsurePod ==
  /\ At("pods") /\ pass.rank < WorldSize
  /\ IF cache[ThisPod].phase # "Absent" THEN UNCHANGED objects /\ GoesOn(PastRank)
     ELSE IF store[ThisPod].phase # "Absent" THEN UNCHANGED objects /\ Errs
     ELSE /\ Put(ThisPod, [phase |-> "Pending", ending |-> FALSE])
          /\ GoesOn(PastRank)
  /\ UNCHANGED spent

AllEnsured ==
  /\ At("pods") /\ pass.rank = WorldSize
  /\ GoesOn([pass EXCEPT !.pc = "list"])
  /\ Reads

\* The worker pods of the attempt a List returns.  Pods that are being deleted
\* are among them.
Listed(a) == {p \in Workers(a) : cache[p].phase # "Absent"}

InPhase(a, phase) == {p \in Listed(a) : cache[p].phase = phase}

nextPhase(a) ==
  LET succeeded == Cardinality(InPhase(a, "Succeeded"))
      running   == Cardinality(InPhase(a, "Running"))
  IN  IF succeeded = WorldSize THEN "Succeeded"
      ELSE IF Cardinality(Listed(a)) < WorldSize THEN "Starting"
      ELSE IF running + succeeded < WorldSize THEN "Starting"
      ELSE "Running"

\* Mutant: one attempt too many.
RetriesOnceMore(a) == a <= RetryLimit

shouldRetry(a) == a < RetryLimit

\* aggregateWorkerStatus, then handleFailedAttempt or applyWorkerStatus.
Aggregate ==
  /\ At("list")
  /\ LET a == pass.job.attempt
         failed == InPhase(a, "Failed") # {}
     IN  \/ /\ failed /\ shouldRetry(a)
            /\ GoesOn(Sweeps("Retrying", a + 1))
         \/ /\ failed /\ ~shouldRetry(a)
            /\ GoesOn(Sweeps("Failed", a))
         \/ /\ ~failed /\ nextPhase(a) # pass.job.phase
            /\ GoesOn(Writes(nextPhase(a), a, pass.job.rc))
         \/ /\ ~failed /\ nextPhase(a) = pass.job.phase
            /\ Ends
  /\ Reads

\* deleteWorkerPodsForAttempt: a List of its own, then one Delete per pod.
ListDoomed ==
  /\ At("sweep")
  /\ GoesOn([pass EXCEPT !.pc = "delete", !.doomed = Listed(pass.job.attempt)])
  /\ Reads

\* What deleting a pod may leave: a finished pod, and one not yet bound to a
\* node, goes at once; one that is bound is given time to end.
Deleted(v) ==
  IF v.phase \in {"Absent", "Succeeded", "Failed"} THEN {NoPod}
  ELSE {[v EXCEPT !.ending = TRUE]}
         \cup (IF v.phase = "Pending" /\ ~v.ending THEN {NoPod} ELSE {})

DeletePod ==
  /\ At("delete")
  /\ \E p \in pass.doomed :
       /\ \E v \in Deleted(store[p]) :
            IF v = store[p] THEN UNCHANGED objects ELSE Put(p, v)
       /\ GoesOn([pass EXCEPT !.doomed = @ \ {p}])
  /\ UNCHANGED spent

AllDeleted ==
  /\ At("delete") /\ pass.doomed = {}
  /\ GoesOn([pass EXCEPT !.pc = "write"])
  /\ Reads

\* Mutant: a rival that is not found is an error like any other.
ReleasesUnlessGone(rival) ==
  rival.phase \in (IF RivalKind = "TrainJob" THEN {"Failed", "Running"} ELSE {"Failed"})

\* shouldVictimTrainJobRequeue: a running TrainJob has taken what it needed;
\* one that is gone or has failed needs nothing any more.
Releases(rival) ==
  \/ rival.phase \in {"Absent", "Failed"}
  \/ RivalKind = "TrainJob" /\ rival.phase = "Running"

MayReturn == ~cache[OwnGroup].exists \/ Releases(cache[Rival])

\* The group's PreemptedBy is a pointer, nil unless the gang was preempted.
NilPreemptor == cache[OwnGroup].exists /\ ~cache[OwnGroup].preempted

\* A nil preemptor panics; the manager recovers, and retries.
CheckRival ==
  /\ At("release")
  /\ \/ NilPreemptor /\ Errs
     \/ ~NilPreemptor /\ MayReturn /\ pass.job.rc < MaxRequeues
          /\ GoesOn([pass EXCEPT !.pc = "dropGroup"])
     \/ ~NilPreemptor /\ (MayReturn => pass.job.rc = MaxRequeues) /\ Ends
  /\ Reads

\* deletePodGroup, of what the cache shows.
DropGroup ==
  /\ At("dropGroup")
  /\ IF cache[OwnGroup].exists /\ store[OwnGroup].exists
     THEN Put(OwnGroup, NoGroup) ELSE UNCHANGED objects
  /\ GoesOn(Writes("Queued", pass.job.attempt, pass.job.rc + 1))
  /\ UNCHANGED spent

\* Mutant: the status is written whatever was written in the meantime.
WritesBlindly ==
  /\ At("write")
  /\ Put(TheJob, pass.next) /\ Ends
  /\ UNCHANGED spent

\* Status().Update of the job.
WriteStatus ==
  /\ At("write")
  /\ IF pass.current THEN Put(TheJob, pass.next) /\ Ends
     ELSE UNCHANGED objects /\ Errs
  /\ UNCHANGED spent

Reconcile ==
  \/ Begin
  \/ CreateService \/ KeepService \/ TurnService
  \/ CreateGroup \/ FailGang \/ YieldToRival \/ ClearPlan \/ KeepGroup
  \/ EnsurePod \/ AllEnsured \/ Aggregate
  \/ ListDoomed \/ DeletePod \/ AllDeleted
  \/ CheckRival \/ DropGroup \/ WriteStatus

-----------------------------------------------------------------------------
(* Informers, failures of the manager and of its calls *)

\* An event of the job, or of a pod group or pod it owns, wakes it; an event
\* of the rival does when the group it preempted is in the cache; the service
\* is not watched.
WakesWithoutPods(o) ==   \* mutant: pods are not watched
  \/ o \in {TheJob} \cup Groups
  \/ o = Rival /\ \E g \in Groups : cache[g].preempted

WakesWithoutRival(o) ==  \* mutant: rivals are not watched
  o \in {TheJob} \cup Groups \cup Pods

WakesWithoutGroups(o) == \* mutant: pod groups are not watched
  \/ o \in {TheJob} \cup Pods
  \/ o = Rival /\ \E g \in Groups : cache[g].preempted

Wakes(o) ==
  \/ o \in {TheJob} \cup Groups \cup Pods
  \/ o = Rival /\ \E g \in Groups : cache[g].preempted

Deliver(o) ==
  /\ watch[o] # << >>
  /\ cache' = [cache EXCEPT ![o] = Head(watch[o])]
  /\ watch' = [watch EXCEPT ![o] = Tail(@)]
  /\ todo' = (todo \/ Wakes(o))
  /\ UNCHANGED <<store, pass, spent>>

\* The queue changed, and wakes the jobs that are Queued in the cache.
QueueEvent ==
  /\ cache[TheJob].phase = "Queued" /\ ~todo
  /\ todo' = TRUE
  /\ UNCHANGED <<objects, pass, spent>>

Crash ==
  /\ Spend("crash")
  /\ cache' = store /\ watch' = [o \in Objects |-> << >>]
  /\ pass' = Idle /\ todo' = TRUE
  /\ UNCHANGED store

\* A call returns an error that has nothing to do with the objects.
ApiError ==
  /\ ~At("idle")
  /\ Spend("apiError")
  /\ Errs
  /\ UNCHANGED objects

-----------------------------------------------------------------------------
(* Scheduler and kubelets, which are not part of this repository; the rival *)

World == UNCHANGED <<todo, pass>>

\* The scheduler gives up a gang that did not come up in time.
GangTimeout ==
  /\ \E a \in Attempts :
       /\ store[Group(a)].exists /\ ~store[Group(a)].failed
       /\ \E p \in Workers(a) : store[p].phase \in {"Absent", "Pending"}
       /\ Put(Group(a), [store[Group(a)] EXCEPT !.failed = TRUE])
  /\ Spend("gangTimeout")
  /\ World

\* The scheduler marks the gang as victim of the rival.
PreemptGang ==
  /\ store[Rival].phase = "Starting"
  /\ \E a \in Attempts :
       /\ store[Group(a)].exists /\ ~store[Group(a)].preempted
       /\ \E p \in Workers(a) : store[p].phase = "Running"
       /\ Put(Group(a), [store[Group(a)] EXCEPT !.preempted = TRUE])
  /\ Spend("preemption")
  /\ World

\* The scheduler notes in the group which nodes were cleared for it.
PlanGang ==
  /\ \E a \in Attempts :
       /\ store[Group(a)].exists /\ ~store[Group(a)].plan
       /\ Put(Group(a), [store[Group(a)] EXCEPT !.plan = TRUE])
  /\ Spend("plan")
  /\ World

\* The rival, served by its own reconciler, comes up, loses its workers,
\* finishes, is deleted, or is made anew under its name.
RivalMoves ==
  /\ \E phase \in RivalPhases \ {store[Rival].phase} :
       /\ \/ phase = "Absent"
          \/ store[Rival].phase = "Absent" /\ phase = "Starting"
          \/ store[Rival].phase \in {"Starting", "Running"}
       /\ Put(Rival, [phase |-> phase])
  /\ Spend("rival")
  /\ World

PodStarts ==
  /\ \E p \in Pods :
       /\ store[p].phase = "Pending"
       /\ Put(p, [store[p] EXCEPT !.phase = "Running"])
  /\ World /\ UNCHANGED spent

PodSucceeds ==
  /\ \E p \in Pods :
       /\ store[p].phase = "Running"
       /\ Put(p, [store[p] EXCEPT !.phase = "Succeeded"])
  /\ World /\ UNCHANGED spent

\* A worker fails by itself, or because it was told to end.
PodFails ==
  /\ \E p \in Pods :
       /\ store[p].phase = "Running"
       /\ Put(p, [store[p] EXCEPT !.phase = "Failed"])
       /\ \/ store[p].ending /\ UNCHANGED spent
          \/ ~store[p].ending /\ Spend("workerFailure")
  /\ World

\* A pod being deleted is gone.
PodEnds ==
  /\ \E p \in Pods :
       /\ store[p].ending
       /\ Put(p, NoPod)
  /\ World /\ UNCHANGED spent

\* Somebody else deletes a pod: a drained node, an operator.
Evict ==
  /\ \E p \in Pods : \E v \in Deleted(store[p]) \ {store[p]} : Put(p, v)
  /\ Spend("eviction")
  /\ World

Environment ==
  \/ GangTimeout \/ PreemptGang \/ PlanGang \/ RivalMoves
  \/ PodStarts \/ PodSucceeds \/ PodFails \/ PodEnds \/ Evict

Next ==
  \/ Reconcile
  \/ (\E o \in Objects : Deliver(o)) \/ QueueEvent
  \/ Crash \/ ApiError
  \/ Environment

Spec == Init /\ [][Next]_vars

\* A Queued job is seen again and again by the queue, and admitted in the end.
AdmittingPass == Begin /\ pass'.pc = "write"

\* The manager works, watches deliver, and pods come up and end.  Nothing makes
\* the rival move, nor a worker succeed before it is told to end.
Fairness ==
  /\ WF_vars(Reconcile)
  /\ \A o \in Objects : WF_vars(Deliver(o))
  /\ WF_vars(QueueEvent) /\ SF_vars(AdmittingPass)
  /\ WF_vars(PodStarts) /\ WF_vars(PodSucceeds) /\ WF_vars(PodEnds)

FairSpec == Spec /\ Fairness

-----------------------------------------------------------------------------
(* Properties *)

\* The objects, and what the caches hold of them, have their types.
ObjectsOK ==
  /\ DOMAIN store = Objects /\ DOMAIN cache = Objects /\ DOMAIN watch = Objects
  /\ \A o \in Objects : /\ store[o] \in Versions(o) /\ cache[o] \in Versions(o)
                        /\ watch[o] \in Seq(Versions(o))

\* The variables have their types.
TypeOK ==
  /\ ObjectsOK
  /\ todo \in BOOLEAN
  /\ pass \in Passes
  /\ spent \in [Mishaps -> Nat]

\* What happens to the status is what the abstract life cycle allows.
Lifecycle == INSTANCE TrainJobLifecycle
  WITH phase <- Job.phase, attempt <- Job.attempt, requeueCount <- Job.rc

Refines == Lifecycle!Spec

\* A worker is only ever created while the master service selects the rank 0
\* of its attempt: none starts on an address that leads to another attempt.  It
\* says nothing of old workers, which may go on ending or be left behind.
ServiceFirst ==
  [][\A a \in Attempts, r \in Ranks :
       store[Pod(a, r)].phase = "Absent" /\ store'[Pod(a, r)].phase # "Absent"
         => store[Service].attempt = a]_vars

\* A pass that asks for the rival of a preempted job finds its name in the
\* group: the PreemptedBy pointer it follows is never nil.
NoNilPreemptor == At("release") => ~NilPreemptor

Quiescent ==
  /\ ~todo /\ At("idle")
  /\ \A o \in Objects : watch[o] = << >>

\* When everything is delivered and served, the status tells the truth: an
\* active job has all workers of its attempt, none of them failed, and is
\* Running exactly if all have come up and some still work; a preempted job has
\* a rival to wait for.  No event that matters is lost on the way.
SettledStatus ==
  Quiescent =>
    /\ Job.phase \in TrainActive =>
         LET phases == {store[p].phase : p \in Workers(Job.attempt)}
         IN  /\ phases \subseteq {"Pending", "Running", "Succeeded"}
             /\ Job.phase = IF "Pending" \in phases THEN "Starting" ELSE "Running"
             /\ phases # {"Succeeded"}
    /\ Job.phase = "Preempted" /\ Job.rc < MaxRequeues =>
         store[Group(Job.attempt)].exists /\ ~Releases(store[Rival])

\* When everything is delivered and served, the service selects the attempt
\* whose workers run, and what the scheduler has said of the group has been
\* acted upon: a gang that was given up is not still coming up, one that was
\* preempted is not still running, and none that runs keeps the plan it was
\* placed by, which would bind a worker that is placed again.
SettledGroup ==
  Quiescent /\ Job.phase \in TrainActive =>
    LET group == store[Group(Job.attempt)]
    IN  /\ store[Service].attempt = Job.attempt
        /\ group.exists
        /\ Job.phase = "Starting" => ~group.failed
        /\ Job.phase = "Running" => ~group.preempted /\ ~group.plan

\* A failed attempt leaves no worker behind: when everything has settled, all
\* workers of earlier attempts, and of a job that has failed or is preempted,
\* are gone or going.
NoOrphans ==
  Quiescent =>
    \A a \in Attempts : a < Job.attempt \/ Job.phase \in {"Failed", "Preempted"} =>
      \A p \in Workers(a) : store[p].phase = "Absent" \/ store[p].ending

\* A job fails only if a worker failed by itself or was taken away by somebody
\* else, or its gang did not come up in time: workers that end because their
\* job was preempted are not a failure of the round that follows.
FailsForACause ==
  Job.phase = "Failed" =>
    \E m \in {"workerFailure", "eviction", "gangTimeout"} : spent[m] > 0

RivalIsDone == store[Rival].phase \in {"Succeeded", "Failed", "Absent"}

\* The group of a victim does not, or no longer, name the rival: the state in
\* which every pass follows a nil PreemptedBy, as NoNilPreemptor shows.
RivalIsLost ==
  LET group == store[Group(Job.attempt)] IN group.exists /\ ~group.preempted

MayWaitNoMore ==
  Job.phase = "Preempted" /\ Job.rc < MaxRequeues /\ RivalIsDone

\* A victim does not wait for ever for a rival that has finished, failed or gone.
VictimReturns == []<>~MayWaitNoMore

\* The same, except for a victim whose group lost the name of its rival.
NamedVictimReturns == []<>(MayWaitNoMore => RivalIsLost)

\* Every job finishes, whatever its workers, its manager and its calls run into:
\* a failed attempt is retried, and the new one comes up and ends.  Or it is
\* preempted and stays so for one of three reasons: the rival its group names is
\* still there; the group lost the name of the rival; or the bound on requeues
\* is used up.
Finishes ==
  <>(\/ Job.phase \in TrainTerminal
     \/ [](/\ Job.phase = "Preempted"
           /\ ~RivalIsDone \/ RivalIsLost \/ Job.rc = MaxRequeues))

=========================================================================
