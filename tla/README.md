# Verification of the training-job operator

The repository is a Kubernetes operator with three reconcilers
(`internal/controller/`): **Queue** shares a resource quota among jobs,
**TrainJob** runs gangs of worker pods with retry and preemption, and
**InferenceJob** keeps one serving pod. A gang scheduler, which is not in the
repository, talks to it through the status of `PodGroup` objects. This
directory models that system in TLA+, checks it with TLC and proves its safety
properties with TLAPS.

## 1. Inventory

| Part | State it keeps | Operations | Interacts through |
|---|---|---|---|
| Queue reconciler (`queue_controller.go`) | `Queue.Status.Used`: one snapshot per admitted job, tagged with its requeue count | one pass: read queue, train jobs, inference jobs; drop dead entries; admit the head of the line if it fits; write | reads both kinds of job; its `Used` list wakes and admits them |
| TrainJob reconciler (`trainjob_controller.go`) | `Status.Phase`, `Attempt`, `RequeueCount` | submit, enqueue, admit; service, pod group, pods; aggregate; retry; yield to a preemptor; release and requeue | `Used`; `PodGroup.Status` (`Failed`, `PreemptedBy`, `PreemptionDetail`); pods; status of the preempting job |
| InferenceJob reconciler (`inferencejob_controller.go`) | `Status.Phase`, `LastFailure`, a finalizer | guard, enqueue, admit; look at the pod, make it; give up, clear, finalize | `Used`; its pod and the restart counts the kubelet keeps |
| Runtime (`cmd/main.go`, controller-runtime) | informer caches, one work queue and one worker per controller | deliver, enqueue, retry on error, restart | everything |
| API server | current version of every object | create, update with optimistic locking, delete with finalizers and grace periods | everything |
| Gang scheduler, kubelets (external) | `PodGroup.Status`, pod phases | give a gang up, preempt it, plan nodes; start, finish, end pods | `PodGroup`, pods |

What is hard here:

* **Stale reads.** Every `Get` and `List` reads a cache that lags, per kind of
  object; a Queue pass combines three reads made at three moments. Only a
  refused status update stops a pass made on an old copy, and a pass makes
  other writes (pods, service, pod group) before it comes to that one.
* **Lost wake-ups.** Nobody polls. A queued job, a preempted victim, a job whose
  pod vanished: each is woken by an event, judged against caches of other kinds.
* **Rounds and attempts.** A requeue keeps the attempt but counts a round; a
  retry counts an attempt. Names of pods and pod groups carry the attempt only,
  quota entries the round only.
* **Two counters of failure.** A TrainJob counts its own attempts. An
  InferenceJob reads a counter the kubelet keeps and resets with every new pod,
  and sees only some of its values.
* **One pod name, several pods.** Pods are found by name or label, never by
  owner: a pod may be the one of an earlier round, of an earlier job of the
  name, or one that is already ending.
* **Crashes and errors** between the calls of one pass: all loops over workers
  may stop half way and be taken up again from a different view.

What makes the parts correct: quota is never exceeded and never lost; a job past
admission has the reservation of its current round and no job has two;
finished is final; the status settles on the truth; a failed attempt is retried
as often as allowed and leaves nothing behind; a victim comes back; a serving
pod is restarted as often as allowed and no more, and a job that gives up says
why and frees what it held; every queued job that can be admitted is.

## 2. Modules

```
JobPhases ─┬─ QueuePass ── QueueAdmission ── AdmissionInvariant ─┬─ MCQueueAdmission
           │                                                     └─ AdmissionProofs ─┬─ QuotaProofs
           │                                                                         └─ AdmissionRefinement ── AdmissionSettled
           ├─ TrainJobLifecycle  (abstract)
           ├─ InferenceLifecycle (abstract)
           ├─ TrainWorkers ── WorkersInvariant ─┬─ MCTrainWorkers
           │                                    └─ WorkersProofs ── WorkersSettled
           └─ InferenceServing ── ServingInvariant ─┬─ MCInferenceServing
                                                    └─ InferenceProofs ── ServingSettled

TrainWorkers implements TrainJobLifecycle; InferenceServing, and every inference
job of QueueAdmission, implement InferenceLifecycle.
```

* **JobPhases** – the phases of both job kinds, and which ones a pass may write.
* **QueuePass** – one Queue pass as pure operators: `Keeps` and `Pruned` are the
  clean-up, `Heads` the jobs `sort.Slice` may put first (the order of a Go map
  and an unstable sort leave ties open), `PassResults` the lists a pass may
  write. A `Used` list is a bag of entries: order never matters, multiplicity does.
* **QueueAdmission** – three controllers, the caches and the work queues around
  one queue. An action is one read, one decision or one write of a pass. `tw`
  and `iw` hold the status write a job worker has decided on, `qw` the Queue
  pass in progress; `current` in each says whether the copy it was made from is
  still the stored version, which is what the API server's resource version
  decides.
* **AdmissionInvariant** – the inductive invariants; checked by TLC, used by the proofs.
* **AdmissionProofs** – theorems and their proofs: types, single entries,
  reservations, final phases.
* **AdmissionRefinement** – that each inference job of QueueAdmission implements
  InferenceLifecycle.
* **AdmissionSettled** – that no wake-up is lost and the Used list is cleaned up.
* **QuotaProofs** – sums over finite sets, the head of the line, and the quota.
* **TrainJobLifecycle** – what a TrainJob promises about phase, attempt and requeue count.
* **TrainWorkers** – one TrainJob past admission, call by call: `pass.pc` is the
  place in `Reconcile`, every `Get`/`List` reads `cache`, every write goes to
  `store` and is delivered later, each object by itself. The scheduler, the
  kubelets and the preempting job are its environment.
* **WorkersInvariant** – the inductive invariant of TrainWorkers.
* **WorkersProofs**, **WorkersSettled** – theorems about TrainWorkers: what a step
  may do, and what is true when everything has settled.
* **InferenceLifecycle** – what an InferenceJob promises about phase and finalizer.
* **InferenceServing** – one InferenceJob and the pod of its name, call by call,
  in the same form: `job`/`jobCache`/`jobWatch` and `pod`/`podCache`/`podWatch`
  are what is stored, cached, and on the way. `job.failed` stands for
  `LastFailure`. A pod is what its container does, its restart count, whether it
  is being deleted, and which life of the name owns it. `crashes` is a history
  variable for one property: the actions never read it. Users, kubelet and
  garbage collector are its environment.
* **ServingInvariant** – the inductive invariants of InferenceServing.
* **InferenceProofs**, **ServingSettled** – theorems about InferenceServing.
* **MCQueueAdmission**, **MCTrainWorkers**, **MCInferenceServing** – values for TLC.

### Actions and code

| Code | QueueAdmission | TrainWorkers | InferenceServing |
|---|---|---|---|
| `TrainJobReconciler.Reconcile` switch | `TrainIdle … TrainRelease` | `Begin` | |
| `Status().Update` at its end | `TrainWrite`, `TrainConflict` | `WriteStatus` | |
| `ensureMasterService` | | `CreateService`, `KeepService`, `TurnService` | |
| `ensureWorkerPodGroup` | | `CreateGroup`, `FailGang`, `YieldToRival`, `ClearPlan`, `KeepGroup` | |
| `ensureWorkerPods` | | `EnsurePod` (per rank), `AllEnsured` | |
| `aggregateWorkerStatus`, `nextPhase`, `handleFailedAttempt` | `TrainRun` (any result) | `Aggregate`, then `ListDoomed`, `DeletePod`, `AllDeleted` | |
| `shouldVictimTrainJobRequeue`, `deletePodGroup` | `TrainRelease` | `CheckRival`, `DropGroup` | |
| `InferenceJobReconciler.Reconcile` switch | `InferenceGone … InferenceFail` | | `Begin` with `Switch` |
| its deletion branch | `InferenceFinalize` | | `Finalize`, `DeletePod` |
| active phases: Get pod, status, `getInferenceJobNextPhase`, `LastFailure` | `InferenceRun` (any result) | | `Observe` with `Judged`, `NextPhase`, `PodStatus` |
| `ensureWorkerPod` | | | `EnsurePod` |
| `Failing` | `InferenceFail` | | `Clear`, `DeletePod` |
| `Update`, `Status().Update` | `InferenceWrite`, `InferenceConflict` | | `WriteJob` |
| `QueueReconciler.Reconcile` | `QueueGet`, `QueueListTrain`, `QueueListInference`, `QueueWrite` | | |
| `SetupWithManager` watches | `DeliverJob`, `DeliverQueue`, `WorkloadEvent` | `Deliver` with `Wakes`, `QueueEvent` | `DeliverJob`, `DeliverPod`, `QueueEvent` |
| process restart | `Restart` | `Crash` | `Crash` |

`Admit` and everything before it is the subject of QueueAdmission; TrainWorkers
takes a `Queued` job and lets any pass admit it, and so does InferenceServing.
QueueAdmission leaves open what passes over active jobs decide; that it allows
for what the detailed modules do follows from the life cycles they share. The
two Gets of `shouldVictimTrainJobRequeue` are one step, as are the second Get of
`ensureWorkerPod` and its Create.

Some of what the detailed modules do is left open in QueueAdmission, which has
neither pods nor attempts. `WorkloadEvent` is any event of a pod, a pod group or
a rival that wakes a job, and also the job event of a retry out of `Retrying`,
which counts an attempt and changes no variable here. `InferenceFinalize` of a job whose
name was used before may find the pod of its predecessor and wait for it.

The rival of TrainWorkers is moved by its own reconciler, which is reduced to the
phase the victim reads: `Starting` stands for every phase in which the rival still
needs its place. From it and from `Running` it may get anywhere, and a rival that
is gone may be made anew. A deletion of a pod (`Deleted`) is graceful: a pod that
has started, or is bound to a node, goes on existing with a `DeletionTimestamp`
until it ends; one not bound yet may be gone at once.

## 3. Runs

| Run | Instance | Shows |
|---|---|---|
| AdmissionMixed | a train job (1 requeue) and an inference job, quota for one | quota, reservations, wake-ups, clean-up, final phases, across kinds, with finalizer and deletion; the inference life cycle; the inductive invariants `QuotaInv` and `CalmInv` (1.3M states) |
| AdmissionRestart | 1 job, quota for two, 2 requeues, 2 restarts, fair | rounds and restarts, single entries, the inductive invariant `AdmissionInv`, `QueuedLeaves` (70k) |
| AdmissionNameReuse | a name used twice | *violation*: an entry outlives its job |
| WorkersRetry | 1 worker, 1 retry; any 2 of a crash, a failing call, a worker failure, an eviction, a plan; fair | status and group settle, service before workers, life cycle, the retry comes up and the job finishes (0.3M) |
| WorkersGang | 1 worker, inference rival, rights of the generated role; any 3 of a gang timeout, a preemption, a move of the rival, a crash; 2 requeues; fair | status and group settle, victims return, life cycle, the job finishes; the inductive invariant `WorkersInv` (0.4M) |
| WorkersOrphan | 1 worker, 1 retry, 1 failure | *violation*: a worker nobody owns |
| WorkersReturn | 2 workers, rival that goes, 1 requeue | *violation*: a victim fails by the end of its old workers |
| WorkersVictim | train-job rival that succeeds | *violation*: a victim is never released |
| WorkersNil | inference rival, 1 requeue | *violation*: `PreemptedBy` is nil when followed |
| Serving | `MaxRestarts` 1, two lives; any 5 of crashes, failing call, eviction, container crashes, failed probe, deletion, creation; fair | given up for a reason and not too early, phase and pod settle, life cycle, the job comes up, is cleared, is finalized; the inductive invariant `ServingInv` (0.4M) |
| ServingReady | a failed probe | *violation*: `Running` with a pod that is not ready |
| ServingLeak | the same kinds of mishap | *violation*: `Failed` while a pod runs |

**Bounds.** Admission: one resource; jobs of equal need, so that exactly one fits
and every admission is contested (in AdmissionRestart two would fit, so that a
double entry is possible); a train and an inference job cover what two train
jobs do, since the Queue treats the kinds alike but for the round, which an
inference job does not have; equal priorities and creation times leave the head
of the line open, and a fixed order is a special case. `MaxLives`, `MaxRequeues`
and `MaxRestarts` count rounds, each large enough that an old copy can be two
rounds behind or a round can be repeated.

TrainWorkers and InferenceServing bound each kind of mishap (`Budget`) and their
number (`Total`): a mishap may hit while another is handled, in any order and any
place of a pass. `Serving` has a `Total` of 5 because the shortest way to the
interesting cases is long: the job is created, its container must crash twice to
be given up, and an eviction, a restart of the manager or a deletion must still
find room between. `MaxRestarts` is 1 so that there is one restart allowed, one
at the limit and one above it. Two lives of a name let an old pod meet a new job.

`MaxLag` bounds how many versions of one TrainWorkers object wait for delivery
(2 or 3; the writer waits), which still lets every object lag behind every other
by more than one pass; longer lags are not checked. Its passing runs have one
worker: with two, a run that also crashes, retries or requeues does not finish in
useful time. Loops over several workers that stop half way are covered by the
theorems instead, which hold for every `WorldSize`; only the liveness properties
are left to one worker. Admission and Serving do not
bound the lag. `CHECK_DEADLOCK FALSE`: a finished job is the end
of the run.

**Fairness.** `QueueAdmission!Fairness`: watches deliver, a worker finishes the
pass it is in, and work queues are first-in-first-out, so a key that keeps
coming back is served (strong fairness of `PassOver`). `TrainWorkers!Fairness`:
the same for the only job, `Reconcile` being one sequential worker; pods that
are pending start, running workers eventually succeed, pods being deleted end.
`InferenceServing!Fairness`: the same; the kubelet goes on with the pod
(starting, becoming ready, restarting, ending: in any state at most one of them
is possible, hence one fairness condition), and garbage is collected. `SF(AdmittingPass)` stands for
the result of QueueAdmission that a queued job is admitted in the end. The rival
is never forced to do anything; failures, evictions, failed probes, users and
crashes are never fair.

`Finishes` says of every job that it reaches `Succeeded` or `Failed`, or is
`Preempted` for ever for a reason that the formula names: the rival is still
there (`~RivalIsDone`; it may wait as long as it likes); the group lost the name
of the rival (`RivalIsLost`, the state WorkersNil shows to be reachable, in which
every pass panics on a nil `PreemptedBy`); or `MaxRequeues`, a bound of the model
and not of the code, is used up. It is checked in WorkersRetry, under a failing
worker, an eviction, a failing call and a crash, and in WorkersGang, under
preemption, gang timeout and a crash. An eviction beside the failure of a worker
puts old `Failed` versions of a pod into the cache, which an outdated pass counts:
the job still finishes. `NamedVictimReturns` excludes the same `RivalIsLost`, and
`VictimReturns`, without that exception and for a train-job rival, is violated.

`Finishes` in WorkersRetry rests on administrator rights (`make run`): the
generated role (`config/rbac/role.yaml`) has no `update` of services, without
which a retry never comes up. WorkersGang, where nothing is retried, has the
rights of that role.

Where the properties disagree with what the repository says of itself, the run
expects the violation, and `PROJECT.json` quotes both sides.

### What the serving pod shows

The first two of these contradict a comment of the API and are expected
violations; the others contradict nothing. The passing properties say no more
than what the code does.

* `FailedHasNoPod` fails only because a pass on an active copy of the job can
  make a pod after the job was written `Failing` (ServingLeak needs an eviction
  for it); afterwards nobody looks at the pod, and the Queue has given the quota
  of the job away.
* A job may be `Running` with a pod that is not ready: a failed readiness probe
  leaves the phase alone, and so does a pod that replaced a lost one when the
  write of `Restarting` was lost. The API says otherwise of the probe
  (`inferencejob_types.go:58`), so `RunningMeansReady` is an expected violation
  (ServingReady); `SettledServing` is what remains true.
* A pod is found by name. A job created again judges the pod of its predecessor
  until the garbage collector takes it, and may be given up for crashes of that
  pod: `NotGivenUpEarly` is stated over all lives of the name.
* A job being deleted is gone when the cache shows no pod; one just made is left
  to the garbage collector, by its owner reference.
* Restarts are counted per pod. Each eviction grants `MaxRestarts` more.
* Given up at the limit or above it makes a difference: a container seen down at
  `MaxRestarts` restarts is the end; one seen up again only from `MaxRestarts + 1`.

## 4. Proofs

Every invariant and every action property that a passing run checks is proved
for all values of the constants; so are the refinements of the two abstract life
cycles. A theorem of the admission modules that begins `MaxLives <= 1 =>` is about
queues whose job names are not used a second time; the others allow it. That
hypothesis is not a convenience: with a reused name the argument fails, and so
does the code (AdmissionNameReuse).

The assumptions are the named ones of the modules, which TLC evaluates in every
run: disjoint and finite sets of job names (`FiniteAssumption`: an API server
holds finitely many objects; only QuotaProofs uses it), natural quota, requests,
world size and limits, and bounds that are natural numbers.

### AdmissionProofs

* `TypeCorrect`: `Spec => []TypeOK`.
* `NoDoubleEntry`: `Spec => []OneEntryPerJob`. `SingleInv` is inductive: no copy
  of the list that may be written back (stored, cached, on the way, in the pass)
  has two entries of one job; `PassResults` appends only where `HasEntry` fails.
  `CopiesStep` is the general fact behind it: whatever holds of an empty list and
  is kept by `PassResults` holds of every copy. `QuotaProofs` uses it again.
* `InvariantHolds`: `MaxLives <= 1 => (Spec => []AdmissionInv)`.
* `ReservationKept`: `MaxLives <= 1 => (Spec => []AdmittedIsReserved)`.
* `FinalPhases`: `Spec => TerminalIsFinal`, from `FreshInv` and `WatchInv`: a
  write that will be accepted was computed from a copy equal to the stored job.

`AdmittedIsReserved` is not inductive: a Queue pass in progress may hold lists
older than the job. `AdmissionInv` says what those copies may look like. While a
job lives, every copy is alive and of no later round (`CopyInv`), or older than
its creation, and then there is no entry of it anywhere (`UnseenInv`, `ListInv`);
entries are never of a later round than the job (`RoundInv`). Hence no clean-up
can drop the entry of the current round once it is made (`KeptInv`), and a plan
to leave `Queued` was made by someone who saw that entry (`PlanInv`).

### QuotaProofs

* `SomebodyIsFirst`: whatever lists a pass has read, a job is at the head of the
  line as soon as one is queued, so that a pass has a result. `Before` is a strict
  order (`BeforeIsStrict`), and a finite line has a minimum.
* `NeverOverbooked`: `Spec => []QuotaInv`: no copy of the Used list that may yet be
  written, or read again, adds up to more than the quota of any resource.
* `QuotaHolds`: `MaxLives <= 1 => (Spec => []HoldingFitsQuota)`.

What a sum over a set is worth would be proved by induction over the set, and the
library's induction rules are out of the provers' reach. The same is reached in
first-order form: `MapThenSumSet` is defined by a recursive function on subsets,
`SumsUp` names that recursion, and a property that failed for some subset would
fail for a smallest one (`SmallestSubset`, from the well-foundedness of inclusion
on finite sets). So the function exists (`SumExists`), is unique (`SumUnique`),
may take out any element first instead of the chosen one (`SumAny`), and sums
along an injection grow (`SumBound`). A pass then stays `Within` the quota
(`PassWithin`): what it keeps it takes from the list, and what it adds `Fits`
beside that. Each job past admission has an entry of its own
(`AdmittedIsReserved`), so the jobs together take no more than the entries.

### AdmissionRefinement

`LivesRefined`: `Spec => InferenceRefines`, that every inference job, among any
number of others and with reused names, implements InferenceLifecycle. `LifeInv`
is the strengthening: every stored, cached and travelling version of a job is
`Formed` (no status without a finalizer), and a plan that will be accepted is one
step of the life from the stored version (`LeadInv`). A plan is made from the
cache; `WatchInv` says that it is accepted only if the cache was the store, and a
user's deletion outdates it.

### AdmissionSettled

* `NothingIsForgotten`: `Spec => []CalmInv`.
* `SettledListIsClean`: `MaxLives <= 1 => (Spec => []UsedIsClean)`.
* `WakeUpsArrive`: `MaxLives <= 1 => (Spec => []NoLostWakeup)`.

Both settled properties speak about states in which nothing is under way, which
says nothing about how they were reached. `CalmInv` says it: a job that the cache
shows queued and admitted has its key in the work queue, a version on its way, or
a write in its controller's hands (`WokenInv`); and as long as the key of the
Queue is not enqueued, its pass is over what the caches still show, and the Queue
worker, when idle, has nothing to change or waits for the event of its own write
(`UpToDateInv`). `CalmInv` makes one exception, so as to hold with reused names
too: an inference job being deleted may wait for the pod of its predecessor to
go; under `MaxLives <= 1` there is none. In a settled state the caches are the store, so `queue.used` is
in `PassResults(queue.used, store)`: a pass would leave it alone. Both properties
are what that means for a list without doubles.

### WorkersProofs and WorkersSettled

For every world size, retry limit, kind of rival, rights and bound:

* `TypeCorrect`: `Spec => []TypeOK`: `Attempt` never goes above `RetryLimit`.
* `ServiceComesFirst`: `Spec => ServiceFirst`. It is about creation: no worker is
  made while the service selects another attempt. Workers of an old attempt may
  still be ending then, or have been left behind (WorkersOrphan).
* `LifecycleRefined`: `Spec => Refines`, that TrainWorkers implements
  TrainJobLifecycle.
* `InvariantHolds`: `Spec => []WorkersInv`.
* `GroupSettles`: `Spec => []SettledGroup`; `StatusSettles`:
  `Spec => []SettledStatus`.

The first part of `WorkersInv` is about copies. A pass whose write will be
accepted holds the stored job (`HoldsInv`), and what it is about to write is one
step of the life from the job it holds (`PlaceInv`): that is the refinement. The
versions of job and service on their way are of growing attempts (`AttemptInv`),
and the service is never of a later one than the cached job: so a pass that found
the cached service at its attempt, or turned it, leaves the stored one there until
the job moves on, and no worker starts behind another service.

The second part, `CalmInv`, is about what a pass has seen. While the key of the
job is not in the work queue, no step delivers anything that `Wakes` it, so the
cached job, its groups and its pods are what they were when the pass began
(`Frozen`); hence what the pass found in order, group after service, pod after
pod, is still so in the cache, or has an event on its way (`GroupSeen`, `PodSeen`).
When the pass is over it has written something, and the write will come back, or
there was nothing to do (`Settled`). In a state where nothing is on its way the
cache is the store (`WatchInv`), and `Settled` of the cache is the property.

### InferenceProofs and ServingSettled

For every `MaxRestarts` and every bound (`ServingAssumption`):

* `TypeCorrect`: `Spec => []TypeOK`.
* `FailureIsExplained`: `Spec => []FailureIsKnown`.
* `NeverTooEarly`: `Spec => []NotGivenUpEarly`.
* `LifecycleRefined`: `Spec => Refines`, that is, InferenceServing implements
  InferenceLifecycle.
* `InvariantHolds`: `Spec => []ServingInv`.
* `ServingSettles`: `Spec => []SettledServing`.

None of the properties is inductive. What is given up is decided from a copy of
the pod, written over a copy of the job, and read again from caches, so `Inv`
speaks about every copy: `GoodPods` (a copy counts no more restarts than there
were crashes, fewer while it is down), `GoodJobs` (a copy that is given up has its
reason, and some pod crashed too often), for what is stored, cached, on the way,
and held by the pass. Crashes are only ever added, so an old copy stays good
(`CrashesGrow`); `GivenUpForAReason` is the one place where the comparison of
`getInferenceJobNextPhase` with `MaxRestarts` enters. For the refinement, `PassInv`
says that a pass whose copy is `current` holds the stored job, and that what it
is about to write is one step of the life cycle from that copy (`Leads`);
`Follows`, that a cache with nothing on the way is up to date, makes `current`
true of the right passes. An outdated pass is refused, so every write that
happens is a step of the abstract specification.

`ServingInv` adds a `CalmInv` of the same form as that of TrainWorkers: a step
that leaves the key out of the work queue leaves the caches as they were
(`Still`), so when a pass is over, the cached job and pod are settled
(`SettledBy`), or the pass's own write is on its way.

### Only model-checked

* Liveness, which is out of the prover's reach: `QueuedLeaves`,
  `NamedVictimReturns`, `Finishes`, `ComesUp`, `Concludes`. The settled-state
  theorems are the safety half of it: they say that the system does not stop in a
  wrong state, the liveness runs that it gets there.
* The expected violations: `UsedIsClean` under reused names, `NoOrphans`,
  `FailsForACause`, `VictimReturns`, `NoNilPreemptor`, `RunningMeansReady`,
  `FailedHasNoPod`.

## 5. Not modelled

* Edits of the quota and deletion of the Queue; explicit zero requests; negative
  `WorldSize`.
* Several queues or namespaces. Lists of worker pods cross namespaces (a hazard
  of `PROJECT.json`); with one job, nothing can cross.
* Contents of pods and services, the volume that `buildInferencePod` adds for
  `/dev/shm`, `LastFailure` of a TrainJob, and its counters `RunningWorkers` and
  `ReadyWorkers`, which are written only when the phase changes and are read by
  nobody.
* Deletion of a TrainJob past admission: it has no finalizer and its objects are
  left to the garbage collector.
* A pod of an InferenceJob that its node fails or evicts stays in phase `Failed`
  under its name; the model's evictions delete it.
* Leader election (one manager runs), flags, certificates, metrics.

## 6. Plan

In this order:

1. *(done)* QueuePass, QueueAdmission; TypeOK, reservations, quota, wake-ups; proofs.
2. *(done)* TrainWorkers and its refinement of TrainJobLifecycle, checked.
3. *(done)* InferenceServing and its refinement of InferenceLifecycle, checked and
   proved; the same life cycle checked and proved of QueueAdmission.
4. *(done)* WorkersInvariant: type correctness, `ServiceFirst`, the refinement of
   TrainJobLifecycle and the settled state of TrainWorkers, proved; the settled
   state of InferenceServing, proved.
5. *(done)* The settled state of QueueAdmission and the quota, proved; `Before` is a
   strict order, so that `Heads` is never empty while there is a candidate.
6. Next: that every train job of QueueAdmission goes through TrainJobLifecycle
   (with the attempt left open), as the inference jobs go through theirs; and a
   hypothesis about reused names weaker than `MaxLives <= 1`: that a Queue pass
   sees a job gone before its name is used again.
7. A second namespace, deletion of a running TrainJob, quota edits.
