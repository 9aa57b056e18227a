---------------------------- MODULE QueuePass ----------------------------
(***************************************************************************)
(* One pass of QueueReconciler.Reconcile as pure operators: from the Used  *)
(* list of the queue and the two job lists it read, which Used list it     *)
(* writes back.  A Used list counts its entries: the code keeps a slice,   *)
(* whose order no decision depends on, but in which an entry might occur   *)
(* twice.                                                                  *)
(***************************************************************************)
EXTENDS JobPhases, Integers, FiniteSetsExt

CONSTANTS
  TrainJobs,      \* the TrainJob names of the queue (spec.queueName)
  InferenceJobs,  \* the InferenceJob names of the queue
  Resources,      \* resource names: cpu, nvidia.com/gpu, ...
  Quota,          \* Queue.Spec.ResourceQuota
  Requests,       \* per job, Spec.Resources.Requests of ONE worker
  WorldSize,      \* per train job, Spec.WorldSize
  Priority,       \* per job, the value of its PriorityClass
  Created,        \* per job, CreationTimestamp in whole seconds
  MaxRequeues     \* bound: how often one train job is requeued

Jobs == TrainJobs \cup InferenceJobs

ASSUME JobsAssumption == TrainJobs \cap InferenceJobs = {}

ASSUME FiniteAssumption == IsFiniteSet(TrainJobs) /\ IsFiniteSet(InferenceJobs)

ASSUME ResourceAssumption ==
  /\ Quota \in [Resources -> Nat]
  /\ Requests \in [Jobs -> [Resources -> Nat]]
  /\ WorldSize \in [TrainJobs -> Nat]
  /\ Priority \in [Jobs -> Int]
  /\ Created \in [Jobs -> Nat]

ASSUME RequeueAssumption == MaxRequeues \in Nat

\* The values a requeue count takes.
Rounds == 0 .. MaxRequeues

\* What is kept of a job object: its phase, its requeue count (always 0 for an
\* InferenceJob, whose status has no such field), and whether the finalizer of
\* the InferenceJob controller is set and the job is being deleted.
Version == [phase : TrainPhases \cup InferencePhases,
            rc    : Rounds,
            fin   : {"none", "set", "deleting"}]

NoJob == [phase |-> "Absent", rc |-> 0, fin |-> "none"]

\* A QueueUsed entry.  JobName and JobType together are the member of Jobs;
\* ResourceUsed is Needed(job), the snapshot taken on admission.
Entry == [job : Jobs, rc : Rounds]

UsedList == [Entry -> Nat]

NothingUsed == [e \in Entry |-> 0]

HasEntry(used, j) == \E e \in Entry : e.job = j /\ used[e] > 0

EntryOf(j, list) == [job |-> j, rc |-> list[j].rc]

\* What a job takes from the quota: every worker of a train job, the single
\* replica of an inference job.
Needed(j) ==
  IF j \in TrainJobs
  THEN [r \in Resources |-> Requests[j][r] * WorldSize[j]]
  ELSE Requests[j]

\* Mutant of Keeps: a preempted job gives its quota back at once.
KeepsUnlessPreempted(list, e) ==
  /\ list[e.job].phase \notin {"Absent", "Preempted"} \cup TrainTerminal
  /\ e.job \in TrainJobs => ~(e.rc < list[e.job].rc)

\* Mutant of Keeps: entries of earlier rounds are not recognised.
KeepsAnyRound(list, e) ==
  list[e.job].phase \notin {"Absent"} \cup TrainTerminal

\* Mutant of Keeps: an inference job that is gone keeps its quota.
KeepsGoneInference(list, e) ==
  IF e.job \in TrainJobs
  THEN /\ list[e.job].phase \notin {"Absent"} \cup TrainTerminal
       /\ ~(e.rc < list[e.job].rc)
  ELSE list[e.job].phase # "Failed"

\* An entry survives the clean-up unless its job is gone, has finished, or
\* has been requeued since it was admitted.
Keeps(list, e) ==
  IF e.job \in TrainJobs
  THEN /\ list[e.job].phase \notin {"Absent"} \cup TrainTerminal
       /\ ~(e.rc < list[e.job].rc)
  ELSE list[e.job].phase \notin {"Absent", "Failed"}

Pruned(used, list) ==
  [e \in Entry |-> IF Keeps(list, e) THEN used[e] ELSE 0]

Reserved(used, r) ==
  MapThenSumSet(LAMBDA e : used[e] * Needed(e.job)[r], Entry)

Remaining(used) == [r \in Resources |-> Quota[r] - Reserved(used, r)]

Candidates(list) == {j \in Jobs : list[j].phase = "Queued"}

\* The comparison given to sort.Slice: higher priority first, then older.
Before(i, j) ==
  \/ Priority[i] > Priority[j]
  \/ Priority[i] = Priority[j] /\ Created[i] < Created[j]

\* The jobs that may end up first: sort.Slice is not stable and the slice is
\* filled from a Go map, so any job nothing sorts before may come first.
Heads(list) ==
  {j \in Candidates(list) : \A i \in Candidates(list) : ~Before(i, j)}

\* Mutant of Fits: a train job asks for one worker only.
FitsOneWorker(j, remaining) ==
  \A r \in Resources : Requests[j][r] > 0 => Requests[j][r] <= remaining[r]

Fits(j, remaining) ==
  \A r \in Resources : Needed(j)[r] > 0 => Needed(j)[r] <= remaining[r]

\* Mutant of PassResults: the head is appended without looking for its entry.
AppendedBlindly(used, list) ==
  LET kept == Pruned(used, list)
      admit(j) == IF Fits(j, Remaining(kept))
                  THEN [kept EXCEPT ![EntryOf(j, list)] = @ + 1] ELSE kept
  IN  IF Candidates(list) = {} THEN {kept}
      ELSE {admit(j) : j \in Heads(list)}

\* The Used lists one pass may leave: the clean-up, and the head of the line
\* admitted when it fits and has no entry yet; when the head does not fit
\* nobody behind it is tried.
PassResults(used, list) ==
  LET kept == Pruned(used, list)
      admit(j) == IF Fits(j, Remaining(kept)) /\ ~HasEntry(kept, j)
                  THEN [kept EXCEPT ![EntryOf(j, list)] = @ + 1]
                  ELSE kept
  IN  IF Candidates(list) = {} THEN {kept}
      ELSE {admit(j) : j \in Heads(list)}

==========================================================================
