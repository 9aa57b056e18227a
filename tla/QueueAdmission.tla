-------------------------- MODULE QueueAdmission --------------------------
(***************************************************************************)
(* Admission of jobs against the quota of one queue: the Queue reconciler, *)
(* the TrainJob and InferenceJob reconcilers as far as the phase in the    *)
(* API server is concerned, the informer caches they read, and their work  *)
(* queues.                                                                 *)
(*                                                                         *)
(* All three reconcilers run in one manager, each with one worker.  They   *)
(* read from the manager's caches, which lag behind the API server, and    *)
(* write to the API server, which refuses a status update made from an     *)
(* outdated copy.  What a pass over a running job does to pods is left     *)
(* open here (TrainWorkers models it for train jobs): such a pass may      *)
(* write any phase of TrainPassPhases or InferencePassPhases.              *)
(***************************************************************************)
EXTENDS QueuePass, Sequences

CONSTANTS
  MaxLives,     \* bound: how often one job name is created
  MaxRestarts   \* bound: how often the manager process restarts

ASSUME BoundAssumption ==
  MaxLives \in Nat /\ MaxRestarts \in Nat

VARIABLES
  store,     \* API server: the current version of every job
  cache,     \* informer cache: the version of every job a Get or List sees
  watch,     \* per job, the versions written but not yet delivered
  queue,     \* API server: the Queue object
  qcache,    \* informer cache of the Queue object
  qwatch,    \* versions of the Queue not yet delivered
  todo,      \* keys in the work queues of the two job controllers
  qtodo,     \* whether the queue's key is in the Queue controller's work queue
  tw,        \* the status write the TrainJob worker is about to make
  iw,        \* the same for the InferenceJob worker
  qw,        \* the pass the Queue worker is in
  lives,     \* per job, how often it was created
  restarts   \* how often the manager restarted

jobVars   == <<store, cache, watch>>
queueVars == <<queue, qcache, qwatch>>
workers   == <<tw, iw, qw>>
bounds    == <<lives, restarts>>
vars      == <<jobVars, queueVars, todo, qtodo, workers, bounds>>

-----------------------------------------------------------------------------
(* State *)

QueueVersion == [exists : BOOLEAN, used : UsedList]

NoQueue == [exists |-> FALSE, used |-> NothingUsed]

\* A status write a job worker has decided on: "current" says whether the
\* copy it was computed from is still the stored version.
Plan == [job : Jobs, next : Version, current : BOOLEAN]

NoJobs == [j \in Jobs |-> NoJob]

\* Where the Queue worker is in its pass, the Used list and the job lists it
\* has read, and whether the queue it read is still the stored version.
QueuePasses ==
  [pc : {"idle", "listTrain", "listInference", "write"},
   used : UsedList, list : [Jobs -> Version], current : BOOLEAN]

NoPass == [pc |-> "idle", used |-> NothingUsed, list |-> NoJobs, current |-> FALSE]

Init ==
  /\ store = NoJobs /\ cache = NoJobs /\ watch = [j \in Jobs |-> << >>]
  /\ queue = NoQueue /\ qcache = NoQueue /\ qwatch = << >>
  /\ todo = {} /\ qtodo = FALSE
  /\ tw = {} /\ iw = {} /\ qw = NoPass
  /\ lives = [j \in Jobs |-> 0] /\ restarts = 0

-----------------------------------------------------------------------------
(* The API server *)

\* A new version of j is stored; whoever holds an older copy is outdated.
Outdated(plans, j) ==
  {IF p.job = j THEN [p EXCEPT !.current = FALSE] ELSE p : p \in plans}

Stores(j, v) ==
  /\ store' = [store EXCEPT ![j] = v]
  /\ watch' = [watch EXCEPT ![j] = Append(@, v)]
  /\ cache' = cache

CreateQueue ==
  /\ ~queue.exists
  /\ queue' = [exists |-> TRUE, used |-> NothingUsed]
  /\ qwatch' = Append(qwatch, queue')
  /\ UNCHANGED <<jobVars, qcache, todo, qtodo, workers, bounds>>

CreateJob(j) ==
  /\ store[j].phase = "Absent"
  /\ lives[j] < MaxLives
  /\ lives' = [lives EXCEPT ![j] = @ + 1]
  /\ Stores(j, [NoJob EXCEPT !.phase = "New"])
  /\ UNCHANGED <<queueVars, todo, qtodo, workers, restarts>>

\* A finalizer keeps the object, marked as being deleted, until it is removed.
DeleteJob(j) ==
  /\ store[j].phase # "Absent"
  /\ store[j].fin # "deleting"
  /\ Stores(j, IF store[j].fin = "set"
               THEN [store[j] EXCEPT !.fin = "deleting"] ELSE NoJob)
  /\ tw' = Outdated(tw, j) /\ iw' = Outdated(iw, j)
  /\ UNCHANGED <<queueVars, todo, qtodo, qw, bounds>>

\* The informer delivers the next version of j: its own controller and the
\* Queue controller are woken.
DeliverJob(j) ==
  /\ watch[j] # << >>
  /\ cache' = [cache EXCEPT ![j] = Head(watch[j])]
  /\ watch' = [watch EXCEPT ![j] = Tail(@)]
  /\ todo' = todo \cup {j}
  /\ qtodo' = TRUE
  /\ UNCHANGED <<store, queueVars, workers, bounds>>

\* Mutant of DeliverQueue: the job controllers do not watch the Queue.
UnwatchedQueue ==
  /\ qwatch # << >>
  /\ qcache' = Head(qwatch)
  /\ qwatch' = Tail(qwatch)
  /\ qtodo' = TRUE
  /\ UNCHANGED <<jobVars, queue, todo, workers, bounds>>

\* The informer delivers the next version of the queue: the map functions of
\* the job controllers wake the jobs that are Queued in the cache.
DeliverQueue ==
  /\ qwatch # << >>
  /\ qcache' = Head(qwatch)
  /\ qwatch' = Tail(qwatch)
  /\ todo' = todo \cup Candidates(cache)
  /\ qtodo' = TRUE
  /\ UNCHANGED <<jobVars, queue, workers, bounds>>

\* A pod, pod group or preempting job changed and wakes the job it belongs to;
\* or a job that is Retrying was retried once more, which changes nothing but
\* its attempt, and the event of that write wakes the Queue controller as well.
WorkloadEvent(j) ==
  /\ j \notin todo
  /\ \/ cache[j].phase \in TrainHolding \cup InferenceHolding
     \/ cache[j].fin = "deleting"
  /\ todo' = todo \cup {j}
  /\ (qtodo' = qtodo) \/ (cache[j].phase = "Retrying" /\ qtodo' = TRUE)
  /\ UNCHANGED <<jobVars, queueVars, workers, bounds>>

\* The manager process restarts: work in flight is lost, the caches are
\* listed afresh and every object found is enqueued.
Restart ==
  /\ restarts < MaxRestarts
  /\ restarts' = restarts + 1
  /\ cache' = store /\ watch' = [j \in Jobs |-> << >>]
  /\ qcache' = queue /\ qwatch' = << >>
  /\ todo' = {j \in Jobs : store[j].phase # "Absent"}
  /\ qtodo' = TRUE
  /\ tw' = {} /\ iw' = {} /\ qw' = NoPass
  /\ UNCHANGED <<store, queue, lives>>

-----------------------------------------------------------------------------
(* TrainJobReconciler.Reconcile, as far as the status is concerned *)

TakesKey(j) ==
  /\ j \in todo
  /\ todo' = todo \ {j}
  /\ UNCHANGED <<jobVars, queueVars, qtodo, bounds>>

\* The write that follows from the cached copy of j, none if nothing changes.
PlanTo(j, v) ==
  IF v = cache[j] THEN {}
  ELSE {[job |-> j, next |-> v, current |-> watch[j] = << >>]}

TrainPass(j) == tw = {} /\ TakesKey(j) /\ UNCHANGED <<iw, qw>>

ToPhase(v, phase) == [v EXCEPT !.phase = phase]

Requeued(v) == [phase |-> "Queued", rc |-> v.rc + 1, fin |-> v.fin]

\* Not found, or finished: nothing to do.
TrainIdle(j) ==
  /\ TrainPass(j)
  /\ cache[j].phase \in {"Absent"} \cup TrainTerminal
  /\ tw' = {}

TrainSubmit(j) ==
  /\ TrainPass(j)
  /\ cache[j].phase = "New"
  /\ tw' = PlanTo(j, ToPhase(cache[j], "Submitted"))

TrainEnqueue(j) ==
  /\ TrainPass(j)
  /\ cache[j].phase = "Submitted"
  /\ tw' = PlanTo(j, ToPhase(cache[j], "Queued"))

\* Mutant of Admitted: the requeue count of the entry is not compared.
AdmittedOnAnyRound(j) == qcache.exists /\ HasEntry(qcache.used, j)

\* The cached queue holds an entry for this job and this requeue count.
Admitted(j) ==
  qcache.exists /\ qcache.used[EntryOf(j, cache)] > 0

TrainAdmit(j) ==
  /\ TrainPass(j)
  /\ cache[j].phase = "Queued"
  /\ tw' = IF Admitted(j) THEN PlanTo(j, ToPhase(cache[j], "Starting")) ELSE {}

\* A further retry writes the attempt only, which is not kept here
\* (WorkloadEvent has its event).
TrainRun(j) ==
  /\ TrainPass(j)
  /\ cache[j].phase \in TrainActive
  /\ \E phase \in TrainPassPhases(cache[j].phase) :
       tw' = PlanTo(j, ToPhase(cache[j], phase))

\* Mutant of TrainRelease: the requeue is counted twice.
CountedTwice(j) ==
  /\ TrainPass(j)
  /\ cache[j].phase = "Preempted"
  /\ \/ tw' = {}
     \/ /\ cache[j].rc < MaxRequeues
        /\ tw' = PlanTo(j, Requeued(Requeued(cache[j])))

\* shouldVictimTrainJobRequeue decides whether the victim is released.
TrainRelease(j) ==
  /\ TrainPass(j)
  /\ cache[j].phase = "Preempted"
  /\ \/ tw' = {}
     \/ /\ cache[j].rc < MaxRequeues
        /\ tw' = PlanTo(j, Requeued(cache[j]))

\* Mutant of TrainWrite: the status is patched whatever version is stored.
BlindWrite ==
  /\ \E p \in tw : Stores(p.job, p.next)
  /\ tw' = {}
  /\ UNCHANGED <<queueVars, todo, qtodo, iw, qw, bounds>>

\* Status().Update from a current copy is stored; from an outdated one it is
\* refused and the key is retried.
TrainWrite ==
  /\ \E p \in tw : p.current /\ Stores(p.job, p.next)
  /\ tw' = {}
  /\ UNCHANGED <<queueVars, todo, qtodo, iw, qw, bounds>>

TrainConflict ==
  /\ \E p \in tw : ~p.current /\ todo' = todo \cup {p.job}
  /\ tw' = {}
  /\ UNCHANGED <<jobVars, queueVars, qtodo, iw, qw, bounds>>

TrainController ==
  \/ \E j \in TrainJobs :
       \/ TrainIdle(j) \/ TrainSubmit(j) \/ TrainEnqueue(j)
       \/ TrainAdmit(j) \/ TrainRun(j) \/ TrainRelease(j)
  \/ TrainWrite \/ TrainConflict

-----------------------------------------------------------------------------
(* InferenceJobReconciler.Reconcile, as far as the phase is concerned *)

InferencePass(j) == iw = {} /\ TakesKey(j) /\ UNCHANGED <<tw, qw>>

\* Not found: nothing to do.
InferenceGone(j) ==
  /\ InferencePass(j)
  /\ cache[j].phase = "Absent"
  /\ iw' = {}

\* Being deleted: the finalizer, and with it the object, goes once the pod is
\* found gone.  A job that was not admitted can only find its predecessor's.
InferenceFinalize(j) ==
  /\ InferencePass(j)
  /\ cache[j].phase # "Absent" /\ cache[j].fin = "deleting"
  /\ \/ iw' = PlanTo(j, NoJob)
     \/ /\ cache[j].phase \in InferenceHolding \cup {"Failed"} \/ lives[j] > 1
        /\ iw' = {}

InferenceGuard(j) ==
  /\ InferencePass(j)
  /\ cache[j].phase # "Absent" /\ cache[j].fin = "none"
  /\ iw' = PlanTo(j, [cache[j] EXCEPT !.fin = "set"])

\* Past the finalizer: the switch over the phase.
InferenceSwitch(j, phases) ==
  /\ InferencePass(j)
  /\ cache[j].fin = "set"
  /\ cache[j].phase \in phases

InferenceDone(j) ==
  /\ InferenceSwitch(j, {"Failed"})
  /\ iw' = {}

InferenceEnqueue(j) ==
  /\ InferenceSwitch(j, {"New"})
  /\ iw' = PlanTo(j, ToPhase(cache[j], "Queued"))

InferenceAdmitted(j) == qcache.exists /\ HasEntry(qcache.used, j)

InferenceAdmit(j) ==
  /\ InferenceSwitch(j, {"Queued"})
  /\ iw' = IF InferenceAdmitted(j)
           THEN PlanTo(j, ToPhase(cache[j], "Starting")) ELSE {}

InferenceRun(j) ==
  /\ InferenceSwitch(j, InferenceActive)
  /\ \E phase \in InferencePassPhases(cache[j].phase) :
       iw' = PlanTo(j, ToPhase(cache[j], phase))

\* The pod of a Failing job is deleted, or found gone.
InferenceFail(j) ==
  /\ InferenceSwitch(j, {"Failing"})
  /\ iw' \in {{}, PlanTo(j, ToPhase(cache[j], "Failed"))}

\* Mutant of InferenceWrite: the status is patched whatever version is stored.
BlindInferenceWrite ==
  /\ \E p \in iw : Stores(p.job, p.next)
  /\ iw' = {}
  /\ UNCHANGED <<queueVars, todo, qtodo, tw, qw, bounds>>

InferenceWrite ==
  /\ \E p \in iw : p.current /\ Stores(p.job, p.next)
  /\ iw' = {}
  /\ UNCHANGED <<queueVars, todo, qtodo, tw, qw, bounds>>

InferenceConflict ==
  /\ \E p \in iw : ~p.current /\ todo' = todo \cup {p.job}
  /\ iw' = {}
  /\ UNCHANGED <<jobVars, queueVars, qtodo, tw, qw, bounds>>

InferenceController ==
  \/ \E j \in InferenceJobs :
       \/ InferenceGone(j) \/ InferenceFinalize(j) \/ InferenceGuard(j)
       \/ InferenceDone(j) \/ InferenceEnqueue(j) \/ InferenceAdmit(j)
       \/ InferenceRun(j) \/ InferenceFail(j)
  \/ InferenceWrite \/ InferenceConflict

-----------------------------------------------------------------------------
(* QueueReconciler.Reconcile *)

\* Get of the queue; when it is not found the pass ends.
QueueGet ==
  /\ qw.pc = "idle"
  /\ qtodo
  /\ qtodo' = FALSE
  /\ qw' = IF qcache.exists
           THEN [NoPass EXCEPT !.pc = "listTrain", !.used = qcache.used,
                               !.current = (qwatch = << >>)]
           ELSE NoPass
  /\ UNCHANGED <<jobVars, queueVars, todo, tw, iw, bounds>>

QueueListTrain ==
  /\ qw.pc = "listTrain"
  /\ qw' = [qw EXCEPT !.pc = "listInference",
                      !.list = [j \in Jobs |-> IF j \in TrainJobs
                                               THEN cache[j] ELSE @[j]]]
  /\ UNCHANGED <<jobVars, queueVars, todo, qtodo, tw, iw, bounds>>

\* The second List, and everything computed from the three reads; the pass
\* ends here when it has nothing to write.
QueueListInference ==
  /\ qw.pc = "listInference"
  /\ LET list == [j \in Jobs |-> IF j \in InferenceJobs
                                 THEN cache[j] ELSE qw.list[j]]
     IN  \E used \in PassResults(qw.used, list) :
           qw' = IF used = qw.used THEN NoPass
                 ELSE [qw EXCEPT !.pc = "write", !.used = used, !.list = NoJobs]
  /\ UNCHANGED <<jobVars, queueVars, todo, qtodo, tw, iw, bounds>>

QueueWrite ==
  /\ qw.pc = "write" /\ qw.current
  /\ queue' = [queue EXCEPT !.used = qw.used]
  /\ qwatch' = Append(qwatch, queue')
  /\ qw' = NoPass
  /\ UNCHANGED <<jobVars, qcache, todo, qtodo, tw, iw, bounds>>

QueueConflict ==
  /\ qw.pc = "write" /\ ~qw.current
  /\ qw' = NoPass
  /\ qtodo' = TRUE
  /\ UNCHANGED <<jobVars, queueVars, todo, tw, iw, bounds>>

QueueController ==
  \/ QueueGet \/ QueueListTrain \/ QueueListInference
  \/ QueueWrite \/ QueueConflict

-----------------------------------------------------------------------------

Environment ==
  \/ CreateQueue \/ Restart
  \/ \E j \in Jobs : CreateJob(j) \/ DeleteJob(j) \/ WorkloadEvent(j)

Informers == DeliverQueue \/ \E j \in Jobs : DeliverJob(j)

Next == Environment \/ Informers \/ TrainController \/ InferenceController \/ QueueController

Spec == Init /\ [][Next]_vars

\* One pass over the key j by the controller of its kind.
PassOver(j) ==
  \/ j \in TrainJobs /\ (\/ TrainIdle(j) \/ TrainSubmit(j) \/ TrainEnqueue(j)
                         \/ TrainAdmit(j) \/ TrainRun(j) \/ TrainRelease(j))
  \/ j \in InferenceJobs /\ (\/ InferenceGone(j) \/ InferenceFinalize(j)
                             \/ InferenceGuard(j) \/ InferenceDone(j)
                             \/ InferenceEnqueue(j) \/ InferenceAdmit(j)
                             \/ InferenceRun(j) \/ InferenceFail(j))

\* What the runtime guarantees: watches deliver, a worker finishes the pass it
\* is in, and a work queue is first-in-first-out, so that a key which keeps
\* coming back is served however often others are.
Fairness ==
  /\ WF_vars(DeliverQueue) /\ \A j \in Jobs : WF_vars(DeliverJob(j))
  /\ WF_vars(TrainWrite \/ TrainConflict)
  /\ WF_vars(InferenceWrite \/ InferenceConflict)
  /\ WF_vars(QueueController)
  /\ \A j \in Jobs : SF_vars(PassOver(j))

FairSpec == Spec /\ Fairness

-----------------------------------------------------------------------------
(* Properties *)

\* The variables have their types, and each job worker has at most one write
\* in flight.
TypeOK ==
  /\ store \in [Jobs -> Version] /\ cache \in [Jobs -> Version]
  /\ watch \in [Jobs -> Seq(Version)]
  /\ queue \in QueueVersion /\ qcache \in QueueVersion
  /\ qwatch \in Seq(QueueVersion)
  /\ todo \subseteq Jobs /\ qtodo \in BOOLEAN
  /\ tw \subseteq Plan /\ iw \subseteq Plan
  /\ \A p, q \in tw : p = q
  /\ \A p, q \in iw : p = q
  /\ qw \in QueuePasses
  /\ lives \in [Jobs -> 0 .. MaxLives] /\ restarts \in 0 .. MaxRestarts

\* A job past admission (its workers may exist) has its own reservation in the
\* stored Used list: the clean-up of the Queue reconciler, working from a
\* cache that lags, never drops the entry of a job that still counts, and a
\* requeued job never starts on the entry of its previous round.
AdmittedIsReserved ==
  \A j \in Jobs :
    store[j].phase \in TrainHolding \cup InferenceHolding =>
      queue.used[EntryOf(j, store)] > 0

\* No two entries for one job, so that no job is charged twice.
OneEntryPerJob ==
  \A e, f \in Entry :
    e.job = f.job /\ queue.used[e] > 0 /\ queue.used[f] > 0
      => e = f /\ queue.used[e] = 1

\* The jobs past admission together never need more than the quota, whatever
\* the interleaving of the three controllers.
HoldingFitsQuota ==
  \A r \in Resources :
    MapThenSumSet(LAMBDA j : Needed(j)[r],
                  {j \in Jobs : store[j].phase \in TrainHolding \cup InferenceHolding})
      <= Quota[r]

\* Nothing is left to deliver, to serve or to finish.
Quiescent ==
  /\ queue.exists
  /\ todo = {} /\ ~qtodo
  /\ tw = {} /\ iw = {} /\ qw.pc = "idle"
  /\ qwatch = << >> /\ \A j \in Jobs : watch[j] = << >>

\* When everything has settled the Used list is clean: no entry of a job that
\* is gone or finished, nor of an earlier round of a requeued job.
UsedIsClean ==
  Quiescent =>
    \A e \in Entry : queue.used[e] > 0 =>
      /\ store[e.job].phase \notin {"Absent"} \cup TrainTerminal
      /\ e.rc = store[e.job].rc

\* No wake-up is lost: when everything has settled no job sits in Queued with
\* its reservation made, and the head of the line waits only for quota.
NoLostWakeup ==
  Quiescent =>
    /\ \A j \in Candidates(store) :
         queue.used[EntryOf(j, store)] = 0
    /\ Candidates(store) # {} =>
         \E j \in Heads(store) : ~Fits(j, Remaining(queue.used))

\* Finished is final: no write made from an outdated copy revives a train job
\* that has succeeded or failed.
TerminalIsFinal ==
  [][\A j \in TrainJobs :
       store[j].phase \in TrainTerminal =>
         store'[j].phase \in {store[j].phase, "Absent"}]_vars

\* Whatever the passes and deletions of an inference job, its status and its
\* finalizer go through the life that InferenceServing shows it to have.
Life(j) == INSTANCE InferenceLifecycle WITH phase <- store[j].phase, fin <- store[j].fin

InferenceRefines ==
  /\ \A j \in InferenceJobs : Life(j)!Init
  /\ [][\A j \in InferenceJobs :
          [Life(j)!Next]_<<store[j].phase, store[j].fin>>]_vars

\* A queued job that fits beside all others leaves Queued, also after it was
\* preempted and requeued: the entry of its old round is cleaned up, a new one
\* made, and the job woken to see it.
QueuedLeaves ==
  \A j \in Jobs :
    (queue.exists /\ store[j].phase = "Queued")
      ~> (store[j].phase # "Queued" \/ store[j].fin = "deleting")

=============================================================================
