------------------------- MODULE AdmissionSettled -------------------------
(***************************************************************************)
(* That nothing is forgotten: once everything has settled, no job waits    *)
(* for an admission it already has, the head of the line waits only for    *)
(* quota, and the Used list is clean.                                      *)
(*                                                                         *)
(* CalmInv is the reason, and holds also when names are reused: a job that *)
(* could move is in a work queue, in a watch or in a worker's hands, and   *)
(* an idle Queue worker whose key is not enqueued has made the pass that   *)
(* the caches call for.  In a settled state the caches are the stored      *)
(* objects, so the Used list is what one pass makes of itself.             *)
(***************************************************************************)
EXTENDS AdmissionRefinement

-----------------------------------------------------------------------------
(* Jobs that see their admission *)

\* A pass over a job that is Queued and admitted leaves a write for it.
LEMMA AdmittedPassWrites ==
  ASSUME TypeOK, NEW j \in Jobs, PassOver(j),
         cache[j].phase = "Queued", SeesAdmission(j),
         ~(lives[j] > 1 /\ cache[j].fin = "deleting")
  PROVE  \E p \in tw' \cup iw' : p.job = j
<1>1. \A v : v # cache[j] => \E p \in PlanTo(j, v) : p.job = j
  BY DEF PlanTo
<1>2. cache[j] \in Version
  BY DEF TypeOK
<1>3. ToPhase(cache[j], "Starting") # cache[j]
  BY <1>2 DEF ToPhase, Version
<1>4. CASE j \in TrainJobs
  <2>1. TrainAdmit(j)
    BY <1>4, JobsAssumption
    DEF PassOver, TrainIdle, TrainSubmit, TrainEnqueue, TrainRun, TrainRelease,
        TrainTerminal, TrainActive
  <2>2. tw' = PlanTo(j, ToPhase(cache[j], "Starting"))
    BY <1>4, <2>1 DEF TrainAdmit, SeesAdmission
  <2> QED
    BY <1>1, <1>3, <2>2
<1>5. CASE j \in InferenceJobs
  <2>1. \/ InferenceFinalize(j) \/ InferenceGuard(j) \/ InferenceAdmit(j)
    BY <1>5, JobsAssumption
    DEF PassOver, InferenceGone, InferenceDone, InferenceEnqueue, InferenceRun,
        InferenceFail, InferenceSwitch, InferenceActive
  <2>2. CASE InferenceFinalize(j)
    <3>1. iw' = PlanTo(j, NoJob)
      BY <2>2 DEF InferenceFinalize, InferenceHolding, InferenceActive, PlanTo
    <3>2. NoJob # cache[j]
      BY DEF NoJob
    <3> QED
      BY <1>1, <3>1, <3>2
  <2>3. CASE InferenceGuard(j)
    <3>1. iw' = PlanTo(j, [cache[j] EXCEPT !.fin = "set"]) /\ cache[j].fin = "none"
      BY <2>3 DEF InferenceGuard
    <3>2. [cache[j] EXCEPT !.fin = "set"] # cache[j]
      BY <1>2, <3>1 DEF Version
    <3> QED
      BY <1>1, <3>1, <3>2
  <2>4. CASE InferenceAdmit(j)
    <3>1. iw' = PlanTo(j, ToPhase(cache[j], "Starting"))
      BY <1>5, <2>4, JobsAssumption DEF InferenceAdmit, SeesAdmission
    <3> QED
      BY <1>1, <1>3, <3>1
  <2> QED
    BY <2>1, <2>2, <2>3, <2>4
<1> QED
  BY <1>4, <1>5 DEF Jobs

\* What every pass over a key leaves alone.
LEMMA PassFrame ==
  ASSUME NEW j \in Jobs, PassOver(j)
  PROVE  /\ UNCHANGED <<jobVars, queueVars, qtodo, qw, bounds>>
         /\ todo' = todo \ {j}
         /\ \/ tw = {} /\ iw' = iw
            \/ iw = {} /\ tw' = tw
<1>1. CASE j \in TrainJobs /\ TrainPass(j)
  BY <1>1 DEF TrainPass, TakesKey
<1>2. CASE j \in InferenceJobs /\ InferencePass(j)
  BY <1>2 DEF InferencePass, TakesKey
<1> QED
  BY <1>1, <1>2
  DEF PassOver, TrainIdle, TrainSubmit, TrainEnqueue, TrainAdmit, TrainRun,
      TrainRelease, InferenceGone, InferenceFinalize, InferenceGuard,
      InferenceDone, InferenceEnqueue, InferenceAdmit, InferenceRun,
      InferenceFail, InferenceSwitch

\* A name that was used twice stays so.
LEMMA LivesGrow ==
  ASSUME TypeOK, NEW j \in Jobs, CreateJob(j) \/ DeleteJob(j), NEW i \in Jobs, lives[i] > 1
  PROVE  lives'[i] > 1
<1>1. CASE lives' = lives
  BY <1>1
<1>2. CASE lives' = [lives EXCEPT ![j] = @ + 1]
  <2>1. lives \in [Jobs -> Nat]
    BY BoundAssumption DEF TypeOK
  <2> QED
    BY <1>2, <2>1
<1> QED
  BY <1>1, <1>2 DEF CreateJob, DeleteJob, bounds

\* A step that shows no job anything new wakes nobody and loses nobody.
LEMMA WokenQuiet ==
  ASSUME WokenInv, UNCHANGED <<cache, qcache>>,
         todo \subseteq todo',
         \A j \in Jobs : lives[j] > 1 => lives'[j] > 1,
         \A j \in Jobs : watch[j] # << >> => watch'[j] # << >>,
         \A p \in tw \cup iw : \/ p.job \in todo'
                               \/ watch'[p.job] # << >>
                               \/ \E q \in tw' \cup iw' : q.job = p.job
  PROVE  WokenInv'
BY DEF WokenInv, SeesAdmission, Admitted, InferenceAdmitted, EntryOf

\* WokenInv is inductive.
LEMMA WokenStep ==
  ASSUME TypeOK, FreshInv, WokenInv, [Next]_vars
  PROVE  WokenInv'
<1>1. CASE UNCHANGED <<cache, watch, qcache, todo, tw, iw, lives>>
  BY <1>1 DEF WokenInv, SeesAdmission, Admitted, InferenceAdmitted, EntryOf
<1>2. CASE \E j \in Jobs : PassOver(j)
  <2>1. PICK j \in Jobs : PassOver(j)
    BY <1>2
  <2>2. /\ cache' = cache /\ watch' = watch /\ qcache' = qcache
        /\ todo' = todo \ {j}
        /\ \/ tw = {} /\ iw' = iw
           \/ iw = {} /\ tw' = tw
        /\ lives' = lives
    BY <2>1, PassFrame DEF jobVars, queueVars, bounds
  <2> SUFFICES ASSUME NEW i \in Jobs, cache'[i].phase = "Queued", SeesAdmission(i)'
               PROVE  \/ i \in todo'
                      \/ watch'[i] # << >>
                      \/ \E p \in tw' \cup iw' : p.job = i
                      \/ lives'[i] > 1 /\ cache'[i].fin = "deleting"
    BY DEF WokenInv
  <2>3. cache[i].phase = "Queued" /\ SeesAdmission(i)
    BY <2>2 DEF SeesAdmission, Admitted, InferenceAdmitted, EntryOf
  <2>4. \/ lives[i] > 1 /\ cache[i].fin = "deleting"
        \/ i \in todo
        \/ watch[i] # << >>
        \/ \E p \in tw \cup iw : p.job = i
    BY <2>3 DEF WokenInv
  <2>5. CASE i = j
    BY <2>1, <2>2, <2>3, <2>5, AdmittedPassWrites
  <2>6. CASE i # j
    BY <2>2, <2>4, <2>6
  <2> QED
    BY <2>5, <2>6
<1>3. CASE TrainWrite \/ InferenceWrite
  <2>1. PICK p \in tw \cup iw :
          /\ Stores(p.job, p.next)
          /\ \/ p \in tw /\ tw' = {} /\ iw' = iw
             \/ p \in iw /\ iw' = {} /\ tw' = tw
    BY <1>3 DEF TrainWrite, InferenceWrite
  <2>2. p.job \in Jobs /\ todo' = todo /\ UNCHANGED <<cache, qcache, lives>>
    BY <1>3, <2>1 DEF TypeOK, Plan, TrainWrite, InferenceWrite, Stores, queueVars, bounds
  <2>3. /\ watch'[p.job] # << >>
        /\ \A i \in Jobs : i # p.job => watch'[i] = watch[i]
    <3>1. /\ watch'[p.job] = Append(watch[p.job], p.next)
          /\ watch[p.job] \in Seq(Version) /\ p.next \in Version
          /\ \A i \in Jobs : i # p.job => watch'[i] = watch[i]
      BY <2>1, <2>2 DEF Stores, TypeOK, Plan
    <3> QED
      BY <3>1
  <2>4. \A q \in tw \cup iw : q = p \/ q \in tw' \cup iw'
    BY <2>1 DEF TypeOK
  <2> QED
    BY <2>2, <2>3, <2>4, WokenQuiet
<1>4. CASE TrainConflict \/ InferenceConflict
  <2>1. PICK p \in tw \cup iw :
          /\ todo' = todo \cup {p.job}
          /\ \/ p \in tw /\ tw' = {} /\ iw' = iw
             \/ p \in iw /\ iw' = {} /\ tw' = tw
    BY <1>4 DEF TrainConflict, InferenceConflict
  <2>2. UNCHANGED <<cache, qcache, watch, lives>>
    BY <1>4 DEF TrainConflict, InferenceConflict, jobVars, queueVars, bounds
  <2>3. \A q \in tw \cup iw : q = p \/ q \in tw' \cup iw'
    BY <2>1 DEF TypeOK
  <2> QED
    BY <2>1, <2>2, <2>3, WokenQuiet
<1>5. CASE \E j \in Jobs : CreateJob(j) \/ DeleteJob(j)
  <2>1. PICK j \in Jobs : CreateJob(j) \/ DeleteJob(j)
    BY <1>5
  <2>2. \E v : Stores(j, v)
    BY <2>1 DEF CreateJob, DeleteJob
  <2>3. /\ todo' = todo /\ UNCHANGED <<cache, qcache>>
        /\ tw' \in {tw, Outdated(tw, j)} /\ iw' \in {iw, Outdated(iw, j)}
    BY <2>1 DEF CreateJob, DeleteJob, Stores, queueVars, workers
  <2>4. \A i \in Jobs : watch[i] # << >> => watch'[i] # << >>
    BY <2>2 DEF Stores, TypeOK
  <2>5. ASSUME NEW plans \in SUBSET Plan, NEW p \in plans
        PROVE  \E q \in Outdated(plans, j) : q.job = p.job
    <3> DEFINE q == IF p.job = j THEN [p EXCEPT !.current = FALSE] ELSE p
    <3>1. q \in Outdated(plans, j)
      BY DEF Outdated
    <3>2. q.job = p.job
      BY DEF Plan
    <3> QED
      BY <3>1, <3>2
  <2>6. \A p \in tw \cup iw : \E q \in tw' \cup iw' : q.job = p.job
    BY <2>3, <2>5 DEF TypeOK
  <2>7. \A i \in Jobs : lives[i] > 1 => lives'[i] > 1
    BY <2>1, LivesGrow
  <2> QED
    BY <2>3, <2>4, <2>6, <2>7, WokenQuiet
<1>6. CASE \E j \in Jobs : WorkloadEvent(j)
  BY <1>6, WokenQuiet DEF WorkloadEvent, jobVars, queueVars, workers, bounds
<1>7. CASE \E j \in Jobs : DeliverJob(j)
  <2>1. PICK j \in Jobs : DeliverJob(j)
    BY <1>7
  <2>2. /\ todo' = todo \cup {j} /\ tw' = tw /\ iw' = iw /\ qcache' = qcache
        /\ \A i \in Jobs : i # j => cache'[i] = cache[i] /\ watch'[i] = watch[i]
        /\ lives' = lives
    BY <2>1 DEF DeliverJob, queueVars, workers, bounds, TypeOK
  <2> QED
    BY <2>2 DEF WokenInv, SeesAdmission, Admitted, InferenceAdmitted, EntryOf
<1>8. CASE DeliverQueue
  <2>1. todo' = todo \cup Candidates(cache) /\ UNCHANGED <<cache, watch, tw, iw, lives>>
    BY <1>8 DEF DeliverQueue, jobVars, workers, bounds
  <2> QED
    BY <2>1 DEF WokenInv, Candidates
<1>9. CASE Restart
  <2>1. \A j \in Jobs : cache'[j].phase = "Queued" => j \in todo'
    BY <1>9 DEF Restart
  <2> QED
    BY <2>1 DEF WokenInv
<1> QED
  BY <1>1, <1>2, <1>3, <1>4, <1>5, <1>6, <1>7, <1>8, <1>9
  DEF Next, Environment, Informers, TrainController, InferenceController,
      QueueController, PassOver, Jobs, vars, jobVars, queueVars, workers, bounds,
      CreateQueue, QueueGet, QueueListTrain, QueueListInference, QueueWrite,
      QueueConflict

-----------------------------------------------------------------------------
(* The pass of the Queue worker *)

\* UpToDateInv is inductive.
LEMMA UpToDateStep ==
  ASSUME TypeOK, UpToDateInv, [Next]_vars
  PROVE  UpToDateInv'
<1>1. CASE UNCHANGED <<cache, qcache, qwatch, qtodo, qw>>
  BY <1>1 DEF UpToDateInv
<1>2. CASE qtodo'
  BY <1>2 DEF UpToDateInv
<1>3. CASE CreateQueue
  <2>1. /\ qwatch' = Append(qwatch, queue') /\ qwatch \in Seq(QueueVersion)
        /\ UNCHANGED <<cache, qcache, qtodo, qw>>
    BY <1>3 DEF CreateQueue, TypeOK, jobVars, workers
  <2>2. qwatch' # << >>
    BY <2>1
  <2> QED
    BY <2>1, <2>2 DEF UpToDateInv
<1>4. CASE QueueGet
  <2>1. qcache' = qcache
    BY <1>4 DEF QueueGet, queueVars
  <2>2. CASE qcache.exists
    <3>1. qw'.pc = "listTrain" /\ qw'.used = qcache.used
      BY <1>4, <2>2 DEF QueueGet, NoPass
    <3> QED
      BY <2>1, <2>2, <3>1 DEF UpToDateInv
  <2>3. CASE ~qcache.exists
    <3>1. qw'.pc = "idle"
      BY <1>4, <2>3 DEF QueueGet, NoPass
    <3> QED
      BY <2>1, <2>3, <3>1 DEF UpToDateInv
  <2> QED
    BY <2>2, <2>3
<1>5. CASE QueueListTrain
  <2>1. /\ qw'.pc = "listInference" /\ qw'.used = qw.used
        /\ \A j \in TrainJobs : qw'.list[j] = cache[j]
        /\ UNCHANGED <<cache, qcache, qtodo>>
    BY <1>5 DEF QueueListTrain, TypeOK, QueuePasses, Jobs, jobVars, queueVars
  <2> QED
    BY <1>5, <2>1 DEF UpToDateInv, QueueListTrain
<1>6. CASE QueueListInference /\ ~qtodo
  <2> DEFINE list == [j \in Jobs |-> IF j \in InferenceJobs
                                     THEN cache[j] ELSE qw.list[j]]
  <2>1. /\ UNCHANGED <<cache, qcache, qtodo>>
        /\ qcache.exists /\ qw.used = qcache.used
        /\ \A j \in TrainJobs : qw.list[j] = cache[j]
    BY <1>6 DEF QueueListInference, UpToDateInv, jobVars, queueVars
  <2>2. list = cache
    BY <2>1 DEF TypeOK, Jobs
  <2>3. PICK used \in PassResults(qw.used, list) :
          qw' = IF used = qw.used THEN NoPass
                ELSE [qw EXCEPT !.pc = "write", !.used = used, !.list = NoJobs]
    BY <1>6 DEF QueueListInference
  <2>4. CASE used = qw.used
    <3>1. qcache'.used \in PassResults(qcache'.used, cache')
      BY <2>1, <2>2, <2>3, <2>4
    <3>2. qw'.pc = "idle"
      BY <2>3, <2>4 DEF NoPass
    <3> QED
      BY <3>1, <3>2 DEF UpToDateInv
  <2>5. CASE used # qw.used
    <3>1. qw'.pc = "write"
      BY <2>3, <2>5 DEF TypeOK, QueuePasses
    <3> QED
      BY <3>1 DEF UpToDateInv
  <2> QED
    BY <2>4, <2>5
<1>7. CASE QueueWrite
  <2>1. qwatch' # << >> /\ qw'.pc = "idle"
    BY <1>7 DEF QueueWrite, NoPass, TypeOK
  <2> QED
    BY <2>1 DEF UpToDateInv
<1>8. CASE QueueListInference /\ qtodo
  BY <1>2, <1>8 DEF QueueListInference
<1>9. CASE \E j \in Jobs : PassOver(j)
  BY <1>1, <1>9, PassFrame DEF jobVars, queueVars
<1>10. CASE \E j \in Jobs : CreateJob(j) \/ DeleteJob(j) \/ WorkloadEvent(j)
  BY <1>1, <1>2, <1>10 DEF CreateJob, DeleteJob, WorkloadEvent, Stores, jobVars,
                           queueVars, workers
<1>11. CASE TrainWrite \/ InferenceWrite \/ TrainConflict \/ InferenceConflict
  BY <1>1, <1>11 DEF TrainWrite, InferenceWrite, TrainConflict,
                     InferenceConflict, Stores, jobVars, queueVars
<1> QED
  BY <1>1, <1>2, <1>3, <1>4, <1>5, <1>6, <1>7, <1>8, <1>9, <1>10, <1>11
  DEF Next, Environment, Informers, TrainController, InferenceController,
      QueueController, PassOver, Jobs, vars, jobVars, queueVars, workers,
      DeliverJob, DeliverQueue, Restart, QueueConflict

\* A job that could move and a queue that could be worked on are never left
\* without a wake-up: lagging caches, refused writes, deletions, restarts and
\* reused names included (where a job being deleted may wait for the pod of its
\* predecessor).
THEOREM NothingIsForgotten == Spec => []CalmInv
<1>1. Init => WatchInv /\ FreshInv /\ CalmInv
  <2> SUFFICES ASSUME Init PROVE WatchInv /\ FreshInv /\ CalmInv
    OBVIOUS
  <2>1. WatchInv /\ FreshInv
    BY DEF Init, WatchInv, FreshInv
  <2>2. \A j \in Jobs : cache[j].phase = "Absent"
    BY DEF Init, NoJobs, NoJob
  <2>3. WokenInv
    BY <2>2 DEF WokenInv
  <2>4. qw.pc = "idle" /\ ~qcache.exists
    BY DEF Init, NoPass, NoQueue
  <2>5. UpToDateInv
    BY <2>4 DEF UpToDateInv
  <2> QED
    BY <2>1, <2>3, <2>5 DEF CalmInv
<1>2. TypeOK /\ WatchInv /\ FreshInv /\ CalmInv /\ [Next]_vars =>
        WatchInv' /\ FreshInv' /\ CalmInv'
  BY FreshStep, WokenStep, UpToDateStep DEF CalmInv
<1> QED
  BY <1>1, <1>2, TypeCorrect, PTL DEF Spec

\* Every version of an inference job is one its life can reach.
LEMMA LivesHold == Spec => []FormInv
<1>1. Init => WatchInv /\ FreshInv /\ LifeInv
  BY DEF Init, WatchInv, FreshInv, LifeInv, FormInv, LeadInv, Formed, NoJobs, NoJob,
         Jobs, InferencePhases
<1>2. TypeOK /\ WatchInv /\ FreshInv /\ LifeInv /\ [Next]_vars =>
        WatchInv' /\ FreshInv' /\ LifeInv'
  BY FreshStep, LifeStep
<1>3. LifeInv => FormInv
  BY DEF LifeInv
<1> QED
  BY <1>1, <1>2, <1>3, TypeCorrect, PTL DEF Spec

-----------------------------------------------------------------------------
(* Settled states *)

\* In a settled state the caches hold what is stored, no Queued job has the
\* entry it waits for, and the Used list is what a pass makes of itself.
LEMMA SettledFacts ==
  ASSUME TypeOK, WatchInv, CalmInv, Quiescent, MaxLives <= 1
  PROVE  /\ cache = store /\ qcache = queue
         /\ \A j \in Candidates(store) :
              IF j \in TrainJobs THEN queue.used[EntryOf(j, store)] = 0
              ELSE ~HasEntry(queue.used, j)
         /\ queue.used \in PassResults(queue.used, store)
<1>1. cache = store /\ qcache = queue
  <2>1. \A j \in Jobs : store[j] = cache[j]
    BY DEF WatchInv, Quiescent
  <2> QED
    BY <2>1 DEF WatchInv, Quiescent, TypeOK
<1>2. \A j \in Candidates(store) :
        IF j \in TrainJobs THEN queue.used[EntryOf(j, store)] = 0
        ELSE ~HasEntry(queue.used, j)
  <2> SUFFICES ASSUME NEW j \in Candidates(store)
               PROVE  IF j \in TrainJobs THEN queue.used[EntryOf(j, store)] = 0
                      ELSE ~HasEntry(queue.used, j)
    OBVIOUS
  <2>1. j \in Jobs /\ store[j].phase = "Queued"
    BY DEF Candidates
  <2>2. ~SeesAdmission(j)
    <3>1. lives[j] \in 0 .. MaxLives
      BY <2>1 DEF TypeOK
    <3>2. ~(lives[j] > 1)
      BY <3>1, BoundAssumption
    <3> QED
      BY <1>1, <2>1, <3>2 DEF CalmInv, WokenInv, Quiescent
  <2>3. EntryOf(j, store) \in Entry /\ queue.used \in UsedList
    BY <2>1, EntryOfType DEF TypeOK, QueueVersion
  <2>4. queue.used[EntryOf(j, store)] \in Nat
    BY <2>3 DEF UsedList
  <2> QED
    BY <1>1, <2>2, <2>4
    DEF SeesAdmission, Admitted, InferenceAdmitted, Quiescent
<1>3. queue.used \in PassResults(queue.used, store)
  BY <1>1 DEF CalmInv, UpToDateInv, Quiescent
<1> QED
  BY <1>1, <1>2, <1>3

\* An entry the clean-up keeps, of a job none of whose entries is of a later
\* round, is the entry of the job's current round.
LEMMA KeptIsCurrent ==
  ASSUME TypeOK, RoundInv, InferenceRoundInv, FormInv,
         NEW e \in Entry, queue.used[e] > 0, Keeps(store, e)
  PROVE  /\ Alive(store[e.job])
         /\ e.rc = store[e.job].rc
         /\ e = EntryOf(e.job, store)
<1>1. e.job \in Jobs /\ e.rc \in Nat /\ store[e.job].rc \in Nat
  <2>1. e.job \in Jobs /\ e.rc \in Nat
    BY DEF Entry, Rounds
  <2> QED
    BY <2>1, VersionRound DEF TypeOK
<1>2. Alive(store[e.job])
  <2>1. CASE e.job \in TrainJobs
    BY <2>1 DEF Keeps, Alive
  <2>2. CASE e.job \in InferenceJobs
    <3>1. e.job \notin TrainJobs
      BY <2>2, JobsAssumption
    <3>2. store[e.job].phase # "Succeeded"
      BY <2>2 DEF FormInv, Formed, InferencePhases
    <3> QED
      BY <3>1, <3>2 DEF Keeps, Alive, TrainTerminal
  <2> QED
    BY <1>1, <2>1, <2>2 DEF Jobs
<1>3. e.rc <= store[e.job].rc
  BY <1>1, <1>2 DEF RoundInv
<1>4. e.rc = store[e.job].rc
  <2>1. CASE e.job \in TrainJobs
    <3>1. ~(e.rc < store[e.job].rc)
      BY <2>1 DEF Keeps
    <3> QED
      BY <1>1, <1>3, <3>1
  <2>2. CASE e.job \in InferenceJobs
    <3>1. store[e.job].rc = 0
      BY <2>2 DEF InferenceRoundInv
    <3> QED
      BY <1>1, <1>3, <3>1
  <2> QED
    BY <1>1, <2>1, <2>2 DEF Jobs
<1>5. e = EntryOf(e.job, store)
  BY <1>4 DEF Entry, EntryOf
<1> QED
  BY <1>2, <1>4, <1>5

\* In a settled state every entry is of the current round of a living job.
LEMMA SettledEntries ==
  ASSUME TypeOK, RoundInv, InferenceRoundInv, FormInv,
         queue.used \in PassResults(queue.used, store),
         NEW e \in Entry, queue.used[e] > 0
  PROVE  Alive(store[e.job]) /\ e.rc = store[e.job].rc
<1> DEFINE kept == Pruned(queue.used, store)
<1>1. queue.used \in UsedList /\ store \in [Jobs -> Version]
  BY DEF TypeOK, QueueVersion
<1>2. kept \in UsedList /\ (kept[e] > 0 => Keeps(store, e))
  BY <1>1 DEF Pruned, UsedList
<1>3. CASE kept[e] > 0
  BY <1>2, <1>3, KeptIsCurrent
<1>4. CASE ~(kept[e] > 0)
  <2>1. queue.used # kept
    BY <1>4
  <2>2. PICK j \in Jobs :
          /\ store[j].phase = "Queued"
          /\ queue.used = [kept EXCEPT ![EntryOf(j, store)] = @ + 1]
    BY <1>1, <2>1, PassResultsFacts
  <2>3. e = EntryOf(j, store)
    BY <1>2, <1>4, <2>2, EntryOfType DEF UsedList
  <2>4. e.job = j /\ e.rc = store[j].rc
    BY <2>3 DEF EntryOf
  <2> QED
    BY <2>2, <2>4 DEF Alive, TrainTerminal
<1> QED
  BY <1>3, <1>4

\* The Used list never keeps the entry of a job that is gone or finished, nor of
\* an earlier round, beyond the last pass that its last event calls for: once
\* everything has settled it is clean, as long as no job name is used twice.
THEOREM SettledListIsClean == MaxLives <= 1 => (Spec => []UsedIsClean)
<1> SUFFICES ASSUME MaxLives <= 1 PROVE Spec => []UsedIsClean
  OBVIOUS
<1>1. TypeOK /\ AdmissionInv /\ FormInv /\ CalmInv => UsedIsClean
  <2> SUFFICES ASSUME TypeOK, AdmissionInv, FormInv, CalmInv, Quiescent,
                      NEW e \in Entry, queue.used[e] > 0
               PROVE  /\ store[e.job].phase \notin {"Absent"} \cup TrainTerminal
                      /\ e.rc = store[e.job].rc
    BY DEF UsedIsClean
  <2>1. WatchInv /\ RoundInv /\ InferenceRoundInv
    BY DEF AdmissionInv
  <2> QED
    BY <2>1, SettledFacts, SettledEntries DEF Alive
<1>2. Spec => []AdmissionInv
  BY InvariantHolds
<1> QED
  BY <1>1, <1>2, TypeCorrect, NothingIsForgotten, LivesHold, PTL

\* When everything has settled, the head of the line has no entry at all and
\* does not fit beside the entries there are.
LEMMA HeadWaitsForQuota ==
  ASSUME TypeOK, WatchInv, RoundInv, InferenceRoundInv, FormInv, CalmInv,
         Quiescent, MaxLives <= 1, Candidates(store) # {}
  PROVE  \E j \in Heads(store) : ~Fits(j, Remaining(queue.used))
<1> DEFINE kept == Pruned(queue.used, store)
           admit(j) == IF Fits(j, Remaining(kept)) /\ ~HasEntry(kept, j)
                       THEN [kept EXCEPT ![EntryOf(j, store)] = @ + 1] ELSE kept
<1>1. PICK j \in Heads(store) : queue.used = admit(j)
  BY SettledFacts DEF PassResults
<1>2. /\ j \in Candidates(store) /\ j \in Jobs /\ EntryOf(j, store) \in Entry
      /\ queue.used \in UsedList
  BY EntryOfType DEF Heads, Candidates, TypeOK, QueueVersion
<1>3. kept \in UsedList /\ \A e \in Entry : kept[e] > 0 =>
                             Keeps(store, e) /\ queue.used[e] > 0
  BY <1>2 DEF Pruned, UsedList
<1>4. /\ queue.used[EntryOf(j, store)] = 0
      /\ j \notin TrainJobs => ~HasEntry(queue.used, j)
  <2>1. IF j \in TrainJobs THEN queue.used[EntryOf(j, store)] = 0
        ELSE ~HasEntry(queue.used, j)
    BY <1>2, SettledFacts
  <2>2. queue.used[EntryOf(j, store)] \in Nat /\ EntryOf(j, store).job = j
    BY <1>2 DEF UsedList, EntryOf
  <2> QED
    BY <1>2, <2>1, <2>2 DEF HasEntry
<1>5. ~HasEntry(kept, j)
  <2> SUFFICES ASSUME NEW e \in Entry, e.job = j, kept[e] > 0 PROVE FALSE
    BY DEF HasEntry
  <2>1. e = EntryOf(j, store) /\ queue.used[e] > 0
    BY <1>3, KeptIsCurrent
  <2> QED
    BY <1>4, <2>1
<1> HIDE DEF kept
<1>6. ~Fits(j, Remaining(kept))
  <2> SUFFICES ASSUME Fits(j, Remaining(kept)) PROVE FALSE
    OBVIOUS
  <2>1. queue.used = [kept EXCEPT ![EntryOf(j, store)] = @ + 1]
    BY <1>1, <1>5
  <2>2. queue.used[EntryOf(j, store)] > 0
    BY <1>2, <1>3, <2>1 DEF UsedList
  <2> QED
    BY <1>4, <2>2
<1>7. queue.used = kept
  BY <1>1, <1>6
<1> QED
  BY <1>6, <1>7

\* No wake-up is lost: once everything has settled no job sits in Queued with
\* its reservation made, and the head of the line waits only for quota, as long
\* as no job name is used twice.
THEOREM WakeUpsArrive == MaxLives <= 1 => (Spec => []NoLostWakeup)
<1> SUFFICES ASSUME MaxLives <= 1 PROVE Spec => []NoLostWakeup
  OBVIOUS
<1>1. TypeOK /\ AdmissionInv /\ FormInv /\ CalmInv => NoLostWakeup
  <2> SUFFICES ASSUME TypeOK, AdmissionInv, FormInv, CalmInv, Quiescent
               PROVE  /\ \A j \in Candidates(store) :
                           queue.used[EntryOf(j, store)] = 0
                      /\ Candidates(store) # {} =>
                           \E j \in Heads(store) : ~Fits(j, Remaining(queue.used))
    BY DEF NoLostWakeup
  <2>1. WatchInv /\ RoundInv /\ InferenceRoundInv
    BY DEF AdmissionInv
  <2>2. ASSUME NEW j \in Candidates(store)
        PROVE  queue.used[EntryOf(j, store)] = 0
    <3>1. IF j \in TrainJobs THEN queue.used[EntryOf(j, store)] = 0
          ELSE ~HasEntry(queue.used, j)
      BY <2>1, SettledFacts
    <3>2. j \in Jobs /\ EntryOf(j, store) \in Entry /\ EntryOf(j, store).job = j
      BY EntryOfType DEF Candidates, EntryOf, TypeOK
    <3>3. queue.used[EntryOf(j, store)] \in Nat
      BY <3>2 DEF TypeOK, QueueVersion, UsedList
    <3> QED
      BY <3>1, <3>2, <3>3 DEF HasEntry
  <2> QED
    BY <2>1, <2>2, HeadWaitsForQuota
<1>2. Spec => []AdmissionInv
  BY InvariantHolds
<1> QED
  BY <1>1, <1>2, TypeCorrect, NothingIsForgotten, LivesHold, PTL

==========================================================================
