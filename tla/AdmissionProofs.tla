------------------------ MODULE AdmissionProofs ------------------------
(***************************************************************************)
(* Proofs about QueueAdmission: its type invariant; that no queue ever     *)
(* holds two entries of one job; for job names that are not reused,        *)
(* that a job past admission always has its reservation; and that finished *)
(* train jobs stay finished.                                               *)
(***************************************************************************)
EXTENDS AdmissionInvariant, SequenceTheorems, TLAPS

USE BoundAssumption, RequeueAssumption, JobsAssumption

-----------------------------------------------------------------------------
(* Facts about single operators *)

\* A planned write is well typed, and there is at most one.
LEMMA PlanToType ==
  ASSUME NEW j \in Jobs, NEW v \in Version
  PROVE  /\ PlanTo(j, v) \subseteq Plan
         /\ \A p, q \in PlanTo(j, v) : p = q
<1>1. (watch[j] = << >>) \in BOOLEAN
  OBVIOUS
<1>2. [job |-> j, next |-> v, current |-> (watch[j] = << >>)] \in Plan
  BY <1>1 DEF Plan
<1> QED
  BY <1>2 DEF PlanTo

\* What is left of a queue of versions when its first is delivered.
LEMMA TailFacts ==
  ASSUME NEW S, NEW s \in Seq(S), s # << >>
  PROVE  /\ Tail(s) \in Seq(S) /\ s[1] \in S /\ Head(s) = s[1]
         /\ 1 \in DOMAIN s
         /\ \A n \in DOMAIN Tail(s) : /\ n + 1 \in DOMAIN s
                                      /\ Tail(s)[n] = s[n + 1]
         /\ Tail(s) = << >> => s[Len(s)] = s[1]
         /\ Tail(s) # << >> => Tail(s)[Len(Tail(s))] = s[Len(s)]
<1>1. /\ Tail(s) \in Seq(S) /\ Len(Tail(s)) = Len(s) - 1
      /\ \A i \in 1 .. Len(Tail(s)) : Tail(s)[i] = s[i + 1]
  BY HeadTailProperties
<1>2. /\ Len(s) \in Nat \ {0} /\ DOMAIN s = 1 .. Len(s)
      /\ DOMAIN Tail(s) = 1 .. Len(Tail(s))
      /\ Tail(s) # << >> => Len(Tail(s)) \in Nat \ {0}
  <2>1. Len(s) \in Nat \ {0}
    BY EmptySeq
  <2>2. Tail(s) # << >> => Len(Tail(s)) \in Nat \ {0}
    BY <1>1, EmptySeq
  <2>3. DOMAIN s = 1 .. Len(s) /\ DOMAIN Tail(s) = 1 .. Len(Tail(s))
    BY <1>1, LenProperties
  <2> QED
    BY <2>1, <2>2, <2>3
<1>3. Tail(s) = << >> => Len(s) = 1
  <2>1. Len(<< >>) = 0
    BY EmptySeq
  <2>2. Tail(s) = << >> => Len(Tail(s)) = 0
    BY <2>1, Zenon
  <2> QED
    BY <1>1, <1>2, <2>2
<1>4. Head(s) = s[1] /\ s[1] \in S /\ 1 \in DOMAIN s
  BY <1>2, ElementOfSeq
<1>5. \A n \in DOMAIN Tail(s) : n + 1 \in DOMAIN s /\ Tail(s)[n] = s[n + 1]
  <2> SUFFICES ASSUME NEW n \in DOMAIN Tail(s)
               PROVE  n + 1 \in DOMAIN s /\ Tail(s)[n] = s[n + 1]
    OBVIOUS
  <2>1. n \in 1 .. Len(Tail(s))
    BY <1>2
  <2>2. n + 1 \in 1 .. Len(s)
    BY <1>1, <1>2, <2>1
  <2> QED
    BY <1>1, <1>2, <2>1, <2>2
<1>6. Tail(s) # << >> => Tail(s)[Len(Tail(s))] = s[Len(s)]
  <2> SUFFICES ASSUME Tail(s) # << >> PROVE Tail(s)[Len(Tail(s))] = s[Len(s)]
    OBVIOUS
  <2>1. Len(Tail(s)) \in 1 .. Len(Tail(s)) /\ Len(Tail(s)) + 1 = Len(s)
    BY <1>1, <1>2
  <2> QED
    BY <1>1, <2>1
<1> QED
  BY <1>1, <1>3, <1>4, <1>5, <1>6

\* Writing a phase into a version gives a version.
LEMMA ToPhaseType ==
  ASSUME NEW v \in Version, NEW phase \in TrainPhases \cup InferencePhases
  PROVE  ToPhase(v, phase) \in Version
BY DEF Version, ToPhase

LEMMA NoJobType == NoJob \in Version
BY DEF NoJob, Version, TrainPhases, Rounds

\* The entry of a job in a job list is an entry.
LEMMA EntryOfType ==
  ASSUME NEW list \in [Jobs -> Version], NEW j \in Jobs
  PROVE  EntryOf(j, list) \in Entry
BY DEF EntryOf, Entry, Version

\* What one pass of the Queue reconciler leaves in the Used list: what the
\* clean-up keeps, and at most one new entry, of a queued job that fits and has
\* none.
LEMMA PassResultsFacts ==
  ASSUME NEW used \in UsedList, NEW list \in [Jobs -> Version],
         NEW result \in PassResults(used, list)
  PROVE  /\ result \in UsedList
         /\ \/ result = Pruned(used, list)
            \/ \E j \in Jobs :
                 /\ list[j].phase = "Queued"
                 /\ ~HasEntry(Pruned(used, list), j)
                 /\ Fits(j, Remaining(Pruned(used, list)))
                 /\ result = [Pruned(used, list) EXCEPT ![EntryOf(j, list)] = @ + 1]
<1> DEFINE kept == Pruned(used, list)
           admit(j) == IF Fits(j, Remaining(kept)) /\ ~HasEntry(kept, j)
                       THEN [kept EXCEPT ![EntryOf(j, list)] = @ + 1]
                       ELSE kept
<1>1. kept \in UsedList
  BY DEF Pruned, UsedList
<1>2. result = kept \/ \E j \in Heads(list) : result = admit(j)
  BY DEF PassResults
<1>3. CASE result = kept
  BY <1>1, <1>3
<1>4. CASE \E j \in Heads(list) : result = admit(j)
  <2>1. PICK j \in Heads(list) : result = admit(j)
    BY <1>4
  <2>2. j \in Jobs /\ list[j].phase = "Queued"
    BY DEF Heads, Candidates
  <2>3. EntryOf(j, list) \in Entry
    BY <2>2, EntryOfType
  <2>4. [kept EXCEPT ![EntryOf(j, list)] = @ + 1] \in UsedList
    BY <1>1, <2>3 DEF UsedList
  <2> QED
    BY <1>1, <2>1, <2>2, <2>4
<1> QED
  BY <1>2, <1>3, <1>4

-----------------------------------------------------------------------------
(* Type correctness *)

\* Storing a version keeps the job variables well typed.
LEMMA StoresType ==
  ASSUME TypeOK, NEW j \in Jobs, NEW v \in Version, Stores(j, v)
  PROVE  /\ store' \in [Jobs -> Version]
         /\ cache' \in [Jobs -> Version]
         /\ watch' \in [Jobs -> Seq(Version)]
BY DEF TypeOK, Stores

LEMMA TypeInit == Init => TypeOK
<1> SUFFICES ASSUME Init PROVE TypeOK
  OBVIOUS
<1>1. NoJobs \in [Jobs -> Version]
  BY NoJobType DEF NoJobs
<1>2. NothingUsed \in UsedList
  BY DEF NothingUsed, UsedList
<1>3. NoQueue \in QueueVersion
  BY <1>2 DEF NoQueue, QueueVersion
<1>4. NoPass \in QueuePasses
  BY <1>1, <1>2 DEF NoPass, QueuePasses
<1>5. lives \in [Jobs -> 0 .. MaxLives] /\ restarts \in 0 .. MaxRestarts
  BY DEF Init
<1>6. watch \in [Jobs -> Seq(Version)] /\ qwatch \in Seq(QueueVersion)
  BY DEF Init
<1> QED
  BY <1>1, <1>3, <1>4, <1>5, <1>6 DEF Init, TypeOK

\* Every pass of the TrainJob worker leaves a well-typed plan.
LEMMA TrainPassType ==
  ASSUME TypeOK, NEW j \in TrainJobs,
         \/ TrainIdle(j) \/ TrainSubmit(j) \/ TrainEnqueue(j)
         \/ TrainAdmit(j) \/ TrainRun(j) \/ TrainRelease(j)
  PROVE  TypeOK'
<1>1. j \in Jobs /\ cache[j] \in Version
  BY DEF TypeOK, Jobs
<1>2. /\ UNCHANGED <<jobVars, queueVars, qtodo, bounds, iw, qw>>
      /\ todo' \subseteq Jobs
  BY DEF TrainIdle, TrainSubmit, TrainEnqueue, TrainAdmit, TrainRun,
         TrainRelease, TrainPass, TakesKey, TypeOK
<1>3. tw' = {} \/ \E v \in Version : tw' = PlanTo(j, v)
  <2>1. CASE TrainIdle(j)
    BY <2>1 DEF TrainIdle
  <2>2. CASE TrainSubmit(j)
    <3>1. ToPhase(cache[j], "Submitted") \in Version
      BY <1>1, ToPhaseType DEF TrainPhases
    <3> QED
      BY <2>2, <3>1 DEF TrainSubmit
  <2>3. CASE TrainEnqueue(j)
    <3>1. ToPhase(cache[j], "Queued") \in Version
      BY <1>1, ToPhaseType DEF TrainPhases
    <3> QED
      BY <2>3, <3>1 DEF TrainEnqueue
  <2>4. CASE TrainAdmit(j)
    <3>1. ToPhase(cache[j], "Starting") \in Version
      BY <1>1, ToPhaseType DEF TrainPhases
    <3> QED
      BY <2>4, <3>1 DEF TrainAdmit
  <2>5. CASE TrainRun(j)
    <3>1. PICK phase \in TrainPassPhases(cache[j].phase) :
            tw' = PlanTo(j, ToPhase(cache[j], phase))
      BY <2>5 DEF TrainRun
    <3>2. phase \in TrainPhases
      BY DEF TrainPassPhases, WorkerPhases, FailurePhases, GroupPhases, TrainPhases
    <3> QED
      BY <1>1, <3>1, <3>2, ToPhaseType
  <2>6. CASE TrainRelease(j)
    <3>1. cache[j].rc < MaxRequeues =>
            Requeued(cache[j]) \in Version
      BY <1>1 DEF Requeued, Version, Rounds, TrainPhases
    <3> QED
      BY <2>6, <3>1 DEF TrainRelease
  <2> QED
    BY <2>1, <2>2, <2>3, <2>4, <2>5, <2>6
<1>4. tw' \subseteq Plan /\ \A p, q \in tw' : p = q
  BY <1>1, <1>3, PlanToType
<1> QED
  BY <1>2, <1>4 DEF TypeOK, jobVars, queueVars, bounds

\* Every pass of the InferenceJob worker leaves a well-typed plan.
LEMMA InferencePassType ==
  ASSUME TypeOK, NEW j \in InferenceJobs,
         \/ InferenceGone(j) \/ InferenceFinalize(j) \/ InferenceGuard(j)
         \/ InferenceDone(j) \/ InferenceEnqueue(j) \/ InferenceAdmit(j)
         \/ InferenceRun(j) \/ InferenceFail(j)
  PROVE  TypeOK'
<1>1. j \in Jobs /\ cache[j] \in Version
  BY DEF TypeOK, Jobs
<1>2. /\ UNCHANGED <<jobVars, queueVars, qtodo, bounds, tw, qw>>
      /\ todo' \subseteq Jobs
  BY DEF InferenceGone, InferenceFinalize, InferenceGuard, InferenceDone,
         InferenceEnqueue, InferenceAdmit, InferenceRun, InferenceFail,
         InferenceSwitch, InferencePass, TakesKey, TypeOK
<1>3. iw' = {} \/ \E v \in Version : iw' = PlanTo(j, v)
  <2>1. CASE InferenceGone(j) \/ InferenceDone(j)
    BY <2>1 DEF InferenceGone, InferenceDone
  <2>2. CASE InferenceFinalize(j)
    BY <2>2, NoJobType DEF InferenceFinalize
  <2>3. CASE InferenceGuard(j)
    <3>1. [cache[j] EXCEPT !.fin = "set"] \in Version
      BY <1>1 DEF Version
    <3> QED
      BY <2>3, <3>1 DEF InferenceGuard
  <2>4. CASE InferenceEnqueue(j)
    <3>1. ToPhase(cache[j], "Queued") \in Version
      BY <1>1, ToPhaseType DEF InferencePhases
    <3> QED
      BY <2>4, <3>1 DEF InferenceEnqueue
  <2>5. CASE InferenceAdmit(j)
    <3>1. ToPhase(cache[j], "Starting") \in Version
      BY <1>1, ToPhaseType DEF InferencePhases
    <3> QED
      BY <2>5, <3>1 DEF InferenceAdmit
  <2>6. CASE InferenceRun(j)
    <3>1. PICK phase \in InferencePassPhases(cache[j].phase) :
            iw' = PlanTo(j, ToPhase(cache[j], phase))
      BY <2>6 DEF InferenceRun
    <3>2. phase \in InferencePhases \/ phase = cache[j].phase
      BY DEF InferencePassPhases, InferencePhases
    <3>3. phase \in TrainPhases \cup InferencePhases
      BY <1>1, <3>2 DEF Version
    <3> QED
      BY <1>1, <3>1, <3>3, ToPhaseType
  <2>7. CASE InferenceFail(j)
    <3>1. ToPhase(cache[j], "Failed") \in Version
      BY <1>1, ToPhaseType DEF InferencePhases
    <3> QED
      BY <2>7, <3>1 DEF InferenceFail
  <2> QED
    BY <2>1, <2>2, <2>3, <2>4, <2>5, <2>6, <2>7
<1>4. iw' \subseteq Plan /\ \A p, q \in iw' : p = q
  BY <1>1, <1>3, PlanToType
<1> QED
  BY <1>2, <1>4 DEF TypeOK, jobVars, queueVars, bounds

\* The environment and the informers.
LEMMA EnvironmentType ==
  ASSUME TypeOK, Environment \/ Informers
  PROVE  TypeOK'
<1>1. CASE CreateQueue
  <2>1. queue' \in QueueVersion
    BY <1>1 DEF CreateQueue, QueueVersion, NothingUsed, UsedList
  <2>2. qwatch' \in Seq(QueueVersion)
    BY <1>1, <2>1 DEF CreateQueue, TypeOK
  <2> QED
    BY <1>1, <2>1, <2>2 DEF CreateQueue, TypeOK, jobVars, workers, bounds
<1>2. CASE Restart
  <2>1. cache' \in [Jobs -> Version] /\ watch' \in [Jobs -> Seq(Version)]
    BY <1>2 DEF Restart, TypeOK
  <2>2. qw' \in QueuePasses
    BY <1>2, NoJobType
    DEF Restart, QueuePasses, NoPass, NoJobs, NothingUsed, UsedList
  <2>3. restarts' \in 0 .. MaxRestarts
    BY <1>2 DEF Restart, TypeOK
  <2>4. qwatch' \in Seq(QueueVersion) /\ qcache' \in QueueVersion
    BY <1>2 DEF Restart, TypeOK
  <2> QED
    BY <1>2, <2>1, <2>2, <2>3, <2>4 DEF Restart, TypeOK
<1>3. ASSUME NEW j \in Jobs, CreateJob(j)
      PROVE  TypeOK'
  <2>1. [NoJob EXCEPT !.phase = "New"] \in Version
    BY NoJobType DEF Version, TrainPhases
  <2>2. /\ store' \in [Jobs -> Version] /\ cache' \in [Jobs -> Version]
        /\ watch' \in [Jobs -> Seq(Version)]
    BY <1>3, <2>1, StoresType DEF CreateJob
  <2>3. lives' \in [Jobs -> 0 .. MaxLives]
    BY <1>3 DEF CreateJob, TypeOK
  <2> QED
    BY <1>3, <2>2, <2>3 DEF CreateJob, TypeOK, queueVars, workers
<1>4. ASSUME NEW j \in Jobs, DeleteJob(j)
      PROVE  TypeOK'
  <2>1. (IF store[j].fin = "set"
         THEN [store[j] EXCEPT !.fin = "deleting"] ELSE NoJob) \in Version
    BY NoJobType DEF TypeOK, Version
  <2>2. /\ store' \in [Jobs -> Version] /\ cache' \in [Jobs -> Version]
        /\ watch' \in [Jobs -> Seq(Version)]
    BY <1>4, <2>1, StoresType DEF DeleteJob
  <2>3. ASSUME NEW plans \in SUBSET Plan, \A p, q \in plans : p = q
        PROVE  /\ Outdated(plans, j) \subseteq Plan
               /\ \A p, q \in Outdated(plans, j) : p = q
    BY <2>3 DEF Outdated, Plan
  <2>4. /\ tw' \subseteq Plan /\ \A p, q \in tw' : p = q
        /\ iw' \subseteq Plan /\ \A p, q \in iw' : p = q
    BY <1>4, <2>3 DEF DeleteJob, TypeOK
  <2> QED
    BY <1>4, <2>2, <2>4 DEF DeleteJob, TypeOK, queueVars, bounds
<1>5. ASSUME NEW j \in Jobs, WorkloadEvent(j)
      PROVE  TypeOK'
  BY <1>5 DEF WorkloadEvent, TypeOK, jobVars, queueVars, workers, bounds
<1>6. ASSUME NEW j \in Jobs, DeliverJob(j)
      PROVE  TypeOK'
  <2>1. Head(watch[j]) \in Version /\ Tail(watch[j]) \in Seq(Version)
    BY <1>6 DEF DeliverJob, TypeOK
  <2>2. cache' \in [Jobs -> Version] /\ watch' \in [Jobs -> Seq(Version)]
    BY <1>6, <2>1 DEF DeliverJob, TypeOK
  <2> QED
    BY <1>6, <2>2 DEF DeliverJob, TypeOK, queueVars, workers, bounds
<1>7. CASE DeliverQueue
  <2>1. qcache' \in QueueVersion /\ qwatch' \in Seq(QueueVersion)
    BY <1>7 DEF DeliverQueue, TypeOK
  <2>2. todo' \subseteq Jobs
    BY <1>7 DEF DeliverQueue, TypeOK, Candidates
  <2> QED
    BY <1>7, <2>1, <2>2 DEF DeliverQueue, TypeOK, jobVars, workers, bounds
<1> QED
  BY <1>1, <1>2, <1>3, <1>4, <1>5, <1>6, <1>7 DEF Environment, Informers

\* A job worker writes, or is refused.
LEMMA WriteType ==
  ASSUME TypeOK,
         TrainWrite \/ TrainConflict \/ InferenceWrite \/ InferenceConflict
  PROVE  TypeOK'
<1>1. ASSUME NEW p \in Plan, Stores(p.job, p.next)
      PROVE  /\ store' \in [Jobs -> Version] /\ cache' \in [Jobs -> Version]
             /\ watch' \in [Jobs -> Seq(Version)]
  BY <1>1, StoresType DEF Plan
<1>2. CASE TrainWrite
  <2>1. PICK p \in tw : Stores(p.job, p.next)
    BY <1>2 DEF TrainWrite
  <2> QED
    BY <1>1, <1>2, <2>1 DEF TrainWrite, TypeOK, queueVars, bounds
<1>3. CASE InferenceWrite
  <2>1. PICK p \in iw : Stores(p.job, p.next)
    BY <1>3 DEF InferenceWrite
  <2> QED
    BY <1>1, <1>3, <2>1 DEF InferenceWrite, TypeOK, queueVars, bounds
<1>4. CASE TrainConflict
  BY <1>4 DEF TrainConflict, TypeOK, Plan, jobVars, queueVars, bounds
<1>5. CASE InferenceConflict
  BY <1>5 DEF InferenceConflict, TypeOK, Plan, jobVars, queueVars, bounds
<1> QED
  BY <1>2, <1>3, <1>4, <1>5

LEMMA QueueControllerType ==
  ASSUME TypeOK, QueueController
  PROVE  TypeOK'
<1>1. NoPass \in QueuePasses
  BY NoJobType DEF QueuePasses, NoPass, NoJobs, NothingUsed, UsedList
<1>2. CASE QueueGet
  <2>1. (qwatch = << >>) \in BOOLEAN
    OBVIOUS
  <2>2. [NoPass EXCEPT !.pc = "listTrain", !.used = qcache.used,
                       !.current = (qwatch = << >>)] \in QueuePasses
    BY <1>1, <2>1 DEF QueuePasses, QueueVersion, TypeOK
  <2>3. qw' \in QueuePasses
    BY <1>1, <1>2, <2>2 DEF QueueGet
  <2> QED
    BY <1>2, <2>3 DEF QueueGet, TypeOK, jobVars, queueVars, bounds
<1>3. CASE QueueListTrain
  <2>1. [j \in Jobs |-> IF j \in TrainJobs THEN cache[j] ELSE qw.list[j]]
          \in [Jobs -> Version]
    BY DEF QueuePasses, TypeOK
  <2>2. qw' \in QueuePasses
    BY <1>3, <2>1 DEF QueueListTrain, QueuePasses, TypeOK
  <2> QED
    BY <1>3, <2>2 DEF QueueListTrain, TypeOK, jobVars, queueVars, bounds
<1>4. CASE QueueListInference
  <2> DEFINE list == [j \in Jobs |-> IF j \in InferenceJobs
                                     THEN cache[j] ELSE qw.list[j]]
  <2>1. list \in [Jobs -> Version]
    BY DEF QueuePasses, TypeOK
  <2>2. qw.used \in UsedList
    BY DEF QueuePasses, TypeOK
  <2>3. PICK used \in PassResults(qw.used, list) :
          qw' = IF used = qw.used THEN NoPass
                ELSE [qw EXCEPT !.pc = "write", !.used = used, !.list = NoJobs]
    BY <1>4 DEF QueueListInference
  <2>4. used \in UsedList
    BY <2>1, <2>2, PassResultsFacts
  <2>5. NoJobs \in [Jobs -> Version]
    BY NoJobType DEF NoJobs
  <2>6. qw' \in QueuePasses
    BY <1>1, <2>3, <2>4, <2>5 DEF QueuePasses, TypeOK
  <2> QED
    BY <1>4, <2>6 DEF QueueListInference, TypeOK, jobVars, queueVars, bounds
<1>5. CASE QueueWrite
  <2>1. queue' \in QueueVersion
    BY <1>5 DEF QueueWrite, QueueVersion, QueuePasses, TypeOK
  <2>2. qwatch' \in Seq(QueueVersion)
    BY <1>5, <2>1 DEF QueueWrite, TypeOK
  <2> QED
    BY <1>1, <1>5, <2>1, <2>2 DEF QueueWrite, TypeOK, jobVars, bounds
<1>6. CASE QueueConflict
  BY <1>1, <1>6 DEF QueueConflict, TypeOK, jobVars, queueVars, bounds
<1> QED
  BY <1>2, <1>3, <1>4, <1>5, <1>6 DEF QueueController

\* The variables keep their types for ever, whatever the constants.
THEOREM TypeCorrect == Spec => []TypeOK
<1>1. TypeOK /\ [Next]_vars => TypeOK'
  <2> SUFFICES ASSUME TypeOK, [Next]_vars PROVE TypeOK'
    OBVIOUS
  <2>1. CASE Environment \/ Informers
    BY <2>1, EnvironmentType
  <2>2. CASE TrainController
    BY <2>2, TrainPassType, WriteType DEF TrainController
  <2>3. CASE InferenceController
    BY <2>3, InferencePassType, WriteType DEF InferenceController
  <2>4. CASE QueueController
    BY <2>4, QueueControllerType
  <2>5. CASE UNCHANGED vars
    BY <2>5 DEF TypeOK, vars, jobVars, queueVars, workers, bounds
  <2> QED
    BY <2>1, <2>2, <2>3, <2>4, <2>5 DEF Next
<1> QED
  BY <1>1, TypeInit, PTL DEF Spec

-----------------------------------------------------------------------------
(* One entry per job *)

\* A pass makes no doubles out of a list without doubles.
LEMMA PassResultsSingle ==
  ASSUME NEW used \in UsedList, Single(used), NEW list \in [Jobs -> Version],
         NEW result \in PassResults(used, list)
  PROVE  Single(result)
<1>1. Pruned(used, list) \in UsedList /\ Single(Pruned(used, list))
  BY DEF Pruned, Single, UsedList
<1>2. ASSUME NEW j \in Jobs, ~HasEntry(Pruned(used, list), j),
             result = [Pruned(used, list) EXCEPT ![EntryOf(j, list)] = @ + 1]
      PROVE  Single(result)
  <2> DEFINE kept == Pruned(used, list)
             new  == EntryOf(j, list)
  <2> HIDE DEF kept, new
  <2>1. new \in Entry /\ new.job = j
    BY EntryOfType DEF new, EntryOf
  <2>2. \A e \in Entry : e.job = j => kept[e] = 0
    BY <1>1, <1>2 DEF HasEntry, UsedList, kept
  <2>3. result = [kept EXCEPT ![new] = @ + 1]
    BY <1>2 DEF kept, new
  <2>4. \A e \in Entry : result[e] = IF e = new THEN 1 ELSE kept[e]
    BY <1>1, <2>1, <2>2, <2>3 DEF UsedList, kept
  <2>5. Single(kept)
    BY <1>1 DEF kept
  <2> QED
    BY <2>1, <2>2, <2>4, <2>5 DEF Single
<1> QED
  BY <1>1, <1>2, PassResultsFacts

\* Every copy of the Used list that may be written back is one of G.
Copies(G) == EveryCopy(LAMBDA used : used \in G)

\* What one pass of the Queue reconciler preserves, every step preserves in
\* every copy.
LEMMA CopiesStep ==
  ASSUME TypeOK, NEW G, NothingUsed \in G,
         \A used \in UsedList \cap G, list \in [Jobs -> Version] :
           PassResults(used, list) \subseteq G,
         Copies(G), [Next]_vars
  PROVE  Copies(G)'
<1>1. CASE UNCHANGED <<queueVars, qw>>
  BY <1>1 DEF Copies, EveryCopy, queueVars
<1>2. CASE CreateQueue
  <2>1. /\ queue'.used = NothingUsed /\ qcache' = qcache /\ qw' = qw
        /\ qwatch' = Append(qwatch, queue')
    BY <1>2 DEF CreateQueue, workers
  <2> QED
    BY <2>1 DEF Copies, EveryCopy, TypeOK
<1>3. CASE Restart
  BY <1>3 DEF Restart, Copies, EveryCopy, NoPass
<1>4. CASE DeliverQueue
  BY <1>4 DEF DeliverQueue, Copies, EveryCopy, TypeOK, workers
<1>5. CASE QueueGet
  BY <1>5
  DEF QueueGet, Copies, EveryCopy, NoPass, queueVars, TypeOK, QueuePasses, QueueVersion
<1>6. CASE QueueListTrain
  BY <1>6 DEF QueueListTrain, Copies, EveryCopy, queueVars, TypeOK, QueuePasses
<1>7. CASE QueueListInference
  <2> DEFINE list == [j \in Jobs |-> IF j \in InferenceJobs
                                     THEN cache[j] ELSE qw.list[j]]
  <2>1. list \in [Jobs -> Version] /\ qw.used \in UsedList
    BY DEF QueuePasses, TypeOK
  <2>2. PICK used \in PassResults(qw.used, list) :
          qw' = IF used = qw.used THEN NoPass
                ELSE [qw EXCEPT !.pc = "write", !.used = used, !.list = NoJobs]
    BY <1>7 DEF QueueListInference
  <2>3. used \in G
    <3>1. qw.used \in UsedList \cap G
      BY <2>1 DEF Copies, EveryCopy
    <3> HIDE DEF list
    <3> QED
      BY <2>1, <2>2, <3>1
  <2>4. qw'.used \in G
    BY <2>2, <2>3 DEF NoPass, TypeOK, QueuePasses
  <2> QED
    BY <1>7, <2>4 DEF QueueListInference, Copies, EveryCopy, queueVars
<1>8. CASE QueueWrite
  <2>1. /\ queue'.used = qw.used /\ qcache' = qcache /\ qw' = NoPass
        /\ qwatch' = Append(qwatch, queue')
    BY <1>8 DEF QueueWrite, TypeOK, QueueVersion
  <2> QED
    BY <2>1 DEF Copies, EveryCopy, TypeOK, NoPass
<1>9. CASE QueueConflict
  BY <1>9 DEF QueueConflict, Copies, EveryCopy, NoPass, queueVars
<1> QED
  BY <1>1, <1>2, <1>3, <1>4, <1>5, <1>6, <1>7, <1>8, <1>9
  DEF Next, Environment, Informers, TrainController, InferenceController,
      QueueController, vars, workers,
      CreateJob, DeleteJob, WorkloadEvent, DeliverJob,
      TrainIdle, TrainSubmit, TrainEnqueue, TrainAdmit, TrainRun, TrainRelease,
      TrainPass, TakesKey, TrainWrite, TrainConflict,
      InferenceGone, InferenceFinalize, InferenceGuard, InferenceDone,
      InferenceEnqueue, InferenceAdmit, InferenceRun, InferenceFail,
      InferenceSwitch, InferencePass, InferenceWrite, InferenceConflict

LEMMA CopiesType == TypeOK => Copies(UsedList)
<1> SUFFICES ASSUME TypeOK PROVE Copies(UsedList)
  OBVIOUS
<1>1. queue.used \in UsedList /\ qcache.used \in UsedList /\ qw.used \in UsedList
  BY DEF TypeOK, QueueVersion, QueuePasses
<1>2. \A n \in DOMAIN qwatch : qwatch[n].used \in UsedList
  <2> SUFFICES ASSUME NEW n \in DOMAIN qwatch PROVE qwatch[n].used \in UsedList
    OBVIOUS
  <2>1. qwatch[n] \in QueueVersion
    BY ElementOfSeq, LenProperties DEF TypeOK
  <2> QED
    BY <2>1 DEF QueueVersion
<1> QED
  BY <1>1, <1>2 DEF Copies, EveryCopy

LEMMA SingleStep == TypeOK /\ SingleInv /\ [Next]_vars => SingleInv'
<1> DEFINE G == {used \in UsedList : Single(used)}
<1> SUFFICES ASSUME TypeOK, SingleInv, [Next]_vars PROVE SingleInv'
  OBVIOUS
<1>1. NothingUsed \in G
  BY DEF Single, NothingUsed, UsedList
<1>2. \A used \in UsedList \cap G, list \in [Jobs -> Version] :
        PassResults(used, list) \subseteq G
  BY PassResultsSingle, PassResultsFacts
<1>3. Copies(G)
  <2>1. /\ queue.used \in UsedList /\ qcache.used \in UsedList /\ qw.used \in UsedList
        /\ \A n \in DOMAIN qwatch : qwatch[n].used \in UsedList
    BY CopiesType DEF Copies, EveryCopy
  <2> QED
    BY <2>1 DEF Copies, SingleInv, EveryCopy
<1>4. Copies(G)'
  <2> HIDE DEF G
  <2> QED
    BY <1>1, <1>2, <1>3, CopiesStep
<1> QED
  BY <1>4 DEF Copies, SingleInv, EveryCopy

\* No job is ever charged twice, also when names are reused.
THEOREM NoDoubleEntry == Spec => []OneEntryPerJob
<1>1. Init => SingleInv
  BY DEF Init, SingleInv, EveryCopy, Single, NoQueue, NoPass, NothingUsed
<1>2. SingleInv => OneEntryPerJob
  BY DEF SingleInv, EveryCopy, Single, OneEntryPerJob
<1> QED
  BY <1>1, <1>2, SingleStep, TypeCorrect, PTL DEF Spec

-----------------------------------------------------------------------------
(* A job past admission has its reservation *)

LEMMA VersionRound == \A v \in Version : v.rc \in Nat
BY DEF Version, Rounds

\* What a pass does to the entries of one job: it adds at most the entry the
\* job list calls for, and keeps all that the clean-up keeps.
LEMMA PassResultsEntries ==
  ASSUME NEW used \in UsedList, NEW list \in [Jobs -> Version],
         NEW result \in PassResults(used, list), NEW e \in Entry
  PROVE  /\ used[e] > 0 /\ Keeps(list, e) => result[e] > 0
         /\ result[e] > 0 =>
              \/ used[e] > 0
              \/ list[e.job].phase = "Queued" /\ e = EntryOf(e.job, list)
<1>1. Pruned(used, list) \in UsedList
  BY DEF Pruned, UsedList
<1>2. Pruned(used, list)[e] = IF Keeps(list, e) THEN used[e] ELSE 0
  BY DEF Pruned
<1>3. ASSUME NEW j \in Jobs, list[j].phase = "Queued",
             result = [Pruned(used, list) EXCEPT ![EntryOf(j, list)] = @ + 1]
      PROVE  /\ result[e] = IF e = EntryOf(j, list) THEN Pruned(used, list)[e] + 1
                            ELSE Pruned(used, list)[e]
             /\ EntryOf(j, list).job = j
  BY <1>1, <1>3, EntryOfType DEF UsedList, EntryOf
<1>4. used[e] \in Nat
  BY DEF UsedList
<1> QED
  BY <1>2, <1>3, <1>4, PassResultsFacts

\* A store that only moves a job on preserves all parts of the invariant but
\* those about the plans of the workers.
LEMMA StoresStep ==
  ASSUME TypeOK, AdmissionInv, NEW j \in Jobs, NEW v \in Version,
         Stores(j, v), UNCHANGED <<queueVars, qw, lives>>,
         lives[j] # 0,
         Move(store[j], v),
         j \in InferenceJobs => v.rc = 0,
         v.phase \in Holding =>
           store[j].phase \in Holding \/ queue.used[Current(j)] > 0
  PROVE  /\ WatchInv' /\ NoQueueInv' /\ CopyInv' /\ UnseenInv' /\ ListInv'
         /\ IdleListInv' /\ RoundInv' /\ KeptInv' /\ InferenceRoundInv'
         /\ AdmittedIsReserved'
         /\ \A i \in Jobs : lives[i] = 0 =>
              store'[i] = store[i] /\ cache'[i] = cache[i] /\ watch'[i] = watch[i]
<1>1. /\ store' = [store EXCEPT ![j] = v] /\ cache' = cache
      /\ watch' = [watch EXCEPT ![j] = Append(@, v)]
      /\ queue' = queue /\ qcache' = qcache /\ qwatch' = qwatch
      /\ qw' = qw /\ lives' = lives
  BY DEF Stores, queueVars
<1>2. /\ store' \in [Jobs -> Version] /\ store'[j] = v
      /\ \A i \in Jobs : i # j => store'[i] = store[i] /\ watch'[i] = watch[i]
      /\ watch'[j] = Append(watch[j], v)
  BY <1>1 DEF TypeOK
<1>3. /\ watch[j] \in Seq(Version)
      /\ \A i \in Jobs : store[i].rc \in Nat /\ cache[i].rc \in Nat
                           /\ qw.list[i].rc \in Nat
      /\ v.rc \in Nat
      /\ \A e \in Entry : e.rc \in Nat
  <2>1. \A w \in Version : w.rc \in Nat
    BY VersionRound
  <2>2. /\ store \in [Jobs -> Version] /\ cache \in [Jobs -> Version]
        /\ qw.list \in [Jobs -> Version]
        /\ watch[j] \in Seq(Version)
    BY DEF TypeOK, QueuePasses
  <2> QED
    BY <2>1, <2>2 DEF Entry, Rounds
<1>4. Alive(v) => Alive(store[j]) /\ store[j].rc <= v.rc
  BY DEF Move, Alive, NoJob
<1>5. WatchInv'
  BY <1>1, <1>2, <1>3 DEF AdmissionInv, WatchInv
<1>6. NoQueueInv' /\ IdleListInv'
  BY <1>1 DEF AdmissionInv, NoQueueInv, IdleListInv
<1>7. CopyInv'
  <2> SUFFICES ASSUME NEW i \in Jobs, Alive(store'[i])
               PROVE  /\ \A n \in DOMAIN watch'[i] :
                           Alive(watch'[i][n]) /\ watch'[i][n].rc <= store'[i].rc
                      /\ cache[i].phase # "Absent" =>
                           Alive(cache[i]) /\ cache[i].rc <= store'[i].rc
                      /\ qw.list[i].phase # "Absent" =>
                           Alive(qw.list[i]) /\ qw.list[i].rc <= store'[i].rc
    BY <1>1 DEF CopyInv
  <2>1. CASE i # j
    BY <1>2, <2>1 DEF AdmissionInv, CopyInv
  <2>2. CASE i = j
    <3>1. /\ \A n \in DOMAIN watch[j] :
               Alive(watch[j][n]) /\ watch[j][n].rc <= store[j].rc
          /\ cache[j].phase # "Absent" =>
               Alive(cache[j]) /\ cache[j].rc <= store[j].rc
          /\ qw.list[j].phase # "Absent" =>
               Alive(qw.list[j]) /\ qw.list[j].rc <= store[j].rc
      BY <1>2, <1>4, <2>2 DEF AdmissionInv, CopyInv
    <3>2. \A n \in DOMAIN watch[j] : watch[j][n].rc \in Nat
      BY <1>3, VersionRound
    <3>3. \A n \in DOMAIN watch'[j] :
            \/ watch'[j][n] = v
            \/ n \in DOMAIN watch[j] /\ watch'[j][n] = watch[j][n]
      BY <1>2, <1>3
    <3>4. \A r \in Nat : r <= store[j].rc => r <= v.rc
      BY <1>2, <1>3, <1>4, <2>2
    <3>5. \A n \in DOMAIN watch'[j] :
            Alive(watch'[j][n]) /\ watch'[j][n].rc <= v.rc
      <4> SUFFICES ASSUME NEW n \in DOMAIN watch'[j]
                   PROVE  Alive(watch'[j][n]) /\ watch'[j][n].rc <= v.rc
        OBVIOUS
      <4>1. CASE watch'[j][n] = v
        BY <1>2, <1>3, <2>2, <4>1
      <4>2. CASE n \in DOMAIN watch[j] /\ watch'[j][n] = watch[j][n]
        BY <3>1, <3>2, <3>4, <4>2
      <4> QED
        BY <3>3, <4>1, <4>2
    <3> QED
      BY <1>2, <1>3, <2>2, <3>1, <3>4, <3>5
  <2> QED
    BY <2>1, <2>2
<1>8. UnseenInv'
  BY <1>1, <1>2, <1>4 DEF AdmissionInv, UnseenInv
<1>9. ListInv'
  BY <1>1, <1>2, <1>4 DEF AdmissionInv, ListInv, Jobs
<1>10. RoundInv'
  <2>1. \A i \in Jobs : Alive(store'[i]) => Alive(store[i]) /\ store[i].rc <= store'[i].rc
    BY <1>2, <1>3, <1>4
  <2> QED
    BY <1>1, <1>3, <2>1, <1>2 DEF AdmissionInv, RoundInv, Version, Rounds
<1>11. KeptInv'
  <2> SUFFICES ASSUME NEW i \in Jobs, Alive(store'[i])
               PROVE  LET e == EntryOf(i, store')
                      IN  /\ qcache.used[e] > 0 => queue.used[e] > 0
                          /\ \A n \in DOMAIN qwatch :
                               qwatch[n].used[e] > 0 => queue.used[e] > 0
                          /\ (queue.used[e] > 0 /\ qw.pc # "idle" /\ qw.current)
                               => qw.used[e] > 0
    BY <1>1 DEF KeptInv, Current
  <2>1. CASE store'[i].rc = store[i].rc
    <3>1. EntryOf(i, store') = EntryOf(i, store) /\ Alive(store[i])
      BY <1>2, <1>4, <2>1 DEF EntryOf
    <3> QED
      BY <3>1 DEF AdmissionInv, KeptInv, Current
  <2>2. CASE store'[i].rc # store[i].rc
    <3>1. i = j /\ store[j].rc < v.rc /\ Alive(store[j])
      BY <1>2, <1>3, <1>4, <2>2
    <3>2. EntryOf(j, store') \in Entry /\ EntryOf(j, store').rc = v.rc
            /\ EntryOf(j, store').job = j
      BY <1>2, EntryOfType DEF EntryOf
    <3>3. ~(v.rc <= store[j].rc)
      BY <1>3, <3>1
    <3> QED
      BY <3>1, <3>2, <3>3 DEF AdmissionInv, RoundInv
  <2> QED
    BY <2>1, <2>2
<1>12. InferenceRoundInv'
  BY <1>1, <1>2 DEF AdmissionInv, InferenceRoundInv, Jobs
<1>13. AdmittedIsReserved'
  <2>1. v.phase \in Holding => v.rc = store[j].rc /\ queue.used[Current(j)] > 0
    BY DEF Move, NoJob, Holding, TrainHolding, TrainActive, InferenceHolding,
           InferenceActive, AdmissionInv, AdmittedIsReserved, Current
  <2> QED
    BY <1>1, <1>2, <2>1
    DEF AdmissionInv, AdmittedIsReserved, Current, EntryOf, Holding
<1>14. \A i \in Jobs : lives[i] = 0 =>
         store'[i] = store[i] /\ cache'[i] = cache[i] /\ watch'[i] = watch[i]
  BY <1>1, <1>2
<1> QED
  BY <1>5, <1>6, <1>7, <1>8, <1>9, <1>10, <1>11, <1>12, <1>13, <1>14

\* A step that changes neither the objects nor the Queue worker preserves the
\* invariant when the plans it leaves are good ones.
LEMMA PlansStep ==
  ASSUME TypeOK, AdmissionInv, UNCHANGED <<jobVars, queueVars, bounds, qw>>,
         \A p \in tw' : p.job \in TrainJobs,
         \A p \in iw' : p.job \in InferenceJobs /\ p.next.rc = 0,
         \A p \in tw' \cup iw' : GoodPlan(p)
  PROVE  AdmissionInv'
<1>1. /\ WatchInv' /\ NoQueueInv' /\ UnbornInv' /\ CopyInv' /\ UnseenInv'
      /\ ListInv' /\ IdleListInv' /\ RoundInv' /\ InferenceRoundInv'
      /\ AdmittedIsReserved'
  BY DEF AdmissionInv, WatchInv, NoQueueInv, UnbornInv, CopyInv, UnseenInv,
         ListInv, IdleListInv, RoundInv, InferenceRoundInv, AdmittedIsReserved,
         jobVars, queueVars, bounds, EntryOf
<1>2. KeptInv'
  BY DEF AdmissionInv, KeptInv, Current, EntryOf, jobVars, queueVars
<1>3. \A p : GoodPlan(p) => GoodPlan(p)'
  BY DEF GoodPlan, Current, EntryOf, jobVars, queueVars, bounds
<1>4. PlanInv'
  BY <1>3 DEF PlanInv
<1> QED
  BY <1>1, <1>2, <1>4 DEF AdmissionInv

\* A write planned from the cached copy of j is good when its move from that
\* copy is.
LEMMA PlanToGood ==
  ASSUME TypeOK, AdmissionInv, NEW j \in Jobs, NEW v \in Version,
         cache[j].phase # "Absent",
         Move(cache[j], v),
         (v.phase \in Holding /\ watch[j] = << >>) =>
           cache[j].phase \in Holding \/ queue.used[Current(j)] > 0
  PROVE  \A p \in PlanTo(j, v) : p.job = j /\ p.next = v /\ GoodPlan(p)
<1>1. lives[j] # 0
  BY DEF AdmissionInv, UnbornInv, NoJob
<1>2. watch[j] = << >> => store[j] = cache[j]
  BY DEF AdmissionInv, WatchInv
<1>3. ASSUME NEW p \in PlanTo(j, v)
      PROVE  p = [job |-> j, next |-> v, current |-> (watch[j] = << >>)]
  BY DEF PlanTo
<1>4. ASSUME NEW p \in PlanTo(j, v)
      PROVE  p.job = j /\ p.next = v /\ (p.current => watch[j] = << >>)
  <2> DEFINE settled == watch[j] = << >>
  <2>1. p = [job |-> j, next |-> v, current |-> settled]
    BY <1>3
  <2> HIDE DEF settled
  <2>2. p.job = j /\ p.next = v /\ p.current = settled
    BY <2>1
  <2>3. p.current => settled
    BY <2>2
  <2> QED
    BY <2>2, <2>3 DEF settled
<1>5. ASSUME NEW p \in PlanTo(j, v)
      PROVE  GoodPlan(p)
  BY <1>1, <1>2, <1>4 DEF GoodPlan
<1> QED
  BY <1>4, <1>5

\* Changing the phase alone, from a living copy, is a legal move when the job
\* was past admission before or is not afterwards.
LEMMA PhaseMove ==
  ASSUME NEW v \in Version, NEW phase, Alive(v)
  PROVE  Move(v, ToPhase(v, phase)) /\ ToPhase(v, phase).phase = phase
BY VersionRound DEF Move, ToPhase, Version

LEMMA TrainPassStep ==
  ASSUME TypeOK, AdmissionInv, NEW j \in TrainJobs,
         \/ TrainIdle(j) \/ TrainSubmit(j) \/ TrainEnqueue(j)
         \/ TrainAdmit(j) \/ TrainRun(j) \/ TrainRelease(j)
  PROVE  AdmissionInv'
<1>1. j \in Jobs /\ cache[j] \in Version
  BY DEF TypeOK, Jobs
<1>2. UNCHANGED <<jobVars, queueVars, bounds, qw, iw>>
  BY DEF TrainIdle, TrainSubmit, TrainEnqueue, TrainAdmit, TrainRun,
         TrainRelease, TrainPass, TakesKey
<1>3. \A p \in tw' : p.job = j /\ GoodPlan(p)
  <2>1. CASE TrainIdle(j)
    BY <2>1 DEF TrainIdle
  <2>2. CASE TrainSubmit(j)
    <3>1. Alive(cache[j]) /\ cache[j].phase # "Absent"
      BY <2>2 DEF TrainSubmit, Alive, TrainTerminal
    <3>2. ToPhase(cache[j], "Submitted") \in Version
      BY <1>1, ToPhaseType DEF TrainPhases
    <3>3. "Submitted" \notin Holding
      BY DEF Holding, TrainHolding, TrainActive, InferenceHolding, InferenceActive
    <3> QED
      BY <1>1, <2>2, <3>1, <3>2, <3>3, PhaseMove, PlanToGood DEF TrainSubmit
  <2>3. CASE TrainEnqueue(j)
    <3>1. Alive(cache[j]) /\ cache[j].phase # "Absent"
      BY <2>3 DEF TrainEnqueue, Alive, TrainTerminal
    <3>2. ToPhase(cache[j], "Queued") \in Version
      BY <1>1, ToPhaseType DEF TrainPhases
    <3>3. "Queued" \notin Holding
      BY DEF Holding, TrainHolding, TrainActive, InferenceHolding, InferenceActive
    <3> QED
      BY <1>1, <2>3, <3>1, <3>2, <3>3, PhaseMove, PlanToGood DEF TrainEnqueue
  <2>4. CASE TrainAdmit(j)
    <3>1. Alive(cache[j]) /\ cache[j].phase # "Absent"
      BY <2>4 DEF TrainAdmit, Alive, TrainTerminal
    <3>2. ToPhase(cache[j], "Starting") \in Version
      BY <1>1, ToPhaseType DEF TrainPhases
    <3>3. Admitted(j) /\ watch[j] = << >> => queue.used[Current(j)] > 0
      <4> SUFFICES ASSUME Admitted(j), watch[j] = << >>
                   PROVE  queue.used[Current(j)] > 0
        OBVIOUS
      <4>1. store[j] = cache[j]
        BY <1>1 DEF AdmissionInv, WatchInv
      <4>2. qcache.used[Current(j)] > 0 /\ Alive(store[j])
        BY <3>1, <4>1 DEF Admitted, Current, EntryOf
      <4> QED
        BY <1>1, <4>2 DEF AdmissionInv, KeptInv
    <3>4. CASE Admitted(j)
      BY <1>1, <2>4, <3>1, <3>2, <3>3, <3>4, PhaseMove, PlanToGood DEF TrainAdmit
    <3>5. CASE ~Admitted(j)
      BY <2>4, <3>5 DEF TrainAdmit
    <3> QED
      BY <3>4, <3>5
  <2>5. CASE TrainRun(j)
    <3>1. /\ Alive(cache[j]) /\ cache[j].phase # "Absent"
          /\ cache[j].phase \in Holding
      BY <2>5 DEF TrainRun, Alive, TrainTerminal, TrainActive, Holding, TrainHolding
    <3>2. PICK phase \in TrainPassPhases(cache[j].phase) :
            tw' = PlanTo(j, ToPhase(cache[j], phase))
      BY <2>5 DEF TrainRun
    <3>3. ToPhase(cache[j], phase) \in Version
      BY <1>1, ToPhaseType
      DEF TrainPassPhases, WorkerPhases, FailurePhases, GroupPhases, TrainPhases
    <3> QED
      BY <1>1, <3>1, <3>2, <3>3, PhaseMove, PlanToGood
  <2>6. CASE TrainRelease(j)
    <3>1. CASE tw' = {}
      BY <3>1
    <3>2. CASE cache[j].rc < MaxRequeues /\ tw' = PlanTo(j, Requeued(cache[j]))
      <4>1. Requeued(cache[j]) \in Version
        BY <1>1, <3>2 DEF Requeued, Version, Rounds, TrainPhases
      <4>2. Alive(cache[j]) /\ cache[j].phase # "Absent"
        BY <2>6 DEF TrainRelease, Alive, TrainTerminal
      <4>3. Requeued(cache[j]).phase \notin Holding
        BY DEF Requeued, Holding, TrainHolding, TrainActive, InferenceHolding,
               InferenceActive
      <4>4. Move(cache[j], Requeued(cache[j]))
        BY <1>1, <4>2, <4>3, VersionRound DEF Move, Requeued
      <4> QED
        BY <1>1, <3>2, <4>1, <4>2, <4>3, <4>4, PlanToGood
    <3> QED
      BY <2>6, <3>1, <3>2 DEF TrainRelease
  <2> QED
    BY <2>1, <2>2, <2>3, <2>4, <2>5, <2>6
<1> QED
  BY <1>2, <1>3, PlansStep DEF AdmissionInv, PlanInv

LEMMA InferencePassStep ==
  ASSUME TypeOK, AdmissionInv, NEW j \in InferenceJobs,
         \/ InferenceGone(j) \/ InferenceFinalize(j) \/ InferenceGuard(j)
         \/ InferenceDone(j) \/ InferenceEnqueue(j) \/ InferenceAdmit(j)
         \/ InferenceRun(j) \/ InferenceFail(j)
  PROVE  AdmissionInv'
<1>1. j \in Jobs /\ cache[j] \in Version /\ cache[j].rc = 0
  BY DEF TypeOK, Jobs, AdmissionInv, InferenceRoundInv
<1>2. UNCHANGED <<jobVars, queueVars, bounds, qw, tw>>
  BY DEF InferenceGone, InferenceFinalize, InferenceGuard, InferenceDone,
         InferenceEnqueue, InferenceAdmit, InferenceRun, InferenceFail,
         InferenceSwitch, InferencePass, TakesKey
<1>3. \A phase : ToPhase(cache[j], phase).rc = 0
  BY <1>1 DEF ToPhase, Version
<1>4. \A p \in iw' : p.job = j /\ p.next.rc = 0 /\ GoodPlan(p)
  <2>1. CASE InferenceGone(j) \/ InferenceDone(j)
    BY <2>1 DEF InferenceGone, InferenceDone
  <2>2. CASE InferenceFinalize(j)
    <3>1. CASE iw' = {}
      BY <3>1
    <3>2. CASE iw' = PlanTo(j, NoJob)
      <4>1. cache[j].phase # "Absent"
        BY <2>2 DEF InferenceFinalize
      <4>2. Move(cache[j], NoJob) /\ NoJob.phase \notin Holding /\ NoJob.rc = 0
        BY DEF Move, NoJob, Holding, TrainHolding, TrainActive,
               InferenceHolding, InferenceActive
      <4> QED
        BY <1>1, <3>2, <4>1, <4>2, NoJobType, PlanToGood
    <3> QED
      BY <2>2, <3>1, <3>2 DEF InferenceFinalize
  <2>3. CASE InferenceGuard(j)
    <3> DEFINE v == [cache[j] EXCEPT !.fin = "set"]
    <3>1. v \in Version /\ v.phase = cache[j].phase /\ v.rc = cache[j].rc
      BY <1>1 DEF Version
    <3>2. Move(cache[j], v)
      BY <1>1, <3>1, VersionRound DEF Move, Alive
    <3> HIDE DEF v
    <3>3. iw' = PlanTo(j, v) /\ cache[j].phase # "Absent"
      BY <2>3 DEF InferenceGuard, v
    <3> QED
      BY <1>1, <3>1, <3>2, <3>3, PlanToGood
  <2>4. CASE InferenceEnqueue(j)
    <3>1. Alive(cache[j]) /\ cache[j].phase # "Absent"
      BY <2>4 DEF InferenceEnqueue, InferenceSwitch, Alive, TrainTerminal
    <3>2. ToPhase(cache[j], "Queued") \in Version
      BY <1>1, ToPhaseType DEF TrainPhases
    <3>3. "Queued" \notin Holding
      BY DEF Holding, TrainHolding, TrainActive, InferenceHolding, InferenceActive
    <3> QED
      BY <1>1, <1>3, <2>4, <3>1, <3>2, <3>3, PhaseMove, PlanToGood
      DEF InferenceEnqueue
  <2>5. CASE InferenceAdmit(j)
    <3>1. Alive(cache[j]) /\ cache[j].phase # "Absent"
      BY <2>5 DEF InferenceAdmit, InferenceSwitch, Alive, TrainTerminal
    <3>2. ToPhase(cache[j], "Starting") \in Version
      BY <1>1, ToPhaseType DEF TrainPhases
    <3>3. InferenceAdmitted(j) /\ watch[j] = << >> => queue.used[Current(j)] > 0
      <4> SUFFICES ASSUME InferenceAdmitted(j), watch[j] = << >>
                   PROVE  queue.used[Current(j)] > 0
        OBVIOUS
      <4>1. store[j] = cache[j]
        BY <1>1 DEF AdmissionInv, WatchInv
      <4>2. PICK e \in Entry : e.job = j /\ qcache.used[e] > 0
        BY DEF InferenceAdmitted, HasEntry
      <4>3. e.rc <= 0
        BY <1>1, <3>1, <4>1, <4>2 DEF AdmissionInv, RoundInv
      <4>4. e = Current(j)
        BY <1>1, <4>1, <4>2, <4>3 DEF Current, EntryOf, Entry, Rounds
      <4> QED
        BY <1>1, <3>1, <4>1, <4>2, <4>4 DEF AdmissionInv, KeptInv
    <3>4. CASE InferenceAdmitted(j)
      BY <1>1, <1>3, <2>5, <3>1, <3>2, <3>3, <3>4, PhaseMove, PlanToGood
      DEF InferenceAdmit
    <3>5. CASE ~InferenceAdmitted(j)
      BY <2>5, <3>5 DEF InferenceAdmit
    <3> QED
      BY <3>4, <3>5
  <2>6. CASE InferenceRun(j)
    <3>1. /\ Alive(cache[j]) /\ cache[j].phase # "Absent"
          /\ cache[j].phase \in Holding
      BY <2>6 DEF InferenceRun, InferenceSwitch, Alive, TrainTerminal,
                  InferenceActive, Holding, InferenceHolding
    <3>2. PICK phase \in InferencePassPhases(cache[j].phase) :
            iw' = PlanTo(j, ToPhase(cache[j], phase))
      BY <2>6 DEF InferenceRun
    <3>3. ToPhase(cache[j], phase) \in Version
      <4>1. phase \in TrainPhases \cup InferencePhases
        BY <1>1 DEF InferencePassPhases, InferencePhases, Version
      <4> QED
        BY <1>1, <4>1, ToPhaseType
    <3> QED
      BY <1>1, <1>3, <3>1, <3>2, <3>3, PhaseMove, PlanToGood
  <2>7. CASE InferenceFail(j)
    <3>1. Alive(cache[j]) /\ cache[j].phase # "Absent"
      BY <2>7 DEF InferenceFail, InferenceSwitch, Alive, TrainTerminal
    <3>2. ToPhase(cache[j], "Failed") \in Version
      BY <1>1, ToPhaseType DEF TrainPhases
    <3>3. "Failed" \notin Holding
      BY DEF Holding, TrainHolding, TrainActive, InferenceHolding, InferenceActive
    <3>4. \A p \in PlanTo(j, ToPhase(cache[j], "Failed")) :
            p.job = j /\ p.next.rc = 0 /\ GoodPlan(p)
      BY <1>1, <1>3, <3>1, <3>2, <3>3, PhaseMove, PlanToGood
    <3> QED
      BY <2>7, <3>4 DEF InferenceFail
  <2> QED
    BY <2>1, <2>2, <2>3, <2>4, <2>5, <2>6, <2>7
<1> QED
  BY <1>2, <1>4, PlansStep DEF AdmissionInv, PlanInv

\* After a store of a job that has lived, a job without a first life still has
\* no trace.
LEMMA StoresUnborn ==
  ASSUME TypeOK, AdmissionInv, NEW j \in Jobs, NEW v \in Version,
         Stores(j, v), UNCHANGED <<queueVars, qw, lives>>, lives[j] # 0
  PROVE  UnbornInv'
<1>1. /\ store' = [store EXCEPT ![j] = v] /\ cache' = cache
      /\ watch' = [watch EXCEPT ![j] = Append(@, v)]
      /\ queue' = queue /\ qcache' = qcache /\ qwatch' = qwatch
      /\ qw' = qw /\ lives' = lives
  BY DEF Stores, queueVars
<1>2. \A i \in Jobs : lives[i] = 0 => store'[i] = store[i] /\ watch'[i] = watch[i]
  BY <1>1 DEF TypeOK
<1> QED
  BY <1>1, <1>2 DEF AdmissionInv, UnbornInv

LEMMA DeleteJobStep ==
  ASSUME TypeOK, AdmissionInv, NEW j \in Jobs, DeleteJob(j)
  PROVE  AdmissionInv'
<1> DEFINE v == IF store[j].fin = "set"
                THEN [store[j] EXCEPT !.fin = "deleting"] ELSE NoJob
<1>1. /\ v \in Version /\ Stores(j, v) /\ store[j] \in Version
      /\ UNCHANGED <<queueVars, qw, lives>>
  BY NoJobType DEF DeleteJob, TypeOK, Version, bounds
<1>2. lives[j] # 0
  BY DEF DeleteJob, AdmissionInv, UnbornInv, NoJob
<1>3. v = NoJob \/ (v.phase = store[j].phase /\ v.rc = store[j].rc)
  BY <1>1 DEF Version
<1>4. /\ Move(store[j], v)
      /\ v.phase \in Holding => store[j].phase \in Holding
      /\ j \in InferenceJobs => v.rc = 0
  BY <1>1, <1>3, VersionRound
  DEF Move, Alive, NoJob, Holding, TrainHolding, TrainActive, InferenceHolding,
      InferenceActive, AdmissionInv, InferenceRoundInv
<1> HIDE DEF v
<1>5. /\ WatchInv' /\ NoQueueInv' /\ CopyInv' /\ UnseenInv' /\ ListInv'
      /\ IdleListInv' /\ RoundInv' /\ KeptInv' /\ InferenceRoundInv'
      /\ AdmittedIsReserved' /\ UnbornInv'
  BY <1>1, <1>2, <1>4, StoresStep, StoresUnborn
<1>6. PlanInv'
  <2>1. /\ \A i \in Jobs : i # j => store'[i] = store[i] /\ watch'[i] = watch[i]
        /\ queue' = queue /\ lives' = lives
    BY <1>1 DEF Stores, TypeOK, queueVars
  <2>2. ASSUME NEW plans \in SUBSET Plan, \A p \in plans : GoodPlan(p)
        PROVE  \A p \in Outdated(plans, j) :
                 /\ GoodPlan(p)'
                 /\ \E q \in plans : p.job = q.job /\ p.next = q.next
    <3> SUFFICES ASSUME NEW q \in plans, NEW p,
                        p = IF q.job = j THEN [q EXCEPT !.current = FALSE] ELSE q
                 PROVE  GoodPlan(p)' /\ p.job = q.job /\ p.next = q.next
      BY DEF Outdated
    <3>1. q.job \in Jobs /\ GoodPlan(q)
      BY <2>2 DEF Plan
    <3>2. CASE q.job = j
      <4>1. p.job = j /\ p.next = q.next /\ p.current = FALSE
        BY <3>2 DEF Plan
      <4> QED
        BY <1>2, <2>1, <3>2, <4>1 DEF GoodPlan
    <3>3. CASE q.job # j
      <4>1. p = q
        BY <3>3
      <4>2. /\ store'[q.job] = store[q.job] /\ watch'[q.job] = watch[q.job]
            /\ queue' = queue /\ lives' = lives
        BY <2>1, <3>1, <3>3
      <4> QED
        BY <3>1, <4>1, <4>2 DEF GoodPlan, Current, EntryOf
    <3> QED
      BY <3>2, <3>3
  <2>3. /\ tw' = Outdated(tw, j) /\ iw' = Outdated(iw, j)
        /\ tw \in SUBSET Plan /\ iw \in SUBSET Plan
    BY DEF DeleteJob, TypeOK
  <2> QED
    BY <2>2, <2>3 DEF AdmissionInv, PlanInv
<1> QED
  BY <1>5, <1>6 DEF AdmissionInv

\* A job that is created leaves no place for an old copy or entry of it, for
\* this is its first life.
LEMMA CreateJobStep ==
  ASSUME TypeOK, AdmissionInv, MaxLives <= 1, NEW j \in Jobs, CreateJob(j)
  PROVE  AdmissionInv'
<1> DEFINE v == [NoJob EXCEPT !.phase = "New"]
<1>1. v \in Version /\ v.phase = "New" /\ v.rc = 0
  BY NoJobType DEF NoJob, Version, TrainPhases
<1>2. /\ store' = [store EXCEPT ![j] = v] /\ cache' = cache
      /\ watch' = [watch EXCEPT ![j] = Append(@, v)]
      /\ queue' = queue /\ qcache' = qcache /\ qwatch' = qwatch
      /\ qw' = qw /\ tw' = tw /\ iw' = iw
      /\ lives' = [lives EXCEPT ![j] = @ + 1]
  BY DEF CreateJob, Stores, queueVars, workers
<1>3. lives[j] = 0 /\ lives'[j] # 0
  BY <1>2 DEF CreateJob, TypeOK
<1> HIDE DEF v
<1>4. /\ store[j] = NoJob /\ cache[j] = NoJob /\ watch[j] = << >>
      /\ qw.list[j] = NoJob
      /\ ~HasEntry(queue.used, j) /\ ~HasEntry(qcache.used, j)
      /\ \A n \in DOMAIN qwatch : ~HasEntry(qwatch[n].used, j)
      /\ ~HasEntry(qw.used, j)
  BY <1>3 DEF AdmissionInv, UnbornInv
<1>5. /\ store'[j] = v /\ watch'[j] = << v >>
      /\ \A i \in Jobs : i # j => /\ store'[i] = store[i]
                                   /\ watch'[i] = watch[i]
                                   /\ lives'[i] = lives[i]
  BY <1>2, <1>4 DEF TypeOK
<1>6. Alive(v) /\ v.phase \notin Holding
  BY <1>1 DEF Alive, TrainTerminal, Holding, TrainHolding, TrainActive,
              InferenceHolding, InferenceActive
<1>7. WatchInv' /\ NoQueueInv' /\ IdleListInv'
  BY <1>2, <1>5
  DEF AdmissionInv, WatchInv, NoQueueInv, IdleListInv
<1>8. UnbornInv'
  BY <1>2, <1>3, <1>5 DEF AdmissionInv, UnbornInv
<1>9. CopyInv'
  <2>1. \A n \in DOMAIN watch'[j] : Alive(watch'[j][n]) /\ watch'[j][n].rc <= v.rc
    BY <1>1, <1>5, <1>6
  <2>2. cache[j].phase = "Absent" /\ qw.list[j].phase = "Absent"
    BY <1>4 DEF NoJob
  <2> QED
    BY <1>2, <1>5, <2>1, <2>2 DEF AdmissionInv, CopyInv
<1>10. UnseenInv' /\ ListInv'
  <2>1. qw.list[j].phase = "Absent"
    BY <1>4 DEF NoJob
  <2>2. UnseenInv'
    BY <1>2, <1>4, <1>5, <2>1 DEF AdmissionInv, UnseenInv
  <2>3. ListInv'
    BY <1>2, <1>4, <1>5 DEF AdmissionInv, ListInv, Jobs
  <2> QED
    BY <2>2, <2>3
<1>11. RoundInv'
  BY <1>2, <1>4, <1>5 DEF AdmissionInv, RoundInv, HasEntry
<1>12. KeptInv'
  <2> SUFFICES ASSUME NEW i \in Jobs, Alive(store'[i])
               PROVE  LET e == EntryOf(i, store')
                      IN  /\ qcache.used[e] > 0 => queue.used[e] > 0
                          /\ \A n \in DOMAIN qwatch :
                               qwatch[n].used[e] > 0 => queue.used[e] > 0
                          /\ (queue.used[e] > 0 /\ qw.pc # "idle" /\ qw.current)
                               => qw.used[e] > 0
    BY <1>2 DEF KeptInv, Current
  <2>1. CASE i = j
    <3>1. EntryOf(j, store') \in Entry /\ EntryOf(j, store').job = j
      BY EntryOfType, <1>1, <1>2 DEF EntryOf, TypeOK
    <3> QED
      BY <1>4, <2>1, <3>1 DEF HasEntry
  <2>2. CASE i # j
    <3>1. EntryOf(i, store') = EntryOf(i, store) /\ Alive(store[i])
      BY <1>5, <2>2 DEF EntryOf
    <3> QED
      BY <3>1 DEF AdmissionInv, KeptInv, Current
  <2> QED
    BY <2>1, <2>2
<1>13. InferenceRoundInv'
  BY <1>1, <1>2, <1>5 DEF AdmissionInv, InferenceRoundInv, Jobs
<1>14. AdmittedIsReserved'
  BY <1>2, <1>5, <1>6
  DEF AdmissionInv, AdmittedIsReserved, EntryOf, Holding
<1>15. PlanInv'
  <2>1. \A p \in tw \cup iw : p.job \in Jobs /\ GoodPlan(p)
    BY DEF AdmissionInv, PlanInv, TypeOK, Plan
  <2>2. \A p \in tw \cup iw : GoodPlan(p)'
    <3> SUFFICES ASSUME NEW p \in tw \cup iw PROVE GoodPlan(p)'
      OBVIOUS
    <3>1. p.job # j /\ p.job \in Jobs
      BY <1>3, <2>1 DEF GoodPlan
    <3> QED
      BY <1>2, <1>5, <2>1, <3>1 DEF GoodPlan, Current, EntryOf
  <2> QED
    BY <1>2, <2>2 DEF AdmissionInv, PlanInv
<1> QED
  BY <1>7, <1>8, <1>9, <1>10, <1>11, <1>12, <1>13, <1>14, <1>15 DEF AdmissionInv

\* A write that is accepted: the plan was good.
LEMMA WriteStep ==
  ASSUME TypeOK, AdmissionInv, NEW p \in tw \cup iw, p.current,
         Stores(p.job, p.next), UNCHANGED <<queueVars, qw, bounds>>,
         \/ p \in tw /\ tw' = {} /\ iw' = iw
         \/ p \in iw /\ iw' = {} /\ tw' = tw
  PROVE  AdmissionInv'
<1>1. p.job \in Jobs /\ p.next \in Version /\ GoodPlan(p)
  BY DEF TypeOK, Plan, AdmissionInv, PlanInv
<1>2. /\ lives[p.job] # 0 /\ Move(store[p.job], p.next)
      /\ p.next.phase \in Holding =>
           store[p.job].phase \in Holding \/ queue.used[Current(p.job)] > 0
  BY <1>1 DEF GoodPlan
<1>3. p.job \in InferenceJobs => p.next.rc = 0
  BY DEF AdmissionInv, PlanInv
<1>4. UNCHANGED <<queueVars, qw, lives>>
  BY DEF bounds
<1>5. /\ WatchInv' /\ NoQueueInv' /\ CopyInv' /\ UnseenInv' /\ ListInv'
      /\ IdleListInv' /\ RoundInv' /\ KeptInv' /\ InferenceRoundInv'
      /\ AdmittedIsReserved' /\ UnbornInv'
  BY <1>1, <1>2, <1>3, <1>4, StoresStep, StoresUnborn
<1>6. PlanInv'
  <2>1. /\ \A i \in Jobs : i # p.job => store'[i] = store[i] /\ watch'[i] = watch[i]
        /\ queue' = queue /\ lives' = lives
    BY <1>1, <1>4 DEF Stores, TypeOK, queueVars
  <2>2. \A q \in tw' \cup iw' : q \in tw \cup iw /\ q.job # p.job
    BY DEF AdmissionInv, PlanInv
  <2>3. ASSUME NEW q \in tw' \cup iw'
        PROVE  GoodPlan(q)'
    <3>1. q.job \in Jobs /\ GoodPlan(q)
      BY <2>2 DEF TypeOK, Plan, AdmissionInv, PlanInv
    <3>2. /\ store'[q.job] = store[q.job] /\ watch'[q.job] = watch[q.job]
          /\ queue' = queue /\ lives' = lives
      BY <2>1, <2>2, <3>1
    <3> QED
      BY <3>1, <3>2 DEF GoodPlan, Current, EntryOf
  <2> QED
    BY <2>3 DEF AdmissionInv, PlanInv
<1> QED
  BY <1>5, <1>6 DEF AdmissionInv

\* Steps that touch neither the objects nor the Queue worker, and make no plan.
LEMMA QuietStep ==
  ASSUME TypeOK, AdmissionInv, UNCHANGED <<jobVars, queueVars, bounds, qw>>,
         tw' \subseteq tw, iw' \subseteq iw
  PROVE  AdmissionInv'
BY PlansStep DEF AdmissionInv, PlanInv

\* The cache moves on to a version written later, but no later than the store.
LEMMA DeliverJobStep ==
  ASSUME TypeOK, AdmissionInv, NEW j \in Jobs, DeliverJob(j)
  PROVE  AdmissionInv'
<1>1. /\ store' = store /\ watch[j] # << >>
      /\ cache' = [cache EXCEPT ![j] = Head(watch[j])]
      /\ watch' = [watch EXCEPT ![j] = Tail(@)]
      /\ queue' = queue /\ qcache' = qcache /\ qwatch' = qwatch
      /\ qw' = qw /\ tw' = tw /\ iw' = iw /\ lives' = lives
  BY DEF DeliverJob, queueVars, workers, bounds
<1>2. watch[j] \in Seq(Version)
  BY DEF TypeOK
<1>3. /\ cache'[j] = watch[j][1] /\ 1 \in DOMAIN watch[j]
      /\ watch'[j] = Tail(watch[j])
      /\ \A i \in Jobs : i # j => cache'[i] = cache[i] /\ watch'[i] = watch[i]
  <2>1. Head(watch[j]) = watch[j][1] /\ 1 \in DOMAIN watch[j]
    BY <1>1, <1>2, TailFacts
  <2> QED
    BY <1>1, <2>1 DEF TypeOK
<1>4. \A n \in DOMAIN watch'[j] : n + 1 \in DOMAIN watch[j]
                                    /\ watch'[j][n] = watch[j][n + 1]
  <2>1. \A n \in DOMAIN Tail(watch[j]) :
          n + 1 \in DOMAIN watch[j] /\ Tail(watch[j])[n] = watch[j][n + 1]
    BY <1>1, <1>2, TailFacts
  <2> QED
    BY <1>3, <2>1
<1>5. WatchInv'
  <2>1. store[j] = watch[j][Len(watch[j])]
    BY <1>1 DEF AdmissionInv, WatchInv
  <2>2. store[j] = IF watch'[j] = << >> THEN cache'[j]
                   ELSE watch'[j][Len(watch'[j])]
    BY <1>1, <1>2, <1>3, <2>1, TailFacts
  <2> QED
    BY <1>1, <1>3, <2>2 DEF AdmissionInv, WatchInv
<1>6. lives[j] # 0
  BY <1>1 DEF AdmissionInv, UnbornInv
<1>7. NoQueueInv' /\ IdleListInv' /\ RoundInv' /\ ListInv' /\ AdmittedIsReserved'
  BY <1>1 DEF AdmissionInv, NoQueueInv, IdleListInv, RoundInv, ListInv,
              AdmittedIsReserved, EntryOf
<1>8. KeptInv'
  BY <1>1 DEF AdmissionInv, KeptInv, Current, EntryOf
<1>9. UnbornInv'
  BY <1>1, <1>3, <1>6 DEF AdmissionInv, UnbornInv
<1>10. Alive(store[j]) => Alive(cache'[j]) /\ cache'[j].rc <= store[j].rc
  BY <1>3 DEF AdmissionInv, CopyInv
<1>11. CopyInv'
  <2>1. Alive(store[j]) => \A n \in DOMAIN watch'[j] :
          Alive(watch'[j][n]) /\ watch'[j][n].rc <= store[j].rc
    BY <1>4 DEF AdmissionInv, CopyInv
  <2> QED
    BY <1>1, <1>3, <1>10, <2>1 DEF AdmissionInv, CopyInv
<1>12. UnseenInv'
  BY <1>1, <1>3, <1>10 DEF AdmissionInv, UnseenInv, Alive
<1>13. InferenceRoundInv'
  BY <1>1, <1>3, <1>4 DEF AdmissionInv, InferenceRoundInv, Jobs
<1>14. PlanInv'
  <2>1. \A p \in tw \cup iw : p.job \in Jobs /\ GoodPlan(p)
    BY DEF AdmissionInv, PlanInv, TypeOK, Plan
  <2>2. ASSUME NEW p \in tw \cup iw PROVE GoodPlan(p)'
    <3>1. CASE p.job = j
      <4>1. lives[p.job] # 0 /\ ~p.current
        BY <1>1, <2>1, <3>1 DEF GoodPlan
      <4> QED
        BY <1>1, <4>1 DEF GoodPlan
    <3>2. CASE p.job # j
      BY <1>1, <1>3, <2>1, <3>2 DEF GoodPlan, Current, EntryOf
    <3> QED
      BY <3>1, <3>2
  <2> QED
    BY <1>1, <2>2 DEF AdmissionInv, PlanInv
<1> QED
  BY <1>5, <1>7, <1>8, <1>9, <1>11, <1>12, <1>13, <1>14 DEF AdmissionInv

LEMMA DeliverQueueStep ==
  ASSUME TypeOK, AdmissionInv, DeliverQueue
  PROVE  AdmissionInv'
<1>1. /\ store' = store /\ cache' = cache /\ watch' = watch
      /\ queue' = queue /\ qwatch # << >>
      /\ qcache' = Head(qwatch) /\ qwatch' = Tail(qwatch)
      /\ qw' = qw /\ tw' = tw /\ iw' = iw /\ lives' = lives
  BY DEF DeliverQueue, jobVars, workers, bounds
<1>2. qwatch \in Seq(QueueVersion)
  BY DEF TypeOK
<1>3. /\ qcache' = qwatch[1] /\ 1 \in DOMAIN qwatch
      /\ \A n \in DOMAIN qwatch' : n + 1 \in DOMAIN qwatch
                                     /\ qwatch'[n] = qwatch[n + 1]
  <2>1. /\ Head(qwatch) = qwatch[1] /\ 1 \in DOMAIN qwatch
        /\ \A n \in DOMAIN Tail(qwatch) : n + 1 \in DOMAIN qwatch
                                            /\ Tail(qwatch)[n] = qwatch[n + 1]
    BY <1>1, <1>2, TailFacts
  <2> QED
    BY <1>1, <2>1
<1>4. WatchInv'
  <2>1. queue = qwatch[Len(qwatch)]
    BY <1>1 DEF AdmissionInv, WatchInv
  <2>2. queue = IF qwatch' = << >> THEN qcache' ELSE qwatch'[Len(qwatch')]
    BY <1>1, <1>2, <1>3, <2>1, TailFacts
  <2> QED
    BY <1>1, <2>2 DEF AdmissionInv, WatchInv
<1>5. NoQueueInv'
  BY <1>1 DEF AdmissionInv, NoQueueInv
<1>6. UnbornInv' /\ UnseenInv'
  BY <1>1, <1>3 DEF AdmissionInv, UnbornInv, UnseenInv
<1>7. /\ CopyInv' /\ ListInv' /\ IdleListInv' /\ InferenceRoundInv'
      /\ AdmittedIsReserved'
  BY <1>1 DEF AdmissionInv, CopyInv, ListInv, IdleListInv, InferenceRoundInv,
              AdmittedIsReserved, EntryOf
<1>8. RoundInv'
  BY <1>1, <1>3 DEF AdmissionInv, RoundInv
<1>9. KeptInv'
  BY <1>1, <1>3 DEF AdmissionInv, KeptInv, Current, EntryOf
<1>10. PlanInv'
  BY <1>1 DEF AdmissionInv, PlanInv, GoodPlan, Current, EntryOf
<1> QED
  BY <1>4, <1>5, <1>6, <1>7, <1>8, <1>9, <1>10 DEF AdmissionInv

LEMMA CreateQueueStep ==
  ASSUME TypeOK, AdmissionInv, CreateQueue
  PROVE  AdmissionInv'
<1>1. /\ store' = store /\ cache' = cache /\ watch' = watch
      /\ queue' = [exists |-> TRUE, used |-> NothingUsed]
      /\ qcache' = qcache /\ qwatch' = Append(qwatch, queue')
      /\ qw' = qw /\ tw' = tw /\ iw' = iw /\ lives' = lives
  BY DEF CreateQueue, jobVars, workers, bounds
<1>2. queue = NoQueue /\ qcache = NoQueue /\ qwatch = << >> /\ qw = NoPass
  BY DEF CreateQueue, AdmissionInv, NoQueueInv
<1>3. /\ queue'.exists /\ queue'.used = queue.used
      /\ qwatch' = << queue' >> /\ DOMAIN qwatch' = {1} /\ qwatch'[1] = queue'
      /\ qcache.used = queue.used /\ qw.used = queue.used
  BY <1>1, <1>2 DEF NoQueue, NoPass
<1>4. WatchInv'
  BY <1>1, <1>3 DEF AdmissionInv, WatchInv
<1>5. NoQueueInv'
  BY <1>3 DEF NoQueueInv
<1>6. UnbornInv' /\ UnseenInv'
  BY <1>1, <1>3 DEF AdmissionInv, UnbornInv, UnseenInv, HasEntry
<1>7. /\ CopyInv' /\ ListInv' /\ IdleListInv' /\ InferenceRoundInv'
      /\ AdmittedIsReserved'
  BY <1>1, <1>3 DEF AdmissionInv, CopyInv, ListInv, IdleListInv,
                    InferenceRoundInv, AdmittedIsReserved, EntryOf
<1>8. RoundInv'
  BY <1>1, <1>3 DEF AdmissionInv, RoundInv
<1>9. KeptInv'
  BY <1>1, <1>3 DEF AdmissionInv, KeptInv, Current, EntryOf
<1>10. PlanInv'
  BY <1>1, <1>3 DEF AdmissionInv, PlanInv, GoodPlan, Current, EntryOf
<1> QED
  BY <1>4, <1>5, <1>6, <1>7, <1>8, <1>9, <1>10 DEF AdmissionInv

LEMMA RestartStep ==
  ASSUME TypeOK, AdmissionInv, Restart
  PROVE  AdmissionInv'
<1>1. /\ store' = store /\ cache' = store /\ watch' = [j \in Jobs |-> << >>]
      /\ queue' = queue /\ qcache' = queue /\ qwatch' = << >>
      /\ qw' = NoPass /\ tw' = {} /\ iw' = {} /\ lives' = lives
  BY DEF Restart
<1>2. /\ \A j \in Jobs : watch'[j] = << >> /\ NoPass.list[j] = NoJob
      /\ \A j \in Jobs : ~HasEntry(NoPass.used, j)
      /\ NoPass.pc = "idle" /\ NoJob.phase = "Absent" /\ NoPass.list = NoJobs
      /\ \A e \in Entry : ~(NoPass.used[e] > 0)
  BY <1>1 DEF NoPass, NoJobs, NoJob, HasEntry, NothingUsed
<1>3. \A j \in Jobs : store[j].rc \in Nat /\ store[j].rc <= store[j].rc
  BY VersionRound DEF TypeOK
<1>4. WatchInv'
  BY <1>1, <1>2 DEF WatchInv
<1>5. NoQueueInv' /\ IdleListInv'
  BY <1>1, <1>2 DEF AdmissionInv, NoQueueInv, IdleListInv
<1>6. UnbornInv'
  BY <1>1, <1>2 DEF AdmissionInv, UnbornInv
<1>7. UnseenInv' /\ CopyInv' /\ ListInv'
  BY <1>1, <1>2, <1>3 DEF UnseenInv, CopyInv, ListInv, Alive
<1>8. InferenceRoundInv'
  BY <1>1, <1>2 DEF AdmissionInv, InferenceRoundInv, Jobs
<1>9. AdmittedIsReserved'
  BY <1>1 DEF AdmissionInv, AdmittedIsReserved, EntryOf
<1>10. RoundInv'
  BY <1>1, <1>2 DEF AdmissionInv, RoundInv
<1>11. KeptInv'
  BY <1>1, <1>2 DEF AdmissionInv, KeptInv, Current, EntryOf
<1>12. PlanInv'
  BY <1>1 DEF PlanInv
<1> QED
  BY <1>4, <1>5, <1>6, <1>7, <1>8, <1>9, <1>10, <1>11, <1>12 DEF AdmissionInv

\* Steps of the Queue worker change neither the jobs nor the plans made for them.
LEMMA QueueWorkerPlans ==
  ASSUME TypeOK, AdmissionInv, UNCHANGED <<jobVars, tw, iw, bounds>>,
         \A p \in tw \cup iw :
           queue.used[Current(p.job)] > 0 => queue'.used[Current(p.job)] > 0
  PROVE  /\ PlanInv' /\ InferenceRoundInv'
BY DEF AdmissionInv, PlanInv, InferenceRoundInv, GoodPlan, Current, EntryOf,
       jobVars, bounds

LEMMA QueueGetStep ==
  ASSUME TypeOK, AdmissionInv, QueueGet
  PROVE  AdmissionInv'
<1>1. /\ store' = store /\ cache' = cache /\ watch' = watch
      /\ queue' = queue /\ qcache' = qcache /\ qwatch' = qwatch
      /\ tw' = tw /\ iw' = iw /\ lives' = lives
      /\ qw.pc = "idle"
  BY DEF QueueGet, jobVars, queueVars, bounds
<1>2. CASE ~qcache.exists
  <2>1. qw' = qw
    BY <1>1, <1>2 DEF QueueGet, AdmissionInv, IdleListInv
  <2> QED
    BY <1>1, <2>1, QuietStep DEF QueueGet
<1>3. CASE qcache.exists
  <2>1. /\ qw'.pc = "listTrain" /\ qw'.used = qcache.used
        /\ qw'.list = NoJobs /\ (qw'.current => qwatch = << >>)
    <3> DEFINE settled == qwatch = << >>
    <3>1. qw' = [NoPass EXCEPT !.pc = "listTrain", !.used = qcache.used,
                               !.current = settled]
      BY <1>3 DEF QueueGet
    <3> HIDE DEF settled
    <3>2. /\ qw'.pc = "listTrain" /\ qw'.used = qcache.used /\ qw'.list = NoJobs
          /\ qw'.current = settled
      BY <3>1 DEF NoPass
    <3>3. qw'.current => settled
      BY <3>2
    <3> QED
      BY <3>2, <3>3 DEF settled
  <2>2. \A j \in Jobs : qw'.list[j] = NoJob /\ qw'.list[j].phase = "Absent"
    BY <2>1 DEF NoJobs, NoJob
  <2>3. qwatch = << >> => queue = qcache
    BY DEF AdmissionInv, WatchInv
  <2>4. WatchInv' /\ AdmittedIsReserved'
    BY <1>1 DEF AdmissionInv, WatchInv, AdmittedIsReserved, EntryOf
  <2>5. NoQueueInv'
    BY <1>1, <1>3 DEF AdmissionInv, NoQueueInv, NoQueue
  <2>6. UnbornInv' /\ UnseenInv'
    BY <1>1, <2>1, <2>2 DEF AdmissionInv, UnbornInv, UnseenInv, HasEntry
  <2>7. CopyInv' /\ ListInv' /\ IdleListInv'
    BY <1>1, <2>1, <2>2 DEF AdmissionInv, CopyInv, ListInv, IdleListInv
  <2>8. RoundInv'
    BY <1>1, <2>1 DEF AdmissionInv, RoundInv
  <2>9. KeptInv'
    BY <1>1, <2>1, <2>3 DEF AdmissionInv, KeptInv, Current, EntryOf
  <2>10. PlanInv' /\ InferenceRoundInv'
    BY <1>1, QueueWorkerPlans DEF QueueGet
  <2> QED
    BY <2>4, <2>5, <2>6, <2>7, <2>8, <2>9, <2>10 DEF AdmissionInv
<1> QED
  BY <1>2, <1>3

\* The list of train jobs is read: what is read is no later than the store,
\* and a job not yet in the cache has no entry.
LEMMA QueueListTrainStep ==
  ASSUME TypeOK, AdmissionInv, QueueListTrain
  PROVE  AdmissionInv'
<1>1. /\ store' = store /\ cache' = cache /\ watch' = watch
      /\ queue' = queue /\ qcache' = qcache /\ qwatch' = qwatch
      /\ tw' = tw /\ iw' = iw /\ lives' = lives
      /\ qw.pc = "listTrain"
  BY DEF QueueListTrain, jobVars, queueVars, bounds
<1>2. qw.list = NoJobs
  BY <1>1 DEF AdmissionInv, IdleListInv
<1>3. /\ qw'.pc = "listInference" /\ qw'.used = qw.used
      /\ qw'.current = qw.current
      /\ \A j \in Jobs : qw'.list[j] = IF j \in TrainJobs THEN cache[j] ELSE NoJob
  BY <1>2 DEF QueueListTrain, TypeOK, QueuePasses, NoJobs
<1>4. NoJob.phase = "Absent"
  BY DEF NoJob
<1>5. WatchInv' /\ AdmittedIsReserved'
  BY <1>1 DEF AdmissionInv, WatchInv, AdmittedIsReserved, EntryOf
<1>6. NoQueueInv'
  BY <1>1 DEF AdmissionInv, NoQueueInv, NoPass
<1>7. UnbornInv' /\ UnseenInv'
  BY <1>1, <1>3, <1>4 DEF AdmissionInv, UnbornInv, UnseenInv
<1>8. CopyInv' /\ IdleListInv'
  BY <1>1, <1>3, <1>4 DEF AdmissionInv, CopyInv, IdleListInv
<1>9. ListInv'
  BY <1>1, <1>3 DEF AdmissionInv, UnseenInv, ListInv, Jobs
<1>10. RoundInv'
  BY <1>1, <1>3 DEF AdmissionInv, RoundInv
<1>11. KeptInv'
  BY <1>1, <1>3 DEF AdmissionInv, KeptInv, Current, EntryOf
<1>12. PlanInv' /\ InferenceRoundInv'
  BY <1>1, QueueWorkerPlans DEF QueueListTrain
<1> QED
  BY <1>5, <1>6, <1>7, <1>8, <1>9, <1>10, <1>11, <1>12 DEF AdmissionInv

\* A pass that is over holds nothing.
LEMMA EndOfPass ==
  ASSUME TypeOK, AdmissionInv, qw' = NoPass,
         UNCHANGED <<jobVars, queueVars, tw, iw, bounds>>
  PROVE  AdmissionInv'
<1>1. /\ store' = store /\ cache' = cache /\ watch' = watch
      /\ queue' = queue /\ qcache' = qcache /\ qwatch' = qwatch
      /\ tw' = tw /\ iw' = iw /\ lives' = lives
  BY DEF jobVars, queueVars, bounds
<1>2. /\ \A j \in Jobs : NoPass.list[j] = NoJob /\ ~HasEntry(NoPass.used, j)
      /\ NoPass.pc = "idle" /\ NoJob.phase = "Absent" /\ NoPass.list = NoJobs
      /\ \A e \in Entry : ~(NoPass.used[e] > 0)
  BY <1>1 DEF NoPass, NoJobs, NoJob, HasEntry, NothingUsed
<1>3. WatchInv' /\ AdmittedIsReserved'
  BY <1>1 DEF AdmissionInv, WatchInv, AdmittedIsReserved, EntryOf
<1>4. NoQueueInv' /\ IdleListInv'
  BY <1>1, <1>2 DEF AdmissionInv, NoQueueInv, IdleListInv
<1>5. UnbornInv' /\ UnseenInv'
  BY <1>1, <1>2 DEF AdmissionInv, UnbornInv, UnseenInv
<1>6. CopyInv' /\ ListInv'
  BY <1>1, <1>2 DEF AdmissionInv, CopyInv, ListInv, Jobs
<1>7. RoundInv'
  BY <1>1, <1>2 DEF AdmissionInv, RoundInv
<1>8. KeptInv'
  BY <1>1, <1>2 DEF AdmissionInv, KeptInv, Current, EntryOf
<1>9. PlanInv' /\ InferenceRoundInv'
  BY <1>1, QueueWorkerPlans
<1> QED
  BY <1>3, <1>4, <1>5, <1>6, <1>7, <1>8, <1>9 DEF AdmissionInv

\* The pass decides: what it will write has the current entry of every living
\* job that had it, and no entry of a later round.
LEMMA QueueListInferenceStep ==
  ASSUME TypeOK, AdmissionInv, QueueListInference
  PROVE  AdmissionInv'
<1> DEFINE list == [j \in Jobs |-> IF j \in InferenceJobs
                                   THEN cache[j] ELSE qw.list[j]]
<1>1. /\ store' = store /\ cache' = cache /\ watch' = watch
      /\ queue' = queue /\ qcache' = qcache /\ qwatch' = qwatch
      /\ tw' = tw /\ iw' = iw /\ lives' = lives
      /\ qw.pc = "listInference"
  BY DEF QueueListInference, jobVars, queueVars, bounds
<1>2. list \in [Jobs -> Version] /\ qw.used \in UsedList
  BY DEF QueuePasses, TypeOK
<1>3. PICK used \in PassResults(qw.used, list) :
        qw' = IF used = qw.used THEN NoPass
              ELSE [qw EXCEPT !.pc = "write", !.used = used, !.list = NoJobs]
  BY DEF QueueListInference
<1>4. CASE qw' = NoPass
  BY <1>4, EndOfPass DEF QueueListInference
<1>5. CASE qw' = [qw EXCEPT !.pc = "write", !.used = used, !.list = NoJobs]
  <2>1. /\ qw'.pc = "write" /\ qw'.used = used /\ qw'.list = NoJobs
        /\ qw'.current = qw.current
    BY <1>5 DEF TypeOK, QueuePasses
  <2>2. \A j \in Jobs : list[j] = IF j \in InferenceJobs THEN cache[j] ELSE qw.list[j]
    OBVIOUS
  <2> HIDE DEF list
  <2>3. ASSUME NEW e \in Entry
        PROVE  /\ qw.used[e] > 0 /\ Keeps(list, e) => used[e] > 0
               /\ used[e] > 0 =>
                    \/ qw.used[e] > 0
                    \/ list[e.job].phase = "Queued" /\ e = EntryOf(e.job, list)
    BY <1>2, <1>3, PassResultsEntries
  <2>4. ASSUME NEW j \in Jobs, Alive(store[j])
        PROVE  /\ list[j].phase # "Absent" =>
                    Alive(list[j]) /\ list[j].rc <= store[j].rc
               /\ list[j].phase = "Absent" => ~HasEntry(qw.used, j)
    BY <1>1, <2>2, <2>4 DEF AdmissionInv, CopyInv, UnseenInv, ListInv, Jobs
  <2>5. /\ \A j \in Jobs : qw'.list[j] = NoJob
        /\ NoJob.phase = "Absent" /\ NoJob.phase # "Queued"
    BY <2>1 DEF NoJobs, NoJob
  <2>6. ASSUME NEW j \in Jobs, list[j].phase = "Absent", ~HasEntry(qw.used, j)
        PROVE  ~HasEntry(used, j)
    <3>1. ASSUME NEW e \in Entry, e.job = j
          PROVE  ~(used[e] > 0)
      BY <2>3, <2>6, <3>1 DEF HasEntry
    <3> QED
      BY <3>1 DEF HasEntry
  <2>7. WatchInv' /\ AdmittedIsReserved'
    BY <1>1 DEF AdmissionInv, WatchInv, AdmittedIsReserved, EntryOf
  <2>8. NoQueueInv'
    BY <1>1 DEF AdmissionInv, NoQueueInv, NoPass
  <2>9. UnbornInv'
    <3>1. ASSUME NEW j \in Jobs, lives[j] = 0
          PROVE  ~HasEntry(used, j)
      BY <2>2, <2>5, <2>6, <3>1 DEF AdmissionInv, UnbornInv
    <3> QED
      BY <1>1, <2>1, <2>5, <3>1 DEF AdmissionInv, UnbornInv
  <2>10. UnseenInv'
    <3>1. ASSUME NEW j \in Jobs, Alive(store[j]), cache[j].phase = "Absent"
          PROVE  ~HasEntry(used, j)
      BY <2>2, <2>6, <3>1 DEF AdmissionInv, UnseenInv
    <3> QED
      BY <1>1, <2>1, <2>5, <3>1 DEF AdmissionInv, UnseenInv
  <2>11. CopyInv' /\ ListInv' /\ IdleListInv'
    BY <1>1, <2>1, <2>5 DEF AdmissionInv, CopyInv, ListInv, IdleListInv
  <2>12. RoundInv'
    <3>1. ASSUME NEW e \in Entry, Alive(store[e.job]), used[e] > 0
          PROVE  e.rc <= store[e.job].rc
      <4>1. e.job \in Jobs
        BY DEF Entry
      <4>2. CASE qw.used[e] > 0
        BY <3>1, <4>1, <4>2 DEF AdmissionInv, RoundInv
      <4>3. CASE list[e.job].phase = "Queued" /\ e = EntryOf(e.job, list)
        <5>1. e.rc = list[e.job].rc
          BY <4>3 DEF EntryOf
        <5> QED
          BY <2>4, <3>1, <4>1, <4>3, <5>1
      <4> QED
        BY <2>3, <3>1, <4>2, <4>3
    <3> QED
      BY <1>1, <2>1, <3>1 DEF AdmissionInv, RoundInv
  <2>13. KeptInv'
    <3>1. ASSUME NEW j \in Jobs, Alive(store[j]), queue.used[Current(j)] > 0,
                 qw.current
          PROVE  used[Current(j)] > 0
      <4>1. /\ Current(j) \in Entry /\ Current(j).job = j
            /\ Current(j).rc = store[j].rc
        BY EntryOfType DEF Current, EntryOf, TypeOK
      <4>2. qw.used[Current(j)] > 0
        BY <1>1, <3>1 DEF AdmissionInv, KeptInv
      <4>3. HasEntry(qw.used, j)
        BY <4>1, <4>2 DEF HasEntry
      <4>4. Alive(list[j]) /\ list[j].rc <= store[j].rc
        BY <2>4, <3>1, <4>3
      <4>5. list[j].rc \in Nat /\ store[j].rc \in Nat
        BY <1>2, VersionRound DEF TypeOK
      <4>6. Keeps(list, Current(j))
        BY <4>1, <4>4, <4>5 DEF Keeps, Alive, TrainTerminal
      <4> QED
        BY <2>3, <4>1, <4>2, <4>6
    <3> QED
      BY <1>1, <2>1, <3>1 DEF AdmissionInv, KeptInv, Current, EntryOf
  <2>14. PlanInv' /\ InferenceRoundInv'
    BY <1>1, QueueWorkerPlans DEF QueueListInference
  <2> QED
    BY <2>7, <2>8, <2>9, <2>10, <2>11, <2>12, <2>13, <2>14 DEF AdmissionInv
<1> QED
  BY <1>3, <1>4, <1>5

\* The list of an accepted pass has every current entry the store had.
LEMMA QueueWriteStep ==
  ASSUME TypeOK, AdmissionInv, QueueWrite
  PROVE  AdmissionInv'
<1>1. /\ store' = store /\ cache' = cache /\ watch' = watch
      /\ qcache' = qcache /\ qwatch' = Append(qwatch, queue')
      /\ qw' = NoPass /\ tw' = tw /\ iw' = iw /\ lives' = lives
      /\ qw.pc = "write" /\ qw.current
  BY DEF QueueWrite, jobVars, bounds
<1>2. queue'.exists = queue.exists /\ queue'.used = qw.used
  BY DEF QueueWrite, TypeOK, QueueVersion
<1>3. /\ qwatch' # << >> /\ qwatch'[Len(qwatch')] = queue'
      /\ \A n \in DOMAIN qwatch' :
           \/ qwatch'[n] = queue'
           \/ n \in DOMAIN qwatch /\ qwatch'[n] = qwatch[n]
  BY <1>1 DEF TypeOK
<1>4. /\ \A j \in Jobs : NoPass.list[j] = NoJob /\ ~HasEntry(NoPass.used, j)
      /\ NoPass.pc = "idle" /\ NoJob.phase = "Absent" /\ NoPass.list = NoJobs
      /\ \A e \in Entry : ~(NoPass.used[e] > 0)
  BY <1>1 DEF NoPass, NoJobs, NoJob, HasEntry, NothingUsed
<1>5. ASSUME NEW j \in Jobs, Alive(store[j]), queue.used[Current(j)] > 0
      PROVE  qw.used[Current(j)] > 0
  BY <1>1, <1>5 DEF AdmissionInv, KeptInv
<1>6. queue.exists
  BY <1>1 DEF AdmissionInv, NoQueueInv, NoPass
<1>7. WatchInv'
  BY <1>1, <1>3 DEF AdmissionInv, WatchInv
<1>8. NoQueueInv' /\ IdleListInv'
  BY <1>1, <1>2, <1>4, <1>6 DEF NoQueueInv, IdleListInv
<1>9. UnbornInv' /\ UnseenInv'
  BY <1>1, <1>2, <1>3, <1>4 DEF AdmissionInv, UnbornInv, UnseenInv
<1>10. CopyInv' /\ ListInv'
  BY <1>1, <1>4 DEF AdmissionInv, CopyInv, ListInv, Jobs
<1>11. RoundInv'
  BY <1>1, <1>2, <1>3, <1>4 DEF AdmissionInv, RoundInv
<1>12. KeptInv'
  <2> SUFFICES ASSUME NEW j \in Jobs, Alive(store[j])
               PROVE  /\ qcache.used[Current(j)] > 0 => qw.used[Current(j)] > 0
                      /\ \A n \in DOMAIN qwatch' :
                           qwatch'[n].used[Current(j)] > 0 =>
                             qw.used[Current(j)] > 0
    BY <1>1, <1>2, <1>4 DEF KeptInv, Current, EntryOf
  <2>1. qcache.used[Current(j)] > 0 => queue.used[Current(j)] > 0
    BY DEF AdmissionInv, KeptInv
  <2>2. \A n \in DOMAIN qwatch :
          qwatch[n].used[Current(j)] > 0 => queue.used[Current(j)] > 0
    BY DEF AdmissionInv, KeptInv
  <2> QED
    BY <1>2, <1>3, <1>5, <2>1, <2>2
<1>13. AdmittedIsReserved'
  <2> SUFFICES ASSUME NEW j \in Jobs, store[j].phase \in Holding
               PROVE  qw.used[Current(j)] > 0
    BY <1>1, <1>2 DEF AdmittedIsReserved, Holding, Current, EntryOf
  <2>1. Alive(store[j])
    BY DEF Alive, Holding, TrainHolding, TrainActive, InferenceHolding,
           InferenceActive, TrainTerminal
  <2>2. queue.used[Current(j)] > 0
    BY DEF AdmissionInv, AdmittedIsReserved, Holding, Current
  <2> QED
    BY <1>5, <2>1, <2>2
<1>14. PlanInv' /\ InferenceRoundInv'
  <2>1. ASSUME NEW p \in tw \cup iw
        PROVE  GoodPlan(p)'
    <3>1. p.job \in Jobs /\ GoodPlan(p) /\ p.next \in Version
      BY DEF AdmissionInv, PlanInv, TypeOK, Plan
    <3>2. p.current /\ p.next.phase \in Holding =>
            \/ store[p.job].phase \in Holding
            \/ Alive(store[p.job]) /\ queue.used[Current(p.job)] > 0
      <4>1. p.next.phase \in Holding => Alive(p.next) /\ p.next # NoJob
        BY DEF Alive, Holding, TrainHolding, TrainActive, InferenceHolding,
               InferenceActive, TrainTerminal, NoJob
      <4> QED
        BY <3>1, <4>1 DEF GoodPlan, Move
    <3>3. p.current /\ p.next.phase \in Holding =>
            \/ store[p.job].phase \in Holding
            \/ queue'.used[Current(p.job)] > 0
      BY <1>2, <1>5, <3>1, <3>2
    <3> QED
      BY <1>1, <3>1, <3>3 DEF GoodPlan, Current, EntryOf
  <2> QED
    BY <1>1, <2>1 DEF AdmissionInv, PlanInv, InferenceRoundInv
<1> QED
  BY <1>7, <1>8, <1>9, <1>10, <1>11, <1>12, <1>13, <1>14 DEF AdmissionInv

\* Every step preserves the invariant, when no job name is used twice.
LEMMA AdmissionStep ==
  ASSUME TypeOK, AdmissionInv, MaxLives <= 1, [Next]_vars
  PROVE  AdmissionInv'
<1>1. CASE UNCHANGED vars
  BY <1>1, QuietStep DEF vars, workers
<1>2. CASE Environment
  <2>1. ASSUME NEW j \in Jobs, WorkloadEvent(j)
        PROVE  AdmissionInv'
    BY <2>1, QuietStep DEF WorkloadEvent, workers
  <2> QED
    BY <1>2, <2>1, CreateQueueStep, RestartStep, CreateJobStep, DeleteJobStep
    DEF Environment
<1>3. CASE Informers
  BY <1>3, DeliverJobStep, DeliverQueueStep DEF Informers
<1>4. CASE TrainController
  <2>1. CASE TrainWrite
    BY <2>1, WriteStep DEF TrainWrite
  <2>2. CASE TrainConflict
    BY <2>2, QuietStep DEF TrainConflict
  <2> QED
    BY <1>4, <2>1, <2>2, TrainPassStep DEF TrainController
<1>5. CASE InferenceController
  <2>1. CASE InferenceWrite
    BY <2>1, WriteStep DEF InferenceWrite
  <2>2. CASE InferenceConflict
    BY <2>2, QuietStep DEF InferenceConflict
  <2> QED
    BY <1>5, <2>1, <2>2, InferencePassStep DEF InferenceController
<1>6. CASE QueueController
  <2>1. CASE QueueConflict
    BY <2>1, EndOfPass DEF QueueConflict
  <2> QED
    BY <1>6, <2>1, QueueGetStep, QueueListTrainStep, QueueListInferenceStep,
       QueueWriteStep
    DEF QueueController
<1> QED
  BY <1>1, <1>2, <1>3, <1>4, <1>5, <1>6 DEF Next

LEMMA AdmissionInit == Init => AdmissionInv
<1> SUFFICES ASSUME Init PROVE AdmissionInv
  OBVIOUS
<1>1. /\ store = NoJobs /\ cache = NoJobs /\ watch = [j \in Jobs |-> << >>]
      /\ queue = NoQueue /\ qcache = NoQueue /\ qwatch = << >>
      /\ tw = {} /\ iw = {} /\ qw = NoPass
  BY DEF Init
<1>2. /\ \A j \in Jobs : /\ store[j] = NoJob /\ cache[j] = NoJob
                         /\ watch[j] = << >> /\ NoPass.list[j] = NoJob
      /\ NoJob.phase = "Absent" /\ NoJob.rc = 0
      /\ NoPass.list = NoJobs /\ NoPass.pc = "idle"
      /\ NoPass.used = NothingUsed /\ NoQueue.used = NothingUsed
      /\ \A e \in Entry : ~(NothingUsed[e] > 0)
  BY <1>1 DEF NoJobs, NoPass, NoJob, NoQueue, NothingUsed
<1>3. \A j \in Jobs : ~Alive(store[j]) /\ store[j].phase \notin Holding
  BY <1>2 DEF Alive, Holding, TrainHolding, TrainActive, InferenceHolding,
              InferenceActive
<1>4. WatchInv /\ NoQueueInv /\ IdleListInv /\ PlanInv
  BY <1>1, <1>2 DEF WatchInv, NoQueueInv, IdleListInv, PlanInv
<1>5. UnbornInv
  BY <1>1, <1>2 DEF UnbornInv, HasEntry
<1>6. CopyInv /\ UnseenInv /\ ListInv /\ RoundInv /\ KeptInv
  BY <1>3 DEF CopyInv, UnseenInv, ListInv, RoundInv, KeptInv, Jobs
<1>7. InferenceRoundInv /\ AdmittedIsReserved
  BY <1>1, <1>2, <1>3 DEF InferenceRoundInv, AdmittedIsReserved, Holding, Jobs
<1> QED
  BY <1>4, <1>5, <1>6, <1>7 DEF AdmissionInv

\* While no job name is used a second time, every copy of a living job that a
\* controller may still act on, stale caches and writes in flight included, is
\* of that job and of no later round, or dates from before any entry of it.
THEOREM InvariantHolds == MaxLives <= 1 => (Spec => []AdmissionInv)
<1> SUFFICES ASSUME MaxLives <= 1 PROVE Spec => []AdmissionInv
  OBVIOUS
<1>1. TypeOK /\ AdmissionInv /\ [Next]_vars => AdmissionInv'
  BY AdmissionStep
<1> QED
  BY <1>1, AdmissionInit, TypeCorrect, PTL DEF Spec

\* The clean-up of the Queue reconciler never takes the reservation of a job
\* past admission, however far its caches lag, as long as no job name is used
\* a second time.
THEOREM ReservationKept == MaxLives <= 1 => (Spec => []AdmittedIsReserved)
<1> SUFFICES ASSUME MaxLives <= 1 PROVE Spec => []AdmittedIsReserved
  OBVIOUS
<1>1. AdmissionInv => AdmittedIsReserved
  BY DEF AdmissionInv
<1>2. Spec => []AdmissionInv
  BY InvariantHolds
<1> QED
  BY <1>1, <1>2, PTL

-----------------------------------------------------------------------------
(* No write revives a finished train job *)

LEMMA PlanToFresh ==
  ASSUME NEW j \in TrainJobs, NEW v, Alive(cache[j])
  PROVE  \A p \in PlanTo(j, v) :
           /\ p.job \in TrainJobs
           /\ p.current => watch[p.job] = << >> /\ Alive(cache[p.job])
<1> SUFFICES ASSUME NEW p \in PlanTo(j, v)
             PROVE  p.job = j /\ (p.current => watch[j] = << >>)
  OBVIOUS
<1> DEFINE settled == watch[j] = << >>
<1>1. p = [job |-> j, next |-> v, current |-> settled]
  BY DEF PlanTo
<1> HIDE DEF settled
<1>2. p.job = j /\ p.current = settled
  BY <1>1
<1>3. p.current => settled
  BY <1>2
<1> QED
  BY <1>2, <1>3 DEF settled

\* A job version stored on top of the others is the last to be delivered.
LEMMA StoresWatch ==
  ASSUME TypeOK, WatchInv, NEW j \in Jobs, NEW v \in Version, Stores(j, v),
         UNCHANGED queueVars
  PROVE  WatchInv' /\ watch'[j] # << >>
         /\ \A i \in Jobs : i # j => store'[i] = store[i] /\ watch'[i] = watch[i]
<1>1. /\ store'[j] = v /\ watch'[j] = Append(watch[j], v)
      /\ watch[j] \in Seq(Version)
      /\ \A i \in Jobs : i # j => store'[i] = store[i] /\ watch'[i] = watch[i]
  BY DEF Stores, TypeOK
<1>2. watch'[j] # << >> /\ watch'[j][Len(watch'[j])] = v
  BY <1>1
<1> QED
  BY <1>1, <1>2 DEF WatchInv, Stores, queueVars

\* WatchInv and FreshInv are inductive, and make the property hold step by step.
LEMMA FreshStep ==
  ASSUME TypeOK, WatchInv, FreshInv, [Next]_vars
  PROVE  /\ WatchInv' /\ FreshInv'
         /\ \A j \in TrainJobs :
              store[j].phase \in TrainTerminal =>
                store'[j].phase \in {store[j].phase, "Absent"}
<1> DEFINE Final == \A j \in TrainJobs :
                      store[j].phase \in TrainTerminal =>
                        store'[j].phase \in {store[j].phase, "Absent"}
<1>1. CASE UNCHANGED <<jobVars, queueVars, tw, iw>>
  BY <1>1 DEF WatchInv, FreshInv, jobVars, queueVars
<1>2. CASE \E j \in TrainJobs :
             \/ TrainIdle(j) \/ TrainSubmit(j) \/ TrainEnqueue(j)
             \/ TrainAdmit(j) \/ TrainRun(j) \/ TrainRelease(j)
  <2>1. PICK j \in TrainJobs :
             \/ TrainIdle(j) \/ TrainSubmit(j) \/ TrainEnqueue(j)
             \/ TrainAdmit(j) \/ TrainRun(j) \/ TrainRelease(j)
    BY <1>2
  <2>2. UNCHANGED <<jobVars, queueVars, iw>>
    BY <2>1 DEF TrainIdle, TrainSubmit, TrainEnqueue, TrainAdmit, TrainRun,
                TrainRelease, TrainPass, TakesKey
  <2>3. \/ tw' = {}
        \/ Alive(cache[j]) /\ \E v : tw' = PlanTo(j, v)
    BY <2>1 DEF TrainIdle, TrainSubmit, TrainEnqueue, TrainAdmit, TrainRun,
                TrainRelease, TrainActive, TrainTerminal, Alive
  <2>4. \A p \in tw' :
          /\ p.job \in TrainJobs
          /\ p.current => watch[p.job] = << >> /\ Alive(cache[p.job])
    BY <2>3, PlanToFresh
  <2> QED
    BY <2>2, <2>4 DEF WatchInv, FreshInv, jobVars, queueVars
<1>3. CASE \E j \in InferenceJobs :
             \/ InferenceGone(j) \/ InferenceFinalize(j) \/ InferenceGuard(j)
             \/ InferenceDone(j) \/ InferenceEnqueue(j) \/ InferenceAdmit(j)
             \/ InferenceRun(j) \/ InferenceFail(j)
  <2>1. PICK j \in InferenceJobs :
             \/ InferenceGone(j) \/ InferenceFinalize(j) \/ InferenceGuard(j)
             \/ InferenceDone(j) \/ InferenceEnqueue(j) \/ InferenceAdmit(j)
             \/ InferenceRun(j) \/ InferenceFail(j)
    BY <1>3
  <2>2. UNCHANGED <<jobVars, queueVars, tw>>
    BY <2>1 DEF InferenceGone, InferenceFinalize, InferenceGuard, InferenceDone,
                InferenceEnqueue, InferenceAdmit, InferenceRun, InferenceFail,
                InferenceSwitch, InferencePass, TakesKey
  <2>3. \A p \in iw' : p.job = j
    <3>1. \A v : \A p \in PlanTo(j, v) : p.job = j
      BY DEF PlanTo
    <3> QED
      BY <2>1, <3>1
      DEF InferenceGone, InferenceFinalize, InferenceGuard, InferenceDone,
          InferenceEnqueue, InferenceAdmit, InferenceRun, InferenceFail,
          InferenceSwitch, InferencePass
  <2> QED
    BY <2>2, <2>3 DEF WatchInv, FreshInv, jobVars, queueVars
<1>4. CASE TrainWrite
  <2>1. PICK p \in tw : p.current /\ Stores(p.job, p.next)
    BY <1>4 DEF TrainWrite
  <2>2. p.job \in Jobs /\ p.next \in Version /\ tw' = {} /\ iw' = iw
        /\ UNCHANGED queueVars
    BY <1>4, <2>1 DEF TypeOK, Plan, TrainWrite
  <2>3. store[p.job].phase \notin TrainTerminal
    BY <2>1, <2>2 DEF FreshInv, WatchInv, Alive
  <2>4. WatchInv' /\ \A i \in Jobs : i # p.job => store'[i] = store[i]
    BY <2>1, <2>2, StoresWatch
  <2>5. Final
    BY <2>3, <2>4 DEF Jobs
  <2> QED
    BY <2>2, <2>4, <2>5 DEF FreshInv
<1>5. CASE InferenceWrite
  <2>1. PICK p \in iw : Stores(p.job, p.next)
    BY <1>5 DEF InferenceWrite
  <2>2. p.job \in Jobs /\ p.next \in Version /\ iw' = {} /\ tw' = tw
        /\ UNCHANGED queueVars /\ p.job \notin TrainJobs /\ cache' = cache
    BY <1>5, <2>1 DEF TypeOK, Plan, InferenceWrite, FreshInv, Stores
  <2>3. /\ WatchInv' /\ watch'[p.job] # << >>
        /\ \A i \in Jobs : i # p.job => store'[i] = store[i] /\ watch'[i] = watch[i]
    BY <2>1, <2>2, StoresWatch
  <2>4. FreshInv'
    <3>1. ASSUME NEW q \in tw, q.current
          PROVE  watch'[q.job] = << >> /\ Alive(cache'[q.job])
      <4>1. q.job \in Jobs /\ q.job # p.job
              /\ watch[q.job] = << >> /\ Alive(cache[q.job])
        BY <2>2, <3>1 DEF FreshInv, Jobs
      <4> QED
        BY <2>2, <2>3, <4>1
    <3> QED
      BY <2>2, <3>1 DEF FreshInv
  <2> QED
    BY <2>2, <2>3, <2>4 DEF Jobs
<1>6. CASE \E j \in Jobs : CreateJob(j)
  <2>1. PICK j \in Jobs : CreateJob(j)
    BY <1>6
  <2>2. /\ Stores(j, [NoJob EXCEPT !.phase = "New"])
        /\ [NoJob EXCEPT !.phase = "New"] \in Version
        /\ store[j].phase = "Absent" /\ UNCHANGED queueVars /\ cache' = cache
        /\ tw' = tw /\ iw' = iw
    BY <2>1, NoJobType DEF CreateJob, Stores, workers, Version, TrainPhases
  <2>3. /\ WatchInv' /\ \A i \in Jobs : i # j => /\ store'[i] = store[i]
                                                 /\ watch'[i] = watch[i]
    BY <2>2, StoresWatch
  <2>4. ASSUME NEW p \in tw, p.current
        PROVE  watch'[p.job] = << >> /\ Alive(cache'[p.job])
    <3>1. p.job \in Jobs /\ watch[p.job] = << >> /\ Alive(cache[p.job])
      BY <2>4 DEF FreshInv, Jobs
    <3>2. p.job # j
      BY <2>2, <3>1 DEF WatchInv, Alive
    <3> QED
      BY <2>2, <2>3, <3>1, <3>2
  <2>5. FreshInv'
    BY <2>2, <2>4 DEF FreshInv
  <2>6. Final
    BY <2>2, <2>3 DEF Jobs, TrainTerminal
  <2> QED
    BY <2>3, <2>5, <2>6
<1>7. CASE \E j \in Jobs : DeleteJob(j)
  <2>1. PICK j \in Jobs : DeleteJob(j)
    BY <1>7
  <2> DEFINE v == IF store[j].fin = "set"
                  THEN [store[j] EXCEPT !.fin = "deleting"] ELSE NoJob
  <2>2. /\ v \in Version /\ v.phase \in {store[j].phase, "Absent"}
        /\ Stores(j, v) /\ UNCHANGED queueVars /\ cache' = cache
        /\ tw' = Outdated(tw, j) /\ iw' = Outdated(iw, j)
    BY <2>1, NoJobType DEF DeleteJob, Stores, TypeOK, Version, NoJob
  <2> HIDE DEF v
  <2>3. /\ WatchInv' /\ \A i \in Jobs : i # j => /\ store'[i] = store[i]
                                                 /\ watch'[i] = watch[i]
    BY <2>2, StoresWatch
  <2>4. ASSUME NEW q \in tw,
               NEW p, p = IF q.job = j THEN [q EXCEPT !.current = FALSE] ELSE q
        PROVE  /\ p.job \in TrainJobs
               /\ p.current => watch'[p.job] = << >> /\ Alive(cache'[p.job])
    <3>1. /\ q.job \in TrainJobs /\ q.job \in Jobs
          /\ q.current => watch[q.job] = << >> /\ Alive(cache[q.job])
      BY DEF FreshInv, Jobs
    <3>2. CASE q.job = j
      <4>1. p.job = j /\ p.current = FALSE
        BY <2>4, <3>2 DEF TypeOK, Plan
      <4> QED
        BY <3>1, <3>2, <4>1
    <3>3. CASE q.job # j
      BY <2>2, <2>3, <2>4, <3>1, <3>3
    <3> QED
      BY <3>2, <3>3
  <2>5. \A p \in iw' : p.job \in InferenceJobs
    BY <2>2 DEF Outdated, FreshInv, TypeOK, Plan
  <2>6. FreshInv'
    BY <2>2, <2>4, <2>5 DEF FreshInv, Outdated
  <2>7. Final
    BY <2>2, <2>3 DEF Jobs, Stores, TypeOK
  <2> QED
    BY <2>3, <2>6, <2>7
<1>8. CASE \E j \in Jobs : DeliverJob(j)
  <2>1. PICK j \in Jobs : DeliverJob(j)
    BY <1>8
  <2>2. /\ store' = store /\ UNCHANGED queueVars /\ tw' = tw /\ iw' = iw
        /\ watch[j] # << >> /\ watch[j] \in Seq(Version)
        /\ cache'[j] = Head(watch[j]) /\ watch'[j] = Tail(watch[j])
        /\ \A i \in Jobs : i # j => cache'[i] = cache[i] /\ watch'[i] = watch[i]
    BY <2>1 DEF DeliverJob, workers, TypeOK
  <2>3. WatchInv'
    <3>1. store[j] = watch[j][Len(watch[j])]
      BY <2>2 DEF WatchInv
    <3>2. store[j] = IF watch'[j] = << >> THEN cache'[j]
                     ELSE watch'[j][Len(watch'[j])]
      BY <2>2, <3>1, TailFacts
    <3> QED
      BY <2>2, <3>2 DEF WatchInv, queueVars
  <2>4. FreshInv'
    BY <2>2 DEF FreshInv, Jobs
  <2> QED
    BY <2>2, <2>3, <2>4
<1>9. CASE CreateQueue \/ QueueWrite
  <2>1. /\ UNCHANGED <<jobVars, tw, iw>> /\ qwatch' = Append(qwatch, queue')
        /\ qwatch \in Seq(QueueVersion)
    BY <1>9 DEF CreateQueue, QueueWrite, workers, TypeOK
  <2>2. qwatch' # << >> /\ qwatch'[Len(qwatch')] = queue'
    BY <2>1
  <2> QED
    BY <2>1, <2>2 DEF WatchInv, FreshInv, jobVars
<1>10. CASE DeliverQueue
  <2>1. /\ UNCHANGED <<jobVars, tw, iw>> /\ queue' = queue
        /\ qwatch # << >> /\ qcache' = Head(qwatch) /\ qwatch' = Tail(qwatch)
        /\ qwatch \in Seq(QueueVersion)
    BY <1>10 DEF DeliverQueue, workers, TypeOK
  <2>2. queue = qwatch[Len(qwatch)]
    BY <2>1 DEF WatchInv
  <2>3. queue = IF qwatch' = << >> THEN qcache' ELSE qwatch'[Len(qwatch')]
    BY <2>1, <2>2, TailFacts
  <2> QED
    BY <2>1, <2>3 DEF WatchInv, FreshInv, jobVars
<1>11. CASE Restart
  BY <1>11 DEF Restart, WatchInv, FreshInv
<1>12. CASE TrainConflict \/ InferenceConflict
  BY <1>12 DEF TrainConflict, InferenceConflict, WatchInv, FreshInv, jobVars,
               queueVars
<1> QED
  BY <1>1, <1>2, <1>3, <1>4, <1>5, <1>6, <1>7, <1>8, <1>9, <1>10, <1>11, <1>12
  DEF Next, Environment, Informers, TrainController, InferenceController,
      QueueController, vars, workers, WorkloadEvent, QueueGet, QueueListTrain,
      QueueListInference, QueueConflict

\* A train job that has succeeded or failed stays so until it is deleted,
\* whatever the caches show, also when names are reused.
THEOREM FinalPhases == Spec => TerminalIsFinal
<1>1. Init => WatchInv /\ FreshInv
  BY DEF Init, WatchInv, FreshInv
<1>2. TypeOK /\ WatchInv /\ FreshInv /\ [Next]_vars =>
        /\ WatchInv' /\ FreshInv'
        /\ \A j \in TrainJobs :
             store[j].phase \in TrainTerminal =>
               store'[j].phase \in {store[j].phase, "Absent"}
  BY FreshStep
<1> QED
  BY <1>1, <1>2, TypeCorrect, PTL DEF Spec, TerminalIsFinal

==========================================================================
