----------------------- MODULE AdmissionRefinement -----------------------
(***************************************************************************)
(* That every inference job of QueueAdmission, among any number of other   *)
(* jobs and with reused names, goes through the life of InferenceLifecycle.*)
(*                                                                         *)
(* LifeInv is the reason: a status write that will be accepted is one step *)
(* of that life from the version that is stored.                           *)
(***************************************************************************)
EXTENDS AdmissionProofs

\* The phase is one of an inference job, and a job whose status was ever written
\* has its finalizer.
Formed(v) ==
  /\ v.phase \in InferencePhases
  /\ v.fin = "none" => v.phase \in {"Absent", "New"}
  /\ v.phase = "Absent" => v.fin = "none"

\* What a pass over a job may make of it.
Leads(v, w) ==
  \/ v.fin = "none" /\ v.phase = "New" /\ w.fin = "set" /\ w.phase = "New"
  \/ /\ v.fin = "set" /\ w.fin = "set"
     /\ \/ v.phase = "New" /\ w.phase = "Queued"
        \/ v.phase = "Queued" /\ w.phase = "Starting"
        \/ v.phase \in InferenceActive /\ w.phase \in InferencePassPhases(v.phase)
        \/ v.phase = "Failing" /\ w.phase = "Failed"
  \/ v.fin = "deleting" /\ w.fin = "none" /\ w.phase = "Absent"

\* What its user may make of it.
Asked(v, w) ==
  \/ v.phase = "Absent" /\ w.phase = "New" /\ v.fin = "none" /\ w.fin = "none"
  \/ v.phase # "Absent" /\ v.fin = "set" /\ w.phase = v.phase /\ w.fin = "deleting"
  \/ v.phase # "Absent" /\ v.fin = "none" /\ w.phase = "Absent" /\ w.fin = "none"

FormInv ==
  \A j \in InferenceJobs :
    /\ Formed(store[j]) /\ Formed(cache[j])
    /\ \A n \in DOMAIN watch[j] : Formed(watch[j][n])

LeadInv ==
  \A p \in iw :
    /\ p.job \in InferenceJobs
    /\ Formed(p.next)
    /\ p.current => Leads(store[p.job], p.next)

LifeInv == FormInv /\ LeadInv

Lives == \A j \in InferenceJobs :
           \/ store'[j] = store[j]
           \/ Leads(store[j], store'[j])
           \/ Asked(store[j], store'[j])

-----------------------------------------------------------------------------

InferencePassOver(j) ==
  \/ InferenceGone(j) \/ InferenceFinalize(j) \/ InferenceGuard(j)
  \/ InferenceDone(j) \/ InferenceEnqueue(j) \/ InferenceAdmit(j)
  \/ InferenceRun(j) \/ InferenceFail(j)

\* A pass plans nothing, or one step of the life of the copy it has read.
LEMMA PassLeads ==
  ASSUME TypeOK, FormInv, NEW j \in InferenceJobs, InferencePassOver(j)
  PROVE  \/ iw' = {}
         \/ \E w \in Version : iw' = PlanTo(j, w) /\ Formed(w) /\ Leads(cache[j], w)
<1>1. cache[j] \in Version /\ Formed(cache[j])
  BY DEF TypeOK, FormInv, Jobs
<1>2. ASSUME NEW phase \in InferencePhases \ {"Absent"}, cache[j].fin = "set"
      PROVE  /\ ToPhase(cache[j], phase) \in Version
             /\ Formed(ToPhase(cache[j], phase))
             /\ ToPhase(cache[j], phase).phase = phase
             /\ ToPhase(cache[j], phase).fin = "set"
  BY <1>1, <1>2 DEF ToPhase, Version, Formed
<1>3. CASE InferenceGone(j) \/ InferenceDone(j)
  BY <1>3 DEF InferenceGone, InferenceDone
<1>4. CASE InferenceFinalize(j)
  <2>1. NoJob \in Version /\ Formed(NoJob) /\ NoJob.phase = "Absent" /\ NoJob.fin = "none"
    BY NoJobType DEF NoJob, Formed, InferencePhases
  <2> QED
    BY <1>4, <2>1 DEF InferenceFinalize, Leads
<1>5. CASE InferenceGuard(j)
  <2> DEFINE w == [cache[j] EXCEPT !.fin = "set"]
  <2>1. cache[j].phase = "New" /\ cache[j].fin = "none" /\ iw' = PlanTo(j, w)
    BY <1>1, <1>5 DEF InferenceGuard, Formed
  <2>2. w \in Version /\ w.phase = "New" /\ w.fin = "set"
    BY <1>1, <2>1 DEF Version
  <2> QED
    BY <2>1, <2>2 DEF Formed, Leads, InferencePhases
<1>6. CASE InferenceEnqueue(j)
  BY <1>2, <1>6 DEF InferenceEnqueue, InferenceSwitch, Leads, InferencePhases
<1>7. CASE InferenceAdmit(j)
  BY <1>2, <1>7 DEF InferenceAdmit, InferenceSwitch, Leads, InferencePhases
<1>8. CASE InferenceRun(j)
  <2>1. PICK phase \in InferencePassPhases(cache[j].phase) :
          iw' = PlanTo(j, ToPhase(cache[j], phase))
    BY <1>8 DEF InferenceRun
  <2>2. cache[j].fin = "set" /\ cache[j].phase \in InferenceActive
    BY <1>8 DEF InferenceRun, InferenceSwitch
  <2>3. phase \in InferencePhases \ {"Absent"}
    BY <2>2 DEF InferencePassPhases, InferenceActive, InferencePhases
  <2> QED
    BY <1>2, <2>1, <2>2, <2>3 DEF Leads
<1>9. CASE InferenceFail(j)
  BY <1>2, <1>9 DEF InferenceFail, InferenceSwitch, Leads, InferencePhases
<1> QED
  BY <1>3, <1>4, <1>5, <1>6, <1>7, <1>8, <1>9 DEF InferencePassOver

\* What a plan made from the cache is worth when it comes to be written.
LEMMA PlanToLeads ==
  ASSUME WatchInv, NEW j \in InferenceJobs, NEW w, Formed(w), Leads(cache[j], w),
         NEW p \in PlanTo(j, w)
  PROVE  /\ p.job = j /\ Formed(p.next)
         /\ p.current => Leads(store[j], p.next)
<1> DEFINE settled == watch[j] = << >>
<1>1. settled => store[j] = cache[j]
  BY DEF WatchInv, Jobs
<1>2. p = [job |-> j, next |-> w, current |-> settled]
  BY DEF PlanTo
<1> HIDE DEF settled
<1>3. p.job = j /\ p.next = w /\ p.current = settled
  BY <1>2
<1> QED
  BY <1>1, <1>3

\* A formed version stored for an inference job leaves formed versions only.
LEMMA StoresForm ==
  ASSUME TypeOK, FormInv, NEW j \in InferenceJobs, NEW v \in Version, Formed(v),
         Stores(j, v)
  PROVE  FormInv'
<1>1. j \in Jobs /\ watch[j] \in Seq(Version)
  BY DEF Jobs, TypeOK
<1>2. /\ store'[j] = v /\ cache' = cache /\ watch'[j] = Append(watch[j], v)
      /\ \A i \in Jobs : i # j => store'[i] = store[i] /\ watch'[i] = watch[i]
  BY <1>1 DEF Stores, TypeOK
<1>3. \A n \in DOMAIN watch'[j] : Formed(watch'[j][n])
  BY <1>1, <1>2, AppendProperties DEF FormInv
<1> QED
  BY <1>2, <1>3 DEF FormInv, Jobs

\* Versions of train jobs are no concern of the inference jobs.
LEMMA TrainStores ==
  ASSUME TypeOK, LifeInv, NEW j \in TrainJobs, NEW v, Stores(j, v), iw' = iw
  PROVE  LifeInv' /\ Lives
<1>1. /\ j \in Jobs /\ cache' = cache
      /\ \A i \in InferenceJobs : store'[i] = store[i] /\ watch'[i] = watch[i]
  BY JobsAssumption DEF Stores, TypeOK, Jobs
<1> QED
  BY <1>1 DEF LifeInv, FormInv, LeadInv, Lives

\* LifeInv is inductive, and every step is one of the life of each job.
LEMMA LifeStep ==
  ASSUME TypeOK, WatchInv, FreshInv, LifeInv, [Next]_vars
  PROVE  LifeInv' /\ Lives
<1>1. CASE UNCHANGED <<jobVars, iw>>
  BY <1>1 DEF LifeInv, FormInv, LeadInv, Lives, jobVars
<1>2. CASE \E j \in InferenceJobs : InferencePassOver(j)
  <2>1. PICK j \in InferenceJobs : InferencePassOver(j)
    BY <1>2
  <2>2. UNCHANGED jobVars
    BY <2>1 DEF InferencePassOver, InferenceGone, InferenceFinalize, InferenceGuard,
                InferenceDone, InferenceEnqueue, InferenceAdmit, InferenceRun,
                InferenceFail, InferenceSwitch, InferencePass, TakesKey
  <2>3. LeadInv'
    <3>1. CASE iw' = {}
      BY <3>1 DEF LeadInv
    <3>2. CASE \E w \in Version : iw' = PlanTo(j, w) /\ Formed(w) /\ Leads(cache[j], w)
      BY <2>2, <3>2, PlanToLeads DEF LeadInv, jobVars
    <3> QED
      BY <2>1, <3>1, <3>2, PassLeads DEF LifeInv
  <2> QED
    BY <2>2, <2>3 DEF LifeInv, FormInv, Lives, jobVars
<1>3. CASE InferenceWrite
  <2>1. PICK p \in iw : p.current /\ Stores(p.job, p.next)
    BY <1>3 DEF InferenceWrite
  <2>2. /\ p.job \in InferenceJobs /\ p.job \in Jobs /\ p.next \in Version
        /\ Formed(p.next) /\ Leads(store[p.job], p.next) /\ iw' = {}
    BY <1>3, <2>1 DEF LifeInv, LeadInv, TypeOK, Plan, InferenceWrite
  <2>3. FormInv'
    BY <2>1, <2>2, StoresForm DEF LifeInv
  <2>4. Lives
    BY <2>1, <2>2 DEF Lives, Stores, TypeOK, Jobs
  <2> QED
    BY <2>2, <2>3, <2>4 DEF LifeInv, LeadInv
<1>4. CASE TrainWrite
  <2>1. PICK p \in tw : p.current /\ Stores(p.job, p.next)
    BY <1>4 DEF TrainWrite
  <2>2. p.job \in TrainJobs /\ iw' = iw
    BY <1>4, <2>1 DEF FreshInv, TrainWrite
  <2> QED
    BY <2>1, <2>2, TrainStores
<1>5. CASE \E j \in Jobs : CreateJob(j)
  <2> DEFINE v == [NoJob EXCEPT !.phase = "New"]
  <2>1. PICK j \in Jobs : CreateJob(j)
    BY <1>5
  <2>2. store[j].phase = "Absent" /\ Stores(j, v) /\ iw' = iw
    BY <2>1 DEF CreateJob, workers
  <2>3. v \in Version /\ Formed(v) /\ v.phase = "New" /\ v.fin = "none"
    BY NoJobType DEF Version, NoJob, Formed, InferencePhases, TrainPhases
  <2>4. CASE j \in InferenceJobs
    <3>1. FormInv'
      BY <2>2, <2>3, <2>4, StoresForm DEF LifeInv
    <3>2. store'[j] = v /\ \A i \in Jobs : i # j => store'[i] = store[i]
      BY <2>2 DEF Stores, TypeOK
    <3>3. store[j].fin = "none"
      BY <2>2, <2>4 DEF LifeInv, FormInv, Formed
    <3>4. \A p \in iw : p.current => p.job # j
      BY <2>2, <3>3 DEF LifeInv, LeadInv, Leads
    <3>5. LeadInv'
      BY <2>2, <3>2, <3>4 DEF LifeInv, LeadInv, Jobs
    <3>6. Lives
      BY <2>2, <2>3, <3>2, <3>3 DEF Lives, Asked, Jobs
    <3> QED
      BY <3>1, <3>5, <3>6 DEF LifeInv
  <2>5. CASE j \in TrainJobs
    BY <2>2, <2>5, TrainStores
  <2> QED
    BY <2>4, <2>5 DEF Jobs
<1>6. CASE \E j \in Jobs : DeleteJob(j)
  <2>1. PICK j \in Jobs : DeleteJob(j)
    BY <1>6
  <2> DEFINE v == IF store[j].fin = "set"
                  THEN [store[j] EXCEPT !.fin = "deleting"] ELSE NoJob
  <2>2. /\ store[j].phase # "Absent" /\ store[j].fin # "deleting"
        /\ Stores(j, v) /\ iw' = Outdated(iw, j) /\ store[j] \in Version
    BY <2>1 DEF DeleteJob, TypeOK
  <2>3. /\ v \in Version /\ (j \in InferenceJobs => Formed(v))
        /\ store[j].fin = "set" => v.phase = store[j].phase /\ v.fin = "deleting"
        /\ store[j].fin # "set" => v.phase = "Absent" /\ v.fin = "none"
    BY <2>2, NoJobType DEF Version, NoJob, Formed, InferencePhases, LifeInv, FormInv
  <2> HIDE DEF v
  <2>4. store[j].fin \in {"none", "set"}
    BY <2>2 DEF Version
  <2>5. /\ store'[j] = v /\ cache' = cache
        /\ \A i \in Jobs : i # j => store'[i] = store[i] /\ watch'[i] = watch[i]
    BY <2>2 DEF Stores, TypeOK
  <2>6. LeadInv'
    <3> SUFFICES ASSUME NEW q \in iw'
                 PROVE  /\ q.job \in InferenceJobs /\ Formed(q.next)
                        /\ q.current => Leads(store'[q.job], q.next)
      BY DEF LeadInv
    <3>1. PICK p \in iw : q = IF p.job = j THEN [p EXCEPT !.current = FALSE] ELSE p
      BY <2>2 DEF Outdated
    <3>2. p \in Plan /\ p.job \in InferenceJobs /\ Formed(p.next)
          /\ (p.current => Leads(store[p.job], p.next))
      BY DEF LifeInv, LeadInv, TypeOK
    <3>3. q.job = p.job /\ q.next = p.next /\ (q.current => p.current /\ p.job # j)
      BY <3>1, <3>2 DEF Plan
    <3> QED
      BY <2>5, <3>2, <3>3 DEF Jobs
  <2>7. FormInv' /\ Lives
    <3>1. CASE j \in InferenceJobs
      <4>1. FormInv'
        BY <2>2, <2>3, <3>1, StoresForm DEF LifeInv
      <4>2. Asked(store[j], store'[j])
        BY <2>2, <2>3, <2>4, <2>5 DEF Asked
      <4> QED
        BY <2>5, <4>1, <4>2 DEF Lives, Jobs
    <3>2. CASE j \in TrainJobs
      BY <2>5, <3>2, JobsAssumption DEF LifeInv, FormInv, Lives, Jobs
    <3> QED
      BY <3>1, <3>2 DEF Jobs
  <2> QED
    BY <2>6, <2>7 DEF LifeInv
<1>7. CASE \E j \in Jobs : DeliverJob(j)
  <2>1. PICK j \in Jobs : DeliverJob(j)
    BY <1>7
  <2>2. /\ store' = store /\ iw' = iw
        /\ watch[j] # << >> /\ watch[j] \in Seq(Version)
        /\ cache'[j] = Head(watch[j]) /\ watch'[j] = Tail(watch[j])
        /\ \A i \in Jobs : i # j => cache'[i] = cache[i] /\ watch'[i] = watch[i]
    BY <2>1 DEF DeliverJob, workers, TypeOK
  <2>3. /\ 1 \in DOMAIN watch[j] /\ cache'[j] = watch[j][1]
        /\ \A n \in DOMAIN watch'[j] : n + 1 \in DOMAIN watch[j]
                                       /\ watch'[j][n] = watch[j][n + 1]
    BY <2>2, TailFacts
  <2>4. FormInv'
    <3> SUFFICES ASSUME NEW i \in InferenceJobs
                 PROVE  /\ Formed(store'[i]) /\ Formed(cache'[i])
                        /\ \A n \in DOMAIN watch'[i] : Formed(watch'[i][n])
      BY DEF FormInv
    <3>1. /\ Formed(store[i]) /\ Formed(cache[i])
          /\ \A n \in DOMAIN watch[i] : Formed(watch[i][n])
      BY DEF LifeInv, FormInv
    <3>2. CASE i = j
      BY <2>2, <2>3, <3>1, <3>2
    <3>3. CASE i # j
      BY <2>2, <3>1, <3>3 DEF Jobs
    <3> QED
      BY <3>2, <3>3
  <2> QED
    BY <2>2, <2>4 DEF LifeInv, LeadInv, Lives
<1>8. CASE Restart
  BY <1>8 DEF Restart, LifeInv, FormInv, LeadInv, Lives, Jobs
<1>9. CASE InferenceConflict
  BY <1>9 DEF InferenceConflict, LifeInv, FormInv, LeadInv, Lives, jobVars
<1> QED
  BY <1>1, <1>2, <1>3, <1>4, <1>5, <1>6, <1>7, <1>8, <1>9
  DEF Next, Environment, Informers, TrainController, InferenceController,
      QueueController, vars, workers, WorkloadEvent, QueueGet, QueueListTrain,
      QueueListInference, QueueConflict, QueueWrite, CreateQueue, DeliverQueue,
      TrainConflict, TrainIdle, TrainSubmit, TrainEnqueue, TrainAdmit, TrainRun,
      TrainRelease, TrainPass, TakesKey, InferencePassOver

\* Each of those steps is one of the abstract specification.
LEMMA LifeOf ==
  ASSUME NEW j \in InferenceJobs, Formed(store[j]),
         \/ store'[j] = store[j]
         \/ Leads(store[j], store'[j])
         \/ Asked(store[j], store'[j])
  PROVE  [Life(j)!Next]_<<store[j].phase, store[j].fin>>
<1>1. CASE store'[j] = store[j]
  BY <1>1
<1>2. CASE Leads(store[j], store'[j])
  <2>1. CASE store[j].fin = "none"
    BY <1>2, <2>1 DEF Leads, Life!Next, Life!Guard
  <2>2. CASE store[j].fin = "set"
    BY <1>2, <2>2 DEF Leads, Life!Next, Life!Moves, Life!Enqueue, Life!Admit,
       Life!Observe, Life!Clear, InferenceActive, InferencePassPhases,
       Life!InferenceActive, Life!InferencePassPhases
  <2>3. CASE store[j].fin = "deleting"
    BY <1>2, <2>3 DEF Leads, Formed, Life!Next, Life!Remove
  <2> QED
    BY <1>2, <2>1, <2>2, <2>3 DEF Leads
<1>3. CASE Asked(store[j], store'[j])
  BY <1>3 DEF Asked, Life!Next, Life!Create, Life!Delete, Life!Remove
<1> QED
  BY <1>1, <1>2, <1>3

\* However the passes over many jobs interleave, and also when names are reused,
\* the status and the finalizer of every inference job go through the life that
\* InferenceServing shows of one job with its pod.
THEOREM LivesRefined == Spec => InferenceRefines
<1>1. Init => WatchInv /\ FreshInv /\ LifeInv /\ \A j \in InferenceJobs : Life(j)!Init
  BY DEF Init, WatchInv, FreshInv, LifeInv, FormInv, LeadInv, Formed, NoJobs, NoJob,
         Jobs, InferencePhases, Life!Init
<1>2. TypeOK /\ WatchInv /\ FreshInv /\ LifeInv /\ [Next]_vars =>
        /\ WatchInv' /\ FreshInv' /\ LifeInv'
        /\ \A j \in InferenceJobs : [Life(j)!Next]_<<store[j].phase, store[j].fin>>
  BY FreshStep, LifeStep, LifeOf DEF Lives, LifeInv, FormInv
<1> QED
  BY <1>1, <1>2, TypeCorrect, PTL DEF Spec, InferenceRefines
==========================================================================
