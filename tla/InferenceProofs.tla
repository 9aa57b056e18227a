------------------------- MODULE InferenceProofs -------------------------
(***************************************************************************)
(* What holds of InferenceServing for every MaxRestarts and every bound:   *)
(* its types, why and when a job is given up, and that its status and      *)
(* finalizer follow InferenceLifecycle.                                    *)
(*                                                                         *)
(* All of it follows from the inductive invariant Inv of ServingInvariant. *)
(***************************************************************************)
EXTENDS ServingInvariant, SequenceTheorems, TLAPS

-----------------------------------------------------------------------------
(* Facts about sequences, versions and judgements *)

\* What the operations on a watch do to the set its versions are from.
LEMMA SeqFacts ==
  ASSUME NEW S, NEW s \in Seq(S), NEW v \in S
  PROVE  /\ Append(s, v) \in Seq(S)
         /\ Append(s, v) # << >>
         /\ Append(s, v)[Len(Append(s, v))] = v
  BY AppendProperties

\* Delivering the oldest version keeps the newest in its place.
LEMMA DeliveryFollows ==
  ASSUME NEW S, NEW s \in Seq(S), NEW v, NEW w, s # << >>, Follows(v, w, s)
  PROVE  Follows(v, Head(s), Tail(s))
<1>1. /\ Tail(s) \in Seq(S) /\ Len(Tail(s)) = Len(s) - 1 /\ Len(s) \in Nat
      /\ \A i \in 1 .. Len(Tail(s)) : Tail(s)[i] = s[i + 1]
  BY HeadTailProperties, LenProperties
<1>2. CASE Tail(s) = << >>
  <2>1. Len(s) = 1
    BY <1>1, <1>2, EmptySeq
  <2> QED
    BY <1>2, <2>1 DEF Follows
<1>3. CASE Tail(s) # << >>
  <2>1. Len(Tail(s)) \in Nat \ {0}
    BY <1>1, <1>3, EmptySeq, LenProperties
  <2>2. Tail(s)[Len(Tail(s))] = s[Len(s)]
    BY <1>1, <2>1
  <2> QED
    BY <1>3, <2>2 DEF Follows
<1> QED
  BY <1>2, <1>3

\* The copies of earlier states are good: crashes are only ever added.
LEMMA CrashesGrow ==
  ASSUME NEW c \in CrashCounts, NEW d \in CrashCounts,
         \A l \in Lives : c[l] <= d[l]
  PROVE  GoodJobs(c) \subseteq GoodJobs(d) /\ GoodPods(c) \subseteq GoodPods(d)
<1> USE ServingAssumption
<1>1. Lives \subseteq Nat
  BY DEF Lives, Mishaps
<1>2. WornOut(c) => WornOut(d)
  BY DEF WornOut, CrashCounts
<1>3. \A p \in PodVersion : p.owner \in Lives /\ p.restarts \in Nat
  BY DEF PodVersion
<1> QED
  BY <1>2, <1>3 DEF GoodJobs, GoodPods, CrashCounts

LEMMA NoCopies ==
  ASSUME NEW c \in CrashCounts
  PROVE  NoJob \in GoodJobs(c) /\ NoPod \in GoodPods(c) /\ Idle \in GoodPasses(c)
<1> USE ServingAssumption
<1>1. 0 \in Lives
  BY DEF Lives, Mishaps
<1>2. NoJob \in GoodJobs(c)
  BY <1>1 DEF NoJob, GoodJobs, JobVersion, InferencePhases
<1>3. NoPod \in GoodPods(c)
  BY <1>1 DEF NoPod, GoodPods, PodVersion, CrashCounts
<1> QED
  BY <1>2, <1>3 DEF Idle, GoodPasses

\* A job is given up only over a pod that shows why, and that has crashed more
\* often than MaxRestarts.
LEMMA GivenUpForAReason ==
  ASSUME NEW c \in CrashCounts, NEW p \in GoodPods(c), NEW phase \in InferenceActive,
         NextPhase(phase, p) = "Failing"
  PROVE  HasTerminated(p) /\ WornOut(c)
<1> USE ServingAssumption
<1>1. p.owner \in Lives /\ p.restarts \in Nat /\ c[p.owner] \in Nat
  BY DEF GoodPods, PodVersion, CrashCounts
<1>2. p.restarts > MaxRestarts \/ (p.state = "Crashed" /\ p.restarts >= MaxRestarts)
  BY DEF NextPhase, LivePhase, PodStatus, InferenceActive
<1>3. HasTerminated(p)
  BY <1>1, <1>2 DEF HasTerminated
<1>4. c[p.owner] > MaxRestarts
  BY <1>1, <1>2 DEF GoodPods
<1> QED
  BY <1>1, <1>3, <1>4 DEF WornOut

LEMMA NextPhases ==
  ASSUME NEW p, NEW phase \in InferenceActive
  PROVE  NextPhase(phase, p) \in InferencePassPhases(phase) /\ NextPhase(phase, p) \in InferencePhases
<1>1. PodStatus(p) \in {"NotExist", "Ready", "Crash", "NotReady"}
  BY DEF PodStatus
<1> QED
  BY <1>1 DEF NextPhase, LivePhase, InferencePassPhases, InferenceActive, InferencePhases

\* What a pass makes of an active job is good, and a step of its life.
LEMMA JudgedWell ==
  ASSUME NEW c \in CrashCounts, NEW v \in GoodJobs(c), NEW p \in GoodPods(c),
         v.fin = "set", v.phase \in InferenceActive
  PROVE  Judged(v, p) \in GoodJobs(c) /\ Leads(v, Judged(v, p))
<1> DEFINE n == NextPhase(v.phase, p)
           w == Judged(v, p)
<1>1. n \in InferencePassPhases(v.phase) /\ n \in InferencePhases
  BY NextPhases
<1>2. v \in JobVersion
  BY DEF GoodJobs
<1>3. /\ w.phase = n /\ w.fin = v.fin /\ w.life = v.life
      /\ w.failed = v.failed \/ w.failed = TRUE
      /\ n = "Failing" /\ HasTerminated(p) => w.failed
  BY <1>2 DEF Judged, JobVersion
<1>4. w \in [phase : InferencePhases, fin : {"none", "set", "deleting"},
             failed : BOOLEAN, life : Lives]
  BY <1>1, <1>2 DEF Judged, JobVersion
<1>5. n # "Failed" /\ n # "Absent"
  BY <1>1 DEF InferencePassPhases, InferenceActive
<1>6. w \in JobVersion
  BY <1>3, <1>4, <1>5 DEF JobVersion
<1>7. n = "Failing" => HasTerminated(p) /\ WornOut(c)
  BY GivenUpForAReason
<1>8. w \in GoodJobs(c)
  BY <1>3, <1>5, <1>6, <1>7 DEF GoodJobs
<1> QED
  BY <1>1, <1>3, <1>8 DEF Leads

-----------------------------------------------------------------------------
(* What the ends and the writes of a call do to the parts of Inv *)

LEMMA JobsStay ==
  ASSUME JobsOK, UNCHANGED <<jobVars, crashes>>
  PROVE  JobsOK'
  BY DEF JobsOK, jobVars

LEMMA PodsStay ==
  ASSUME PodsOK, UNCHANGED <<podVars, crashes>>
  PROVE  PodsOK'
  BY DEF PodsOK, podVars

LEMMA JobStored ==
  ASSUME JobsOK, UNCHANGED crashes, NEW v \in GoodJobs(crashes), PutJob(v)
  PROVE  JobsOK'
<1>1. /\ jobWatch' \in Seq(GoodJobs(crashes)) /\ jobWatch' # << >>
      /\ jobWatch'[Len(jobWatch')] = v
  BY SeqFacts DEF JobsOK, PutJob
<1> QED
  BY <1>1 DEF JobsOK, PutJob, Follows

LEMMA PodStored ==
  ASSUME PodsOK, UNCHANGED crashes, NEW p \in GoodPods(crashes), PutPod(p)
  PROVE  PodsOK'
<1>1. /\ podWatch' \in Seq(GoodPods(crashes)) /\ podWatch' # << >>
      /\ podWatch'[Len(podWatch')] = p
  BY SeqFacts DEF PodsOK, PutPod
<1> QED
  BY <1>1 DEF PodsOK, PutPod, Follows

\* A pass that is over has nothing to answer for.
LEMMA PassOver ==
  ASSUME NEW c \in CrashCounts, NEW v, NEW p, p = Idle
  PROVE  PassInv(p, c, v)
  BY NoCopies DEF PassInv, Idle

\* The end of a pass by a write that is a step of the life cycle, or by none.
LEMMA WritesWell ==
  ASSUME NEW c \in CrashCounts, PassInv(pass, c, job),
         NEW v \in GoodJobs(c), Leads(pass.job, v), Writes(v)
  PROVE  PassInv(pass', c, job) /\ todo' = todo
<1>1. CASE v = pass.job
  BY <1>1, PassOver DEF Writes, Ends
<1>2. CASE v # pass.job
  BY <1>2 DEF Writes, GoesOn, PassInv, GoodPasses
<1> QED
  BY <1>1, <1>2

\* Somebody else writes the job: the pass no longer holds the stored version.
LEMMA OutdatedWell ==
  ASSUME NEW c, PassInv(pass, c, job), Outdates, NEW v
  PROVE  PassInv(pass', c, v) /\ todo' = todo
  BY DEF Outdates, PassInv, GoodPasses

\* The bounds are kept by whoever spends.
LEMMA SpentWell ==
  ASSUME spent \in [Mishaps -> Nat], \A m \in Mishaps : spent[m] <= Budget[m],
         NEW mishap \in Mishaps, Spend(mishap)
  PROVE  spent' \in [Mishaps -> Nat] /\ \A m \in Mishaps : spent'[m] <= Budget[m]
<1> USE ServingAssumption
<1>1. \A m \in Mishaps : Budget[m] \in Nat
  OBVIOUS
<1> QED
  BY <1>1 DEF Spend

\* Getting rid of a pod leaves a copy that has counted no more than before.
LEMMA DeletedWell ==
  ASSUME NEW c \in CrashCounts, NEW p \in GoodPods(c)
  PROVE  Deleted(p) \subseteq GoodPods(c)
<1>1. NoPod \in GoodPods(c)
  BY NoCopies
<1>2. [p EXCEPT !.ending = TRUE] \in GoodPods(c)
  BY DEF GoodPods, PodVersion
<1> QED
  BY <1>1, <1>2 DEF Deleted

-----------------------------------------------------------------------------
(* The steps of a pass *)

LEMMA InvInit == Init => Inv
<1> SUFFICES ASSUME Init PROVE Inv
  OBVIOUS
<1> USE ServingAssumption
<1>1. crashes \in CrashCounts
  BY DEF Init, CrashCounts
<1>2. NoJob \in GoodJobs(crashes) /\ NoPod \in GoodPods(crashes) /\ PassInv(Idle, crashes, job)
  BY <1>1, NoCopies, PassOver
<1>3. JobsOK
  BY <1>2, EmptySeq DEF Init, JobsOK, Follows
<1>4. PodsOK
  BY <1>2, EmptySeq DEF Init, PodsOK, Follows
<1>5. spent \in [Mishaps -> Nat] /\ \A m \in Mishaps : spent[m] <= Budget[m]
  BY DEF Init
<1> QED
  BY <1>1, <1>2, <1>3, <1>4, <1>5 DEF Init, Inv

LEMMA BeginKeeps == ASSUME Inv, Begin PROVE Inv'
<1> DEFINE c == crashes
<1>1. c \in CrashCounts /\ jobCache \in GoodJobs(c) /\ jobCache \in JobVersion
  BY DEF Inv, JobsOK, GoodJobs
<1>2. Reads
  BY DEF Begin
<1>3. jobWatch = << >> => jobCache = job
  BY DEF Inv, JobsOK, Follows
<1>4. \A pc \in {"finalize", "observe", "clear"} :
        /\ Begun(pc) \in GoodPasses(c)
        /\ Begun(pc).pc = pc /\ Begun(pc).job = jobCache
        /\ Begun(pc).current => jobCache = job
  BY <1>1, <1>3, NoCopies DEF Begun, GoodPasses
<1>5. ASSUME NEW v \in GoodJobs(c), Leads(jobCache, v), pass' = Wants(v)
      PROVE  PassInv(pass', c, job)
  <2>1. /\ Wants(v) \in GoodPasses(c) /\ Wants(v).pc = "write"
        /\ Wants(v).job = jobCache /\ Wants(v).next = v
        /\ Wants(v).current => jobCache = job
    BY <1>1, <1>3, NoCopies DEF Wants, Begun, GoodPasses
  <2> QED
    BY <1>5, <2>1 DEF PassInv
<1>6. CASE pass' = Idle
  <2>1. PassInv(pass', c, job)
    BY <1>1, <1>6, PassOver
  <2> QED
    BY <1>2, <2>1, JobsStay, PodsStay DEF Inv, Begin, Reads, Bystanders, jobVars
<1>7. ASSUME PassInv(pass', c, job) PROVE Inv'
  BY <1>2, <1>7, JobsStay, PodsStay DEF Inv, Begin, Reads, Bystanders, jobVars
<1>8. CASE jobCache.fin = "deleting" /\ pass' = Begun("finalize")
  <2>1. PassInv(pass', c, job)
    BY <1>4, <1>8 DEF PassInv
  <2> QED
    BY <1>7, <2>1
<1>9. CASE /\ jobCache.phase # "Absent" /\ jobCache.fin = "none"
           /\ pass' = Wants([jobCache EXCEPT !.fin = "set"])
  <2> DEFINE v == [jobCache EXCEPT !.fin = "set"]
  <2>1. jobCache.phase = "New"
    BY <1>1, <1>9 DEF JobVersion
  <2>2. v \in GoodJobs(c) /\ Leads(jobCache, v)
    BY <1>1, <1>9, <2>1 DEF GoodJobs, JobVersion, Leads
  <2> QED
    BY <1>5, <1>7, <1>9, <2>2
<1>10. CASE jobCache.fin = "set" /\ Switch
  <2>1. CASE jobCache.phase = "New" /\ pass' = Wants([jobCache EXCEPT !.phase = "Queued"])
    <3> DEFINE v == [jobCache EXCEPT !.phase = "Queued"]
    <3>1. v \in GoodJobs(c) /\ Leads(jobCache, v)
      BY <1>1, <1>10, <2>1 DEF GoodJobs, JobVersion, Leads, InferencePhases
    <3> QED
      BY <1>5, <1>7, <2>1, <3>1
  <2>2. CASE jobCache.phase = "Queued" /\ pass' = Wants([jobCache EXCEPT !.phase = "Starting"])
    <3> DEFINE v == [jobCache EXCEPT !.phase = "Starting"]
    <3>1. v \in GoodJobs(c) /\ Leads(jobCache, v)
      BY <1>1, <1>10, <2>2 DEF GoodJobs, JobVersion, Leads, InferencePhases
    <3> QED
      BY <1>5, <1>7, <2>2, <3>1
  <2>3. CASE jobCache.phase \in InferenceActive /\ pass' = Begun("observe")
    <3>1. PassInv(pass', c, job)
      BY <1>4, <1>10, <2>3 DEF PassInv
    <3> QED
      BY <1>7, <3>1
  <2>4. CASE jobCache.phase = "Failing" /\ pass' = Begun("clear")
    <3>1. PassInv(pass', c, job)
      BY <1>4, <1>10, <2>4 DEF PassInv
    <3> QED
      BY <1>7, <3>1
  <2> QED
    BY <1>6, <1>10, <2>1, <2>2, <2>3, <2>4 DEF Switch
<1> QED
  BY <1>6, <1>8, <1>9, <1>10 DEF Begin

\* A step of a pass that leaves the job alone keeps the invariant if it leaves
\* the pass in order, and the pods.
LEMMA PassKeeps ==
  ASSUME Inv, UNCHANGED jobVars, Bystanders, PodsOK',
         PassInv(pass', crashes, job), todo' \in BOOLEAN
  PROVE  Inv'
<1>1. JobsOK'
  BY JobsStay DEF Inv, Bystanders
<1> QED
  BY <1>1 DEF Inv, Bystanders, jobVars

LEMMA FinalizeKeeps == ASSUME Inv, Finalize PROVE Inv'
<1>1. /\ crashes \in CrashCounts /\ PassInv(pass, crashes, job)
      /\ At("finalize") /\ pass.job.fin = "deleting" /\ todo \in BOOLEAN
  BY DEF Inv, Finalize, PassInv, At
<1>2. UNCHANGED jobVars /\ Bystanders /\ PodsOK'
  BY PodsStay DEF Inv, Finalize, Reads, Bystanders
<1>3. CASE Writes(NoJob)
  <2>1. NoJob \in GoodJobs(crashes) /\ Leads(pass.job, NoJob)
    BY <1>1, NoCopies DEF Leads, NoJob
  <2> QED
    BY <1>1, <1>2, <1>3, <2>1, WritesWell, PassKeeps
<1>4. CASE Ends
  BY <1>1, <1>2, <1>4, PassOver, PassKeeps DEF Ends
<1>5. CASE GoesOn([pass EXCEPT !.pc = "deletePod"])
  <2>1. PassInv(pass', crashes, job)
    BY <1>1, <1>5 DEF GoesOn, PassInv, GoodPasses
  <2> QED
    BY <1>1, <1>2, <1>5, <2>1, PassKeeps DEF GoesOn
<1> QED
  BY <1>3, <1>4, <1>5 DEF Finalize

LEMMA ObserveKeeps == ASSUME Inv, Observe PROVE Inv'
<1> DEFINE w == Judged(pass.job, podCache)
<1>1. /\ crashes \in CrashCounts /\ PassInv(pass, crashes, job) /\ todo \in BOOLEAN
      /\ pass.job \in GoodJobs(crashes) /\ podCache \in GoodPods(crashes)
      /\ pass.job.fin = "set" /\ pass.job.phase \in InferenceActive
  BY DEF Inv, Observe, PassInv, GoodPasses, At, PodsOK
<1>2. UNCHANGED jobVars /\ Bystanders /\ PodsOK'
  BY PodsStay DEF Inv, Observe, Reads, Bystanders
<1>3. w \in GoodJobs(crashes) /\ Leads(pass.job, w)
  BY <1>1, JudgedWell
<1>4. CASE GoesOn([pass EXCEPT !.pc = "ensure", !.next = w])
  <2>1. PassInv(pass', crashes, job)
    BY <1>1, <1>3, <1>4 DEF GoesOn, PassInv, GoodPasses
  <2> QED
    BY <1>1, <1>2, <1>4, <2>1, PassKeeps DEF GoesOn
<1>5. CASE Writes(w)
  BY <1>1, <1>2, <1>3, <1>5, WritesWell, PassKeeps
<1> QED
  BY <1>4, <1>5 DEF Observe

LEMMA EnsurePodKeeps == ASSUME Inv, EnsurePod PROVE Inv'
<1>1. /\ crashes \in CrashCounts /\ PassInv(pass, crashes, job) /\ todo \in BOOLEAN
      /\ pass.job \in GoodJobs(crashes) /\ pass.next \in GoodJobs(crashes)
      /\ Leads(pass.job, pass.next)
  BY DEF Inv, EnsurePod, PassInv, GoodPasses, At
<1>2. UNCHANGED jobVars /\ Bystanders
  BY DEF EnsurePod
<1>3. PodsOK'
  <2>1. CASE UNCHANGED podVars
    BY <1>2, <2>1, PodsStay DEF Inv, Bystanders
  <2>2. CASE PutPod(NewPod(pass.job))
    <3>1. pass.job.life \in Lives
      BY <1>1 DEF GoodJobs, JobVersion
    <3>2. NewPod(pass.job) \in GoodPods(crashes)
      BY <1>1, <3>1 DEF NewPod, GoodPods, PodVersion, CrashCounts
    <3> QED
      BY <1>2, <2>2, <3>2, PodStored DEF Inv, Bystanders
  <2> QED
    BY <2>1, <2>2 DEF EnsurePod
<1>4. CASE Writes(pass.next)
  BY <1>1, <1>2, <1>3, <1>4, WritesWell, PassKeeps
<1>5. CASE Errs
  BY <1>1, <1>2, <1>3, <1>5, PassOver, PassKeeps DEF Errs
<1> QED
  BY <1>4, <1>5 DEF EnsurePod

LEMMA ClearKeeps == ASSUME Inv, Clear PROVE Inv'
<1> DEFINE w == [pass.job EXCEPT !.phase = "Failed"]
<1>1. /\ crashes \in CrashCounts /\ PassInv(pass, crashes, job) /\ todo \in BOOLEAN
      /\ pass.job \in GoodJobs(crashes)
      /\ pass.job.fin = "set" /\ pass.job.phase = "Failing"
  BY DEF Inv, Clear, PassInv, GoodPasses, At
<1>2. UNCHANGED jobVars /\ Bystanders /\ PodsOK'
  BY PodsStay DEF Inv, Clear, Reads, Bystanders
<1>3. w \in GoodJobs(crashes) /\ Leads(pass.job, w)
  BY <1>1 DEF GoodJobs, JobVersion, InferencePhases, Leads
<1>4. CASE Writes(w)
  BY <1>1, <1>2, <1>3, <1>4, WritesWell, PassKeeps
<1>5. CASE GoesOn([pass EXCEPT !.pc = "deletePod"])
  <2>1. PassInv(pass', crashes, job)
    BY <1>1, <1>5 DEF GoesOn, PassInv, GoodPasses
  <2> QED
    BY <1>1, <1>2, <1>5, <2>1, PassKeeps DEF GoesOn
<1> QED
  BY <1>4, <1>5 DEF Clear

LEMMA DeletePodKeeps == ASSUME Inv, DeletePod PROVE Inv'
<1>1. crashes \in CrashCounts /\ todo \in BOOLEAN /\ pod \in GoodPods(crashes)
  BY DEF Inv, PodsOK
<1>2. UNCHANGED jobVars /\ Bystanders
  BY DEF DeletePod
<1>3. PodsOK'
  <2>1. CASE UNCHANGED podVars
    BY <1>2, <2>1, PodsStay DEF Inv, Bystanders
  <2>2. CASE Delete
    BY <1>1, <1>2, <2>2, DeletedWell, PodStored DEF Delete, Inv, Bystanders
  <2> QED
    BY <2>1, <2>2 DEF DeletePod
<1>4. pass' = Idle /\ todo' \in BOOLEAN
  BY <1>1 DEF DeletePod, Errs, Ends
<1> QED
  BY <1>1, <1>2, <1>3, <1>4, PassOver, PassKeeps

LEMMA WriteJobKeeps == ASSUME Inv, WriteJob PROVE Inv'
<1>1. /\ crashes \in CrashCounts /\ todo \in BOOLEAN
      /\ pass.next \in GoodJobs(crashes)
  BY DEF Inv, PassInv, GoodPasses
<1>2. PodsOK' /\ UNCHANGED <<spent, crashes>>
  BY PodsStay DEF Inv, WriteJob, Bystanders
<1>3. JobsOK'
  <2>1. CASE PutJob(pass.next)
    BY <1>1, <1>2, <2>1, JobStored DEF Inv
  <2>2. CASE UNCHANGED jobVars
    BY <1>2, <2>2, JobsStay DEF Inv
  <2> QED
    BY <2>1, <2>2 DEF WriteJob
<1>4. pass' = Idle /\ todo' \in BOOLEAN
  BY <1>1 DEF WriteJob, Errs, Ends
<1>5. PassInv(pass', crashes', job')
  BY <1>1, <1>2, <1>4, PassOver
<1> QED
  BY <1>1, <1>2, <1>3, <1>4, <1>5 DEF Inv

-----------------------------------------------------------------------------
(* The steps of everybody else *)

LEMMA DeliverJobKeeps == ASSUME Inv, DeliverJob PROVE Inv'
<1>1. /\ Head(jobWatch) \in GoodJobs(crashes) /\ Tail(jobWatch) \in Seq(GoodJobs(crashes))
      /\ Follows(job, Head(jobWatch), Tail(jobWatch))
  BY HeadTailProperties, DeliveryFollows DEF Inv, JobsOK, DeliverJob
<1>2. JobsOK'
  BY <1>1 DEF Inv, JobsOK, DeliverJob, Bystanders
<1>3. PodsOK'
  BY PodsStay DEF Inv, DeliverJob, Bystanders
<1> QED
  BY <1>2, <1>3 DEF Inv, DeliverJob, Bystanders

LEMMA DeliverPodKeeps == ASSUME Inv, DeliverPod PROVE Inv'
<1>1. /\ Head(podWatch) \in GoodPods(crashes) /\ Tail(podWatch) \in Seq(GoodPods(crashes))
      /\ Follows(pod, Head(podWatch), Tail(podWatch))
  BY HeadTailProperties, DeliveryFollows DEF Inv, PodsOK, DeliverPod
<1>2. PodsOK'
  BY <1>1 DEF Inv, PodsOK, DeliverPod, Bystanders
<1>3. JobsOK'
  BY JobsStay DEF Inv, DeliverPod, Bystanders
<1> QED
  BY <1>2, <1>3 DEF Inv, DeliverPod, Bystanders, jobVars

LEMMA QueueEventKeeps == ASSUME Inv, QueueEvent PROVE Inv'
<1>1. JobsOK' /\ PodsOK'
  BY JobsStay, PodsStay DEF Inv, QueueEvent, Bystanders
<1> QED
  BY <1>1 DEF Inv, QueueEvent, Bystanders, jobVars

LEMMA CrashKeeps == ASSUME Inv, Crash PROVE Inv'
<1>1. JobsOK'
  BY EmptySeq DEF Inv, JobsOK, Crash, Follows
<1>2. PodsOK'
  BY EmptySeq DEF Inv, PodsOK, Crash, Follows
<1>3. PassInv(pass', crashes', job')
  BY PassOver DEF Inv, Crash
<1>4. spent' \in [Mishaps -> Nat] /\ \A m \in Mishaps : spent'[m] <= Budget[m]
  BY SpentWell DEF Inv, Crash, Mishaps
<1> QED
  BY <1>1, <1>2, <1>3, <1>4 DEF Inv, Crash

LEMMA ApiErrorKeeps == ASSUME Inv, ApiError PROVE Inv'
<1>1. JobsOK' /\ PodsOK'
  BY JobsStay, PodsStay DEF Inv, ApiError
<1>2. PassInv(pass', crashes', job')
  BY PassOver DEF Inv, ApiError, Errs
<1>3. spent' \in [Mishaps -> Nat] /\ \A m \in Mishaps : spent'[m] <= Budget[m]
  BY SpentWell DEF Inv, ApiError, Mishaps
<1> QED
  BY <1>1, <1>2, <1>3 DEF Inv, ApiError, Errs

LEMMA CreateJobKeeps == ASSUME Inv, CreateJob PROVE Inv'
<1> USE ServingAssumption
<1> DEFINE v == NewJob(spent["create"] + 1)
<1>1. spent["create"] + 1 \in Lives
  BY DEF Inv, CreateJob, Spend, Lives, Mishaps
<1>2. v \in GoodJobs(crashes)
  BY <1>1 DEF NewJob, GoodJobs, JobVersion, InferencePhases
<1>3. JobsOK'
  BY <1>2, JobStored DEF Inv, CreateJob
<1>4. PodsOK'
  BY PodsStay DEF Inv, CreateJob
<1>5. PassInv(pass', crashes', job') /\ todo' \in BOOLEAN
  BY OutdatedWell DEF Inv, CreateJob
<1>6. spent' \in [Mishaps -> Nat] /\ \A m \in Mishaps : spent'[m] <= Budget[m]
  BY SpentWell DEF Inv, CreateJob, Mishaps
<1> QED
  BY <1>3, <1>4, <1>5, <1>6 DEF Inv, CreateJob

LEMMA DeleteJobKeeps == ASSUME Inv, DeleteJob PROVE Inv'
<1> DEFINE v == IF job.fin = "set" THEN [job EXCEPT !.fin = "deleting"] ELSE NoJob
<1>1. crashes \in CrashCounts /\ job \in GoodJobs(crashes)
  BY DEF Inv, JobsOK
<1>2. v \in GoodJobs(crashes)
  BY <1>1, NoCopies DEF DeleteJob, GoodJobs, JobVersion
<1>3. JobsOK'
  BY <1>2, JobStored DEF Inv, DeleteJob
<1>4. PodsOK'
  BY PodsStay DEF Inv, DeleteJob
<1>5. PassInv(pass', crashes', job') /\ todo' \in BOOLEAN
  BY OutdatedWell DEF Inv, DeleteJob
<1>6. spent' \in [Mishaps -> Nat] /\ \A m \in Mishaps : spent'[m] <= Budget[m]
  BY SpentWell DEF Inv, DeleteJob, Mishaps
<1> QED
  BY <1>3, <1>4, <1>5, <1>6 DEF Inv, DeleteJob

\* A step of the world that stores a good version of the pod.
LEMMA WorldKeeps ==
  ASSUME Inv, World, UNCHANGED crashes, NEW p \in GoodPods(crashes), PutPod(p),
         spent' \in [Mishaps -> Nat], \A m \in Mishaps : spent'[m] <= Budget[m]
  PROVE  Inv'
<1>1. PodsOK'
  BY PodStored DEF Inv
<1>2. JobsOK'
  BY JobsStay DEF Inv, World
<1> QED
  BY <1>1, <1>2 DEF Inv, World, jobVars

LEMMA PodStepsKeep ==
  ASSUME Inv, PodStarts \/ PodReady \/ PodRestarts \/ PodEnds \/ CollectGarbage
  PROVE  Inv'
<1>1. /\ crashes \in CrashCounts /\ pod \in GoodPods(crashes)
      /\ spent \in [Mishaps -> Nat] /\ \A m \in Mishaps : spent[m] <= Budget[m]
  BY DEF Inv, PodsOK
<1>2. World /\ UNCHANGED crashes /\ spent' = spent
  BY DEF PodStarts, PodReady, PodRestarts, PodEnds, CollectGarbage, Bystanders
<1>3. CASE PodStarts
  <2>1. [pod EXCEPT !.state = "Unready"] \in GoodPods(crashes)
    BY <1>1 DEF GoodPods, PodVersion
  <2> QED
    BY <1>1, <1>2, <1>3, <2>1, WorldKeeps DEF PodStarts
<1>4. CASE PodReady
  <2>1. [pod EXCEPT !.state = "Ready"] \in GoodPods(crashes)
    BY <1>1 DEF GoodPods, PodVersion
  <2> QED
    BY <1>1, <1>2, <1>4, <2>1, WorldKeeps DEF PodReady
<1>5. CASE PodRestarts
  <2>1. /\ pod.restarts < crashes[pod.owner] /\ crashes[pod.owner] \in Nat
        /\ pod.restarts \in Nat /\ pod.owner \in Lives /\ pod.ending \in BOOLEAN
    BY <1>1, <1>5 DEF GoodPods, PodVersion, CrashCounts, PodRestarts
  <2>2. Restarted(pod) \in GoodPods(crashes)
    BY <2>1 DEF Restarted, GoodPods, PodVersion
  <2> QED
    BY <1>1, <1>2, <1>5, <2>2, WorldKeeps DEF PodRestarts
<1>6. CASE PodEnds
  BY <1>1, <1>2, <1>6, NoCopies, WorldKeeps DEF PodEnds
<1>7. CASE CollectGarbage
  BY <1>1, <1>2, <1>7, DeletedWell, WorldKeeps DEF CollectGarbage, Delete
<1> QED
  BY <1>3, <1>4, <1>5, <1>6, <1>7

LEMMA PodMishapsKeep ==
  ASSUME Inv, PodUnready \/ Evict
  PROVE  Inv'
<1>1. /\ crashes \in CrashCounts /\ pod \in GoodPods(crashes)
      /\ World /\ UNCHANGED crashes
  BY DEF Inv, PodsOK, PodUnready, Evict
<1>2. spent' \in [Mishaps -> Nat] /\ \A m \in Mishaps : spent'[m] <= Budget[m]
  BY SpentWell DEF Inv, PodUnready, Evict, Mishaps
<1>3. CASE PodUnready
  <2>1. [pod EXCEPT !.state = "Unready"] \in GoodPods(crashes)
    BY <1>1 DEF GoodPods, PodVersion
  <2> QED
    BY <1>1, <1>2, <1>3, <2>1, WorldKeeps DEF PodUnready
<1>4. CASE Evict
  BY <1>1, <1>2, <1>4, DeletedWell, WorldKeeps DEF Evict, Delete
<1> QED
  BY <1>3, <1>4

\* The one step that counts a crash: what was good before is good after.
LEMMA PodCrashesKeeps == ASSUME Inv, PodCrashes PROVE Inv'
<1> DEFINE c == crashes
           d == crashes'
           p == [pod EXCEPT !.state = "Crashed"]
<1>1. /\ c \in CrashCounts /\ pod \in GoodPods(c) /\ pod.owner \in Lives
      /\ pod.restarts \in Nat /\ c[pod.owner] \in Nat /\ pod.restarts <= c[pod.owner]
  BY DEF Inv, PodsOK, GoodPods, PodVersion, CrashCounts
<1>2. d \in CrashCounts /\ d[pod.owner] > pod.restarts /\ \A l \in Lives : c[l] <= d[l]
  BY <1>1 DEF PodCrashes, CrashCounts
<1>3. GoodJobs(c) \subseteq GoodJobs(d) /\ GoodPods(c) \subseteq GoodPods(d)
  BY <1>1, <1>2, CrashesGrow
<1>4. Seq(GoodJobs(c)) \subseteq Seq(GoodJobs(d)) /\ Seq(GoodPods(c)) \subseteq Seq(GoodPods(d))
  BY <1>3, SeqMonotonic
<1>5. p \in GoodPods(d)
  <2>1. p \in PodVersion /\ p.restarts = pod.restarts /\ p.owner = pod.owner
    BY <1>1 DEF GoodPods, PodVersion
  <2>2. d[pod.owner] \in Nat
    BY <1>1, <1>2 DEF CrashCounts
  <2>3. p.restarts < d[p.owner] /\ p.restarts <= d[p.owner]
    BY <1>1, <1>2, <2>1, <2>2
  <2> HIDE DEF p, d
  <2> QED
    BY <2>1, <2>3 DEF GoodPods
<1>6. JobsOK'
  BY <1>3, <1>4 DEF Inv, JobsOK, PodCrashes, World, jobVars
<1>7. PodsOK'
  <2>1. podWatch \in Seq(GoodPods(d)) /\ podCache \in GoodPods(d)
    BY <1>3, <1>4 DEF Inv, PodsOK
  <2> QED
    <3>1. /\ podWatch' \in Seq(GoodPods(d)) /\ podWatch' # << >>
          /\ podWatch'[Len(podWatch')] = p
      BY <1>5, <2>1, SeqFacts DEF PodCrashes, PutPod
    <3> QED
      BY <1>5, <2>1, <3>1 DEF PodsOK, PodCrashes, PutPod, Follows
<1>8. PassInv(pass', d, job')
  <2>1. pass \in GoodPasses(d)
    BY <1>3 DEF Inv, PassInv, GoodPasses
  <2> QED
    BY <2>1 DEF Inv, PassInv, PodCrashes, World, jobVars
<1>9. spent' \in [Mishaps -> Nat] /\ \A m \in Mishaps : spent'[m] <= Budget[m]
  BY SpentWell DEF Inv, PodCrashes, Mishaps
<1> QED
  BY <1>2, <1>6, <1>7, <1>8, <1>9 DEF Inv, PodCrashes, World

LEMMA InvStep == Inv /\ [Next]_vars => Inv'
<1> SUFFICES ASSUME Inv, [Next]_vars PROVE Inv'
  OBVIOUS
<1>1. CASE Reconcile
  BY <1>1, BeginKeeps, FinalizeKeeps, ObserveKeeps, EnsurePodKeeps, ClearKeeps,
     DeletePodKeeps, WriteJobKeeps DEF Reconcile
<1>2. CASE DeliverJob \/ DeliverPod \/ QueueEvent
  BY <1>2, DeliverJobKeeps, DeliverPodKeeps, QueueEventKeeps
<1>3. CASE Crash \/ ApiError
  BY <1>3, CrashKeeps, ApiErrorKeeps
<1>4. CASE Environment
  BY <1>4, CreateJobKeeps, DeleteJobKeeps, PodStepsKeep, PodMishapsKeep,
     PodCrashesKeeps DEF Environment
<1>5. CASE UNCHANGED vars
  <2>1. JobsOK' /\ PodsOK'
    BY <1>5, JobsStay, PodsStay DEF Inv, vars
  <2> QED
    BY <1>5, <2>1 DEF Inv, vars, jobVars
<1> QED
  BY <1>1, <1>2, <1>3, <1>4, <1>5 DEF Next

LEMMA Inductive == Spec => []Inv
  BY InvInit, InvStep, PTL DEF Spec

-----------------------------------------------------------------------------
(* What follows *)

\* The variables of InferenceServing have their types in every reachable state.
THEOREM TypeCorrect == Spec => []TypeOK
<1>1. Inv => TypeOK
  <2> SUFFICES ASSUME Inv PROVE TypeOK
    OBVIOUS
  <2>1. GoodJobs(crashes) \subseteq JobVersion /\ GoodPods(crashes) \subseteq PodVersion
    BY DEF GoodJobs, GoodPods
  <2>2. /\ Seq(GoodJobs(crashes)) \subseteq Seq(JobVersion)
        /\ Seq(GoodPods(crashes)) \subseteq Seq(PodVersion)
    BY <2>1, SeqMonotonic
  <2>3. pass \in Passes
    BY <2>1 DEF Inv, PassInv, GoodPasses, Passes
  <2> QED
    BY <2>1, <2>2, <2>3 DEF Inv, JobsOK, PodsOK, TypeOK, CrashCounts
<1> QED
  BY <1>1, Inductive, PTL

\* An InferenceJob that was given up always says how its container ended: the
\* status that makes it Failing and LastFailure come from one look at one pod.
THEOREM FailureIsExplained == Spec => []FailureIsKnown
<1>1. Inv => FailureIsKnown
  BY DEF Inv, JobsOK, GoodJobs, FailureIsKnown
<1> QED
  BY <1>1, Inductive, PTL

\* However passes, restarts in place, lost writes and replaced pods interleave,
\* no InferenceJob is given up before one pod of the name crashed more often
\* than MaxRestarts.
THEOREM NeverTooEarly == Spec => []NotGivenUpEarly
<1>1. Inv => NotGivenUpEarly
  BY DEF Inv, JobsOK, GoodJobs, WornOut, NotGivenUpEarly
<1> QED
  BY <1>1, Inductive, PTL

\* The only steps that change the stored job are its user's and the write of a
\* pass, and that write is a step of the life cycle of the stored version.
LEMMA WriteMoves ==
  ASSUME NEW v \in JobVersion, NEW w \in JobVersion, Leads(v, w)
  PROVE  \/ v.phase = w.phase /\ v.fin = w.fin
         \/ v.fin = "none" /\ v.phase = "New" /\ w.fin = "set" /\ w.phase = "New"
         \/ /\ v.fin = "set" /\ w.fin = "set" /\ w.phase # v.phase
            /\ \/ v.phase = "New" /\ w.phase = "Queued"
               \/ v.phase = "Queued" /\ w.phase = "Starting"
               \/ v.phase \in InferenceActive /\ w.phase \in InferencePassPhases(v.phase)
               \/ v.phase = "Failing" /\ w.phase = "Failed"
         \/ v.phase # "Absent" /\ v.fin # "set" /\ w.fin = "none" /\ w.phase = "Absent"
  BY DEF Leads, JobVersion

LEMMA StepRefines ==
  ASSUME Inv, [Next]_vars
  PROVE  [Lifecycle!Next]_<<job.phase, job.fin>>
<1>1. job \in JobVersion
  BY DEF Inv, JobsOK, GoodJobs
<1>2. CASE job' = job
  BY <1>2
<1>3. CASE WriteJob /\ pass.current
  <2>1. job' = pass.next /\ pass.job = job
    BY <1>3 DEF WriteJob, PutJob, Inv, PassInv
  <2>2. Leads(job, job') /\ job' \in JobVersion
    BY <1>3, <2>1 DEF WriteJob, At, Inv, PassInv, GoodPasses, GoodJobs
  <2> QED
    BY <1>1, <2>2, WriteMoves
       DEF Lifecycle!Next, Lifecycle!Guard, Lifecycle!Enqueue, Lifecycle!Admit,
           Lifecycle!Observe, Lifecycle!Clear, Lifecycle!Remove, Lifecycle!Moves,
           InferenceActive, InferencePassPhases,
           Lifecycle!InferenceActive, Lifecycle!InferencePassPhases
<1>4. CASE CreateJob
  <2>1. job.fin = "none" /\ job'.phase = "New" /\ job'.fin = "none"
    BY <1>1, <1>4 DEF CreateJob, PutJob, NewJob, JobVersion
  <2> QED
    BY <1>4, <2>1 DEF CreateJob, Lifecycle!Next, Lifecycle!Create
<1>5. CASE DeleteJob
  <2>1. CASE job.fin = "set"
    <3>1. job'.phase = job.phase /\ job'.fin = "deleting"
      BY <1>1, <1>5, <2>1 DEF DeleteJob, PutJob, JobVersion
    <3> QED
      BY <1>5, <2>1, <3>1 DEF DeleteJob, Lifecycle!Next, Lifecycle!Delete
  <2>2. CASE job.fin # "set"
    <3>1. job'.phase = "Absent" /\ job'.fin = "none"
      BY <1>5, <2>2 DEF DeleteJob, PutJob, NoJob
    <3> QED
      BY <1>5, <2>2, <3>1 DEF DeleteJob, Lifecycle!Next, Lifecycle!Remove
  <2> QED
    BY <2>1, <2>2
<1>6. job' = job \/ (WriteJob /\ pass.current) \/ CreateJob \/ DeleteJob
  <2>1. CASE Reconcile
    BY <2>1 DEF Reconcile, Begin, Finalize, Observe, EnsurePod, Clear, DeletePod,
                WriteJob, Reads, jobVars
  <2>2. CASE DeliverJob \/ DeliverPod \/ QueueEvent \/ Crash \/ ApiError
    BY <2>2 DEF DeliverJob, DeliverPod, QueueEvent, Crash, ApiError, jobVars
  <2>3. CASE Environment
    BY <2>3 DEF Environment, PodStarts, PodReady, PodUnready, PodCrashes, PodRestarts,
                PodEnds, Evict, CollectGarbage, World, jobVars
  <2>4. CASE UNCHANGED vars
    BY <2>4 DEF vars, jobVars
  <2> QED
    BY <2>1, <2>2, <2>3, <2>4 DEF Next
<1> QED
  BY <1>2, <1>3, <1>4, <1>5, <1>6

\* The phase and the finalizer of an InferenceJob follow InferenceLifecycle for
\* every MaxRestarts: stale caches, lost writes, restarts of the manager and
\* names used again show nowhere in them.
THEOREM LifecycleRefined == Spec => Refines
<1>1. Init => Lifecycle!Init
  BY DEF Init, NoJob, Lifecycle!Init
<1>2. Inv /\ [Next]_vars => [Lifecycle!Next]_<<job.phase, job.fin>>
  BY StepRefines
<1> QED
  BY <1>1, <1>2, Inductive, PTL DEF Spec, Refines, Lifecycle!Spec, Lifecycle!lifecycle
==========================================================================
