-------------------------- MODULE ServingSettled --------------------------
(***************************************************************************)
(* That InferenceServing settles on the truth: SettledServing for every    *)
(* MaxRestarts and every bound.                                            *)
(*                                                                         *)
(* A step that leaves the key out of the work queue leaves the caches as   *)
(* they were (Still).  So what a pass saw of job and pod is what the       *)
(* caches show when it is over; and when nothing is on its way, that is    *)
(* what is stored.                                                         *)
(***************************************************************************)
EXTENDS InferenceProofs

Still ==
  /\ jobCache' = jobCache /\ podCache' = podCache
  /\ jobWatch # << >> => jobWatch' # << >>
  /\ podWatch # << >> => podWatch' # << >>

LEMMA AppendNotEmpty ==
  ASSUME NEW S, NEW s \in Seq(S), NEW v
  PROVE  Append(s, v) # << >>
<1>1. s \in Seq(S \cup {v})
  BY SeqMonotonic
<1> QED
  BY <1>1, AppendProperties, EmptySeq

\* Job and pod: written, left alone, delivered, or listed again.
LEMMA JobMoves ==
  ASSUME [Next]_vars, ~todo'
  PROVE  UNCHANGED jobVars \/ \E v : PutJob(v)
<1>1. CASE Reconcile
  BY <1>1 DEF Reconcile, Begin, Finalize, Observe, EnsurePod, Clear, DeletePod, WriteJob,
              Reads
<1>2. CASE Environment
  BY <1>2 DEF Environment, CreateJob, DeleteJob, PodStarts, PodReady, PodUnready,
              PodCrashes, PodRestarts, PodEnds, Evict, CollectGarbage, Delete, World
<1> QED
  BY <1>1, <1>2
  DEF Next, vars, DeliverJob, DeliverPod, QueueEvent, Crash, ApiError, Errs

LEMMA PodMoves ==
  ASSUME [Next]_vars, ~todo'
  PROVE  UNCHANGED podVars \/ \E p : PutPod(p)
<1>1. CASE Reconcile
  BY <1>1 DEF Reconcile, Begin, Finalize, Observe, EnsurePod, Clear, DeletePod, WriteJob,
              Reads, Delete
<1>2. CASE Environment
  BY <1>2 DEF Environment, CreateJob, DeleteJob, PodStarts, PodReady, PodUnready,
              PodCrashes, PodRestarts, PodEnds, Evict, CollectGarbage, Delete
<1> QED
  BY <1>1, <1>2
  DEF Next, vars, DeliverJob, DeliverPod, QueueEvent, Crash, ApiError, Errs

LEMMA Stills ==
  ASSUME Inv, [Next]_vars, ~todo'
  PROVE  Still
<1>1. /\ jobCache' = jobCache
      /\ jobWatch # << >> => jobWatch' # << >>
  <2>1. \A v : PutJob(v) => jobWatch' # << >>
    BY AppendNotEmpty DEF PutJob, Inv, JobsOK
  <2> QED
    BY <2>1, JobMoves DEF PutJob, jobVars
<1>2. /\ podCache' = podCache
      /\ podWatch # << >> => podWatch' # << >>
  <2>1. \A p : PutPod(p) => podWatch' # << >>
    BY AppendNotEmpty DEF PutPod, Inv, PodsOK
  <2> QED
    BY <2>1, PodMoves DEF PutPod, podVars
<1> QED
  BY <1>1, <1>2 DEF Still

-----------------------------------------------------------------------------
(* The steps *)

\* What is not a step of the pass leaves the pass where it is.
Outside ==
  \/ DeliverJob \/ DeliverPod \/ QueueEvent \/ Crash \/ ApiError
  \/ Environment \/ UNCHANGED vars

LEMMA OutsidePass ==
  ASSUME Inv, Outside, ~todo'
  PROVE  ~todo /\ pass'.pc = pass.pc /\ pass'.job = pass.job
<1>1. pass' = pass \/ pass' = [pass EXCEPT !.current = FALSE]
  BY DEF Outside, DeliverJob, DeliverPod, QueueEvent, Crash, ApiError, Errs, vars,
         Environment, CreateJob, DeleteJob, Outdates, PodStarts, PodReady, PodUnready,
         PodCrashes, PodRestarts, PodEnds, Evict, CollectGarbage, Delete, World
<1>2. ~todo
  BY DEF Outside, DeliverJob, DeliverPod, QueueEvent, Crash, ApiError, Errs, vars,
         Environment, CreateJob, DeleteJob, Outdates, PodStarts, PodReady, PodUnready,
         PodCrashes, PodRestarts, PodEnds, Evict, CollectGarbage, Delete, World
<1> QED
  BY <1>1, <1>2 DEF Inv, PassInv, GoodPasses

LEMMA CalmOutside ==
  ASSUME Inv, CalmInv, Outside, [Next]_vars
  PROVE  CalmInv'
<1> SUFFICES ASSUME ~todo' PROVE CalmInv'
  BY DEF CalmInv
<1> QED
  BY OutsidePass, Stills DEF CalmInv, Still, At

LEMMA CalmBegin ==
  ASSUME Inv, Begin
  PROVE  CalmInv'
<1>1. jobCache' = jobCache /\ podCache' = podCache /\ jobCache \in JobVersion
  BY DEF Begin, Reads, jobVars, podVars, Inv, JobsOK, GoodJobs
<1>2. /\ \A pc : Begun(pc).pc = pc /\ Begun(pc).job = jobCache
      /\ \A v : Wants(v).pc = "write" /\ Wants(v).job = jobCache
  BY DEF Begun, Wants
<1>3. CASE pass' # Idle
  <2>1. \/ \E pc \in {"finalize", "observe", "clear"} : pass' = Begun(pc)
        \/ \E v : pass' = Wants(v)
    BY <1>3 DEF Begin, Switch
  <2>2. pass'.pc \in {"finalize", "observe", "clear", "write"} /\ pass'.job = jobCache
    BY <1>2, <2>1
  <2> QED
    BY <1>1, <2>2 DEF CalmInv, At
<1>4. CASE pass' = Idle
  <2>1. pass' # Begun("finalize") /\ \A v : pass' # Wants(v)
    BY <1>2, <1>4 DEF Idle
  <2>2. pass' # Begun("observe") /\ pass' # Begun("clear")
    BY <1>2, <1>4 DEF Idle
  <2>3. \/ jobCache.phase = "Absent"
        \/ jobCache.fin = "set" /\ jobCache.phase \in {"Queued", "Failed"}
    BY <2>1, <2>2 DEF Begin, Switch
  <2>4. SettledBy(jobCache, podCache)
    BY <1>1, <2>3 DEF SettledBy, InferenceActive, JobVersion
  <2> QED
    BY <1>1, <1>4, <2>4 DEF CalmInv, Idle, At
<1> QED
  BY <1>3, <1>4

\* A call that goes on, or ends over settled copies, keeps calm.
LEMMA CalmGoesOn ==
  ASSUME Inv, CalmInv, Still, ~At("idle"), ~todo => pass'.job = pass.job,
         ~todo' => ~todo /\ pass'.pc \notin {"idle", "ensure"}
  PROVE  CalmInv'
  BY DEF CalmInv, Still, At

LEMMA CalmEnds ==
  ASSUME Still, pass' = Idle,
         \/ todo' \/ jobWatch' # << >> \/ podWatch' # << >>
         \/ SettledBy(jobCache, podCache)
  PROVE  CalmInv'
  BY DEF CalmInv, Still, Idle, At

\* A pass that has something else to write than what it has read goes on.
LEMMA CalmWrites ==
  ASSUME Inv, CalmInv, Still, ~At("idle"), NEW v, Writes(v),
         ~todo /\ v = pass.job => podWatch' # << >> \/ SettledBy(jobCache, podCache)
  PROVE  CalmInv'
<1>1. CASE v = pass.job
  BY <1>1, CalmEnds DEF Writes, Ends
<1>2. CASE v # pass.job
  <2>1. pass' = [pass EXCEPT !.pc = "write", !.next = v] /\ todo' = todo
    BY <1>2 DEF Writes, GoesOn
  <2>2. pass'.pc = "write" /\ pass'.job = pass.job
    BY <2>1 DEF Inv, PassInv, GoodPasses
  <2> QED
    BY <2>1, <2>2, CalmGoesOn
<1> QED
  BY <1>1, <1>2

LEMMA CalmFinalize ==
  ASSUME Inv, CalmInv, Finalize, Still
  PROVE  CalmInv'
<1>1. ~At("idle") /\ pass.job.fin = "deleting" /\ (~todo => pass.job = jobCache)
  BY DEF Finalize, At, Inv, PassInv, CalmInv
<1>2. CASE Writes(NoJob)
  BY <1>1, <1>2, CalmWrites DEF NoJob
<1>3. CASE podCache.ending /\ Ends
  <2>1. ~todo => SettledBy(jobCache, podCache)
    BY <1>1, <1>3 DEF SettledBy
  <2> QED
    BY <1>3, <2>1, CalmEnds DEF Ends
<1>4. CASE GoesOn([pass EXCEPT !.pc = "deletePod"])
  <2>1. pass'.pc = "deletePod" /\ pass'.job = pass.job /\ todo' = todo
    BY <1>4 DEF GoesOn, Inv, PassInv, GoodPasses
  <2> QED
    BY <1>1, <2>1, CalmGoesOn
<1> QED
  BY <1>2, <1>3, <1>4 DEF Finalize

\* A look at the pod that leaves the status as it is.
LEMMA JudgedSettled ==
  ASSUME NEW v \in JobVersion, v.fin = "set", v.phase \in InferenceActive,
         NEW p \in PodVersion, p.state # "Absent", Judged(v, p) = v
  PROVE  SettledBy(v, p)
<1>1. NextPhase(v.phase, p) = v.phase
  BY DEF Judged, JobVersion
<1>2. v.phase # "Failing"
  BY DEF InferenceActive
<1>3. /\ ~(p.restarts > MaxRestarts)
      /\ ~(PodStatus(p) = "Crash" /\ p.restarts >= MaxRestarts)
      /\ LivePhase(v.phase, PodStatus(p)) = v.phase
  BY <1>1, <1>2 DEF NextPhase
<1>4. p.restarts <= MaxRestarts
  BY <1>3, ServingAssumption DEF PodVersion
<1>5. p.ending => v.phase # "Running"
  BY <1>3 DEF LivePhase, PodStatus
<1>6. ~p.ending /\ p.state = "Crashed" => p.restarts < MaxRestarts /\ v.phase = "Restarting"
  BY <1>3, ServingAssumption DEF LivePhase, PodStatus, PodVersion
<1>7. ~p.ending /\ p.state = "Ready" => v.phase = "Running"
  BY <1>3 DEF LivePhase, PodStatus
<1> QED
  BY <1>2, <1>4, <1>5, <1>6, <1>7 DEF SettledBy

LEMMA CalmObserve ==
  ASSUME Inv, CalmInv, Observe, Still
  PROVE  CalmInv'
<1>1. /\ ~At("idle") /\ pass.job.fin = "set" /\ pass.job.phase \in InferenceActive
      /\ pass \in GoodPasses(crashes) /\ pass.job \in JobVersion /\ podCache \in PodVersion
      /\ ~todo => pass.job = jobCache
  BY DEF Observe, At, Inv, PassInv, PodsOK, GoodPasses, GoodJobs, GoodPods, CalmInv
<1>2. CASE podCache.state = "Absent"
  <2>1. /\ pass' = [pass EXCEPT !.pc = "ensure", !.next = Judged(pass.job, podCache)]
        /\ todo' = todo
    BY <1>2 DEF Observe, GoesOn
  <2>2. pass'.pc = "ensure" /\ pass'.job = pass.job
    BY <1>1, <2>1 DEF GoodPasses
  <2> QED
    BY <1>1, <1>2, <2>1, <2>2 DEF CalmInv, Still, At
<1>3. CASE podCache.state # "Absent"
  <2>1. Writes(Judged(pass.job, podCache))
    BY <1>3 DEF Observe
  <2>2. ~todo /\ Judged(pass.job, podCache) = pass.job => SettledBy(jobCache, podCache)
    BY <1>1, <1>3, JudgedSettled
  <2> QED
    BY <1>1, <2>1, <2>2, CalmWrites
<1> QED
  BY <1>2, <1>3

LEMMA CalmEnsure ==
  ASSUME Inv, CalmInv, EnsurePod, Still
  PROVE  CalmInv'
<1>1. ~At("idle") /\ (~todo => podCache.state = "Absent")
  BY DEF EnsurePod, At, CalmInv
<1>2. CASE podCache.state # "Absent" /\ Writes(pass.next)
  <2>1. todo
    BY <1>1, <1>2
  <2> QED
    BY <1>1, <1>2, <2>1, CalmWrites
<1>3. CASE Errs
  BY <1>3, CalmEnds DEF Errs
<1>4. CASE PutPod(NewPod(pass.job)) /\ Writes(pass.next)
  <2>1. podWatch' # << >>
    BY <1>4, AppendNotEmpty DEF PutPod, Inv, PodsOK
  <2> QED
    BY <1>1, <1>4, <2>1, CalmWrites
<1> QED
  BY <1>2, <1>3, <1>4 DEF EnsurePod

LEMMA CalmClear ==
  ASSUME Inv, CalmInv, Clear, Still
  PROVE  CalmInv'
<1>1. /\ ~At("idle") /\ pass.job.phase = "Failing" /\ pass \in GoodPasses(crashes)
      /\ pass.job \in JobVersion
  BY DEF Clear, At, Inv, PassInv, GoodPasses, GoodJobs
<1>2. CASE Writes([pass.job EXCEPT !.phase = "Failed"])
  <2>1. [pass.job EXCEPT !.phase = "Failed"] # pass.job
    BY <1>1 DEF JobVersion
  <2> QED
    BY <1>1, <1>2, <2>1, CalmWrites
<1>3. CASE GoesOn([pass EXCEPT !.pc = "deletePod"])
  <2>1. pass'.pc = "deletePod" /\ pass'.job = pass.job /\ todo' = todo
    BY <1>1, <1>3 DEF GoesOn, GoodPasses
  <2> QED
    BY <1>1, <2>1, CalmGoesOn
<1> QED
  BY <1>2, <1>3 DEF Clear

\* The pod is going already: the cache shows it, or will.
LEMMA CalmDelete ==
  ASSUME Inv, CalmInv, DeletePod, Still
  PROVE  CalmInv'
<1>1. /\ pass.job.fin = "deleting" \/ pass.job.phase = "Failing"
      /\ ~todo => pass.job = jobCache
      /\ podWatch = << >> => podCache = pod
  BY DEF DeletePod, At, Inv, PassInv, PodsOK, Follows, CalmInv
<1>2. CASE Errs
  BY <1>2, CalmEnds DEF Errs
<1>3. CASE pod.ending /\ UNCHANGED podVars /\ Ends
  <2>1. ~todo /\ podWatch = << >> => SettledBy(jobCache, podCache)
    BY <1>1, <1>3 DEF SettledBy, InferenceActive
  <2> QED
    BY <1>3, <2>1, CalmEnds DEF Ends, podVars
<1>4. CASE Delete /\ Ends
  <2>1. podWatch' # << >>
    BY <1>4, AppendNotEmpty DEF Delete, PutPod, Inv, PodsOK
  <2> QED
    BY <1>4, <2>1, CalmEnds DEF Ends
<1> QED
  BY <1>2, <1>3, <1>4 DEF DeletePod

LEMMA CalmWrite ==
  ASSUME Inv, WriteJob, Still
  PROVE  CalmInv'
<1>1. CASE Errs
  BY <1>1, CalmEnds DEF Errs
<1>2. CASE PutJob(pass.next) /\ Ends
  <2>1. jobWatch' # << >>
    BY <1>2, AppendNotEmpty DEF PutJob, Inv, JobsOK
  <2> QED
    BY <1>2, <2>1, CalmEnds DEF Ends
<1> QED
  BY <1>1, <1>2 DEF WriteJob

LEMMA CalmStep == Inv /\ CalmInv /\ [Next]_vars => CalmInv'
<1> SUFFICES ASSUME Inv, CalmInv, [Next]_vars, ~todo' PROVE CalmInv'
  BY DEF CalmInv
<1>1. Still
  BY Stills
<1>2. CASE Reconcile
  BY <1>1, <1>2, CalmBegin, CalmFinalize, CalmObserve, CalmEnsure, CalmClear, CalmDelete,
     CalmWrite DEF Reconcile
<1>3. CASE Outside
  BY <1>3, CalmOutside
<1> QED
  BY <1>2, <1>3 DEF Next, Outside

-----------------------------------------------------------------------------
(* What follows *)

\* The inductive invariant of InferenceServing holds in every state.
THEOREM InvariantHolds == Spec => []ServingInv
<1>1. Init => CalmInv
  BY DEF Init, CalmInv, Idle, At, SettledBy, NoJob, InferenceActive
<1>2. Inv /\ CalmInv => ServingInv
  BY DEF ServingInv
<1> QED
  BY <1>1, <1>2, InvInit, InvStep, CalmStep, PTL DEF Spec

\* When everything is delivered and served, phase and pod agree, for every
\* MaxRestarts: no restart in place is overlooked, however quick, and what must
\* go is going.
THEOREM ServingSettles == Spec => []SettledServing
<1>1. ASSUME ServingInv, Quiescent PROVE SettledBy(job, pod)
  BY <1>1 DEF ServingInv, Inv, JobsOK, PodsOK, Follows, CalmInv, Quiescent
<1>2. ServingInv => SettledServing
  BY <1>1 DEF SettledServing, SettledBy
<1> QED
  BY <1>2, InvariantHolds, PTL

===========================================================================
