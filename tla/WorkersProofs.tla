-------------------------- MODULE WorkersProofs --------------------------
(***************************************************************************)
(* Proofs about TrainWorkers.                                              *)
(***************************************************************************)
EXTENDS WorkersInvariant, SequenceTheorems, FiniteSetTheorems, TLAPS

-----------------------------------------------------------------------------
(* Objects and versions *)

\* The objects are different ones, of five kinds.
LEMMA Kinds ==
  /\ TheJob \in Objects /\ Service \in Objects /\ Rival \in Objects
  /\ Versions(TheJob) = JobVersion /\ Versions(Service) = ServiceVersion
  /\ Versions(Rival) = RivalVersion
  /\ TheJob # Service /\ TheJob # Rival /\ Service # Rival
  /\ \A g \in Groups : /\ g \in Objects /\ Versions(g) = GroupVersion
                       /\ g \notin {TheJob, Service, Rival} \cup Pods
  /\ \A p \in Pods : /\ p \in Objects /\ Versions(p) = PodVersion
                     /\ p \notin {TheJob, Service, Rival} \cup Groups
<1>1. TheJob # Service /\ TheJob # Rival /\ Service # Rival
  BY DEF TheJob, Service, Rival
<1>2. \A g \in Groups : g \notin {TheJob, Service, Rival} \cup Pods
  BY DEF Groups, Group, Pods, Workers, Pod, TheJob, Service, Rival
<1>3. \A p \in Pods : p \notin {TheJob, Service, Rival} \cup Groups
  BY DEF Groups, Group, Pods, Workers, Pod, TheJob, Service, Rival
<1> QED
  BY <1>1, <1>2, <1>3 DEF Objects, Versions

LEMMA Names ==
  /\ \A a \in Attempts : Group(a) \in Groups
  /\ \A a \in Attempts, r \in Ranks : Pod(a, r) \in Workers(a) /\ Pod(a, r) \in Pods
  /\ \A a, b : Group(a) = Group(b) => a = b
  /\ \A a, b, r, s : Pod(a, r) = Pod(b, s) => a = b /\ r = s
  /\ \A a \in Attempts : Workers(a) \subseteq Pods
  BY DEF Groups, Group, Pods, Workers, Pod

LEMMA Numbers ==
  /\ Attempts \subseteq Nat /\ Ranks \subseteq Nat
  /\ \A v \in JobVersion : v.attempt \in Nat /\ v.attempt <= RetryLimit
  /\ \A v \in ServiceVersion : v.attempt \in Int
  BY WorkersAssumption DEF Attempts, Ranks, JobVersion, ServiceVersion

LEMMA Blanks ==
  /\ QueuedJob \in JobVersion /\ NoService \in ServiceVersion
  /\ NoGroup \in GroupVersion /\ NewGroup \in GroupVersion
  /\ NoPod \in PodVersion /\ Idle \in Passes
<1>1. QueuedJob \in JobVersion
  BY WorkersAssumption DEF QueuedJob, JobVersion, TrainPhases, Attempts
<1>2. NoService \in ServiceVersion /\ NoPod \in PodVersion
  BY DEF NoService, ServiceVersion, NoPod, PodVersion
<1>3. NoGroup \in GroupVersion /\ NewGroup \in GroupVersion
  BY DEF NoGroup, NewGroup, GroupVersion
<1>4. 0 \in 0 .. WorldSize
  BY WorkersAssumption
<1>5. Idle \in Passes
  BY <1>1, <1>4 DEF Idle, Passes
<1> QED
  BY <1>1, <1>2, <1>3, <1>5

\* What storing a version of one object leaves of all.
LEMMA Stored ==
  ASSUME ObjectsOK, NEW o \in Objects, NEW v \in Versions(o), Put(o, v)
  PROVE  /\ ObjectsOK'
         /\ store'[o] = v /\ cache' = cache /\ watch'[o] = Append(watch[o], v)
         /\ \A x \in Objects : x # o => store'[x] = store[x] /\ watch'[x] = watch[x]
<1>1. /\ store'[o] = v /\ cache' = cache /\ watch'[o] = Append(watch[o], v)
      /\ \A x \in Objects : x # o => store'[x] = store[x] /\ watch'[x] = watch[x]
      /\ DOMAIN store' = Objects /\ DOMAIN watch' = Objects
  BY DEF ObjectsOK, Put
<1>2. Append(watch[o], v) \in Seq(Versions(o))
  BY AppendProperties DEF ObjectsOK
<1>3. \A x \in Objects : /\ store'[x] \in Versions(x) /\ cache'[x] \in Versions(x)
                         /\ watch'[x] \in Seq(Versions(x))
  BY <1>1, <1>2 DEF ObjectsOK
<1> QED
  BY <1>1, <1>3 DEF ObjectsOK

LEMMA Delivered ==
  ASSUME ObjectsOK, NEW o \in Objects, Deliver(o)
  PROVE  /\ ObjectsOK'
         /\ store' = store /\ cache'[o] = Head(watch[o]) /\ watch'[o] = Tail(watch[o])
         /\ \A x \in Objects : x # o => cache'[x] = cache[x] /\ watch'[x] = watch[x]
<1>1. /\ store' = store /\ cache'[o] = Head(watch[o]) /\ watch'[o] = Tail(watch[o])
      /\ \A x \in Objects : x # o => cache'[x] = cache[x] /\ watch'[x] = watch[x]
      /\ DOMAIN cache' = Objects /\ DOMAIN watch' = Objects
  BY DEF ObjectsOK, Deliver
<1>2. Head(watch[o]) \in Versions(o) /\ Tail(watch[o]) \in Seq(Versions(o))
  BY HeadTailProperties DEF ObjectsOK, Deliver
<1>3. \A x \in Objects : /\ store'[x] \in Versions(x) /\ cache'[x] \in Versions(x)
                         /\ watch'[x] \in Seq(Versions(x))
  BY <1>1, <1>2 DEF ObjectsOK
<1> QED
  BY <1>1, <1>3 DEF ObjectsOK

-----------------------------------------------------------------------------
(* Passes *)

\* The part of the invariant that is about the pass alone.
PassOK == pass \in Passes /\ PlaceInv

LEMMA IdlePass == ASSUME pass' = Idle PROVE PassOK'
  BY Blanks DEF PassOK, PlaceInv, Idle, At

\* A pass that goes on from p, with the copy it has.
LEMMA PassGoesOn ==
  ASSUME pass \in Passes, pass' \in Passes,
         pass'.job = pass.job,
         pass'.pc \in {"service", "group", "pods", "list"} => pass.job.phase \in TrainActive,
         pass'.pc \in {"release", "dropGroup"} => pass.job.phase = "Preempted",
         pass'.pc = "dropGroup" => pass.job.rc < MaxRequeues,
         pass'.pc \in {"sweep", "delete", "write"} => Leads(pass.job, pass'.next)
  PROVE  PassOK'
  BY DEF PassOK, PlaceInv, At

LEMMA Judgements == \A a : nextPhase(a) \in {"Succeeded", "Starting", "Running"}
  BY DEF nextPhase

\* Only the beginning of a pass takes a new copy of the job.
Carries == pass' = Idle \/ (pass'.job = pass.job /\ pass'.current = pass.current)

\* A pass that has decided what to write, now or after deleting pods.
LEMMA DecidedPass ==
  ASSUME pass \in Passes,
         NEW phase \in TrainPhases, NEW a \in Attempts, NEW rc \in 0 .. MaxRequeues,
         \/ pass' = Writes(phase, a, rc)
         \/ pass' = [Writes(phase, a, rc) EXCEPT !.pc = "sweep"],
         Leads(pass.job, [phase |-> phase, attempt |-> a, rc |-> rc])
  PROVE  PassOK' /\ Carries
<1> DEFINE next == [phase |-> phase, attempt |-> a, rc |-> rc]
<1>1. next \in JobVersion
  BY DEF JobVersion
<1>2. /\ pass' \in Passes /\ pass'.pc \in {"write", "sweep"} /\ pass'.next = next
      /\ pass'.job = pass.job /\ pass'.current = pass.current
  BY <1>1 DEF Writes, Passes
<1>3. Leads(pass.job, pass'.next)
  BY <1>2
<1> HIDE DEF next
<1> QED
  BY <1>2, <1>3, PassGoesOn DEF Carries

LEMMA BeginPass ==
  ASSUME TypeOK, Begin
  PROVE  /\ PassOK'
         /\ pass' # Idle =>
              pass'.job = cache[TheJob] /\ pass'.current = UpToDate(TheJob)
         /\ pass'.pc \in {"idle", "service", "release", "write"}
<1> DEFINE job == cache[TheJob]
           begun(pc) == [Idle EXCEPT !.pc = pc, !.job = job, !.current = UpToDate(TheJob)]
           starting == [job EXCEPT !.phase = "Starting"]
<1>1. job \in JobVersion
  BY Kinds DEF TypeOK, ObjectsOK
<1>2. ASSUME NEW pc \in {"service", "release", "write"}
      PROVE  /\ begun(pc) \in Passes /\ begun(pc).pc = pc /\ begun(pc).job = job
             /\ begun(pc).current = UpToDate(TheJob)
  <2>1. UpToDate(TheJob) \in BOOLEAN
    BY DEF UpToDate
  <2> QED
    BY <1>1, <1>2, <2>1, Blanks DEF Idle, Passes
<1>3. starting \in JobVersion /\ starting.phase = "Starting"
      /\ starting.attempt = job.attempt /\ starting.rc = job.rc
  BY <1>1 DEF JobVersion, TrainPhases
<1>4. \/ pass' = Idle
      \/ job.phase = "Queued" /\ pass' = [begun("write") EXCEPT !.next = starting]
      \/ job.phase \in TrainActive /\ pass' = begun("service")
      \/ job.phase = "Preempted" /\ pass' = begun("release")
  BY DEF Begin
<1> HIDE DEF job, starting
<1>5. CASE pass' = Idle
  BY <1>5, IdlePass DEF Idle
<1>6. CASE job.phase = "Queued" /\ pass' = [begun("write") EXCEPT !.next = starting]
  <2>1. /\ pass' \in Passes /\ pass'.pc = "write" /\ pass'.job = job
        /\ pass'.current = UpToDate(TheJob) /\ pass'.next = starting
    BY <1>2, <1>3, <1>6 DEF Passes
  <2>2. PassOK'
    BY <2>1, <1>3, <1>6 DEF PassOK, PlaceInv, At, Leads
  <2> QED
    BY <2>1, <2>2 DEF job
<1>7. CASE job.phase \in TrainActive /\ pass' = begun("service")
  BY <1>2, <1>7 DEF PassOK, PlaceInv, At, job
<1>8. CASE job.phase = "Preempted" /\ pass' = begun("release")
  BY <1>2, <1>8 DEF PassOK, PlaceInv, At, job
<1> QED
  BY <1>4, <1>5, <1>6, <1>7, <1>8

LEMMA EnsuringPass ==
  ASSUME TypeOK, PlaceInv,
         \/ CreateService \/ KeepService \/ TurnService
         \/ CreateGroup \/ ClearPlan \/ KeepGroup \/ EnsurePod \/ AllEnsured
  PROVE  PassOK' /\ Carries
<1>1. pass \in Passes
  BY DEF TypeOK
<1>2. CASE pass' = Idle
  BY <1>2, IdlePass DEF Carries
<1>3. CASE \E pc \in {"group", "pods", "list"} : pass' = [pass EXCEPT !.pc = pc]
  <2>1. PICK pc \in {"group", "pods", "list"} : pass' = [pass EXCEPT !.pc = pc]
    BY <1>3
  <2>2. pass' \in Passes /\ pass'.pc = pc /\ pass'.job = pass.job /\ pass'.current = pass.current
    BY <1>1, <2>1 DEF Passes
  <2>3. pass.pc \in {"service", "group", "pods"}
    BY <1>3, <1>1
    DEF CreateService, KeepService, TurnService, CreateGroup, ClearPlan, KeepGroup,
        EnsurePod, AllEnsured, FindsGroup, At
  <2>4. pass.job.phase \in TrainActive
    BY <2>3 DEF PlaceInv
  <2> QED
    BY <1>1, <2>2, <2>4, PassGoesOn DEF Carries
<1>4. CASE At("pods") /\ pass.rank < WorldSize /\ pass' = PastRank
  <2>1. pass' \in Passes /\ pass'.pc = "pods" /\ pass'.job = pass.job /\ pass'.current = pass.current
    BY <1>1, <1>4, WorkersAssumption DEF Passes, PastRank, At
  <2> QED
    BY <1>1, <1>4, <2>1, PassGoesOn DEF PlaceInv, At, Carries
<1>5. \/ pass' = Idle
      \/ \E pc \in {"group", "pods", "list"} : pass' = [pass EXCEPT !.pc = pc]
      \/ At("pods") /\ pass.rank < WorldSize /\ pass' = PastRank
  BY DEF CreateService, KeepService, TurnService, CreateGroup, ClearPlan, KeepGroup,
         EnsurePod, AllEnsured, FindsGroup, GoesOn, Errs
<1> QED
  BY <1>2, <1>3, <1>4, <1>5

\* The decisions of a pass are steps of the life cycle.
LEMMA DecidingPass ==
  ASSUME TypeOK, PlaceInv, FailGang \/ YieldToRival \/ Aggregate
  PROVE  PassOK' /\ Carries
<1>1. pass \in Passes /\ pass.job \in JobVersion
  BY DEF TypeOK, Passes
<1>2. pass.job.phase \in TrainActive
  BY DEF PlaceInv, FailGang, YieldToRival, Aggregate, FindsGroup, At
<1>3. /\ pass.job.attempt \in Attempts /\ pass.job.rc \in 0 .. MaxRequeues
      /\ pass.job.phase \in TrainPhases
  BY <1>1 DEF JobVersion
<1> DEFINE a == pass.job.attempt
           rc == pass.job.rc
<1>4. ASSUME NEW phase \in TrainPhases, NEW b \in Attempts,
             pass' = Writes(phase, b, rc) \/ pass' = Sweeps(phase, b),
             Leads(pass.job, [phase |-> phase, attempt |-> b, rc |-> rc])
      PROVE  PassOK' /\ Carries
  BY <1>1, <1>3, <1>4, DecidedPass DEF Sweeps
<1>5. CASE FailGang
  <2>1. pass' = Sweeps("Failed", a) /\ pass.job.phase = "Starting"
    BY <1>5 DEF FailGang, GoesOn, GangTimedOut
  <2>2. Leads(pass.job, [phase |-> "Failed", attempt |-> a, rc |-> rc])
    BY <1>2, <2>1 DEF Leads
  <2> QED
    BY <1>3, <1>4, <2>1, <2>2 DEF TrainPhases
<1>6. CASE YieldToRival
  <2>1. pass' = Sweeps("Preempted", a) /\ pass.job.phase = "Running"
    BY <1>6 DEF YieldToRival, GoesOn, WasPreempted
  <2>2. Leads(pass.job, [phase |-> "Preempted", attempt |-> a, rc |-> rc])
    BY <1>2, <2>1 DEF Leads
  <2> QED
    BY <1>3, <1>4, <2>1, <2>2 DEF TrainPhases
<1>7. CASE shouldRetry(a) /\ pass' = Sweeps("Retrying", a + 1)
  <2>1. a + 1 \in Attempts /\ a < RetryLimit
    BY <1>3, <1>7, WorkersAssumption DEF shouldRetry, Attempts
  <2>2. Leads(pass.job, [phase |-> "Retrying", attempt |-> a + 1, rc |-> rc])
    BY <1>2, <2>1 DEF Leads
  <2> QED
    BY <1>4, <1>7, <2>1, <2>2 DEF TrainPhases
<1>8. CASE ~shouldRetry(a) /\ pass' = Sweeps("Failed", a)
  <2>1. a = RetryLimit
    BY <1>3, <1>8, WorkersAssumption DEF shouldRetry, Attempts
  <2>2. Leads(pass.job, [phase |-> "Failed", attempt |-> a, rc |-> rc])
    BY <1>2, <2>1 DEF Leads
  <2> QED
    BY <1>3, <1>4, <1>8, <2>2 DEF TrainPhases
<1>9. CASE pass' = Writes(nextPhase(a), a, rc)
  <2>1. nextPhase(a) \in TrainPhases
    BY Judgements DEF TrainPhases
  <2>2. Leads(pass.job, [phase |-> nextPhase(a), attempt |-> a, rc |-> rc])
    BY <1>2, Judgements DEF Leads
  <2> QED
    BY <1>3, <1>4, <1>9, <2>1, <2>2
<1>10. CASE pass' = Idle
  BY <1>10, IdlePass DEF Carries
<1>11. CASE Aggregate
  BY <1>7, <1>8, <1>9, <1>10, <1>11 DEF Aggregate, GoesOn, Ends
<1> QED
  BY <1>5, <1>6, <1>11

LEMMA ClosingPass ==
  ASSUME TypeOK, PlaceInv, ListDoomed \/ DeletePod \/ AllDeleted \/ WriteStatus
  PROVE  PassOK' /\ Carries
<1>1. pass \in Passes /\ pass.job.attempt \in Attempts
  BY DEF TypeOK, Passes, JobVersion
<1>2. CASE WriteStatus
  BY <1>2, IdlePass DEF WriteStatus, Ends, Errs, Carries
<1>3. CASE ListDoomed
  <2>1. Listed(pass.job.attempt) \subseteq Pods
    BY <1>1, Names DEF Listed
  <2>2. /\ pass' \in Passes /\ pass'.pc = "delete" /\ pass'.job = pass.job
        /\ pass'.current = pass.current /\ pass'.next = pass.next
    BY <1>1, <1>3, <2>1 DEF ListDoomed, GoesOn, Passes
  <2> QED
    BY <1>1, <1>3, <2>2, PassGoesOn DEF ListDoomed, PlaceInv, At, Carries
<1>4. CASE DeletePod
  <2>1. /\ pass' \in Passes /\ pass'.pc = "delete" /\ pass'.job = pass.job
        /\ pass'.current = pass.current /\ pass'.next = pass.next
    BY <1>1, <1>4 DEF DeletePod, GoesOn, Passes, At
  <2> QED
    BY <1>1, <1>4, <2>1, PassGoesOn DEF DeletePod, PlaceInv, At, Carries
<1>5. CASE AllDeleted
  <2>1. /\ pass' \in Passes /\ pass'.pc = "write" /\ pass'.job = pass.job
        /\ pass'.current = pass.current /\ pass'.next = pass.next
    BY <1>1, <1>5 DEF AllDeleted, GoesOn, Passes
  <2> QED
    BY <1>1, <1>5, <2>1, PassGoesOn DEF AllDeleted, PlaceInv, At, Carries
<1> QED
  BY <1>2, <1>3, <1>4, <1>5

LEMMA ReleasingPass ==
  ASSUME TypeOK, PlaceInv, CheckRival \/ DropGroup
  PROVE  PassOK' /\ Carries
<1>1. pass \in Passes /\ pass.job \in JobVersion
  BY DEF TypeOK, Passes
<1>2. CASE pass' = Idle
  BY <1>2, IdlePass DEF Carries
<1>3. CASE At("release") /\ pass.job.rc < MaxRequeues
           /\ pass' = [pass EXCEPT !.pc = "dropGroup"]
  <2>1. /\ pass' \in Passes /\ pass'.pc = "dropGroup" /\ pass'.job = pass.job
        /\ pass'.current = pass.current
    BY <1>1, <1>3 DEF Passes
  <2> QED
    BY <1>1, <1>3, <2>1, PassGoesOn DEF PlaceInv, At, Carries
<1>4. CASE DropGroup
  <2>1. pass.job.phase = "Preempted" /\ pass.job.rc < MaxRequeues
    BY <1>4 DEF DropGroup, PlaceInv, At
  <2>2. /\ pass.job.rc + 1 \in 0 .. MaxRequeues /\ pass.job.attempt \in Attempts
        /\ pass.job.phase \in TrainPhases
    BY <1>1, <2>1, WorkersAssumption DEF JobVersion
  <2>3. pass' = Writes("Queued", pass.job.attempt, pass.job.rc + 1)
    BY <1>4 DEF DropGroup, GoesOn
  <2>4. "Queued" \in TrainPhases
    BY DEF TrainPhases
  <2>5. Leads(pass.job, [phase |-> "Queued", attempt |-> pass.job.attempt,
                         rc |-> pass.job.rc + 1])
    BY <2>1 DEF Leads
  <2> QED
    BY <1>1, <2>2, <2>3, <2>4, <2>5, DecidedPass
<1> QED
  BY <1>2, <1>3, <1>4 DEF CheckRival, GoesOn, Ends, Errs

LEMMA PassStep ==
  ASSUME TypeOK, PlaceInv, [Next]_vars
  PROVE  /\ PassOK'
         /\ ~Begin => Carries
<1>1. CASE Begin
  BY <1>1, BeginPass
<1>2. CASE Reconcile /\ ~Begin
  BY <1>2, EnsuringPass, DecidingPass, ClosingPass, ReleasingPass DEF Reconcile
<1>3. CASE pass' = Idle
  BY <1>3, IdlePass DEF Carries
<1>4. CASE pass' = pass
  BY <1>4 DEF PassOK, PlaceInv, At, TypeOK, Carries
<1> QED
  BY <1>1, <1>2, <1>3, <1>4
  DEF Next, Deliver, QueueEvent, Crash, ApiError, Errs, Environment, World, vars,
      GangTimeout, PreemptGang, PlanGang, RivalMoves, PodStarts, PodSucceeds,
      PodFails, PodEnds, Evict

-----------------------------------------------------------------------------
(* Writes: which object is written by whom *)

\* A version v of o is stored: the job by the write of a pass, the service by
\* the first call of a pass, and a pod that was not there by the call for it.
Writing(o, v) ==
  /\ Put(o, v)
  /\ o = TheJob => At("write") /\ pass.current /\ v = pass.next /\ pass' = Idle
  /\ o = Service => At("service") /\ v.attempt = pass.job.attempt
  /\ o \in Pods /\ store[o].phase = "Absent" /\ v.phase # "Absent" =>
       At("pods") /\ o = ThisPod

Written == \E o \in Objects : \E v \in Versions(o) : Writing(o, v)

LEMMA DeletedType ==
  ASSUME NEW v \in PodVersion, NEW w \in Deleted(v)
  PROVE  /\ w \in PodVersion
         /\ w.phase # "Absent" => v.phase # "Absent"
<1>1. CASE w = NoPod
  BY <1>1, Blanks DEF NoPod
<1>2. CASE w = [v EXCEPT !.ending = TRUE]
  BY <1>2 DEF PodVersion
<1> QED
  BY <1>1, <1>2 DEF Deleted

LEMMA PodWritten ==
  ASSUME ObjectsOK, NEW p \in Pods, NEW v \in PodVersion, Put(p, v),
         v.phase # "Absent" => store[p].phase # "Absent"
  PROVE  Written
  BY Kinds DEF Written, Writing

LEMMA GroupWritten ==
  ASSUME NEW g \in Groups, NEW v \in GroupVersion, Put(g, v)
  PROVE  Written
  BY Kinds DEF Written, Writing

LEMMA EnsureWrites ==
  ASSUME TypeOK, CreateService \/ TurnService \/ CreateGroup \/ ClearPlan \/ EnsurePod
  PROVE  UNCHANGED objects \/ Written
<1>1. pass.job.attempt \in Attempts /\ pass.rank \in 0 .. WorldSize
  BY DEF TypeOK, Passes, JobVersion
<1>2. CASE CreateService \/ TurnService
  <2> DEFINE v == [attempt |-> pass.job.attempt]
  <2>1. v \in ServiceVersion
    BY <1>1 DEF ServiceVersion
  <2>2. At("service") /\ (UNCHANGED objects \/ Put(Service, v))
    BY <1>2 DEF CreateService, TurnService
  <2>3. ASSUME Put(Service, v) PROVE Writing(Service, v)
    BY <2>2, <2>3, Kinds DEF Writing
  <2> QED
    BY <2>1, <2>2, <2>3, Kinds DEF Written
<1>3. CASE CreateGroup
  BY <1>1, <1>3, Names, Blanks, GroupWritten DEF CreateGroup, OwnGroup
<1>4. CASE ClearPlan
  <2>1. OwnGroup \in Groups /\ OwnGroup \in Objects
    BY <1>1, Names, Kinds DEF OwnGroup
  <2>2. cache[OwnGroup] \in GroupVersion
    BY <2>1, Kinds DEF TypeOK, ObjectsOK
  <2>3. [cache[OwnGroup] EXCEPT !.plan = FALSE] \in GroupVersion
    BY <2>2 DEF GroupVersion
  <2> QED
    BY <1>4, <2>1, <2>3, GroupWritten DEF ClearPlan
<1>5. CASE EnsurePod
  <2>1. pass.rank \in Ranks
    BY <1>1, <1>5, WorkersAssumption DEF EnsurePod, Ranks
  <2>2. ThisPod \in Pods
    BY <1>1, <2>1, Names DEF ThisPod
  <2>3. [phase |-> "Pending", ending |-> FALSE] \in PodVersion
    BY DEF PodVersion
  <2>4. \A v : Put(ThisPod, v) => Writing(ThisPod, v)
    BY <1>5, <2>2, Kinds DEF Writing, EnsurePod
  <2> QED
    BY <1>5, <2>2, <2>3, <2>4, Kinds DEF EnsurePod, Written
<1> QED
  BY <1>2, <1>3, <1>4, <1>5

LEMMA CloseWrites ==
  ASSUME TypeOK, DeletePod \/ DropGroup \/ WriteStatus
  PROVE  UNCHANGED objects \/ Written
<1>1. pass.doomed \subseteq Pods /\ pass.job.attempt \in Attempts /\ pass.next \in JobVersion
  BY DEF TypeOK, Passes, JobVersion
<1>2. CASE DeletePod
  <2>1. PICK p \in pass.doomed : \E v \in Deleted(store[p]) : UNCHANGED objects \/ Put(p, v)
    BY <1>2 DEF DeletePod
  <2>2. p \in Pods /\ store[p] \in PodVersion
    BY <1>1, Kinds DEF TypeOK, ObjectsOK
  <2> QED
    BY <2>1, <2>2, DeletedType, PodWritten DEF TypeOK
<1>3. CASE DropGroup
  BY <1>1, <1>3, Names, Blanks, GroupWritten DEF DropGroup, OwnGroup
<1>4. CASE WriteStatus
  <2>1. ASSUME Put(TheJob, pass.next), pass.current, Ends
        PROVE  Writing(TheJob, pass.next)
    BY <1>4, <2>1, Kinds DEF Writing, WriteStatus, Ends
  <2> QED
    BY <1>1, <1>4, <2>1, Kinds DEF WriteStatus, Written
<1> QED
  BY <1>2, <1>3, <1>4

LEMMA EnvironmentWrites ==
  ASSUME TypeOK, Environment
  PROVE  Written
<1> USE DEF TypeOK
<1>1. \A g \in Groups : store[g] \in GroupVersion
  BY Kinds DEF ObjectsOK
<1>2. \A p \in Pods : store[p] \in PodVersion
  BY Kinds DEF ObjectsOK
<1>3. CASE GangTimeout
  <2>1. PICK a \in Attempts : Put(Group(a), [store[Group(a)] EXCEPT !.failed = TRUE])
    BY <1>3 DEF GangTimeout
  <2>2. Group(a) \in Groups /\ store[Group(a)] \in GroupVersion
    BY <1>1, Names
  <2>3. [store[Group(a)] EXCEPT !.failed = TRUE] \in GroupVersion
    BY <2>2 DEF GroupVersion
  <2> QED
    BY <2>1, <2>2, <2>3, GroupWritten
<1>4. CASE PreemptGang
  <2>1. PICK a \in Attempts : Put(Group(a), [store[Group(a)] EXCEPT !.preempted = TRUE])
    BY <1>4 DEF PreemptGang
  <2>2. Group(a) \in Groups /\ store[Group(a)] \in GroupVersion
    BY <1>1, Names
  <2>3. [store[Group(a)] EXCEPT !.preempted = TRUE] \in GroupVersion
    BY <2>2 DEF GroupVersion
  <2> QED
    BY <2>1, <2>2, <2>3, GroupWritten
<1>5. CASE PlanGang
  <2>1. PICK a \in Attempts : Put(Group(a), [store[Group(a)] EXCEPT !.plan = TRUE])
    BY <1>5 DEF PlanGang
  <2>2. Group(a) \in Groups /\ store[Group(a)] \in GroupVersion
    BY <1>1, Names
  <2>3. [store[Group(a)] EXCEPT !.plan = TRUE] \in GroupVersion
    BY <2>2 DEF GroupVersion
  <2> QED
    BY <2>1, <2>2, <2>3, GroupWritten
<1>6. CASE RivalMoves
  <2>1. PICK phase \in RivalPhases : Put(Rival, [phase |-> phase])
    BY <1>6 DEF RivalMoves
  <2>2. [phase |-> phase] \in Versions(Rival)
    BY Kinds DEF RivalVersion
  <2> QED
    BY <2>1, <2>2, Kinds DEF Written, Writing
<1>7. ASSUME NEW p \in Pods, NEW phase \in {"Running", "Succeeded", "Failed"},
             store[p].phase # "Absent", Put(p, [store[p] EXCEPT !.phase = phase])
      PROVE  Written
  <2>1. [store[p] EXCEPT !.phase = phase] \in PodVersion
    BY <1>2 DEF PodVersion
  <2> QED
    BY <1>7, <2>1, PodWritten
<1>8. CASE PodStarts \/ PodSucceeds \/ PodFails
  BY <1>7, <1>8 DEF PodStarts, PodSucceeds, PodFails
<1>9. CASE PodEnds
  BY <1>9, Blanks, PodWritten DEF PodEnds, NoPod
<1>10. CASE Evict
  BY <1>2, <1>10, DeletedType, PodWritten DEF Evict
<1> QED
  BY <1>3, <1>4, <1>5, <1>6, <1>8, <1>9, <1>10 DEF Environment

LEMMA ObjectStep ==
  ASSUME TypeOK, [Next]_vars
  PROVE  \/ UNCHANGED objects
         \/ Written
         \/ \E o \in Objects : Deliver(o)
         \/ Crash
<1>1. CASE Reconcile
  <2>1. CASE CreateService \/ TurnService \/ CreateGroup \/ ClearPlan \/ EnsurePod
    BY <2>1, EnsureWrites
  <2>2. CASE DeletePod \/ DropGroup \/ WriteStatus
    BY <2>2, CloseWrites
  <2> QED
    BY <1>1, <2>1, <2>2
    DEF Reconcile, Begin, KeepService, FailGang, YieldToRival, KeepGroup, AllEnsured,
        Aggregate, ListDoomed, AllDeleted, CheckRival, Reads
<1> QED
  BY <1>1, EnvironmentWrites DEF Next, QueueEvent, ApiError, vars

-----------------------------------------------------------------------------
(* Types, and what is on its way *)

LEMMA EmptyWatch ==
  ASSUME watch' = [o \in Objects |-> << >>], NEW o \in Objects
  PROVE  watch'[o] = << >> /\ \A S : watch'[o] \in Seq(S)
<1>1. watch'[o] = << >>
  OBVIOUS
<1>2. \A S : << >> \in Seq(S)
  BY EmptySeq
<1> QED
  BY <1>1, <1>2

LEMMA ObjectsStep ==
  ASSUME TypeOK, [Next]_vars
  PROVE  ObjectsOK'
<1>1. CASE UNCHANGED objects
  BY <1>1 DEF objects, ObjectsOK, TypeOK
<1>2. CASE Written
  BY <1>2, Stored DEF Written, Writing, TypeOK
<1>3. CASE \E o \in Objects : Deliver(o)
  BY <1>3, Delivered DEF TypeOK
<1>4. CASE Crash
  <2>1. store' = store /\ cache' = store /\ watch' = [o \in Objects |-> << >>]
    BY <1>4 DEF Crash
  <2>2. \A o \in Objects : watch'[o] \in Seq(Versions(o))
    BY <2>1, EmptyWatch
  <2>3. DOMAIN watch' = Objects
    BY <2>1
  <2> QED
    BY <2>1, <2>2, <2>3 DEF ObjectsOK, TypeOK
<1> QED
  BY <1>1, <1>2, <1>3, <1>4, ObjectStep

LEMMA SpentStep ==
  ASSUME spent \in [Mishaps -> Nat], [Next]_vars
  PROVE  spent' \in [Mishaps -> Nat]
<1>1. ASSUME NEW m \in Mishaps, Spend(m) PROVE spent' \in [Mishaps -> Nat]
  BY <1>1 DEF Spend
<1> QED
  BY <1>1
  DEF Next, vars, Reconcile, Reads, Begin, CreateService, KeepService, TurnService,
      CreateGroup, FailGang, YieldToRival, ClearPlan, KeepGroup, EnsurePod, AllEnsured,
      Aggregate, ListDoomed, DeletePod, AllDeleted, CheckRival, DropGroup, WriteStatus,
      Deliver, QueueEvent, Crash, ApiError, Environment, GangTimeout, PreemptGang,
      PlanGang, RivalMoves, PodStarts, PodSucceeds, PodFails, PodEnds, Evict, Mishaps

LEMMA TodoStep ==
  ASSUME todo \in BOOLEAN, [Next]_vars
  PROVE  todo' \in BOOLEAN
<1>1. CASE Reconcile
  BY <1>1
  DEF Reconcile, Begin, CreateService, KeepService, TurnService, CreateGroup, FailGang,
      YieldToRival, ClearPlan, KeepGroup, EnsurePod, AllEnsured, Aggregate, ListDoomed,
      DeletePod, AllDeleted, CheckRival, DropGroup, WriteStatus, GoesOn, Ends, Errs
<1>2. CASE \E o \in Objects : Deliver(o)
  BY <1>2 DEF Deliver
<1> QED
  BY <1>1, <1>2
  DEF Next, vars, QueueEvent, Crash, ApiError, Errs, Environment, World, GangTimeout,
      PreemptGang, PlanGang, RivalMoves, PodStarts, PodSucceeds, PodFails, PodEnds, Evict

LEMMA TypeStep == TypeOK /\ PlaceInv /\ [Next]_vars => TypeOK' /\ PlaceInv'
  BY PassStep, ObjectsStep, SpentStep, TodoStep DEF TypeOK, PassOK

\* Delivering the oldest version keeps the newest in its place.
LEMMA TailFacts ==
  ASSUME NEW S, NEW s \in Seq(S), s # << >>
  PROVE  /\ 1 \in DOMAIN s /\ Head(s) = s[1] /\ Len(s) \in DOMAIN s
         /\ DOMAIN Tail(s) \subseteq Nat /\ DOMAIN s \subseteq Nat
         /\ \A n \in DOMAIN Tail(s) : n + 1 \in DOMAIN s /\ Tail(s)[n] = s[n + 1]
         /\ Tail(s) = << >> => s[Len(s)] = Head(s)
         /\ Tail(s) # << >> => Tail(s)[Len(Tail(s))] = s[Len(s)]
<1>1. /\ Tail(s) \in Seq(S) /\ Len(Tail(s)) = Len(s) - 1 /\ Len(s) \in Nat \ {0}
      /\ \A i \in 1 .. Len(Tail(s)) : Tail(s)[i] = s[i + 1]
      /\ DOMAIN s = 1 .. Len(s) /\ DOMAIN Tail(s) = 1 .. Len(Tail(s)) /\ Head(s) = s[1]
  BY HeadTailProperties, LenProperties, EmptySeq
<1>2. Tail(s) = << >> => Len(s) = 1
  BY <1>1, EmptySeq
<1>3. Tail(s) # << >> => Len(Tail(s)) \in Nat \ {0}
  BY <1>1, EmptySeq, LenProperties
<1> QED
  BY <1>1, <1>2, <1>3

LEMMA AppendFacts ==
  ASSUME NEW S, NEW s \in Seq(S), NEW v \in S
  PROVE  /\ Append(s, v) # << >> /\ Append(s, v)[Len(Append(s, v))] = v
         /\ DOMAIN s \subseteq Nat /\ DOMAIN Append(s, v) \subseteq Nat
         /\ s # << >> => Len(s) \in DOMAIN s /\ \A n \in DOMAIN s : n <= Len(s)
         /\ \A n \in DOMAIN Append(s, v) :
              \/ n \in DOMAIN s /\ Append(s, v)[n] = s[n]
              \/ Append(s, v)[n] = v /\ \A m \in DOMAIN s : m < n
<1>1. /\ Append(s, v) \in Seq(S) /\ Len(Append(s, v)) = Len(s) + 1 /\ Len(s) \in Nat
      /\ \A i \in 1 .. Len(s) : Append(s, v)[i] = s[i]
      /\ Append(s, v)[Len(s) + 1] = v
      /\ DOMAIN s = 1 .. Len(s) /\ DOMAIN Append(s, v) = 1 .. Len(s) + 1
  BY AppendProperties, LenProperties
<1>2. Append(s, v) # << >> /\ (s # << >> => Len(s) # 0)
  BY <1>1, EmptySeq
<1> QED
  BY <1>1, <1>2

LEMMA WatchStep == TypeOK /\ WatchInv /\ [Next]_vars => WatchInv'
<1> SUFFICES ASSUME TypeOK, WatchInv, [Next]_vars, NEW x \in Objects
             PROVE  store'[x] = IF watch'[x] = << >> THEN cache'[x]
                                ELSE watch'[x][Len(watch'[x])]
  BY DEF WatchInv
<1>1. /\ ObjectsOK /\ watch[x] \in Seq(Versions(x))
      /\ store[x] = IF watch[x] = << >> THEN cache[x] ELSE watch[x][Len(watch[x])]
  BY DEF TypeOK, ObjectsOK, WatchInv
<1>2. CASE UNCHANGED objects
  BY <1>1, <1>2 DEF objects
<1>3. CASE Written
  <2>1. PICK o \in Objects : \E v \in Versions(o) : Put(o, v)
    BY <1>3 DEF Written, Writing
  <2>2. PICK v \in Versions(o) : Put(o, v)
    BY <2>1
  <2>3. CASE x = o
    BY <1>1, <2>2, <2>3, Stored, AppendFacts
  <2>4. CASE x # o
    BY <1>1, <2>2, <2>4, Stored
  <2> QED
    BY <2>3, <2>4
<1>4. CASE \E o \in Objects : Deliver(o)
  <2>1. PICK o \in Objects : Deliver(o)
    BY <1>4
  <2>2. CASE x = o
    <3>1. watch[x] # << >> /\ store' = store
          /\ cache'[x] = Head(watch[x]) /\ watch'[x] = Tail(watch[x])
      BY <1>1, <2>1, <2>2, Delivered DEF Deliver
    <3> QED
      BY <1>1, <3>1, TailFacts
  <2>3. CASE x # o
    BY <1>1, <2>1, <2>3, Delivered
  <2> QED
    BY <2>2, <2>3
<1>5. CASE Crash
  BY <1>5, EmptyWatch DEF Crash
<1> QED
  BY <1>2, <1>3, <1>4, <1>5, ObjectStep

LEMMA HoldsStep ==
  TypeOK /\ WatchInv /\ PlaceInv /\ HoldsInv /\ [Next]_vars => HoldsInv'
<1> SUFFICES ASSUME TypeOK, WatchInv, PlaceInv, HoldsInv, [Next]_vars, pass'.current
             PROVE  pass'.job = store'[TheJob]
  BY DEF HoldsInv, Job
<1>1. ~Idle.current
  BY DEF Idle
<1>2. CASE Begin
  <2>1. pass'.job = cache[TheJob] /\ watch[TheJob] = << >> /\ store' = store
    BY <1>1, <1>2, BeginPass DEF UpToDate, Begin, Reads, objects
  <2> QED
    BY <2>1, Kinds DEF WatchInv
<1>3. CASE ~Begin
  <2>1. pass'.job = store[TheJob]
    BY <1>1, <1>3, PassStep DEF Carries, HoldsInv, Job
  <2>2. store'[TheJob] = store[TheJob]
    <3>1. CASE Written
      <4>1. PICK o \in Objects : \E v \in Versions(o) : Writing(o, v)
        BY <3>1 DEF Written
      <4>2. PICK v \in Versions(o) : Writing(o, v)
        BY <4>1
      <4>3. o # TheJob
        BY <1>1, <4>2 DEF Writing
      <4> QED
        BY <4>2, <4>3, Stored, Kinds DEF Writing, TypeOK
    <3> QED
      BY <3>1, ObjectStep DEF objects, Deliver, Crash
  <2> QED
    BY <2>1, <2>2
<1> QED
  BY <1>2, <1>3

-----------------------------------------------------------------------------
(* Attempts *)

\* The job and the service, whose copies have an attempt.
Dated == {TheJob, Service}

LEMMA DatedTypes ==
  ASSUME ObjectsOK, NEW o \in Dated
  PROVE  /\ o \in Objects /\ watch[o] \in Seq(Versions(o))
         /\ store[o].attempt \in Int /\ cache[o].attempt \in Int
         /\ \A v \in Versions(o) : v.attempt \in Int
         /\ \A n \in DOMAIN watch[o] : watch[o][n].attempt \in Int
<1>1. o \in Objects /\ \A v \in Versions(o) : v.attempt \in Int
  BY Kinds, Numbers DEF Dated
<1>2. \A n \in DOMAIN watch[o] : watch[o][n] \in Versions(o)
  BY <1>1, ElementOfSeq, LenProperties DEF ObjectsOK
<1> QED
  BY <1>1, <1>2 DEF ObjectsOK

\* The stored version is of the latest attempt.
LEMMA StoredIsLatest ==
  ASSUME ObjectsOK, WatchInv, NEW o \in Dated, InOrder(o)
  PROVE  /\ cache[o].attempt <= store[o].attempt
         /\ \A n \in DOMAIN watch[o] : watch[o][n].attempt <= store[o].attempt
<1>1. store[o] = IF watch[o] = << >> THEN cache[o] ELSE watch[o][Len(watch[o])]
  BY DatedTypes DEF WatchInv
<1>2. watch[o] # << >> => Len(watch[o]) \in DOMAIN watch[o]
                          /\ \A n \in DOMAIN watch[o] : n <= Len(watch[o])
  BY DatedTypes, AppendFacts DEF ObjectsOK
<1>3. \A n \in DOMAIN watch[o] : watch[o] # << >>
  BY EmptySeq
<1> QED
  BY <1>1, <1>2, <1>3, DatedTypes DEF InOrder

LEMMA OrderStored ==
  ASSUME ObjectsOK, WatchInv, NEW o \in Dated, InOrder(o),
         NEW v \in Versions(o), Put(o, v), store[o].attempt <= v.attempt
  PROVE  InOrder(o)'
<1> DEFINE w == watch'[o]
<1>1. o \in Objects /\ watch[o] \in Seq(Versions(o))
  BY DatedTypes
<1>2. w = Append(watch[o], v) /\ cache' = cache
  BY <1>1, Stored
<1>3. \A n \in DOMAIN w :
        \/ n \in DOMAIN watch[o] /\ w[n] = watch[o][n]
        \/ w[n] = v /\ \A m \in DOMAIN watch[o] : m < n
  BY <1>1, <1>2, AppendFacts
<1>4. DOMAIN w \subseteq Nat
  BY <1>1, <1>2, AppendFacts
<1>5. /\ cache[o].attempt <= v.attempt
      /\ \A n \in DOMAIN watch[o] : watch[o][n].attempt <= v.attempt
  BY StoredIsLatest, DatedTypes
<1> HIDE DEF w
<1>6. \A n \in DOMAIN w : cache[o].attempt <= w[n].attempt
  BY <1>3, <1>5 DEF InOrder
<1>7. \A m, n \in DOMAIN w : m <= n => w[m].attempt <= w[n].attempt
  <2> SUFFICES ASSUME NEW m \in DOMAIN w, NEW n \in DOMAIN w, m <= n
               PROVE  w[m].attempt <= w[n].attempt
    OBVIOUS
  <2>1. CASE w[n] = v
    BY <1>3, <1>5, <2>1, DatedTypes
  <2>2. CASE n \in DOMAIN watch[o] /\ w[n] = watch[o][n]
    <3>1. m \in DOMAIN watch[o] /\ w[m] = watch[o][m]
      BY <1>3, <1>4, <2>2
    <3> QED
      BY <2>2, <3>1 DEF InOrder
  <2> QED
    BY <1>3, <2>1, <2>2
<1> QED
  BY <1>2, <1>6, <1>7 DEF InOrder, w

LEMMA OrderDelivered ==
  ASSUME ObjectsOK, NEW o \in Dated, InOrder(o), Deliver(o)
  PROVE  InOrder(o)' /\ cache[o].attempt <= cache'[o].attempt
<1> DEFINE s == watch[o]
<1>1. s \in Seq(Versions(o)) /\ s # << >> /\ cache'[o] = Head(s) /\ watch'[o] = Tail(s)
  BY DatedTypes, Delivered DEF Deliver
<1>2. /\ 1 \in DOMAIN s /\ Head(s) = s[1] /\ DOMAIN Tail(s) \subseteq Nat
      /\ \A n \in DOMAIN Tail(s) : n + 1 \in DOMAIN s /\ Tail(s)[n] = s[n + 1]
  BY <1>1, TailFacts
<1> HIDE DEF s
<1>3. /\ \A n \in DOMAIN s : cache[o].attempt <= s[n].attempt
      /\ \A m, n \in DOMAIN s : m <= n => s[m].attempt <= s[n].attempt
  BY DEF InOrder, s
<1>4. \A n \in DOMAIN Tail(s) : s[1].attempt <= s[n + 1].attempt
  BY <1>2, <1>3
<1>5. \A m, n \in DOMAIN Tail(s) : m <= n => Tail(s)[m].attempt <= Tail(s)[n].attempt
  BY <1>2, <1>3
<1> QED
  BY <1>1, <1>2, <1>3, <1>4, <1>5 DEF InOrder

LEMMA OrderKept ==
  ASSUME NEW o, InOrder(o), cache'[o] = cache[o], watch'[o] = watch[o]
  PROVE  InOrder(o)'
  BY DEF InOrder

LEMMA LeadsForward ==
  ASSUME NEW v \in JobVersion, NEW w \in JobVersion, Leads(v, w)
  PROVE  v.attempt <= w.attempt
  BY Numbers DEF Leads

\* Of job and service, what a step does to their copies.
LEMMA OrderStep ==
  ASSUME TypeOK, WatchInv, PlaceInv, HoldsInv, AttemptInv, [Next]_vars
  PROVE  /\ InOrder(TheJob)' /\ InOrder(Service)'
         /\ store'[Service].attempt \in {store[Service].attempt, pass.job.attempt}
         /\ store'[Service].attempt <= cache'[TheJob].attempt
         /\ cache[TheJob].attempt <= cache'[TheJob].attempt
<1> USE DEF Dated
<1>1. /\ ObjectsOK /\ InOrder(TheJob) /\ InOrder(Service)
      /\ store[Service].attempt <= cache[TheJob].attempt
      /\ pass.job \in JobVersion /\ pass.next \in JobVersion
      /\ store[Service].attempt \in Int /\ cache[TheJob].attempt \in Int
  BY DatedTypes DEF TypeOK, AttemptInv, Passes
<1>2. CASE UNCHANGED objects
  BY <1>1, <1>2, OrderKept DEF objects
<1>3. CASE Written
  <2>1. PICK o \in Objects : \E v \in Versions(o) : Writing(o, v)
    BY <1>3 DEF Written
  <2>2. PICK v \in Versions(o) : Writing(o, v)
    BY <2>1
  <2>3. /\ cache' = cache /\ store'[o] = v
        /\ \A x \in Objects : x # o => store'[x] = store[x] /\ watch'[x] = watch[x]
    BY <1>1, <2>2, Stored DEF Writing
  <2>4. o # TheJob => InOrder(TheJob)'
    BY <1>1, <2>3, Kinds, OrderKept
  <2>5. o # Service => InOrder(Service)' /\ store'[Service] = store[Service]
    BY <1>1, <2>3, Kinds, OrderKept
  <2>6. ASSUME o = TheJob PROVE InOrder(TheJob)'
    <3>1. v = pass.next /\ pass.job = store[TheJob] /\ Leads(pass.job, pass.next)
      BY <2>2, <2>6 DEF Writing, HoldsInv, Job, PlaceInv, At
    <3> QED
      BY <1>1, <2>2, <2>6, <3>1, LeadsForward, OrderStored DEF Writing
  <2>7. ASSUME o = Service
        PROVE  /\ InOrder(Service)' /\ store'[Service].attempt = pass.job.attempt
               /\ pass.job.attempt <= cache[TheJob].attempt
    <3>1. /\ v.attempt = pass.job.attempt
          /\ store[Service].attempt <= v.attempt /\ v.attempt <= cache[TheJob].attempt
      BY <2>2, <2>7 DEF Writing, AttemptInv, At
    <3> QED
      BY <1>1, <2>2, <2>3, <2>7, <3>1, OrderStored DEF Writing
  <2> QED
    BY <1>1, <2>3, <2>4, <2>5, <2>6, <2>7
<1>4. CASE \E o \in Objects : Deliver(o)
  <2>1. PICK o \in Objects : Deliver(o)
    BY <1>4
  <2>2. /\ store' = store
        /\ \A x \in Objects : x # o => cache'[x] = cache[x] /\ watch'[x] = watch[x]
    BY <1>1, <2>1, Delivered
  <2>3. o # TheJob => InOrder(TheJob)' /\ cache'[TheJob] = cache[TheJob]
    BY <1>1, <2>2, Kinds, OrderKept
  <2>4. o # Service => InOrder(Service)'
    BY <1>1, <2>2, Kinds, OrderKept
  <2>5. o = TheJob => InOrder(TheJob)' /\ cache[TheJob].attempt <= cache'[TheJob].attempt
    BY <1>1, <2>1, OrderDelivered
  <2>6. o = Service => InOrder(Service)'
    BY <1>1, <2>1, OrderDelivered
  <2>7. cache'[TheJob].attempt \in Int
    BY ObjectsStep, Kinds, Numbers DEF ObjectsOK
  <2> QED
    BY <1>1, <2>2, <2>3, <2>4, <2>5, <2>6, <2>7
<1>5. CASE Crash
  <2>1. store' = store /\ cache' = store /\ watch'[TheJob] = << >> /\ watch'[Service] = << >>
    BY <1>5, EmptyWatch, Kinds DEF Crash
  <2>2. \A n : n \notin DOMAIN << >>
    BY EmptySeq
  <2>3. InOrder(TheJob)' /\ InOrder(Service)'
    BY <2>1, <2>2 DEF InOrder
  <2>4. cache[TheJob].attempt <= store[TheJob].attempt /\ store[TheJob].attempt \in Int
    BY <1>1, StoredIsLatest, DatedTypes
  <2> QED
    BY <1>1, <2>1, <2>3, <2>4
<1> QED
  BY <1>2, <1>3, <1>4, <1>5, ObjectStep

\* A pass that has ensured the service, or just ensures it, is of its attempt.
LEMMA ServiceStep ==
  ASSUME TypeOK, WatchInv, PlaceInv, AttemptInv, [Next]_vars,
         pass'.pc \in {"group", "pods", "list"}
  PROVE  store'[Service].attempt = pass'.job.attempt
<1>1. ~Begin /\ pass' # Idle /\ pass'.job = pass.job
  <2>1. ~Begin
    BY BeginPass
  <2> QED
    BY <2>1, PassStep DEF Carries, Idle
<1>2. pass \in Passes
  BY DEF TypeOK
<1>3. CASE pass.pc \in {"group", "pods", "list"}
  <2>1. store[Service].attempt = pass.job.attempt
    BY <1>3 DEF AttemptInv
  <2>2. store'[Service] = store[Service]
    <3>1. CASE Written
      <4>1. PICK o \in Objects : \E v \in Versions(o) : Writing(o, v)
        BY <3>1 DEF Written
      <4>2. PICK v \in Versions(o) : Writing(o, v)
        BY <4>1
      <4>3. o # Service
        BY <1>3, <4>2 DEF Writing, At
      <4> QED
        BY <4>2, <4>3, Stored, Kinds DEF Writing, TypeOK
    <3> QED
      BY <3>1, ObjectStep DEF objects, Deliver, Crash
  <2> QED
    BY <1>1, <2>1, <2>2
<1>4. CASE pass.pc \notin {"group", "pods", "list"}
  <2>1. \/ CreateService \/ KeepService \/ TurnService
    <3>1. CASE Reconcile
      <4>1. ~(ListDoomed \/ DeletePod \/ AllDeleted \/ CheckRival \/ DropGroup \/ WriteStatus)
        BY <1>1, <1>2
        DEF ListDoomed, DeletePod, AllDeleted, CheckRival, DropGroup, WriteStatus,
            GoesOn, Ends, Errs, Writes, Passes, At
      <4> QED
        BY <1>1, <1>4, <3>1, <4>1
        DEF Reconcile, CreateGroup, FailGang, YieldToRival, ClearPlan, KeepGroup,
            EnsurePod, AllEnsured, Aggregate, FindsGroup, At
    <3>2. CASE pass' = pass
      BY <1>4, <3>2
    <3> QED
      BY <1>1, <3>1, <3>2
      DEF Next, Deliver, QueueEvent, Crash, ApiError, Errs, Environment, World, vars,
          GangTimeout, PreemptGang, PlanGang, RivalMoves, PodStarts, PodSucceeds,
          PodFails, PodEnds, Evict
  <2>2. CASE KeepService
    <3>1. /\ cache[Service].attempt = pass.job.attempt /\ ~At("idle")
          /\ store' = store
      BY <2>2 DEF KeepService, Reads, objects, At
    <3>2. /\ cache[Service].attempt <= store[Service].attempt
          /\ store[Service].attempt <= pass.job.attempt
          /\ store[Service].attempt \in Int /\ cache[Service].attempt \in Int
      BY <3>1, StoredIsLatest, DatedTypes DEF AttemptInv, Dated, TypeOK
    <3> QED
      BY <1>1, <3>1, <3>2
  <2>3. CASE CreateService \/ TurnService
    <3>1. Put(Service, [attempt |-> pass.job.attempt])
      BY <1>1, <2>3 DEF CreateService, TurnService, Errs
    <3>2. [attempt |-> pass.job.attempt] \in ServiceVersion
      BY <1>2 DEF ServiceVersion, Passes, JobVersion
    <3> QED
      BY <1>1, <3>1, <3>2, Stored, Kinds DEF TypeOK
  <2> QED
    BY <2>1, <2>2, <2>3
<1> QED
  BY <1>3, <1>4

LEMMA AttemptStep ==
  TypeOK /\ WatchInv /\ PlaceInv /\ HoldsInv /\ AttemptInv /\ [Next]_vars => AttemptInv'
<1> SUFFICES ASSUME TypeOK, WatchInv, PlaceInv, HoldsInv, AttemptInv, [Next]_vars
             PROVE  AttemptInv'
  OBVIOUS
<1>1. /\ InOrder(TheJob)' /\ InOrder(Service)'
      /\ store'[Service].attempt \in {store[Service].attempt, pass.job.attempt}
      /\ store'[Service].attempt <= cache'[TheJob].attempt
      /\ cache[TheJob].attempt <= cache'[TheJob].attempt
  BY OrderStep
<1>2. /\ pass.job.attempt \in Int /\ cache[TheJob].attempt \in Int
      /\ cache'[TheJob].attempt \in Int /\ store[Service].attempt \in Int
  <2>1. ObjectsOK'
    BY ObjectsStep
  <2> QED
    BY <2>1, Kinds, Numbers DEF TypeOK, ObjectsOK, Passes
<1>3. pass'.pc \in {"group", "pods", "list"} => store'[Service].attempt = pass'.job.attempt
  BY ServiceStep
<1>4. ASSUME pass'.pc # "idle"
      PROVE  /\ store'[Service].attempt <= pass'.job.attempt
             /\ pass'.job.attempt <= cache'[TheJob].attempt
  <2>1. CASE Begin
    <3>1. pass' # Idle /\ store' = store /\ cache' = cache
      BY <1>4, <2>1 DEF Idle, Begin, Reads, objects
    <3> QED
      BY <1>2, <2>1, <3>1, BeginPass DEF AttemptInv
  <2>2. CASE ~Begin
    <3>1. pass'.job = pass.job
      BY <1>4, <2>2, PassStep DEF Carries, Idle
    <3>2. pass.pc # "idle"
      BY <1>4, <2>2
      DEF Next, Reconcile, CreateService, KeepService, TurnService, CreateGroup, FailGang,
          YieldToRival, ClearPlan, KeepGroup, EnsurePod, AllEnsured, Aggregate, ListDoomed,
          DeletePod, AllDeleted, CheckRival, DropGroup, WriteStatus, FindsGroup, At,
          Deliver, QueueEvent, Crash, ApiError, Environment, World, vars, Idle,
          GangTimeout, PreemptGang, PlanGang, RivalMoves, PodStarts, PodSucceeds,
          PodFails, PodEnds, Evict
    <3> QED
      BY <1>1, <1>2, <3>1, <3>2 DEF AttemptInv, At
  <2> QED
    BY <2>1, <2>2
<1> QED
  BY <1>1, <1>3, <1>4 DEF AttemptInv, At

-----------------------------------------------------------------------------
(* What follows *)

\* The invariant without the part about the settled state.
MovesInv == TypeOK /\ WatchInv /\ PlaceInv /\ HoldsInv /\ AttemptInv

LEMMA MovesInit == Init => MovesInv
<1> SUFFICES ASSUME Init PROVE MovesInv
  OBVIOUS
<1>1. \A o \in Objects : store[o] \in Versions(o)
  BY Blanks DEF Init, Versions, RivalVersion, RivalPhases
<1>2. /\ cache = store /\ DOMAIN store = Objects /\ DOMAIN watch = Objects
      /\ \A o \in Objects : watch[o] = << >>
  BY DEF Init
<1>3. ObjectsOK
  BY <1>1, <1>2, EmptySeq DEF ObjectsOK
<1>4. spent \in [Mishaps -> Nat] /\ todo \in BOOLEAN /\ pass = Idle
  BY DEF Init
<1>5. TypeOK
  BY <1>3, <1>4, Blanks DEF TypeOK
<1>6. store[TheJob] = QueuedJob /\ store[Service] = NoService
  BY Kinds DEF Init
<1>7. InOrder(TheJob) /\ InOrder(Service)
  BY <1>2, Kinds, EmptySeq DEF InOrder
<1>8. AttemptInv
  BY <1>2, <1>4, <1>6, <1>7, Kinds DEF AttemptInv, QueuedJob, NoService, Idle, At
<1> QED
  BY <1>2, <1>4, <1>5, <1>8 DEF MovesInv, WatchInv, PlaceInv, HoldsInv, Idle, At

LEMMA MovesStep == MovesInv /\ [Next]_vars => MovesInv'
  BY TypeStep, WatchStep, HoldsStep, AttemptStep DEF MovesInv

LEMMA MovesInductive == Spec => []MovesInv
  BY MovesInit, MovesStep, PTL DEF Spec

\* The variables of TrainWorkers have their types: no pass ever writes an
\* attempt above RetryLimit or a requeue count above its bound.
THEOREM TypeCorrect == Spec => []TypeOK
<1>1. MovesInv => TypeOK
  BY DEF MovesInv
<1> QED
  BY <1>1, MovesInductive, PTL

\* A worker is only created while the master service selects the rank 0 of its
\* attempt, however stale the copies of job and service the pass works from.
THEOREM ServiceComesFirst == Spec => ServiceFirst
<1>1. ASSUME MovesInv, [Next]_vars, NEW a \in Attempts, NEW r \in Ranks,
             store[Pod(a, r)].phase = "Absent", store'[Pod(a, r)].phase # "Absent"
      PROVE  store[Service].attempt = a
  <2> DEFINE p == Pod(a, r)
  <2>1. p \in Pods /\ p \in Objects
    BY Names, Kinds
  <2>2. Written
    BY <1>1, ObjectStep DEF MovesInv, objects, Deliver, Crash
  <2>3. PICK o \in Objects : \E v \in Versions(o) : Writing(o, v)
    BY <2>2 DEF Written
  <2>4. PICK v \in Versions(o) : Writing(o, v)
    BY <2>3
  <2>5. o = p /\ v.phase # "Absent"
    BY <1>1, <2>1, <2>4, Stored DEF Writing, MovesInv, TypeOK
  <2>6. At("pods") /\ p = Pod(pass.job.attempt, pass.rank)
    BY <1>1, <2>1, <2>4, <2>5 DEF Writing, ThisPod
  <2>7. a = pass.job.attempt
    BY <2>6, Names
  <2> QED
    BY <1>1, <2>6, <2>7 DEF MovesInv, AttemptInv, At
<1>2. MovesInv /\ [Next]_vars =>
        [\A a \in Attempts, r \in Ranks :
           store[Pod(a, r)].phase = "Absent" /\ store'[Pod(a, r)].phase # "Absent"
             => store[Service].attempt = a]_vars
  BY <1>1
<1> QED
  BY <1>2, MovesInductive, PTL DEF Spec, ServiceFirst

\* The status of the job moves only by the write of a pass, along the life cycle.
LEMMA StepRefines ==
  ASSUME MovesInv, [Next]_vars
  PROVE  [Lifecycle!Next]_<<Job.phase, Job.attempt, Job.rc>>
<1>1. CASE store'[TheJob] = store[TheJob]
  BY <1>1 DEF Job
<1>2. CASE store'[TheJob] # store[TheJob]
  <2>1. Written
    BY <1>2, ObjectStep DEF MovesInv, objects, Deliver, Crash
  <2>2. PICK o \in Objects : \E v \in Versions(o) : Writing(o, v)
    BY <2>1 DEF Written
  <2>3. PICK v \in Versions(o) : Writing(o, v)
    BY <2>2
  <2>4. o = TheJob /\ store'[TheJob] = v
    BY <1>2, <2>3, Stored, Kinds DEF Writing, MovesInv, TypeOK
  <2>5. /\ v = pass.next /\ pass.job = store[TheJob]
        /\ Leads(pass.job, pass.next)
    BY <2>3, <2>4 DEF Writing, MovesInv, HoldsInv, PlaceInv, Job, At
  <2>6. Leads(Job, Job')
    BY <2>4, <2>5 DEF Job
  <2>7. Job.phase \in TrainActive => Job.phase # "Queued" /\ Job.phase # "Preempted"
    BY DEF TrainActive
  <2> QED
    BY <2>6, <2>7
    DEF Leads, Lifecycle!Next, Lifecycle!Admit, Lifecycle!Progress, Lifecycle!Retry,
        Lifecycle!Fail, Lifecycle!Preempt, Lifecycle!Release, Lifecycle!TrainActive,
        TrainActive
<1> QED
  BY <1>1, <1>2

\* Phase, attempt and requeue count of the job follow TrainJobLifecycle: stale
\* caches, refused writes and restarts of the manager show nowhere in them.
THEOREM LifecycleRefined == Spec => Refines
<1>1. Init => Lifecycle!Init
  BY Kinds DEF Init, Job, QueuedJob, Lifecycle!Init
<1>2. MovesInv /\ [Next]_vars => [Lifecycle!Next]_<<Job.phase, Job.attempt, Job.rc>>
  BY StepRefines
<1> QED
  BY <1>1, <1>2, MovesInductive, PTL DEF Spec, Refines, Lifecycle!Spec, Lifecycle!lifecycle

==========================================================================
