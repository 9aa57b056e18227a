-------------------------- MODULE WorkersSettled --------------------------
(***************************************************************************)
(* That TrainWorkers settles on the truth: SettledStatus and SettledGroup  *)
(* for every WorldSize, RetryLimit and bound.                              *)
(*                                                                         *)
(* While the key of the job is not in the work queue, no event that wakes  *)
(* the job has been delivered since the last pass began (Frozen).  So what *)
(* the pass saw of its group and its pods still holds, or an event of them *)
(* is on its way; and when nothing is on its way, the cache is the store.  *)
(***************************************************************************)
EXTENDS WorkersProofs

-----------------------------------------------------------------------------
(* What a step without a wake-up leaves as it was *)

Watched == {TheJob} \cup Groups \cup Pods

Frozen ==
  /\ \A o \in Watched : /\ cache'[o] = cache[o]
                        /\ watch[o] # << >> => watch'[o] # << >>
  /\ cache'[Rival] = cache[Rival] \/ \A g \in Groups : ~cache[g].preempted

LEMMA FrozenStep ==
  ASSUME TypeOK, ~todo', [Next]_vars
  PROVE  Frozen
<1> USE DEF TypeOK
<1>1. Watched \subseteq Objects /\ Rival \in Objects /\ Rival \notin Watched
  BY Kinds DEF Watched
<1>2. CASE UNCHANGED objects
  BY <1>2 DEF objects, Frozen
<1>3. CASE Written
  <2>1. PICK o \in Objects : \E v \in Versions(o) : Put(o, v)
    BY <1>3 DEF Written, Writing
  <2>2. PICK v \in Versions(o) : Put(o, v)
    BY <2>1
  <2>3. /\ cache' = cache /\ watch'[o] = Append(watch[o], v) /\ watch[o] \in Seq(Versions(o))
        /\ \A x \in Objects : x # o => watch'[x] = watch[x]
    BY <2>2, Stored DEF ObjectsOK
  <2>4. watch'[o] # << >>
    BY <2>3, AppendFacts
  <2> QED
    BY <1>1, <2>3, <2>4 DEF Frozen
<1>4. CASE \E o \in Objects : Deliver(o)
  <2>1. PICK o \in Objects : Deliver(o)
    BY <1>4
  <2>2. ~Wakes(o)
    BY <2>1 DEF Deliver
  <2>3. \A x \in Objects : x # o => cache'[x] = cache[x] /\ watch'[x] = watch[x]
    BY <2>1, Delivered
  <2> QED
    BY <1>1, <2>2, <2>3 DEF Frozen, Wakes, Watched
<1>5. ~Crash
  BY DEF Crash
<1> QED
  BY <1>2, <1>3, <1>4, <1>5, ObjectStep

LEMMA SeenKept ==
  ASSUME Frozen, NEW job \in JobVersion
  PROVE  /\ GroupSeen(job) => GroupSeen(job)'
         /\ \A p \in Workers(job.attempt) : PodSeen(p) => PodSeen(p)'
         /\ \A phase : InPhase(job.attempt, phase)' = InPhase(job.attempt, phase)
         /\ nextPhase(job.attempt)' = nextPhase(job.attempt)
<1>1. job.attempt \in Attempts
  BY DEF JobVersion
<1>2. Group(job.attempt) \in Watched /\ Workers(job.attempt) \subseteq Watched
  BY <1>1, Names DEF Watched
<1>3. GroupSeen(job) => GroupSeen(job)'
  BY <1>2 DEF Frozen, GroupSeen
<1>4. \A p \in Workers(job.attempt) : PodSeen(p) => PodSeen(p)'
  BY <1>2 DEF Frozen, PodSeen
<1>5. Listed(job.attempt)' = Listed(job.attempt)
  BY <1>2 DEF Frozen, Listed
<1>6. \A phase : InPhase(job.attempt, phase)' = InPhase(job.attempt, phase)
  BY <1>2, <1>5 DEF Frozen, InPhase, Listed
<1>7. nextPhase(job.attempt)' = nextPhase(job.attempt)
  BY <1>5, <1>6 DEF nextPhase
<1> QED
  BY <1>3, <1>4, <1>6, <1>7

LEMMA SettledKept ==
  ASSUME Frozen, store'[Service] = store[Service],
         NEW job \in JobVersion, Settled(job)
  PROVE  Settled(job)'
<1>1. CASE job.phase \in TrainActive
  <2>1. job.phase # "Preempted"
    BY <1>1 DEF TrainActive
  <2> QED
    BY <1>1, <2>1, SeenKept DEF Settled
<1>2. CASE job.phase = "Preempted" /\ job.rc < MaxRequeues
  <2>1. Group(job.attempt) \in Groups
    BY Names DEF JobVersion
  <2>2. /\ cache'[Group(job.attempt)] = cache[Group(job.attempt)]
        /\ cache[Group(job.attempt)].preempted
    BY <1>2, <2>1 DEF Frozen, Watched, Settled
  <2>3. cache'[Rival] = cache[Rival]
    BY <2>1, <2>2 DEF Frozen
  <2> QED
    BY <1>2, <2>2, <2>3 DEF Settled, Releases, TrainActive
<1> QED
  BY <1>1, <1>2 DEF Settled

-----------------------------------------------------------------------------
(* Steps *)

Outside ==
  \/ \E o \in Objects : Deliver(o)
  \/ QueueEvent \/ Crash \/ ApiError \/ Environment \/ UNCHANGED vars

\* Whatever is not a step of the pass leaves it alone, or ends it with the key
\* in the work queue.
LEMMA OutsidePass ==
  ASSUME Outside
  PROVE  /\ pass' = pass \/ (pass' = Idle /\ todo')
         /\ todo => todo'
<1>1. CASE \E o \in Objects : Deliver(o)
  BY <1>1 DEF Deliver
<1>2. CASE QueueEvent \/ Crash \/ ApiError \/ UNCHANGED vars
  BY <1>2 DEF QueueEvent, Crash, ApiError, Errs, vars
<1>3. CASE Environment
  BY <1>3 DEF Environment, World, GangTimeout, PreemptGang, PlanGang, RivalMoves,
              PodStarts, PodSucceeds, PodFails, PodEnds, Evict
<1> QED
  BY <1>1, <1>2, <1>3 DEF Outside

LEMMA BeginAtRankZero ==
  ASSUME TypeOK, Begin
  PROVE  pass'.rank = 0
<1> DEFINE begun(pc) == [Idle EXCEPT !.pc = pc, !.job = cache[TheJob],
                                     !.current = UpToDate(TheJob)]
<1>1. \A pc : begun(pc).rank = 0
  BY DEF Idle
<1>2. \A v : [begun("write") EXCEPT !.next = v].rank = 0
  BY DEF Idle
<1>3. Idle.rank = 0
  BY DEF Idle
<1>4. \/ pass' = Idle
      \/ \E v : pass' = [begun("write") EXCEPT !.next = v]
      \/ pass' = begun("service") \/ pass' = begun("release")
  BY DEF Begin
<1>5. CASE \E v : pass' = [begun("write") EXCEPT !.next = v]
  <2>1. PICK v : pass' = [begun("write") EXCEPT !.next = v]
    BY <1>5
  <2> QED
    BY <1>2, <2>1
<1>6. CASE pass' = begun("service") \/ pass' = begun("release")
  BY <1>1, <1>6
<1> QED
  BY <1>3, <1>4, <1>5, <1>6

LEMMA RankStep == TypeOK /\ RankInv /\ [Next]_vars => RankInv'
<1> SUFFICES ASSUME TypeOK, RankInv, [Next]_vars, pass'.pc \in {"service", "group"}
             PROVE  pass'.rank = 0
  BY DEF RankInv
<1>1. pass \in Passes
  BY DEF TypeOK
<1>2. CASE Begin
  BY <1>2, BeginAtRankZero
<1>3. CASE CreateService \/ KeepService \/ TurnService
  <2>1. pass.pc = "service" /\ (pass' = Idle \/ pass' = [pass EXCEPT !.pc = "group"])
    BY <1>3 DEF CreateService, KeepService, TurnService, GoesOn, Errs, At
  <2> QED
    BY <1>1, <2>1 DEF RankInv, Passes, Idle
<1>4. CASE pass' = pass
  BY <1>4 DEF RankInv
<1>5. CASE Reconcile /\ ~(Begin \/ CreateService \/ KeepService \/ TurnService)
  <2>1. /\ \A phase, a, rc : Writes(phase, a, rc).pc = "write"
        /\ \A phase, a : Sweeps(phase, a).pc = "sweep"
        /\ PastRank.pc = pass.pc /\ Idle.pc = "idle"
    BY <1>1 DEF Writes, Sweeps, PastRank, Idle, Passes
  <2>2. \A pc : [pass EXCEPT !.pc = pc].pc = pc
    BY <1>1 DEF Passes
  <2>3. CASE CreateGroup \/ ClearPlan \/ KeepGroup \/ EnsurePod \/ AllEnsured
    BY <2>1, <2>2, <2>3
    DEF CreateGroup, ClearPlan, KeepGroup, EnsurePod, AllEnsured, GoesOn, Errs, At
  <2>4. CASE FailGang \/ YieldToRival \/ Aggregate \/ DropGroup
    BY <2>1, <2>4 DEF FailGang, YieldToRival, Aggregate, DropGroup, GoesOn, Ends
  <2>5. CASE ListDoomed \/ DeletePod \/ AllDeleted
    BY <1>1, <2>5 DEF ListDoomed, DeletePod, AllDeleted, GoesOn, At, Passes
  <2>6. CASE CheckRival \/ WriteStatus
    BY <2>1, <2>2, <2>6 DEF CheckRival, WriteStatus, GoesOn, Ends, Errs
  <2> QED
    BY <1>5, <2>3, <2>4, <2>5, <2>6 DEF Reconcile
<1>6. CASE Outside
  BY <1>4, <1>6, OutsidePass DEF Idle
<1> QED
  BY <1>2, <1>3, <1>5, <1>6 DEF Next, Outside

\* Between passes nothing happens that the job would have to be woken for.
LEMMA CalmOutside ==
  ASSUME MovesInv, CalmInv, Outside, [Next]_vars
  PROVE  CalmInv'
<1> SUFFICES ASSUME ~todo' PROVE CalmInv'
  BY DEF CalmInv
<1>1. ~todo /\ pass' = pass /\ Frozen
  BY OutsidePass, FrozenStep DEF MovesInv
<1>2. pass.job \in JobVersion /\ cache[TheJob] \in JobVersion
  BY Kinds DEF MovesInv, TypeOK, ObjectsOK, Passes
<1>3. cache'[TheJob] = cache[TheJob] /\ (watch[TheJob] # << >> => watch'[TheJob] # << >>)
  BY <1>1 DEF Frozen, Watched
<1>4. \A r \in Ranks : PodSeen(Pod(pass.job.attempt, r)) => PodSeen(Pod(pass.job.attempt, r))'
  BY <1>1, <1>2, SeenKept, Names DEF JobVersion
<1>5. GroupSeen(pass.job) => GroupSeen(pass.job)'
  BY <1>1, <1>2, SeenKept
<1>6. ASSUME At("idle"), Settled(cache[TheJob]) PROVE Settled(cache[TheJob])'
  <2> DEFINE job == cache[TheJob]
  <2>1. store'[Service] = store[Service]
    <3>1. CASE Written
      <4>1. PICK o \in Objects : \E v \in Versions(o) : Writing(o, v)
        BY <3>1 DEF Written
      <4>2. PICK v \in Versions(o) : Writing(o, v)
        BY <4>1
      <4>3. o # Service
        BY <1>6, <4>2 DEF Writing, At
      <4> QED
        BY <4>2, <4>3, Stored, Kinds DEF Writing, MovesInv, TypeOK
    <3> QED
      BY <3>1, ObjectStep DEF MovesInv, objects, Deliver, Crash
  <2>2. ASSUME NEW v \in JobVersion, Settled(v) PROVE Settled(v)'
    BY <1>1, <2>1, <2>2, SettledKept
  <2>3. PICK v \in JobVersion : v = cache[TheJob]
    BY <1>2
  <2>4. Settled(v)'
    BY <1>6, <2>2, <2>3
  <2>5. cache'[TheJob] = v
    BY <1>3, <2>3
  <2> QED
    BY <2>4, <2>5 DEF Settled
<1> QED
  BY <1>1, <1>3, <1>4, <1>5, <1>6 DEF CalmInv, At

LEMMA CalmBegin ==
  ASSUME MovesInv, Begin
  PROVE  CalmInv'
<1>1. cache' = cache /\ pass'.pc \in {"idle", "service", "release", "write"}
  BY BeginPass DEF Begin, Reads, objects, MovesInv
<1>2. pass' # Idle => pass'.job = cache[TheJob]
  BY BeginPass DEF MovesInv
<1>3. pass'.pc = "idle" => cache[TheJob].phase \in TrainTerminal \cup {"Queued"}
  BY DEF Begin, Idle
<1>4. ASSUME pass'.pc = "idle" PROVE Settled(cache[TheJob])'
  BY <1>1, <1>3, <1>4 DEF Settled, TrainTerminal, TrainActive
<1> QED
  BY <1>1, <1>2, <1>4 DEF CalmInv, Idle, At

\* A pass over the copy v that goes on or ends without a wake-up has seen what
\* it needs.
CalmPass(v) ==
  ~todo' =>
    /\ pass'.pc \in {"pods", "list"} => GroupSeen(v)'
    /\ pass'.pc = "pods" =>
         \A r \in Ranks : r < pass'.rank => PodSeen(Pod(v.attempt, r))'
    /\ pass'.pc = "list" => \A r \in Ranks : PodSeen(Pod(v.attempt, r))'
    /\ pass'.pc = "idle" => watch'[TheJob] # << >> \/ Settled(v)'

LEMMA CalmPassKeeps ==
  ASSUME MovesInv, CalmInv, Reconcile, ~Begin, NEW v, v = pass.job, CalmPass(v), [Next]_vars
  PROVE  CalmInv'
<1> SUFFICES ASSUME ~todo' PROVE CalmInv'
  BY DEF CalmInv
<1>1. ~At("idle") /\ ~todo
  BY DEF Reconcile, CreateService, KeepService, TurnService, CreateGroup, FailGang,
         YieldToRival, ClearPlan, KeepGroup, EnsurePod, AllEnsured, Aggregate,
         ListDoomed, DeletePod, AllDeleted, CheckRival, DropGroup, WriteStatus,
         FindsGroup, At, GoesOn, Ends, Errs
<1>2. v = cache'[TheJob]
  BY <1>1, FrozenStep DEF CalmInv, MovesInv, Frozen, Watched
<1>3. pass'.pc # "idle" => pass'.job = v
  BY PassStep DEF Carries, Idle, MovesInv
<1>4. Settled(v)' => Settled(cache[TheJob])'
  BY <1>2 DEF Settled
<1>5. pass'.job = v => (GroupSeen(v)' => GroupSeen(pass.job)')
  BY DEF GroupSeen
<1> QED
  BY <1>2, <1>3, <1>4, <1>5 DEF CalmPass, CalmInv, At

-----------------------------------------------------------------------------
(* The calls of a pass *)

\* A call that goes on to something that says nothing of group and pods.
LEMMA CalmElsewhere ==
  ASSUME NEW v, todo' \/ pass'.pc \in {"group", "sweep", "delete", "release", "dropGroup", "write"}
  PROVE  CalmPass(v)
  BY DEF CalmPass

LEMMA CalmMoves ==
  ASSUME MovesInv, NEW v,
         \/ CreateService \/ KeepService \/ TurnService
         \/ FailGang \/ YieldToRival \/ ListDoomed \/ DeletePod \/ AllDeleted \/ DropGroup
  PROVE  CalmPass(v)
<1>1. pass \in Passes
  BY DEF MovesInv, TypeOK
<1>2. /\ \A phase, a, rc : Writes(phase, a, rc).pc = "write"
      /\ \A phase, a : Sweeps(phase, a).pc = "sweep"
      /\ \A pc : [pass EXCEPT !.pc = pc].pc = pc
  BY <1>1 DEF Writes, Sweeps, Passes
<1>3. CASE CreateService \/ KeepService \/ TurnService \/ FailGang \/ YieldToRival
           \/ AllDeleted \/ DropGroup
  <2>1. todo' \/ pass'.pc \in {"group", "sweep", "write"}
    <3>1. CASE CreateService \/ KeepService \/ TurnService \/ AllDeleted
      <4>1. todo' \/ pass' = [pass EXCEPT !.pc = "group"] \/ pass' = [pass EXCEPT !.pc = "write"]
        BY <3>1 DEF CreateService, KeepService, TurnService, AllDeleted, GoesOn, Errs
      <4> QED
        BY <1>1, <4>1 DEF Passes
    <3>2. CASE FailGang \/ YieldToRival \/ DropGroup
      BY <1>2, <3>2 DEF FailGang, YieldToRival, DropGroup, GoesOn
    <3> QED
      BY <1>3, <3>1, <3>2
  <2> QED
    BY <2>1, CalmElsewhere
<1>4. CASE ListDoomed \/ DeletePod
  <2>1. pass'.pc = "delete"
    BY <1>1, <1>4 DEF ListDoomed, DeletePod, GoesOn, At, Passes
  <2> QED
    BY <2>1, CalmElsewhere
<1> QED
  BY <1>3, <1>4

\* ensureWorkerPodGroup leaves a group that needs nothing, or an event of it.
LEMMA CalmGroup ==
  ASSUME MovesInv, RankInv, NEW v, v = pass.job, CreateGroup \/ ClearPlan \/ KeepGroup
  PROVE  CalmPass(v)
<1> SUFFICES ASSUME ~todo' PROVE CalmPass(v)
  BY DEF CalmPass
<1>1. pass \in Passes /\ v \in JobVersion /\ ObjectsOK
  BY DEF MovesInv, TypeOK, Passes
<1>2. OwnGroup = Group(v.attempt) /\ OwnGroup \in Groups /\ OwnGroup \in Objects
      /\ Versions(OwnGroup) = GroupVersion
  BY <1>1, Names, Kinds DEF OwnGroup, JobVersion
<1>3. pass.rank = 0 /\ pass' = [pass EXCEPT !.pc = "pods"]
  BY DEF CreateGroup, ClearPlan, KeepGroup, FindsGroup, At, RankInv, GoesOn, Errs
<1>4. pass'.pc = "pods" /\ pass'.rank = 0
  BY <1>1, <1>3 DEF Passes
<1>5. GroupSeen(v)'
  <2>1. CASE KeepGroup
    <3>1. cache' = cache /\ watch' = watch
      BY <2>1 DEF KeepGroup, Reads, objects
    <3>2. /\ cache[OwnGroup].exists
          /\ v.phase = "Starting" => ~cache[OwnGroup].failed
          /\ v.phase = "Running" => ~cache[OwnGroup].preempted /\ ~cache[OwnGroup].plan
      BY <2>1 DEF KeepGroup, FindsGroup, GangTimedOut, WasPreempted, HasUsedPlan
    <3> QED
      BY <1>2, <3>1, <3>2 DEF GroupSeen
  <2>2. CASE CreateGroup \/ ClearPlan
    <3>1. [cache[OwnGroup] EXCEPT !.plan = FALSE] \in GroupVersion
      <4>1. cache[OwnGroup] \in GroupVersion
        BY <1>1, <1>2 DEF ObjectsOK
      <4> QED
        BY <4>1 DEF GroupVersion
    <3>2. \E w \in GroupVersion : Put(OwnGroup, w)
      BY <2>2, <3>1, Blanks DEF CreateGroup, ClearPlan, Errs
    <3>3. PICK w \in GroupVersion : Put(OwnGroup, w)
      BY <3>2
    <3>4. watch'[OwnGroup] = Append(watch[OwnGroup], w) /\ watch[OwnGroup] \in Seq(GroupVersion)
      BY <1>1, <1>2, <3>3, Stored DEF ObjectsOK
    <3>5. watch'[OwnGroup] # << >>
      BY <3>4, AppendFacts
    <3> QED
      BY <1>2, <3>5 DEF GroupSeen
  <2> QED
    BY <2>1, <2>2
<1> QED
  BY <1>4, <1>5 DEF CalmPass, Ranks

\* ensureWorkerPods leaves a pod of every rank it has passed, or an event of it.
LEMMA CalmPods ==
  ASSUME MovesInv, CalmInv, NEW v, v = pass.job, EnsurePod \/ AllEnsured, [Next]_vars
  PROVE  CalmPass(v)
<1> SUFFICES ASSUME ~todo' PROVE CalmPass(v)
  BY DEF CalmPass
<1>1. pass \in Passes /\ v \in JobVersion /\ ObjectsOK /\ pass.rank \in 0 .. WorldSize
  BY DEF MovesInv, TypeOK, Passes
<1>2. At("pods") /\ ~todo
  BY DEF EnsurePod, AllEnsured, GoesOn, Errs
<1>3. /\ GroupSeen(v)'
      /\ \A r \in Ranks : r < pass.rank => PodSeen(Pod(v.attempt, r))'
  <2>1. Frozen
    BY FrozenStep DEF MovesInv
  <2>2. GroupSeen(pass.job)
    BY <1>2 DEF CalmInv, At
  <2>3. GroupSeen(v)
    BY <2>2 DEF GroupSeen
  <2>4. \A r \in Ranks : r < pass.rank => PodSeen(Pod(v.attempt, r))
    BY <1>2 DEF CalmInv
  <2>5. \A r \in Ranks : Pod(v.attempt, r) \in Workers(v.attempt)
    BY <1>1, Names DEF JobVersion
  <2> QED
    BY <1>1, <2>1, <2>3, <2>4, <2>5, SeenKept
<1>4. CASE EnsurePod
  <2>1. pass' = PastRank /\ pass.rank \in Ranks /\ ThisPod = Pod(v.attempt, pass.rank)
    BY <1>1, <1>4, WorkersAssumption DEF EnsurePod, GoesOn, Errs, Ranks, ThisPod
  <2>2. pass'.pc = "pods" /\ pass'.rank = pass.rank + 1
    BY <1>1, <1>2, <2>1 DEF PastRank, Passes, At
  <2>3. ThisPod \in Objects /\ Versions(ThisPod) = PodVersion
    BY <1>1, <2>1, Names, Kinds DEF JobVersion
  <2> DEFINE p == Pod(v.attempt, pass.rank)
  <2>4. watch'[p] # << >> \/ cache'[p].phase # "Absent"
    <3>1. CASE cache[ThisPod].phase # "Absent" /\ UNCHANGED objects
      BY <2>1, <3>1 DEF objects
    <3>2. CASE Put(ThisPod, [phase |-> "Pending", ending |-> FALSE])
      <4>1. [phase |-> "Pending", ending |-> FALSE] \in PodVersion
        BY DEF PodVersion
      <4>2. /\ watch'[ThisPod] = Append(watch[ThisPod], [phase |-> "Pending", ending |-> FALSE])
            /\ watch[ThisPod] \in Seq(PodVersion)
        BY <1>1, <2>3, <3>2, <4>1, Stored DEF ObjectsOK
      <4>3. watch'[ThisPod] # << >>
        BY <4>1, <4>2, AppendFacts
      <4> QED
        BY <2>1, <4>3
    <3> QED
      BY <1>4, <3>1, <3>2 DEF EnsurePod, Errs
  <2>5. \A r \in Ranks : r < pass.rank + 1 => PodSeen(Pod(v.attempt, r))'
    <3> SUFFICES ASSUME NEW r \in Ranks, r < pass.rank + 1
                 PROVE  PodSeen(Pod(v.attempt, r))'
      OBVIOUS
    <3>1. r < pass.rank \/ r = pass.rank
      BY <1>1, Numbers
    <3> QED
      BY <1>3, <2>4, <3>1 DEF PodSeen
  <2> QED
    BY <1>3, <2>2, <2>5 DEF CalmPass
<1>5. CASE AllEnsured
  <2>1. pass' = [pass EXCEPT !.pc = "list"] /\ pass.rank = WorldSize
    BY <1>5 DEF AllEnsured, GoesOn
  <2>2. pass'.pc = "list"
    BY <1>1, <2>1 DEF Passes
  <2>3. \A r \in Ranks : PodSeen(Pod(v.attempt, r))'
    BY <1>3, <2>1, WorkersAssumption DEF Ranks
  <2> QED
    BY <1>3, <2>2, <2>3 DEF CalmPass
<1> QED
  BY <1>4, <1>5

\* What finds nothing to write has found everything as it should be.
LEMMA CalmAggregate ==
  ASSUME MovesInv, CalmInv, NEW v, v = pass.job, Aggregate
  PROVE  CalmPass(v)
<1> SUFFICES ASSUME ~todo' PROVE CalmPass(v)
  BY DEF CalmPass
<1>1. At("list") /\ ~todo /\ v.phase \in TrainActive /\ v.phase # "Preempted"
  BY DEF Aggregate, GoesOn, Ends, MovesInv, PlaceInv, At, TrainActive
<1>2. /\ \A phase, a, rc : Writes(phase, a, rc).pc = "write"
      /\ \A phase, a : Sweeps(phase, a).pc = "sweep"
  BY DEF MovesInv, TypeOK, Writes, Sweeps, Passes
<1>3. CASE pass'.pc \in {"write", "sweep"}
  BY <1>3, CalmElsewhere
<1>4. CASE /\ InPhase(v.attempt, "Failed") = {} /\ nextPhase(v.attempt) = v.phase
           /\ pass' = Idle
  <2>1. store' = store /\ cache' = cache /\ watch' = watch
    BY DEF Aggregate, Reads, objects
  <2>2. GroupSeen(pass.job) /\ \A r \in Ranks : PodSeen(Pod(pass.job.attempt, r))
    BY <1>1 DEF CalmInv, At
  <2>3. GroupSeen(v)
    BY <2>2 DEF GroupSeen
  <2>4. \A p \in Workers(v.attempt) : PodSeen(p)
    BY <2>2 DEF Workers
  <2>5. store[Service].attempt = v.attempt
    BY <1>1 DEF MovesInv, AttemptInv, At
  <2>6. Settled(v)
    BY <1>1, <1>4, <2>3, <2>4, <2>5 DEF Settled
  <2>7. Settled(v)'
    BY <2>1, <2>6 DEF Settled, GroupSeen, PodSeen, InPhase, nextPhase, Listed, Releases
  <2> QED
    BY <1>4, <2>7 DEF CalmPass, Idle
<1> QED
  BY <1>2, <1>3, <1>4 DEF Aggregate, GoesOn, Ends

LEMMA CalmRival ==
  ASSUME MovesInv, NEW v, v = pass.job, CheckRival
  PROVE  CalmPass(v)
<1> SUFFICES ASSUME ~todo' PROVE CalmPass(v)
  BY DEF CalmPass
<1>1. pass \in Passes /\ pass.job.rc \in 0 .. MaxRequeues
      /\ v.phase = "Preempted" /\ v.phase \notin TrainActive
  BY DEF MovesInv, TypeOK, Passes, JobVersion, PlaceInv, CheckRival, At, TrainActive
<1>2. CASE pass' = [pass EXCEPT !.pc = "dropGroup"]
  <2>1. pass'.pc = "dropGroup"
    BY <1>1, <1>2 DEF Passes
  <2> QED
    BY <2>1, CalmElsewhere
<1>3. CASE ~NilPreemptor /\ (MayReturn => pass.job.rc = MaxRequeues) /\ pass' = Idle
  <2>1. cache' = cache
    BY DEF CheckRival, Reads, objects
  <2>2. v.rc < MaxRequeues => /\ cache[Group(v.attempt)].exists
                              /\ cache[Group(v.attempt)].preempted
                              /\ ~Releases(cache[Rival])
    BY <1>1, <1>3, WorkersAssumption DEF NilPreemptor, MayReturn, OwnGroup
  <2>3. Settled(v)'
    BY <1>1, <2>1, <2>2 DEF Settled, Releases
  <2> QED
    BY <1>3, <2>3 DEF CalmPass, Idle
<1> QED
  BY <1>2, <1>3 DEF CheckRival, GoesOn, Ends, Errs

LEMMA CalmWrite ==
  ASSUME MovesInv, NEW v, WriteStatus
  PROVE  CalmPass(v)
<1> SUFFICES ASSUME ~todo' PROVE CalmPass(v)
  BY DEF CalmPass
<1>1. Put(TheJob, pass.next) /\ pass' = Idle
  BY DEF WriteStatus, Ends, Errs
<1>2. pass.next \in JobVersion /\ ObjectsOK
  BY DEF MovesInv, TypeOK, Passes
<1>3. /\ watch'[TheJob] = Append(watch[TheJob], pass.next)
      /\ watch[TheJob] \in Seq(JobVersion)
  BY <1>1, <1>2, Stored, Kinds DEF ObjectsOK
<1>4. watch'[TheJob] # << >>
  BY <1>2, <1>3, AppendFacts
<1> QED
  BY <1>1, <1>4 DEF CalmPass, Idle

LEMMA CalmStep == MovesInv /\ RankInv /\ CalmInv /\ [Next]_vars => CalmInv'
<1> SUFFICES ASSUME MovesInv, RankInv, CalmInv, [Next]_vars PROVE CalmInv'
  OBVIOUS
<1>1. CASE Begin
  BY <1>1, CalmBegin
<1>2. CASE Reconcile /\ ~Begin
  <2> DEFINE job == pass.job
  <2>1. ASSUME NEW v, v = pass.job PROVE CalmPass(v)
    BY <1>2, <2>1, CalmMoves, CalmGroup, CalmPods, CalmAggregate, CalmRival, CalmWrite
    DEF Reconcile
  <2>2. PICK v : v = pass.job
    OBVIOUS
  <2> QED
    BY <1>2, <2>1, <2>2, CalmPassKeeps
<1>3. CASE Outside
  BY <1>3, CalmOutside
<1> QED
  BY <1>1, <1>2, <1>3 DEF Next, Outside

-----------------------------------------------------------------------------
(* The invariant *)

\* The inductive invariant of TrainWorkers holds in every state.
THEOREM InvariantHolds == Spec => []WorkersInv
<1>1. Init => MovesInv /\ RankInv /\ CalmInv
  BY MovesInit DEF Init, RankInv, CalmInv, Idle
<1>2. MovesInv /\ RankInv /\ CalmInv /\ [Next]_vars => (MovesInv /\ RankInv /\ CalmInv)'
  BY MovesStep, RankStep, CalmStep DEF MovesInv
<1>3. MovesInv /\ RankInv /\ CalmInv => WorkersInv
  BY DEF MovesInv, WorkersInv
<1> QED
  BY <1>1, <1>2, <1>3, PTL DEF Spec

-----------------------------------------------------------------------------
(* The settled state *)

\* An attempt has WorldSize workers.
LEMMA WorkersCount ==
  ASSUME NEW a
  PROVE  IsFiniteSet(Workers(a)) /\ Cardinality(Workers(a)) = WorldSize
<1> DEFINE f == [r \in Ranks |-> Pod(a, r)]
<1>1. IsFiniteSet(Ranks) /\ Cardinality(Ranks) = WorldSize
  <2>1. WorldSize \in Nat
    BY WorkersAssumption
  <2>2. IsFiniteSet(0 .. WorldSize - 1)
    BY <2>1, FS_Interval
  <2>3. Cardinality(0 .. WorldSize - 1) = IF 0 > WorldSize - 1 THEN 0 ELSE WorldSize - 1 - 0 + 1
    BY <2>1, FS_Interval
  <2> QED
    BY <2>1, <2>2, <2>3 DEF Ranks
<1>2. f \in Bijection(Ranks, Workers(a))
  <2>1. f \in [Ranks -> Workers(a)]
    BY DEF Workers
  <2>2. \A r, s \in Ranks : f[r] = f[s] => r = s
    BY Names
  <2>3. \A p \in Workers(a) : \E r \in Ranks : f[r] = p
    BY DEF Workers
  <2> QED
    BY <2>1, <2>2, <2>3 DEF Bijection, Injection, Surjection, IsInjective
<1> QED
  BY <1>1, <1>2, FS_Bijection DEF ExistsBijection

\* When all workers are there and none has failed, nextPhase says whether one
\* of them is still to come up, and whether all have succeeded.
LEMMA NextPhaseTells ==
  ASSUME ObjectsOK, NEW a \in Attempts,
         \A p \in Workers(a) : cache[p].phase # "Absent", InPhase(a, "Failed") = {}
  PROVE  /\ nextPhase(a) = "Succeeded" <=> \A p \in Workers(a) : cache[p].phase = "Succeeded"
         /\ nextPhase(a) # "Succeeded" =>
              (nextPhase(a) = "Starting" <=> \E p \in Workers(a) : cache[p].phase = "Pending")
<1> DEFINE W == Workers(a)
           S == InPhase(a, "Succeeded")
           R == InPhase(a, "Running")
<1>1. Listed(a) = W
  BY DEF Listed
<1>2. /\ S = {p \in W : cache[p].phase = "Succeeded"}
      /\ R = {p \in W : cache[p].phase = "Running"}
      /\ \A p \in W : cache[p].phase # "Failed"
  BY <1>1 DEF InPhase
<1>3. \A p \in W : cache[p].phase \in {"Pending", "Running", "Succeeded"}
  <2> SUFFICES ASSUME NEW p \in W PROVE cache[p].phase \in {"Pending", "Running", "Succeeded"}
    OBVIOUS
  <2>1. cache[p] \in PodVersion
    BY Names, Kinds DEF ObjectsOK
  <2> QED
    BY <1>2, <2>1 DEF PodVersion
<1>4. IsFiniteSet(W) /\ Cardinality(W) = WorldSize /\ WorldSize \in Nat
  BY WorkersCount, WorkersAssumption
<1>5. S \in SUBSET W /\ R \in SUBSET W /\ (S \cup R) \in SUBSET W /\ S \cap R = {}
  BY <1>2
<1>6. IsFiniteSet(S) /\ IsFiniteSet(R)
  BY <1>4, <1>5, FS_Subset
<1>7. /\ Cardinality(S) \in Nat /\ Cardinality(R) \in Nat
      /\ Cardinality(S \cup R) = Cardinality(S) + Cardinality(R)
  <2>1. Cardinality(S) \in Nat /\ Cardinality(R) \in Nat
    BY <1>6, FS_CardinalityType
  <2>2. Cardinality(S \cup R) = Cardinality(S) + Cardinality(R) - Cardinality(S \cap R)
    BY <1>6, FS_Union
  <2>3. Cardinality(S \cap R) = 0
    BY <1>5, FS_EmptySet
  <2> HIDE DEF S, R
  <2> QED
    BY <2>1, <2>2, <2>3
<1>8. /\ Cardinality(S) = WorldSize <=> S = W
      /\ Cardinality(S \cup R) <= WorldSize
      /\ Cardinality(S \cup R) = WorldSize <=> S \cup R = W
  BY <1>4, <1>5, FS_Subset
<1>9. nextPhase(a) = IF Cardinality(S) = WorldSize THEN "Succeeded"
                     ELSE IF Cardinality(R) + Cardinality(S) < WorldSize THEN "Starting"
                     ELSE "Running"
  BY <1>1, <1>4 DEF nextPhase
<1>10. nextPhase(a) = IF S = W THEN "Succeeded"
                      ELSE IF S \cup R # W THEN "Starting" ELSE "Running"
  BY <1>4, <1>7, <1>8, <1>9
<1>11. (S = W) <=> \A p \in W : cache[p].phase = "Succeeded"
  BY <1>2
<1>12. (S \cup R # W) <=> \E p \in W : cache[p].phase = "Pending"
  BY <1>2, <1>3
<1> HIDE DEF S, R, W
<1> QED
  BY <1>10, <1>11, <1>12 DEF W

\* When nothing is on its way, a pass over the cache is a pass over the store,
\* and it would change nothing.
LEMMA SettledStore ==
  ASSUME WorkersInv, Quiescent
  PROVE  /\ \A o \in Objects : cache[o] = store[o]
         /\ Job \in JobVersion
         /\ Job.phase \in TrainActive =>
              /\ store[Service].attempt = Job.attempt
              /\ GroupSeen(Job)
              /\ \A p \in Workers(Job.attempt) : cache[p].phase # "Absent"
              /\ InPhase(Job.attempt, "Failed") = {}
              /\ nextPhase(Job.attempt) = Job.phase
         /\ Job.phase = "Preempted" /\ Job.rc < MaxRequeues =>
              cache[Group(Job.attempt)].exists /\ ~Releases(cache[Rival])
<1>1. \A o \in Objects : cache[o] = store[o] /\ watch[o] = << >>
  BY DEF WorkersInv, WatchInv, Quiescent
<1>2. cache[TheJob] = Job /\ Job \in JobVersion
  BY <1>1, Kinds DEF Job, WorkersInv, TypeOK, ObjectsOK
<1>3. Settled(Job)
  <2>1. Settled(cache[TheJob])
    BY <1>1, Kinds DEF WorkersInv, CalmInv, Quiescent
  <2> QED
    BY <1>2, <2>1
<1>4. \A p \in Workers(Job.attempt) : p \in Objects
  BY <1>2, Names, Kinds DEF JobVersion
<1> QED
  BY <1>1, <1>2, <1>3, <1>4 DEF Settled, PodSeen

\* When everything is delivered and served, the service selects the attempt
\* whose workers run, and what the scheduler said of the group has been acted
\* upon.
THEOREM GroupSettles == Spec => []SettledGroup
<1>1. ASSUME WorkersInv, Quiescent, Job.phase \in TrainActive
      PROVE  LET group == store[Group(Job.attempt)]
             IN  /\ store[Service].attempt = Job.attempt
                 /\ group.exists
                 /\ Job.phase = "Starting" => ~group.failed
                 /\ Job.phase = "Running" => ~group.preempted /\ ~group.plan
  <2>1. Group(Job.attempt) \in Objects
    BY <1>1, SettledStore, Names, Kinds DEF JobVersion
  <2> QED
    BY <1>1, <2>1, SettledStore DEF GroupSeen, Quiescent
<1>2. WorkersInv => SettledGroup
  BY <1>1 DEF SettledGroup
<1> QED
  BY <1>2, InvariantHolds, PTL

\* When everything is delivered and served, the status tells the truth about
\* the workers, whatever was missed, refused or done twice on the way.
THEOREM StatusSettles == Spec => []SettledStatus
<1>1. ASSUME WorkersInv, Quiescent, Job.phase \in TrainActive
      PROVE  LET phases == {store[p].phase : p \in Workers(Job.attempt)}
             IN  /\ phases \subseteq {"Pending", "Running", "Succeeded"}
                 /\ Job.phase = IF "Pending" \in phases THEN "Starting" ELSE "Running"
                 /\ phases # {"Succeeded"}
  <2> DEFINE a == Job.attempt
             phases == {store[p].phase : p \in Workers(a)}
  <2>1. a \in Attempts /\ ObjectsOK
    BY <1>1, SettledStore DEF JobVersion, WorkersInv, TypeOK
  <2>2. \A p \in Workers(a) : p \in Objects /\ cache[p] = store[p]
                              /\ store[p] \in PodVersion
    BY <1>1, <2>1, SettledStore, Names, Kinds DEF ObjectsOK
  <2>3. /\ \A p \in Workers(a) : cache[p].phase # "Absent"
        /\ InPhase(a, "Failed") = {} /\ nextPhase(a) = Job.phase
    BY <1>1, SettledStore
  <2>4. \A p \in Workers(a) : store[p].phase \in {"Pending", "Running", "Succeeded"}
    BY <2>2, <2>3 DEF InPhase, Listed, PodVersion
  <2>5. Job.phase # "Succeeded"
    BY <1>1 DEF TrainActive
  <2>6. /\ ~\A p \in Workers(a) : store[p].phase = "Succeeded"
        /\ nextPhase(a) = "Starting" <=> \E p \in Workers(a) : store[p].phase = "Pending"
    BY <2>1, <2>2, <2>3, <2>5, NextPhaseTells
  <2>7. nextPhase(a) \in {"Starting", "Running"}
    BY <2>3, <2>5, Judgements
  <2> QED
    BY <2>3, <2>4, <2>6, <2>7
<1>2. ASSUME WorkersInv, Quiescent, Job.phase = "Preempted", Job.rc < MaxRequeues
      PROVE  store[Group(Job.attempt)].exists /\ ~Releases(store[Rival])
  <2>1. Group(Job.attempt) \in Objects
    BY <1>2, SettledStore, Names, Kinds DEF JobVersion
  <2> QED
    BY <1>2, <2>1, SettledStore, Kinds
<1>3. WorkersInv => SettledStatus
  BY <1>1, <1>2 DEF SettledStatus
<1> QED
  BY <1>3, InvariantHolds, PTL

==========================================================================
