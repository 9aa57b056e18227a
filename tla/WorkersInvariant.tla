------------------------- MODULE WorkersInvariant -------------------------
(***************************************************************************)
(* The inductive invariant behind the safety properties of TrainWorkers.   *)
(*                                                                         *)
(* Two ideas carry it.  The master service and the job only ever move to   *)
(* later attempts, and the service never to one the cache has not seen: so *)
(* a cached service of the attempt of the pass is the stored one.  And     *)
(* while the key is not in the work queue nothing that wakes the job has   *)
(* reached the cache since the last pass began: so what that pass saw, or  *)
(* wrote, is still seen, or still on its way.                              *)
(***************************************************************************)
EXTENDS TrainWorkers

\* The last version still to be delivered is the stored one, and when nothing
\* is to be delivered the cache holds it.
WatchInv ==
  \A o \in Objects :
    store[o] = IF watch[o] = << >> THEN cache[o] ELSE watch[o][Len(watch[o])]

\* The copies of o are of no earlier attempts than those before them.
InOrder(o) ==
  /\ \A n \in DOMAIN watch[o] : cache[o].attempt <= watch[o][n].attempt
  /\ \A m, n \in DOMAIN watch[o] :
       m <= n => watch[o][m].attempt <= watch[o][n].attempt

\* What one pass may make of a version of the job.
Leads(v, w) ==
  \/ v.phase = "Queued" /\ w.phase = "Starting" /\ w.attempt = v.attempt /\ w.rc = v.rc
  \/ /\ v.phase \in TrainActive /\ w.rc = v.rc /\ w.attempt = v.attempt
     /\ \/ w.phase \in {"Starting", "Running", "Succeeded"}
        \/ w.phase = "Failed" /\ (v.attempt = RetryLimit \/ v.phase = "Starting")
        \/ w.phase = "Preempted" /\ v.phase = "Running"
  \/ /\ v.phase \in TrainActive /\ w.rc = v.rc
     /\ v.attempt < RetryLimit /\ w.attempt = v.attempt + 1
     /\ w.phase = "Retrying"
  \/ /\ v.phase = "Preempted" /\ w.attempt = v.attempt
     /\ w.phase = "Queued" /\ w.rc = v.rc + 1

\* Where a pass is says what it has read and what it is about to write.
PlaceInv ==
  /\ pass.pc \in {"service", "group", "pods", "list"} => pass.job.phase \in TrainActive
  /\ pass.pc \in {"release", "dropGroup"} => pass.job.phase = "Preempted"
  /\ At("dropGroup") => pass.job.rc < MaxRequeues
  /\ pass.pc \in {"sweep", "delete", "write"} => Leads(pass.job, pass.next)

\* A pass whose write will be accepted holds the stored job.
HoldsInv == pass.current => pass.job = Job

\* Job and service move forward, the service never past what a pass has seen;
\* once a pass has ensured it, it is of the attempt of the pass.
AttemptInv ==
  /\ InOrder(TheJob) /\ InOrder(Service)
  /\ store[Service].attempt <= cache[TheJob].attempt
  /\ ~At("idle") => /\ store[Service].attempt <= pass.job.attempt
                    /\ pass.job.attempt <= cache[TheJob].attempt
  /\ pass.pc \in {"group", "pods", "list"} => store[Service].attempt = pass.job.attempt

\* The group of the job's attempt needs nothing done, or an event of it comes.
GroupSeen(job) ==
  LET g == Group(job.attempt)
  IN  \/ watch[g] # << >>
      \/ /\ cache[g].exists
         /\ job.phase = "Starting" => ~cache[g].failed
         /\ job.phase = "Running" => ~cache[g].preempted /\ ~cache[g].plan

\* The pod is there, or an event of it comes.
PodSeen(p) == watch[p] # << >> \/ cache[p].phase # "Absent"

\* A pass over what the cache shows would change nothing.
Settled(job) ==
  /\ job.phase \in TrainActive =>
       /\ store[Service].attempt = job.attempt
       /\ GroupSeen(job)
       /\ \A p \in Workers(job.attempt) : PodSeen(p)
       /\ InPhase(job.attempt, "Failed") = {}
       /\ nextPhase(job.attempt) = job.phase
  /\ job.phase = "Preempted" /\ job.rc < MaxRequeues =>
       /\ cache[Group(job.attempt)].exists /\ cache[Group(job.attempt)].preempted
       /\ ~Releases(cache[Rival])

\* The pods of an attempt are ensured from rank 0 on.
RankInv == pass.pc \in {"service", "group"} => pass.rank = 0

\* While the key is not in the work queue, what the pass has seen still holds,
\* and when it is over nothing is left to do.
CalmInv ==
  ~todo =>
    /\ ~At("idle") => pass.job = cache[TheJob]
    /\ pass.pc \in {"pods", "list"} => GroupSeen(pass.job)
    /\ At("pods") => \A r \in Ranks : r < pass.rank => PodSeen(Pod(pass.job.attempt, r))
    /\ At("list") => \A r \in Ranks : PodSeen(Pod(pass.job.attempt, r))
    /\ At("idle") => watch[TheJob] # << >> \/ Settled(cache[TheJob])

\* What is true of every copy of the objects, of every place in a pass, and of
\* the cache while the key is not in the work queue.
WorkersInv ==
  /\ TypeOK
  /\ WatchInv /\ PlaceInv /\ HoldsInv /\ AttemptInv
  /\ RankInv /\ CalmInv

===========================================================================
