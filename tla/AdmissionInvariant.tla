----------------------- MODULE AdmissionInvariant -----------------------
(***************************************************************************)
(* The inductive invariants behind OneEntryPerJob (SingleInv), behind      *)
(* NoLostWakeup and UsedIsClean (CalmInv), behind HoldingFitsQuota         *)
(* (QuotaInv) and, for queues whose job names are not reused               *)
(* (MaxLives <= 1), behind AdmittedIsReserved.                             *)
(*                                                                         *)
(* The idea of the last: while a job is alive, every copy of it that the   *)
(* controllers may still act on is either alive and of no later round, or  *)
(* dates from before its creation, and then no entry of it exists          *)
(* anywhere.  So no clean-up, however stale its lists, can drop the entry  *)
(* of the job's current round once a Queue pass has made it.               *)
(***************************************************************************)
EXTENDS QueueAdmission

\* No job has two entries in a Used list.
Single(used) ==
  \A e, f \in Entry :
    e.job = f.job /\ used[e] > 0 /\ used[f] > 0 => e = f /\ used[e] = 1

\* A Used list within the quota.
Within(used) == \A r \in Resources : Reserved(used, r) <= Quota[r]

\* Every copy of the Used list that may be written back is such a list.
EveryCopy(Good(_)) ==
  /\ Good(queue.used) /\ Good(qcache.used) /\ Good(qw.used)
  /\ \A n \in DOMAIN qwatch : Good(qwatch[n].used)

\* No copy has doubles.  Does not depend on MaxLives.
SingleInv == EveryCopy(Single)

\* The Queue worker never promises more than the quota, in no copy of the Used
\* list it may read again or write back.  Does not depend on MaxLives.
QuotaInv == EveryCopy(Within)

-----------------------------------------------------------------------------

Holding == TrainHolding \cup InferenceHolding

Alive(v) == v.phase \notin {"Absent"} \cup TrainTerminal

\* The entry of j's current round.
Current(j) == EntryOf(j, store)

-----------------------------------------------------------------------------

\* The last version still to be delivered is the stored one, and when nothing
\* is to be delivered the cache holds it.
WatchInv ==
  /\ \A j \in Jobs :
       store[j] = IF watch[j] = << >> THEN cache[j] ELSE watch[j][Len(watch[j])]
  /\ queue = IF qwatch = << >> THEN qcache ELSE qwatch[Len(qwatch)]

\* Before the queue exists there is no version of it anywhere.
NoQueueInv ==
  ~queue.exists => queue = NoQueue /\ qcache = NoQueue /\ qwatch = << >> /\ qw = NoPass

\* Before a job's first life there is no trace of it.
UnbornInv ==
  \A j \in Jobs : lives[j] = 0 =>
    /\ store[j] = NoJob /\ cache[j] = NoJob /\ watch[j] = << >>
    /\ qw.list[j] = NoJob
    /\ ~HasEntry(queue.used, j) /\ ~HasEntry(qcache.used, j)
    /\ \A n \in DOMAIN qwatch : ~HasEntry(qwatch[n].used, j)
    /\ ~HasEntry(qw.used, j)

\* Copies of a living job are alive and not ahead of it, except for those made
\* before its creation.
CopyInv ==
  \A j \in Jobs : Alive(store[j]) =>
    /\ \A n \in DOMAIN watch[j] :
         Alive(watch[j][n]) /\ watch[j][n].rc <= store[j].rc
    /\ cache[j].phase # "Absent" =>
         Alive(cache[j]) /\ cache[j].rc <= store[j].rc
    /\ qw.list[j].phase # "Absent" =>
         Alive(qw.list[j]) /\ qw.list[j].rc <= store[j].rc

\* While the creation of a living job is not in the cache, no pass has seen it.
UnseenInv ==
  \A j \in Jobs : Alive(store[j]) /\ cache[j].phase = "Absent" =>
    /\ qw.list[j].phase = "Absent"
    /\ ~HasEntry(queue.used, j) /\ ~HasEntry(qcache.used, j)
    /\ \A n \in DOMAIN qwatch : ~HasEntry(qwatch[n].used, j)
    /\ ~HasEntry(qw.used, j)

\* A train job missing from the list a pass has read has no entry in the Used
\* list that pass read before.
ListInv ==
  \A j \in TrainJobs :
    Alive(store[j]) /\ qw.pc = "listInference" /\ qw.list[j].phase = "Absent"
      => ~HasEntry(qw.used, j)

\* Where the Queue worker keeps no list, it holds none.
IdleListInv ==
  /\ qw.pc \in {"idle", "listTrain", "write"} => qw.list = NoJobs
  /\ qw.pc = "idle" => qw = NoPass

\* No entry is of a later round than its job.
RoundInv ==
  \A j \in Jobs, e \in Entry : Alive(store[j]) /\ e.job = j =>
    /\ (queue.used[e] > 0 \/ qcache.used[e] > 0 \/ qw.used[e] > 0)
         => e.rc <= store[j].rc
    /\ \A n \in DOMAIN qwatch : qwatch[n].used[e] > 0 => e.rc <= store[j].rc

\* The entry of a living job's current round, once anyone has seen it, is in
\* the stored Used list and in the list of any pass that may write.
KeptInv ==
  \A j \in Jobs : Alive(store[j]) =>
    /\ qcache.used[Current(j)] > 0 => queue.used[Current(j)] > 0
    /\ \A n \in DOMAIN qwatch :
         qwatch[n].used[Current(j)] > 0 => queue.used[Current(j)] > 0
    /\ (queue.used[Current(j)] > 0 /\ qw.pc # "idle" /\ qw.current)
         => qw.used[Current(j)] > 0

\* What a write that will be accepted does to the job.
Move(v, w) ==
  \/ w = NoJob
  \/ /\ Alive(w) => Alive(v)
     /\ v.rc <= w.rc
     /\ w.phase \in Holding => v.rc = w.rc

\* A plan is for a job that has lived; if its write will be accepted, its move
\* is legal, and it takes a job past admission only on the job's own entry.
GoodPlan(p) ==
  /\ lives[p.job] # 0
  /\ p.current =>
       /\ watch[p.job] = << >>
       /\ Move(store[p.job], p.next)
       /\ p.next.phase \in Holding =>
            \/ store[p.job].phase \in Holding
            \/ queue.used[Current(p.job)] > 0

PlanInv ==
  /\ \A p \in tw : p.job \in TrainJobs
  /\ \A p \in iw : p.job \in InferenceJobs /\ p.next.rc = 0
  /\ \A p \in tw \cup iw : GoodPlan(p)

\* A status write that will be accepted was computed from the cached copy,
\* and that copy was of a living job.  Does not depend on MaxLives.
FreshInv ==
  /\ \A p \in tw :
       /\ p.job \in TrainJobs
       /\ p.current => watch[p.job] = << >> /\ Alive(cache[p.job])
  /\ \A p \in iw : p.job \in InferenceJobs

\* Inference jobs have no rounds.
InferenceRoundInv ==
  \A j \in InferenceJobs :
    /\ store[j].rc = 0 /\ cache[j].rc = 0
    /\ \A n \in DOMAIN watch[j] : watch[j][n].rc = 0

\* What is true of every copy of jobs and Used lists that a controller may
\* still act on, and of every write it has planned, so that a job past
\* admission keeps its reservation.
AdmissionInv ==
  /\ WatchInv /\ NoQueueInv /\ UnbornInv /\ CopyInv /\ UnseenInv
  /\ ListInv /\ IdleListInv /\ RoundInv /\ KeptInv /\ PlanInv
  /\ InferenceRoundInv
  /\ AdmittedIsReserved

-----------------------------------------------------------------------------
(* Why nothing is forgotten: none of this depends on MaxLives. *)

\* The cached queue holds what the controller of j starts a Queued job on.
SeesAdmission(j) == IF j \in TrainJobs THEN Admitted(j) ELSE InferenceAdmitted(j)

\* A job the cache shows both Queued and admitted is about to move: its key is
\* in a work queue, a newer version of it is on its way, or its controller
\* holds a write for it; or it is being deleted and may have to wait for the pod
\* of a predecessor of its name.
WokenInv ==
  \A j \in Jobs : cache[j].phase = "Queued" /\ SeesAdmission(j) =>
    \/ lives[j] > 1 /\ cache[j].fin = "deleting"
    \/ j \in todo
    \/ watch[j] # << >>
    \/ \E p \in tw \cup iw : p.job = j

\* As long as the queue's key is not enqueued again, the Queue worker's pass is
\* over what the caches still show; and when it is idle it has nothing left to
\* do, or is about to hear of its own write.
UpToDateInv ==
  ~qtodo =>
    /\ qw.pc \in {"listTrain", "listInference"} =>
         qcache.exists /\ qw.used = qcache.used
    /\ qw.pc = "listInference" => \A j \in TrainJobs : qw.list[j] = cache[j]
    /\ qw.pc = "idle" =>
         \/ ~qcache.exists
         \/ qwatch # << >>
         \/ qcache.used \in PassResults(qcache.used, cache)

\* Nothing is forgotten: whatever there is to do for a job or for the Queue, a
\* work queue, a watch or a worker holds what will bring it about.
CalmInv == WokenInv /\ UpToDateInv

===========================================================================
