------------------------ MODULE InferenceLifecycle ------------------------
(***************************************************************************)
(* What an InferenceJob promises to whoever watches its status and its     *)
(* finalizer: an abstract specification without pods, caches or passes.    *)
(* InferenceServing implements it, and so does each inference job of       *)
(* QueueAdmission, which leaves the pods open.                             *)
(***************************************************************************)
EXTENDS JobPhases

VARIABLES
  phase,   \* Status.Phase
  fin      \* the finalizer: "none", "set", or "deleting" once it holds up a deletion

lifecycle == <<phase, fin>>

Init == phase = "Absent" /\ fin = "none"

Create ==
  /\ phase = "Absent"
  /\ phase' = "New"
  /\ UNCHANGED fin

\* Nothing happens to the status before the finalizer is in place.
Guard ==
  /\ phase = "New" /\ fin = "none"
  /\ fin' = "set"
  /\ UNCHANGED phase

Moves(from, to) ==
  /\ fin = "set"
  /\ phase \in from /\ phase' \in to \ {phase}
  /\ UNCHANGED fin

Enqueue == Moves({"New"}, {"Queued"})
Admit == Moves({"Queued"}, {"Starting"})
Observe == Moves(InferenceActive, InferencePassPhases(phase))
Clear == Moves({"Failing"}, {"Failed"})

\* Once a deletion is asked for the status no longer moves.
Delete ==
  /\ phase # "Absent" /\ fin = "set"
  /\ fin' = "deleting"
  /\ UNCHANGED phase

Remove ==
  /\ phase # "Absent" /\ fin # "set"
  /\ phase' = "Absent" /\ fin' = "none"

Next ==
  \/ Create \/ Guard \/ Enqueue \/ Admit \/ Observe \/ Clear \/ Delete \/ Remove

Spec == Init /\ [][Next]_lifecycle

==========================================================================
