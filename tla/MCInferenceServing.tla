------------------------ MODULE MCInferenceServing ------------------------
(***************************************************************************)
(* Values for the constants of InferenceServing: how many mishaps of each  *)
(* kind a run allows.                                                      *)
(***************************************************************************)
EXTENDS ServingInvariant

CONSTANTS Restarts, ApiErrors, Evictions, ContainerCrashes, Unreadies, Deletions, Creations

MCBudget ==
  [m \in Mishaps |->
     CASE m = "crash" -> Restarts [] m = "apiError" -> ApiErrors
       [] m = "eviction" -> Evictions [] m = "podCrash" -> ContainerCrashes
       [] m = "unready" -> Unreadies [] m = "delete" -> Deletions
       [] m = "create" -> Creations]

=========================================================================
