---------------------------- MODULE MCLifecycleHeal ----------------------------
(***************************************************************************)
(* Two small instances of WorkspaceLifecycle in one run, over one set of   *)
(* constants: a behaviour is of the kind that side names from the start.   *)
(***************************************************************************)
EXTENDS WorkspaceLifecycle, TLC

CONSTANT Healed     \* the names that a diagnosis has to do with

VARIABLE side

SideInit == Init /\ side \in {"retries", "heals"}

(* Retries and dropped attempts over all the names, with deletes that run  *)
(* to their end.  No docker command outlives its request: a late rm would  *)
(* remove what the next attempt has made.                                  *)
Retries ==
    /\ UNCHANGED <<greq, orphans>>
    /\ \A d \in Deleters, n \in Names :
          dreq[d].pc = "row" /\ dreq'[d].pc = "idle" => rows'[n] = NONE \/ rows'[n].id # dreq[d].id

(* Diagnoses beside creates, retried once, and deletes that may be dropped *)
Heals ==
    /\ \A c \in Creators : creq'[c].name \in Healed \union {NONE}

SideNext ==
    /\ Next /\ UNCHANGED side
    /\ (side = "retries" /\ Retries) \/ (side = "heals" /\ Heals)

SideSpec == SideInit /\ [][SideNext]_<<side, vars>>

(* It does not hold beside a diagnosis. *)
RetriedIsBacked == side = "retries" => ReadyIsBacked

Symmetry == Permutations(Ids) \union Permutations(Ports)
==============================================================================
