-------------------------- MODULE WorkspaceRegistry --------------------------
(***************************************************************************)
(* What the workspace_creations table promises to the rest of the gateway, *)
(* with no request, retry or container in sight: a name is claimed for one *)
(* freshly drawn workspace id, stays with that id until it is released,    *)
(* and is settled (ready or failed) any number of times in between.        *)
(* WorkspaceLifecycle is shown to implement this specification.            *)
(***************************************************************************)
CONSTANTS
    Names,      \* workspace names: the idempotency keys
    Ids,        \* workspace ids: version 4 UUIDs
    NONE        \* an absent row, name or port

VARIABLES
    entry,      \* what a name stands for: NONE or [id, status]
    claim       \* the name an id was drawn for, NONE while it is undrawn

vars == <<entry, claim>>

Settled == {"ready", "failed"}
Entry == [id: Ids, status: {"creating"} \union Settled]

Init ==
    /\ entry = [n \in Names |-> NONE]
    /\ claim = [i \in Ids |-> NONE]

(* A free name takes an id that no name has ever had. *)
Claim(n, i) ==
    /\ entry[n] = NONE
    /\ claim[i] = NONE
    /\ entry' = [entry EXCEPT ![n] = [id |-> i, status |-> "creating"]]
    /\ claim' = [claim EXCEPT ![i] = n]

(* A launch or a diagnosis reports its outcome; the id does not change. *)
Settle(n, s) ==
    /\ entry[n] # NONE
    /\ entry' = [entry EXCEPT ![n].status = s]
    /\ UNCHANGED claim

Release(n) ==
    /\ entry[n] # NONE
    /\ entry' = [entry EXCEPT ![n] = NONE]
    /\ UNCHANGED claim

Next ==
    \E n \in Names :
        \/ \E i \in Ids : Claim(n, i)
        \/ \E s \in Settled : Settle(n, s)
        \/ Release(n)

Spec == Init /\ [][Next]_vars
==============================================================================
