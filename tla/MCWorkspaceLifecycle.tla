------------------------ MODULE MCWorkspaceLifecycle ------------------------
(***************************************************************************)
(* Small instances of WorkspaceLifecycle for TLC.                          *)
(***************************************************************************)
EXTENDS WorkspaceLifecycle, TLC

(* Requests, ids, names and port triples of a kind are interchangeable. *)
Symmetry ==
    Permutations(Creators) \union Permutations(Ids) \union Permutations(Ports)
        \union Permutations(Names)
==============================================================================
