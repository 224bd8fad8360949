---------------------------- MODULE MCBrowserManager ----------------------------
EXTENDS BrowserManager, TLC

(* Agents, HTTP threads and process ids are interchangeable. *)
Symmetry == Permutations(Agents) \union Permutations(Callers) \union Permutations(Pids)
==============================================================================
