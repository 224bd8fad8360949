-------------------------- MODULE MCIntegrationTokens --------------------------
EXTENDS IntegrationTokens, TLC

(* Providers of one kind, tokens, and requests that arrive are alike. *)
Symmetry ==
    Permutations(Curated) \union Permutations(Providers \ Curated) \union
    Permutations(Toks) \union Permutations(Requests \ Creators)
==============================================================================
