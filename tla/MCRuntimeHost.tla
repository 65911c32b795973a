---------------------------- MODULE MCRuntimeHost ----------------------------
(* Model-checking instance of RuntimeHost. *)
EXTENDS RuntimeHost, TLC

Interchangeable == Permutations(Threads) \union Permutations(Identities)
==============================================================================
