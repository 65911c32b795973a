----------------------------- MODULE MCJobStore -----------------------------
(* Model-checking instance of JobStore: ids and workers are interchangeable. *)
EXTENDS JobStore, TLC

Interchangeable == Permutations(JobIds) \union Permutations(Workers)
==============================================================================
