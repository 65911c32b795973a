----------------------------- MODULE MCJobSystem -----------------------------
(* Model-checking instance of JobSystem. *)
EXTENDS JobSystem, TLC

\* Generate ids are interchangeable, and so are workers and handlers.
Interchangeable ==
  Permutations(JobIds \ UpscaleIds) \union Permutations(Workers)
    \union Permutations(Handlers)
==============================================================================
