--------------------------- MODULE MCWorkerRegistry ---------------------------
(* Model-checking instance of WorkerRegistry. *)
EXTENDS WorkerRegistry
==============================================================================
