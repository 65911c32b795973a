--------------------------- MODULE MCBackendInstall ---------------------------
(* Model-checking instance of BackendInstall. *)
EXTENDS BackendInstall
==============================================================================
