------------------------------- MODULE MCClaims -------------------------------
(* Model-checking instance of DocumentedClaims. *)
EXTENDS DocumentedClaims
==============================================================================
