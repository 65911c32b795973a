------------------------------ MODULE MCStoreFile ------------------------------
(* Model-checking instance of StoreFile. *)
EXTENDS StoreFile
==============================================================================
