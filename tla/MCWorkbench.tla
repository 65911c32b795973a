----------------------------- MODULE MCWorkbench -----------------------------
(* Model-checking instance of Workbench. *)
EXTENDS Workbench

\* 1 was created last, as far as the clocks tell; 2 and 3 at the same time.
MCCreatedAt == [j \in Jobs |-> IF j = 1 THEN 2 ELSE 1]
==============================================================================
