--------------------------- MODULE DocumentedClaims ---------------------------
(***************************************************************************)
(* What the comments and the decision records of the repository say of the *)
(* job system and the code does not do.  Each claim is checked on its own  *)
(* and TLC shows the run of the service that breaks it.                    *)
(***************************************************************************)
EXTENDS JobSystem

\* docs/adr/0010:102 "cancelling -> cancelled is allowed when cooperative
\* cancellation completes".  An upscale that stops because it was told to
\* raises, and _finalize_job_failure records it as failed.
CooperativeStopIsCancelled ==
  [][\A w \in Workers :
        LET j == MyJob(w)
        IN  pc[w] = "stopped" /\ pc'[w] = "loop" /\ jobs[j].status = "cancelling"
              => jobs'[j].status = "cancelled"]_vars

==============================================================================
