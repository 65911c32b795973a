------------------------------ MODULE Lifecycle ------------------------------
(***************************************************************************)
(* The job lifecycle of the web service: the states of a job record, the   *)
(* legal moves between them, and the functions from record to record that  *)
(* the job store applies when it restores a store file or records a        *)
(* cancellation.  Translated from app/jobs/lifecycle.py and                *)
(* app/cancellation.py.                                                    *)
(*                                                                         *)
(* A record keeps the fields the lifecycle reads or writes.  Times are     *)
(* abstracted: "finished" says whether finished_at is set, "deadline"      *)
(* whether cancel_deadline_at is absent, in the future or in the past, and *)
(* "created" is the rank of created_at.  Error texts are a small set of    *)
(* tags.                                                                   *)
(***************************************************************************)
EXTENDS Naturals

CONSTANT NoWorker           \* the worker_id of a job nobody owns (None)

(***************************************************************************)
(* "absent" is not a state of the code: it stands for an id that is not a  *)
(* key of the store.  "completed" is the label older versions persisted.   *)
(***************************************************************************)
CanonicalStates ==
  {"queued", "claimed", "running", "cancelling",
   "succeeded", "failed", "cancelled"}
TerminalStates == {"succeeded", "failed", "cancelled"}
InflightStates == {"queued", "claimed", "running", "cancelling"}
Statuses == CanonicalStates \union {"absent", "completed"}

AllowedTransitions ==
  [s \in Statuses |->
     CASE s = "queued"     -> {"claimed", "cancelled"}
       [] s = "claimed"    -> {"running", "cancelled", "failed"}
       [] s = "running"    -> {"succeeded", "failed", "cancelling"}
       [] s = "cancelling" -> {"cancelled", "failed"}
       [] OTHER            -> {}]

CanTransition(current, target) == target \in AllowedTransitions[current]

Errors == {"none", "engine_error", "restarted", "cancel_timeout",
           "Cancelled by user"}
ErrorCodes == {"none", "cancel_timeout"}
CancelModes == {"none", "soft", "escalated"}
Deadlines == {"none", "pending", "elapsed"}

\* What the store holds about one job.
JobRecord(Owners) ==
  [status   : Statuses,
   worker   : Owners,
   created  : Nat,
   finished : BOOLEAN,
   error    : Errors,
   code     : ErrorCodes,
   mode     : CancelModes,
   attempt  : Nat,
   deadline : Deadlines]

\* A record as the API submits it (no worker, no outcome), made at rank c.
NewRecord(c) ==
  [status |-> "queued", worker |-> NoWorker, created |-> c,
   finished |-> FALSE, error |-> "none", code |-> "none",
   mode |-> "none", attempt |-> 0, deadline |-> "none"]

NoRecord == [NewRecord(0) EXCEPT !.status = "absent"]

(***************************************************************************)
(* Records read back from disk.                                            *)
(***************************************************************************)
NormalizeLegacy(r) ==
  IF r.status = "completed"
  THEN [r EXCEPT !.status = "succeeded"]
  ELSE IF r.status = "failed" /\ r.error = "Cancelled by user"
       THEN [r EXCEPT !.status = "cancelled", !.error = "none"]
       ELSE r

\* What an in-flight record becomes: the service that ran it is gone.
FailInflight(r) ==
  IF r.status = "cancelling"
  THEN [r EXCEPT !.status = "failed", !.finished = TRUE,
                 !.error = "cancel_timeout", !.code = "cancel_timeout"]
  ELSE [r EXCEPT !.status = "failed", !.finished = TRUE,
                 !.error = "restarted"]

NormalizeRestored(r) ==
  LET n == NormalizeLegacy(r)
  IN  IF n.status \in InflightStates THEN FailInflight(n) ELSE n

(***************************************************************************)
(* Cancellation metadata.                                                  *)
(***************************************************************************)
BeginCancellation(r) ==
  [r EXCEPT !.status = "cancelling", !.mode = "soft", !.attempt = 1,
            !.deadline = "pending"]

EscalateCancellation(r) ==
  [r EXCEPT !.mode = "escalated", !.attempt = @ + 1, !.deadline = "pending"]
==============================================================================
