------------------------------ MODULE JobStore ------------------------------
(***************************************************************************)
(* The job store shared by the API process and the workers:                *)
(* LocalJobBackend of app/jobs/local.py.  Every operation takes the file   *)
(* lock, reloads the store file, changes it and writes it back, so each    *)
(* critical section is one action here; an operation made of several       *)
(* sections (request_cancellation) is several actions, and the modules     *)
(* that call it say in which order.                                        *)
(*                                                                         *)
(* In this module the callers are unconstrained: any of them may call any  *)
(* operation at any time with any job and any worker id, so what holds     *)
(* here is what the store guarantees whatever its clients do.              *)
(***************************************************************************)
EXTENDS Lifecycle

CONSTANTS
  JobIds,          \* ids a client may use for a job
  Workers,         \* worker ids
  DevMode,         \* the DEV_MODE environment flag of the API process
  Upgraded,        \* whether the store file was left by an older version
  MaxCreations,    \* bound: how many jobs are ever submitted
  MaxAttempts      \* bound: cancellation attempts of one job

ASSUME NoWorkerAssumption == NoWorker \notin Workers
ASSUME FlagsAssumption == DevMode \in BOOLEAN /\ Upgraded \in BOOLEAN
ASSUME BoundsAssumption == MaxCreations \in Nat /\ MaxAttempts \in Nat

VARIABLES
  jobs,            \* the store: a record per job id, NoRecord for no key
  files,           \* the ids whose output file exists in the output directory
  clock            \* rank of the last created_at handed out

storeVars == <<jobs, files, clock>>

Owners == Workers \union {NoWorker}

-----------------------------------------------------------------------------
Exists(j) == jobs[j].status # "absent"

(***************************************************************************)
(* The guards of _guarded_transition: the job exists, the caller owns it   *)
(* if it named a worker, the state is one the operation accepts, and the   *)
(* lifecycle allows the move (a move to the same state is a refresh).      *)
(***************************************************************************)
Permits_AnyOwner(j, w, from, target) ==
  /\ Exists(j)
  /\ jobs[j].status \in from
  /\ \/ jobs[j].status = target
     \/ CanTransition(jobs[j].status, target)

Permits(j, w, from, target) ==
  /\ Exists(j)
  /\ w = NoWorker \/ jobs[j].worker = w
  /\ jobs[j].status \in from
  /\ \/ jobs[j].status = target
     \/ CanTransition(jobs[j].status, target)

\* Write record r under key j and nothing else.
Put(j, r) ==
  /\ jobs' = [jobs EXCEPT ![j] = r]
  /\ UNCHANGED <<files, clock>>

-----------------------------------------------------------------------------
(* Records older versions left on disk: the "completed" label, a failure   *)
(* that stands for a cancellation, and in-flight records without a worker  *)
(* or a cancel deadline.                                                   *)
LegacyRecords ==
  {[NewRecord(0) EXCEPT !.status = s] : s \in {"queued", "running", "cancelling"}}
    \union {[NewRecord(0) EXCEPT !.status = "completed", !.finished = TRUE],
            [NewRecord(0) EXCEPT !.status = "failed", !.finished = TRUE,
                                 !.error = "Cancelled by user"]}

Init ==
  /\ jobs \in [JobIds -> {NoRecord} \union (IF Upgraded THEN LegacyRecords ELSE {})]
  /\ files \in SUBSET (IF Upgraded THEN JobIds ELSE {})
  /\ clock = 0

-----------------------------------------------------------------------------
\* create_job: refused when the id is already a key.
CreateJob(j) ==
  /\ ~Exists(j)
  /\ clock < MaxCreations
  /\ clock' = clock + 1
  /\ jobs' = [jobs EXCEPT ![j] = NewRecord(clock + 1)]
  /\ UNCHANGED files

\* claim_next_job takes the oldest queued job.
IsQueued(j) == jobs[j].status = "queued"

OldestQueued(j) ==
  /\ IsQueued(j)
  /\ \A k \in JobIds : IsQueued(k) => jobs[j].created <= jobs[k].created

ClaimJob_Unclaimed(j, w) ==
  /\ jobs[j].status \in {"queued", "claimed"}
  /\ Put(j, [jobs[j] EXCEPT !.status = "claimed", !.worker = w])

ClaimJob(j, w) ==
  /\ OldestQueued(j)
  /\ Put(j, [jobs[j] EXCEPT !.status = "claimed", !.worker = w])

MarkRunning(j, w) ==
  /\ Permits(j, w, {"claimed"}, "running")
  /\ Put(j, [jobs[j] EXCEPT !.status = "running", !.error = "none"])

MarkSucceeded(j, w) ==
  /\ Permits(j, w, {"running"}, "succeeded")
  /\ Put(j, [jobs[j] EXCEPT !.status = "succeeded", !.finished = TRUE,
                            !.error = "none"])

MarkFailed_AnyState(j, w) ==
  /\ Exists(j)
  /\ jobs[j].worker = w
  /\ Put(j, [jobs[j] EXCEPT !.status = "failed", !.finished = TRUE,
                            !.error = "engine_error"])

MarkFailed(j, w) ==
  /\ Permits(j, w, {"claimed", "running", "cancelling"}, "failed")
  /\ Put(j, [jobs[j] EXCEPT !.status = "failed", !.finished = TRUE,
                            !.error = "engine_error"])

-----------------------------------------------------------------------------
(* request_cancellation is four guarded transitions tried in turn, each in *)
(* a critical section of its own; the first one only with finished=True.   *)
(* CancelQueued is also the whole of cancel_queued_job.                    *)
Cancelled(r) ==
  [r EXCEPT !.status = "cancelled", !.finished = TRUE, !.error = "none"]

CancelFinished(j, w) ==
  /\ Permits(j, w, {"cancelling"}, "cancelled")
  /\ Put(j, Cancelled(jobs[j]))

CancelQueued_Running(j) ==
  /\ jobs[j].status \in {"queued", "running"}
  /\ Put(j, Cancelled(jobs[j]))

CancelQueued(j) ==
  /\ Permits(j, NoWorker, {"queued"}, "cancelled")
  /\ Put(j, Cancelled(jobs[j]))

CancelClaimed(j, w) ==
  /\ Permits(j, w, {"claimed"}, "cancelled")
  /\ Put(j, Cancelled(jobs[j]))

CancelRunning(j, w) ==
  /\ Permits(j, w, {"running"}, "cancelling")
  /\ Put(j, BeginCancellation(jobs[j]))

EscalateJob(j, w) ==
  /\ Permits(j, w, {"cancelling"}, "cancelling")
  /\ jobs[j].attempt < MaxAttempts
  /\ Put(j, EscalateCancellation(jobs[j]))

\* retry_timed_out_cancellation writes around _guarded_transition.
Reopened(r) ==
  EscalateCancellation([r EXCEPT !.status = "cancelling", !.finished = FALSE,
                                 !.error = "none", !.code = "none"])

RetryTimedOut_KeepsCode(j, w) ==
  /\ jobs[j].status = "failed"
  /\ jobs[j].code = "cancel_timeout"
  /\ jobs[j].worker = w
  /\ jobs[j].attempt < MaxAttempts
  /\ Put(j, [Reopened(jobs[j]) EXCEPT !.code = "cancel_timeout"])

RetryTimedOut(j, w) ==
  /\ jobs[j].status = "failed"
  /\ jobs[j].code = "cancel_timeout"
  /\ jobs[j].worker = w
  /\ jobs[j].attempt < MaxAttempts
  /\ Put(j, Reopened(jobs[j]))

TimedOut_OtherCode(r) ==
  [r EXCEPT !.status = "failed", !.finished = TRUE,
            !.error = "cancel_timeout", !.code = "timeout"]

TimedOut(r) ==
  [r EXCEPT !.status = "failed", !.finished = TRUE,
            !.error = "cancel_timeout", !.code = "cancel_timeout"]

FinalizeTimeout(j, w) ==
  /\ Permits(j, w, {"cancelling"}, "failed")
  /\ Put(j, TimedOut(jobs[j]))

\* recover_overdue_cancellation: no owner check, and an output file counts
\* as success.
RecoverOverdue_Inverted(j) ==
  /\ jobs[j].status = "cancelling"
  /\ IF j \notin files
     THEN Put(j, [jobs[j] EXCEPT !.status = "succeeded", !.finished = TRUE,
                                 !.error = "none", !.code = "none"])
     ELSE Put(j, TimedOut(jobs[j]))
RecoverOverdue(j) ==
  /\ jobs[j].status = "cancelling"
  /\ IF j \in files
     THEN Put(j, [jobs[j] EXCEPT !.status = "succeeded", !.finished = TRUE,
                                 !.error = "none", !.code = "none"])
     ELSE Put(j, TimedOut(jobs[j]))

-----------------------------------------------------------------------------
\* delete_failed_jobs; an artifact whose removal fails is left behind.
DeleteFailed_AllTerminal ==
  LET doomed == {j \in JobIds : jobs[j].status \in TerminalStates}
  IN  /\ doomed # {}
      /\ jobs' = [j \in JobIds |-> IF j \in doomed THEN NoRecord ELSE jobs[j]]
      /\ \E removed \in SUBSET (doomed \intersect files) :
            files' = files \ removed
      /\ UNCHANGED clock

DeleteFailed ==
  LET doomed == {j \in JobIds : jobs[j].status \in {"failed", "cancelled"}}
  IN  /\ doomed # {}
      /\ jobs' = [j \in JobIds |-> IF j \in doomed THEN NoRecord ELSE jobs[j]]
      /\ \E removed \in SUBSET (doomed \intersect files) :
            files' = files \ removed
      /\ UNCHANGED clock

\* restore: run by the API process when it starts.
Restore_Requeue ==
  /\ jobs' = [j \in JobIds |->
                IF jobs[j].status \in {"claimed", "running"}
                THEN NewRecord(jobs[j].created)
                ELSE NormalizeRestored(jobs[j])]
  /\ UNCHANGED <<files, clock>>

Restore ==
  /\ jobs' = [j \in JobIds |-> IF DevMode THEN NormalizeLegacy(jobs[j])
                                          ELSE NormalizeRestored(jobs[j])]
  /\ UNCHANGED <<files, clock>>

-----------------------------------------------------------------------------
(* The environment: an engine writes the output file of a job, and the     *)
(* cancel deadline of a cancelling job goes by.                            *)
WriteOutput(j) ==
  /\ files' = files \union {j}
  /\ UNCHANGED <<jobs, clock>>

DeadlinePasses(j) ==
  /\ jobs[j].status = "cancelling"
  /\ jobs[j].deadline = "pending"
  /\ Put(j, [jobs[j] EXCEPT !.deadline = "elapsed"])

-----------------------------------------------------------------------------
\* The guarded writes a caller makes in the name of w; NoWorker is the
\* caller that gives no worker_id.
CancelStep(j, w) ==
  \/ CancelFinished(j, w)
  \/ CancelClaimed(j, w)
  \/ CancelRunning(j, w)

WorkerStep(j, w) ==
  \/ ClaimJob(j, w)
  \/ MarkRunning(j, w)
  \/ MarkSucceeded(j, w)
  \/ MarkFailed(j, w)
  \/ EscalateJob(j, w)
  \/ RetryTimedOut(j, w)
  \/ FinalizeTimeout(j, w)

JobStep(j) ==
  \/ CreateJob(j)
  \/ CancelQueued(j)
  \/ RecoverOverdue(j)
  \/ WriteOutput(j)
  \/ DeadlinePasses(j)

Next ==
  \/ \E j \in JobIds, w \in Owners : CancelStep(j, w)
  \/ \E j \in JobIds, w \in Workers : WorkerStep(j, w)
  \/ \E j \in JobIds : JobStep(j)
  \/ DeleteFailed
  \/ Restore

Spec == Init /\ [][Next]_storeVars

-----------------------------------------------------------------------------
(***************************************************************************)
(* Properties.                                                             *)
(***************************************************************************)

\* Types of the store's state.
TypeOK ==
  /\ jobs \in [JobIds -> JobRecord(Owners)]
  /\ files \in SUBSET JobIds
  /\ clock \in Nat

\* The metadata of a record always agrees with its state, whichever of the
\* operations wrote it (several write around _guarded_transition):
\* finished_at is set exactly in a terminal state, an error_code of
\* cancel_timeout is left only on a job whose cancellation failed by timeout
\* (it alone opens the way to a retry), a deleted or queued record names no
\* worker, and a record that is not queued has an owner unless it came from
\* an older version or was cancelled, or failed, before a worker took it.
FinishedIffTerminal(r) ==
  r.status # "absent" =>
    (r.finished <=> r.status \in TerminalStates \union {"completed"})

TimeoutCodeMatches(r) ==
  r.code = "cancel_timeout" <=> (r.status = "failed" /\ r.error = "cancel_timeout")

OwnedInFlight(r) ==
  /\ r.status \in {"absent", "queued"} => r.worker = NoWorker
  /\ r.status = "claimed" => r.worker # NoWorker
  /\ r.status \in {"running", "cancelling"} /\ r.created > 0
       => r.worker # NoWorker

\* A cancelling job of a worker carries what will end it: a mode, an attempt
\* number and a deadline (begin_cancellation, escalate_cancellation).
CancellationArmed(r) ==
  r.status = "cancelling" /\ r.worker # NoWorker
    => r.mode # "none" /\ r.attempt > 0 /\ r.deadline # "none"

RecordsCoherent ==
  \A j \in JobIds :
    /\ FinishedIffTerminal(jobs[j])
    /\ TimeoutCodeMatches(jobs[j])
    /\ OwnedInFlight(jobs[j])
    /\ CancellationArmed(jobs[j])

\* The same job, not a later one under the same id.
SameJob(j) ==
  /\ Exists(j)
  /\ jobs'[j].status # "absent"
  /\ jobs'[j].created = jobs[j].created

\* Whatever its clients call in whatever order, the store moves a job only
\* along the lifecycle graph of lifecycle.py, with three exceptions the code
\* makes: restore fails what was in flight and renames legacy labels, a retry
\* reopens a cancellation that timed out, and recover_overdue_cancellation takes
\* a cancelling job for a success.  It does so by the output file only; that no
\* worker owns the job is for its caller to see to (worker_service.py:559).
LegalMove(r, s) ==
  \/ s.status = r.status
  \/ CanTransition(r.status, s.status)
  \/ r.status \in InflightStates /\ s.status = "failed"
       /\ s.error \in {"restarted", "cancel_timeout"}
  \/ r.status = "completed" /\ s.status = "succeeded"
  \/ r.status = "failed" /\ r.error = "Cancelled by user" /\ s.status = "cancelled"
  \/ r.status = "failed" /\ r.code = "cancel_timeout" /\ s.status = "cancelling"
  \/ r.status = "cancelling" /\ s.status = "succeeded" /\ s.finished

MovesAreLegal ==
  [][\A j \in JobIds : SameJob(j) =>
        /\ LegalMove(jobs[j], jobs'[j])
        /\ jobs[j].status = "cancelling" /\ jobs'[j].status = "succeeded"
             => j \in files]_storeVars

\* A succeeded job is final: no late report, cancellation, restore, timeout or
\* cleanup changes or deletes it, and no store operation removes its output.
SucceededIsFinal ==
  [][\A j \in JobIds : jobs[j].status = "succeeded" =>
        /\ jobs'[j] = jobs[j]
        /\ j \in files => j \in files']_storeVars

\* The worker that claimed a job is its owner for as long as the store knows
\* the job: no timeout, retry, restore or claim hands it to another worker.
OwnerNeverChanges ==
  [][\A j \in JobIds : SameJob(j) /\ jobs[j].worker # NoWorker =>
        jobs'[j].worker = jobs[j].worker]_storeVars

\* Work is handed out at most once: a job that left the queue never returns to
\* it, so no second worker can claim it (ADR 0010: "failed -> queued" and
\* "running -> queued" are not allowed).
NeverRequeued ==
  [][\A j \in JobIds : SameJob(j) /\ jobs[j].status # "queued" =>
        jobs'[j].status # "queued"]_storeVars

-----------------------------------------------------------------------------
(***************************************************************************)
(* The store implements the ledger of JobLedger: every critical section is *)
(* one step of the ledger or none.                                         *)
(***************************************************************************)
PhaseOf(r) ==
  CASE r.status = "absent" -> "absent"
    [] r.status = "queued" -> "waiting"
    [] r.status \in {"claimed", "running", "cancelling"} -> "held"
    [] r.status \in {"succeeded", "completed"} -> "success"
    [] OTHER -> "loss"

Ledger == INSTANCE JobLedger WITH
  phase  <- [j \in JobIds |-> PhaseOf(jobs[j])],
  holder <- [j \in JobIds |-> jobs[j].worker]

\* Whatever its clients do, the store behaves as the ledger: a job is held by
\* the one worker that took it from the queue, a success is final, and only a
\* loss is purged or taken up again, by its own holder.
ImplementsLedger == Ledger!LedgerSpec
==============================================================================
