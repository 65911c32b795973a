------------------------------ MODULE JobSystemProofs ------------------------------
(***************************************************************************)
(* Theorems about JobStore and JobSystem, for any number of jobs, workers  *)
(* and request threads and any bounds.                                     *)
(*                                                                         *)
(* Part 1, the store: the inductive invariant is TypeOK together with      *)
(* RecordsCoherent; the action properties and the implementation of        *)
(* JobLedger rest on it.                                                   *)
(*                                                                         *)
(* Part 2, the service: every step of every process is a step of the store *)
(* or leaves it alone, so the invariant of the store carries over.  On top *)
(* of it SysInv relates what a process remembers of a job, by id, owner    *)
(* and rank, to what the store holds by then.                              *)
(***************************************************************************)
EXTENDS JobSystem, TLAPS

(***************************************************************************)
(* Part 1: the store.                                                      *)
(***************************************************************************)

\* RecordsCoherent, for one record.
Coherent(r) ==
  /\ FinishedIffTerminal(r)
  /\ TimeoutCodeMatches(r)
  /\ OwnedInFlight(r)
  /\ CancellationArmed(r)

Inv == TypeOK /\ RecordsCoherent

GoodRecord(r) == r \in JobRecord(Owners) /\ Coherent(r)

-----------------------------------------------------------------------------
(* The records the operations write are well typed and coherent.           *)

\* A record the invariant speaks of, taken out of the store.
LEMMA StoredIsGood ==
  ASSUME Inv, NEW j \in JobIds
  PROVE  GoodRecord(jobs[j])
BY DEF Inv, TypeOK, RecordsCoherent, GoodRecord, Coherent

\* The invariant is a statement about every record, so an operation that
\* writes one good record preserves it.
LEMMA PutKeepsInv ==
  ASSUME Inv, NEW j \in JobIds, NEW r, GoodRecord(r), Put(j, r)
  PROVE  Inv'
<1>1. TypeOK'
  BY DEF Inv, TypeOK, Put, GoodRecord, storeVars
<1>2. RecordsCoherent'
  BY DEF Inv, TypeOK, RecordsCoherent, Put, GoodRecord, Coherent
<1> QED BY <1>1, <1>2 DEF Inv

\* NewRecord and NoRecord are good.
LEMMA FreshRecordsAreGood ==
  /\ \A c \in Nat : GoodRecord(NewRecord(c))
  /\ GoodRecord(NoRecord)
BY DEF GoodRecord, Coherent, NewRecord, NoRecord, JobRecord, Owners,
       FinishedIffTerminal, TimeoutCodeMatches, OwnedInFlight,
       CancellationArmed, Statuses, CanonicalStates, TerminalStates,
       Errors, ErrorCodes, CancelModes, Deadlines

\* Every record an older version may have left is good.
LEMMA LegacyRecordsAreGood ==
  ASSUME NEW r \in LegacyRecords
  PROVE  GoodRecord(r) /\ r.worker = NoWorker
<1>1. /\ NewRecord(0) \in JobRecord(Owners)
      /\ NewRecord(0).worker = NoWorker
      /\ NewRecord(0).created = 0
      /\ NewRecord(0).finished = FALSE
      /\ NewRecord(0).error = "none"
      /\ NewRecord(0).code = "none"
  BY FreshRecordsAreGood DEF GoodRecord, NewRecord
<1>2. CASE \E s \in {"queued", "running", "cancelling"} :
              r = [NewRecord(0) EXCEPT !.status = s]
  BY <1>1, <1>2 DEF GoodRecord, Coherent, JobRecord,
       FinishedIffTerminal, TimeoutCodeMatches, OwnedInFlight,
       CancellationArmed, Statuses, CanonicalStates, TerminalStates
<1>3. CASE r = [NewRecord(0) EXCEPT !.status = "completed", !.finished = TRUE]
  BY <1>1, <1>3 DEF GoodRecord, Coherent, JobRecord,
       FinishedIffTerminal, TimeoutCodeMatches, OwnedInFlight,
       CancellationArmed, Statuses, CanonicalStates, TerminalStates
<1>4. CASE r = [NewRecord(0) EXCEPT !.status = "failed", !.finished = TRUE,
                                    !.error = "Cancelled by user"]
  BY <1>1, <1>4 DEF GoodRecord, Coherent, JobRecord,
       FinishedIffTerminal, TimeoutCodeMatches, OwnedInFlight,
       CancellationArmed, Statuses, CanonicalStates, TerminalStates, Errors
<1> QED BY <1>2, <1>3, <1>4 DEF LegacyRecords

\* normalize_legacy_record maps good records to good records.
LEMMA NormalizeLegacyIsGood ==
  ASSUME NEW r, GoodRecord(r)
  PROVE  GoodRecord(NormalizeLegacy(r))
BY DEF NormalizeLegacy, GoodRecord, Coherent, JobRecord,
       FinishedIffTerminal, TimeoutCodeMatches, OwnedInFlight,
       CancellationArmed, Statuses, CanonicalStates, TerminalStates,
       Errors, ErrorCodes

\* So does normalize_restored_inflight_record.
LEMMA NormalizeRestoredIsGood ==
  ASSUME NEW r, GoodRecord(r)
  PROVE  GoodRecord(NormalizeRestored(r))
<1>1. ASSUME NEW n, GoodRecord(n), n.status \in InflightStates
      PROVE  GoodRecord(FailInflight(n))
  BY <1>1 DEF FailInflight, InflightStates, GoodRecord, Coherent, JobRecord,
       FinishedIffTerminal, TimeoutCodeMatches, OwnedInFlight,
       CancellationArmed, Statuses, CanonicalStates, TerminalStates,
       Errors, ErrorCodes
<1> QED BY <1>1, NormalizeLegacyIsGood DEF NormalizeRestored

\* begin_cancellation and escalate_cancellation arm the record they are given.
LEMMA BeginIsGood ==
  ASSUME NEW r, GoodRecord(r), r.status = "running"
  PROVE  GoodRecord(BeginCancellation(r))
<1> DEFINE s == BeginCancellation(r)
<1>1. s \in JobRecord(Owners)
  BY DEF GoodRecord, BeginCancellation, JobRecord, Statuses, CanonicalStates,
         CancelModes, Deadlines
<1>2. /\ s.status = "cancelling" /\ s.worker = r.worker /\ s.created = r.created
      /\ s.finished = r.finished /\ s.code = r.code
      /\ s.mode = "soft" /\ s.attempt = 1 /\ s.deadline = "pending"
  BY DEF GoodRecord, BeginCancellation, JobRecord
<1> HIDE DEF s
<1>3. Coherent(s)
  BY <1>2 DEF GoodRecord, Coherent, JobRecord, FinishedIffTerminal,
       TimeoutCodeMatches, OwnedInFlight, CancellationArmed, TerminalStates
<1> QED BY <1>1, <1>3 DEF GoodRecord, s

LEMMA EscalateIsGood ==
  ASSUME NEW r, r \in JobRecord(Owners), r.status = "cancelling",
         ~r.finished, r.code # "cancel_timeout",
         r.created > 0 => r.worker # NoWorker
  PROVE  GoodRecord(EscalateCancellation(r))
<1> DEFINE s == EscalateCancellation(r)
<1>1. r.attempt \in Nat /\ r.attempt + 1 \in Nat /\ r.attempt + 1 > 0
  <2>1. r.attempt \in Nat
    BY DEF JobRecord
  <2> QED BY <2>1
<1>2. s = [r EXCEPT !.mode = "escalated", !.attempt = r.attempt + 1,
                    !.deadline = "pending"]
  BY DEF EscalateCancellation, JobRecord
<1>3. /\ s.status = "cancelling" /\ s.worker = r.worker /\ s.created = r.created
      /\ s.finished = r.finished /\ s.code = r.code
      /\ s.mode = "escalated" /\ s.attempt = r.attempt + 1 /\ s.deadline = "pending"
  BY DEF EscalateCancellation, JobRecord
<1>4. s \in JobRecord(Owners)
  BY <1>1, <1>2 DEF JobRecord, CancelModes, Deadlines
<1> HIDE DEF s
<1>5. Coherent(s)
  BY <1>1, <1>3 DEF Coherent, FinishedIffTerminal,
       TimeoutCodeMatches, OwnedInFlight, CancellationArmed, TerminalStates
<1> QED BY <1>4, <1>5 DEF GoodRecord, s

-----------------------------------------------------------------------------
(* Every operation preserves the invariant.                                *)

LEMMA InitEstablishesInv == Init => Inv
<1> SUFFICES ASSUME Init PROVE Inv
  OBVIOUS
<1>1. jobs \in [JobIds -> {NoRecord} \union LegacyRecords]
  BY DEF Init
<1>2. \A j \in JobIds : GoodRecord(jobs[j])
  BY <1>1, FreshRecordsAreGood, LegacyRecordsAreGood
<1> QED BY <1>1, <1>2 DEF Init, Inv, TypeOK, RecordsCoherent, GoodRecord, Coherent

LEMMA CancelKeepsInv ==
  ASSUME Inv, NEW j \in JobIds, NEW w \in Owners, CancelStep(j, w)
  PROVE  Inv'
<1>1. GoodRecord(jobs[j])
  BY StoredIsGood
<1>2. CASE CancelFinished(j, w)
  <2>1. GoodRecord(Cancelled(jobs[j]))
    BY <1>1, <1>2 DEF CancelFinished, Permits, Cancelled, GoodRecord, Coherent,
         JobRecord, FinishedIffTerminal, TimeoutCodeMatches, OwnedInFlight,
         CancellationArmed, Statuses, CanonicalStates, TerminalStates, Errors
  <2> QED BY <1>2, <2>1, PutKeepsInv DEF CancelFinished
<1>3. CASE CancelClaimed(j, w)
  <2>1. GoodRecord(Cancelled(jobs[j]))
    BY <1>1, <1>3 DEF CancelClaimed, Permits, Cancelled, GoodRecord, Coherent,
         JobRecord, FinishedIffTerminal, TimeoutCodeMatches, OwnedInFlight,
         CancellationArmed, Statuses, CanonicalStates, TerminalStates, Errors
  <2> QED BY <1>3, <2>1, PutKeepsInv DEF CancelClaimed
<1>4. CASE CancelRunning(j, w)
  <2>1. GoodRecord(BeginCancellation(jobs[j]))
    BY <1>1, <1>4, BeginIsGood DEF CancelRunning, Permits
  <2> QED BY <1>4, <2>1, PutKeepsInv DEF CancelRunning
<1> QED BY <1>2, <1>3, <1>4 DEF CancelStep

LEMMA WorkerKeepsInv ==
  ASSUME Inv, NEW j \in JobIds, NEW w \in Workers, WorkerStep(j, w)
  PROVE  Inv'
<1> USE DEF GoodRecord, Coherent, JobRecord, FinishedIffTerminal,
        TimeoutCodeMatches, OwnedInFlight, CancellationArmed, Statuses,
        CanonicalStates, TerminalStates, Errors, ErrorCodes
<1>1. GoodRecord(jobs[j]) /\ w \in Owners /\ w # NoWorker
  BY StoredIsGood, NoWorkerAssumption DEF Owners
<1>2. CASE ClaimJob(j, w)
  <2> DEFINE r == [jobs[j] EXCEPT !.status = "claimed", !.worker = w]
  <2>1. GoodRecord(r)
    BY <1>1, <1>2 DEF ClaimJob, OldestQueued, IsQueued
  <2> QED BY <1>2, <2>1, PutKeepsInv DEF ClaimJob
<1>3. CASE MarkRunning(j, w)
  <2> DEFINE r == [jobs[j] EXCEPT !.status = "running", !.error = "none"]
  <2>1. GoodRecord(r)
    BY <1>1, <1>3 DEF MarkRunning, Permits
  <2> QED BY <1>3, <2>1, PutKeepsInv DEF MarkRunning
<1>4. CASE MarkSucceeded(j, w)
  <2> DEFINE r == [jobs[j] EXCEPT !.status = "succeeded", !.finished = TRUE,
                                  !.error = "none"]
  <2>1. GoodRecord(r)
    BY <1>1, <1>4 DEF MarkSucceeded, Permits
  <2> QED BY <1>4, <2>1, PutKeepsInv DEF MarkSucceeded
<1>5. CASE MarkFailed(j, w)
  <2> DEFINE r == [jobs[j] EXCEPT !.status = "failed", !.finished = TRUE,
                                  !.error = "engine_error"]
  <2>1. GoodRecord(r)
    BY <1>1, <1>5 DEF MarkFailed, Permits
  <2> QED BY <1>5, <2>1, PutKeepsInv DEF MarkFailed
<1>6. CASE EscalateJob(j, w)
  <2>1. GoodRecord(EscalateCancellation(jobs[j]))
    BY <1>1, <1>6, EscalateIsGood DEF EscalateJob, Permits
  <2> QED BY <1>6, <2>1, PutKeepsInv DEF EscalateJob
<1>7. CASE RetryTimedOut(j, w)
  <2> DEFINE r == [jobs[j] EXCEPT !.status = "cancelling", !.finished = FALSE,
                                  !.error = "none", !.code = "none"]
  <2>1. /\ r \in JobRecord(Owners) /\ r.status = "cancelling" /\ ~r.finished
        /\ r.code # "cancel_timeout" /\ r.worker # NoWorker
    BY <1>1, <1>7 DEF RetryTimedOut
  <2>2. GoodRecord(EscalateCancellation(r))
    BY <2>1, EscalateIsGood
  <2>3. GoodRecord(Reopened(jobs[j]))
    BY <2>2 DEF Reopened
  <2> QED BY <1>7, <2>3, PutKeepsInv DEF RetryTimedOut
<1>8. CASE FinalizeTimeout(j, w)
  <2>1. GoodRecord(TimedOut(jobs[j]))
    BY <1>1, <1>8 DEF FinalizeTimeout, Permits, TimedOut
  <2> QED BY <1>8, <2>1, PutKeepsInv DEF FinalizeTimeout
<1> QED BY <1>2, <1>3, <1>4, <1>5, <1>6, <1>7, <1>8 DEF WorkerStep

LEMMA CreateKeepsInv ==
  ASSUME Inv, NEW j \in JobIds, CreateJob(j)
  PROVE  Inv'
<1>1. clock + 1 \in Nat
  BY DEF Inv, TypeOK
<1>2. GoodRecord(NewRecord(clock + 1))
  BY <1>1, FreshRecordsAreGood
<1>3. TypeOK'
  BY <1>1, <1>2 DEF CreateJob, Inv, TypeOK, GoodRecord
<1>4. RecordsCoherent'
  BY <1>2 DEF CreateJob, Inv, TypeOK, RecordsCoherent, GoodRecord, Coherent
<1> QED BY <1>3, <1>4 DEF Inv

LEMMA JobStepKeepsInv ==
  ASSUME Inv, NEW j \in JobIds, JobStep(j)
  PROVE  Inv'
<1> USE DEF GoodRecord, Coherent, JobRecord, FinishedIffTerminal,
        TimeoutCodeMatches, OwnedInFlight, CancellationArmed, Statuses,
        CanonicalStates, TerminalStates, Errors, ErrorCodes
<1>1. GoodRecord(jobs[j])
  BY StoredIsGood
<1>2. CASE CreateJob(j)
  BY <1>2, CreateKeepsInv
<1>3. CASE CancelQueued(j)
  <2>1. GoodRecord(Cancelled(jobs[j]))
    BY <1>1, <1>3 DEF CancelQueued, Permits, Cancelled
  <2> QED BY <1>3, <2>1, PutKeepsInv DEF CancelQueued
<1>4. CASE RecoverOverdue(j)
  <2> DEFINE r == [jobs[j] EXCEPT !.status = "succeeded", !.finished = TRUE,
                                  !.error = "none", !.code = "none"]
  <2>1. GoodRecord(r) /\ GoodRecord(TimedOut(jobs[j]))
    BY <1>1, <1>4 DEF RecoverOverdue, TimedOut
  <2> QED BY <1>4, <2>1, PutKeepsInv DEF RecoverOverdue
<1>5. CASE WriteOutput(j)
  BY <1>5 DEF WriteOutput, Inv, TypeOK, RecordsCoherent
<1>6. CASE DeadlinePasses(j)
  <2> DEFINE r == [jobs[j] EXCEPT !.deadline = "elapsed"]
  <2>1. GoodRecord(r)
    BY <1>1, <1>6 DEF DeadlinePasses, Deadlines
  <2> QED BY <1>6, <2>1, PutKeepsInv DEF DeadlinePasses
<1> QED BY <1>2, <1>3, <1>4, <1>5, <1>6 DEF JobStep

LEMMA DeleteFailedKeepsInv ==
  ASSUME Inv, DeleteFailed
  PROVE  Inv'
<1>1. \A j \in JobIds : GoodRecord(jobs'[j])
  BY StoredIsGood, FreshRecordsAreGood DEF DeleteFailed
<1> QED
  BY <1>1 DEF DeleteFailed, Inv, TypeOK, RecordsCoherent, GoodRecord, Coherent

LEMMA RestoreKeepsInv ==
  ASSUME Inv, Restore
  PROVE  Inv'
<1>1. \A j \in JobIds : GoodRecord(jobs'[j])
  BY StoredIsGood, NormalizeLegacyIsGood, NormalizeRestoredIsGood DEF Restore
<1> QED
  BY <1>1 DEF Restore, Inv, TypeOK, RecordsCoherent, GoodRecord, Coherent

LEMMA NextKeepsInv == Inv /\ [Next]_storeVars => Inv'
<1> SUFFICES ASSUME Inv, [Next]_storeVars PROVE Inv'
  OBVIOUS
<1>1. CASE UNCHANGED storeVars
  BY <1>1 DEF storeVars, Inv, TypeOK, RecordsCoherent
<1>2. CASE Next
  BY <1>2, CancelKeepsInv, WorkerKeepsInv, JobStepKeepsInv,
     DeleteFailedKeepsInv, RestoreKeepsInv DEF Next
<1> QED BY <1>1, <1>2

THEOREM InvHolds == Spec => []Inv
BY InitEstablishesInv, NextKeepsInv, PTL DEF Spec

\* Every record keeps its type, whatever sequence of operations its clients
\* call (app/jobs/local.py).
THEOREM TypeCorrect == Spec => []TypeOK
<1>1. Inv => TypeOK
  BY DEF Inv
<1> QED BY <1>1, InvHolds, PTL

\* The state of a record always agrees with its finished_at, error_code, owner
\* and cancellation metadata, which seven operations of app/jobs/local.py, two
\* of them around _guarded_transition, and the restore write.
THEOREM RecordsStayCoherent == Spec => []RecordsCoherent
<1>1. Inv => RecordsCoherent
  BY DEF Inv
<1> QED BY <1>1, InvHolds, PTL

-----------------------------------------------------------------------------
(* What one step of the store does to one record.                          *)

\* A record is written in place: same owner, same submission, a legal move.
Rewritten(r, s) ==
  /\ r.status \notin {"absent", "succeeded"}
  /\ s.status \notin {"absent", "queued"}
  /\ s.worker = r.worker
  /\ s.created = r.created
  /\ LegalMove(r, s)

Change(r, s) ==
  \/ s = r
  \/ r.status = "absent"
  \/ r.status \in {"failed", "cancelled"} /\ s.status = "absent"
  \/ r.status = "queued" /\ s.status = "claimed" /\ s.created = r.created
  \/ Rewritten(r, s)

LEMMA PutChanges ==
  ASSUME Inv, NEW j \in JobIds, NEW r, Put(j, r), Change(jobs[j], r)
  PROVE  /\ \A k \in JobIds : Change(jobs[k], jobs'[k])
         /\ files' = files
BY DEF Put, Inv, TypeOK, Change

LEMMA CancelChanges ==
  ASSUME Inv, NEW j \in JobIds, NEW w \in Owners, CancelStep(j, w)
  PROVE  /\ \A k \in JobIds : Change(jobs[k], jobs'[k])
         /\ files' = files
<1> USE DEF Change, Rewritten, LegalMove, JobRecord, GoodRecord
<1>1. GoodRecord(jobs[j])
  BY StoredIsGood
<1>2. CASE CancelFinished(j, w)
  <2>1. Change(jobs[j], Cancelled(jobs[j]))
    BY <1>1, <1>2 DEF CancelFinished, Permits, CanTransition, AllowedTransitions,
         Statuses, CanonicalStates, Cancelled
  <2> QED BY <1>2, <2>1, PutChanges DEF CancelFinished
<1>3. CASE CancelClaimed(j, w)
  <2>1. Change(jobs[j], Cancelled(jobs[j]))
    BY <1>1, <1>3 DEF CancelClaimed, Permits, CanTransition, AllowedTransitions,
         Statuses, CanonicalStates, Cancelled
  <2> QED BY <1>3, <2>1, PutChanges DEF CancelClaimed
<1>4. CASE CancelRunning(j, w)
  <2>1. Change(jobs[j], BeginCancellation(jobs[j]))
    BY <1>1, <1>4 DEF CancelRunning, Permits, CanTransition, AllowedTransitions,
         Statuses, CanonicalStates, BeginCancellation
  <2> QED BY <1>4, <2>1, PutChanges DEF CancelRunning
<1> QED BY <1>2, <1>3, <1>4 DEF CancelStep

LEMMA WorkerChanges ==
  ASSUME Inv, NEW j \in JobIds, NEW w \in Workers, WorkerStep(j, w)
  PROVE  /\ \A k \in JobIds : Change(jobs[k], jobs'[k])
         /\ files' = files
<1> USE DEF Change, Rewritten, LegalMove, JobRecord, GoodRecord
<1>1. GoodRecord(jobs[j])
  BY StoredIsGood
<1>2. CASE ClaimJob(j, w)
  <2> DEFINE r == [jobs[j] EXCEPT !.status = "claimed", !.worker = w]
  <2>1. Change(jobs[j], r)
    BY <1>1, <1>2 DEF ClaimJob, OldestQueued, IsQueued
  <2> QED BY <1>2, <2>1, PutChanges DEF ClaimJob
<1>3. CASE MarkRunning(j, w)
  <2> DEFINE r == [jobs[j] EXCEPT !.status = "running", !.error = "none"]
  <2>1. Change(jobs[j], r)
    BY <1>1, <1>3 DEF MarkRunning, Permits, CanTransition, AllowedTransitions,
         Statuses, CanonicalStates
  <2> QED BY <1>3, <2>1, PutChanges DEF MarkRunning
<1>4. CASE MarkSucceeded(j, w)
  <2> DEFINE r == [jobs[j] EXCEPT !.status = "succeeded", !.finished = TRUE,
                                  !.error = "none"]
  <2>1. Change(jobs[j], r)
    BY <1>1, <1>4 DEF MarkSucceeded, Permits, CanTransition, AllowedTransitions,
         Statuses, CanonicalStates
  <2> QED BY <1>4, <2>1, PutChanges DEF MarkSucceeded
<1>5. CASE MarkFailed(j, w)
  <2> DEFINE r == [jobs[j] EXCEPT !.status = "failed", !.finished = TRUE,
                                  !.error = "engine_error"]
  <2>1. Change(jobs[j], r)
    BY <1>1, <1>5 DEF MarkFailed, Permits, CanTransition, AllowedTransitions,
         Statuses, CanonicalStates
  <2> QED BY <1>5, <2>1, PutChanges DEF MarkFailed
<1>6. CASE EscalateJob(j, w)
  <2>1. Change(jobs[j], EscalateCancellation(jobs[j]))
    BY <1>1, <1>6 DEF EscalateJob, Permits, EscalateCancellation
  <2> QED BY <1>6, <2>1, PutChanges DEF EscalateJob
<1>7. CASE RetryTimedOut(j, w)
  <2>1. Change(jobs[j], Reopened(jobs[j]))
    BY <1>1, <1>7 DEF RetryTimedOut, Reopened, EscalateCancellation
  <2> QED BY <1>7, <2>1, PutChanges DEF RetryTimedOut
<1>8. CASE FinalizeTimeout(j, w)
  <2>1. Change(jobs[j], TimedOut(jobs[j]))
    BY <1>1, <1>8 DEF FinalizeTimeout, Permits, TimedOut, InflightStates
  <2> QED BY <1>8, <2>1, PutChanges DEF FinalizeTimeout
<1> QED BY <1>2, <1>3, <1>4, <1>5, <1>6, <1>7, <1>8 DEF WorkerStep

LEMMA JobStepChanges ==
  ASSUME Inv, NEW j \in JobIds, JobStep(j)
  PROVE  /\ \A k \in JobIds : Change(jobs[k], jobs'[k])
         /\ files \subseteq files'
<1> USE DEF Change, Rewritten, LegalMove, JobRecord, GoodRecord
<1>1. GoodRecord(jobs[j])
  BY StoredIsGood
<1>2. CASE CreateJob(j)
  BY <1>2 DEF CreateJob, Exists, Inv, TypeOK
<1>3. CASE CancelQueued(j)
  <2>1. Change(jobs[j], Cancelled(jobs[j]))
    BY <1>1, <1>3 DEF CancelQueued, Permits, CanTransition, AllowedTransitions,
         Statuses, CanonicalStates, Cancelled
  <2> QED BY <1>3, <2>1, PutChanges DEF CancelQueued
<1>4. CASE RecoverOverdue(j)
  <2> DEFINE r == [jobs[j] EXCEPT !.status = "succeeded", !.finished = TRUE,
                                  !.error = "none", !.code = "none"]
  <2>1. Change(jobs[j], r) /\ Change(jobs[j], TimedOut(jobs[j]))
    BY <1>1, <1>4 DEF RecoverOverdue, TimedOut, InflightStates
  <2> QED BY <1>4, <2>1, PutChanges DEF RecoverOverdue
<1>5. CASE WriteOutput(j)
  BY <1>5 DEF WriteOutput
<1>6. CASE DeadlinePasses(j)
  <2> DEFINE r == [jobs[j] EXCEPT !.deadline = "elapsed"]
  <2>1. Change(jobs[j], r)
    BY <1>1, <1>6 DEF DeadlinePasses
  <2> QED BY <1>6, <2>1, PutChanges DEF DeadlinePasses
<1> QED BY <1>2, <1>3, <1>4, <1>5, <1>6 DEF JobStep

\* Both normalizations are legal moves in place.
LEMMA NormalizeChanges ==
  ASSUME NEW r, GoodRecord(r)
  PROVE  Change(r, NormalizeLegacy(r)) /\ Change(r, NormalizeRestored(r))
<1> USE DEF Change, Rewritten, LegalMove, JobRecord, GoodRecord, NormalizeLegacy
<1>1. Change(r, NormalizeLegacy(r))
  OBVIOUS
<1>2. CASE NormalizeLegacy(r).status \in InflightStates
  <2>1. NormalizeLegacy(r) = r
    BY <1>2 DEF InflightStates
  <2> QED BY <1>1, <1>2, <2>1 DEF NormalizeRestored, FailInflight, InflightStates
<1>3. CASE NormalizeLegacy(r).status \notin InflightStates
  BY <1>1, <1>3 DEF NormalizeRestored
<1> QED BY <1>1, <1>2, <1>3

LEMMA NextChanges ==
  ASSUME Inv, Next
  PROVE  /\ \A k \in JobIds : Change(jobs[k], jobs'[k])
         /\ \A k \in files : jobs[k].status = "succeeded" => k \in files'
<1>1. CASE DeleteFailed
  <2>1. \A k \in JobIds : Change(jobs[k], jobs'[k])
    BY <1>1 DEF DeleteFailed, Change, NoRecord, NewRecord
  <2>2. \A k \in files : jobs[k].status = "succeeded" => k \in files'
    BY <1>1 DEF DeleteFailed
  <2> QED BY <2>1, <2>2
<1>2. CASE Restore
  BY <1>2, StoredIsGood, NormalizeChanges DEF Restore
<1>3. CASE \E j \in JobIds, w \in Owners : CancelStep(j, w)
  BY <1>3, CancelChanges
<1>4. CASE \E j \in JobIds, w \in Workers : WorkerStep(j, w)
  BY <1>4, WorkerChanges
<1>5. CASE \E j \in JobIds : JobStep(j)
  BY <1>5, JobStepChanges
<1> QED BY <1>1, <1>2, <1>3, <1>4, <1>5 DEF Next

-----------------------------------------------------------------------------
\* A write that leaves its record anything but succeeded makes no success.
LEMMA PutMakesNoSuccess ==
  ASSUME Inv, NEW j \in JobIds, NEW k \in JobIds, NEW r, Put(j, r),
         r.status # "succeeded", jobs[k].status # "succeeded"
  PROVE  jobs'[k].status # "succeeded"
BY DEF Put, Inv, TypeOK

\* Only recovery makes a success of a cancelling job, and only of one with an
\* output file.
LEMMA RecoveryGoesByTheFile ==
  ASSUME Inv, Next, NEW k \in JobIds,
         jobs[k].status = "cancelling", jobs'[k].status = "succeeded"
  PROVE  k \in files
<1>1. \A j \in JobIds : jobs[j] \in JobRecord(Owners) /\ GoodRecord(jobs[j])
  BY StoredIsGood DEF Inv, TypeOK
<1>2. CASE DeleteFailed
  BY <1>2 DEF DeleteFailed
<1>3. CASE Restore
  BY <1>1, <1>3 DEF Restore, NormalizeLegacy, NormalizeRestored, FailInflight,
                    InflightStates, JobRecord
<1>4. ASSUME NEW j \in JobIds, NEW w \in Owners, CancelStep(j, w) PROVE FALSE
  <2>1. Cancelled(jobs[j]).status # "succeeded"
        /\ BeginCancellation(jobs[j]).status # "succeeded"
    BY <1>1 DEF Cancelled, BeginCancellation, JobRecord
  <2> QED BY <1>4, <2>1, PutMakesNoSuccess
          DEF CancelStep, CancelFinished, CancelClaimed, CancelRunning
<1>5. ASSUME NEW j \in JobIds, NEW w \in Workers, WorkerStep(j, w) PROVE FALSE
  <2>1. CASE ClaimJob(j, w) \/ MarkRunning(j, w) \/ MarkFailed(j, w)
    <3>1. /\ [jobs[j] EXCEPT !.status = "claimed", !.worker = w].status # "succeeded"
          /\ [jobs[j] EXCEPT !.status = "running", !.error = "none"].status # "succeeded"
          /\ [jobs[j] EXCEPT !.status = "failed", !.finished = TRUE,
                             !.error = "engine_error"].status # "succeeded"
      BY <1>1 DEF JobRecord
    <3> QED BY <2>1, <3>1, PutMakesNoSuccess DEF ClaimJob, MarkRunning, MarkFailed
  <2>2. CASE MarkSucceeded(j, w)
    <3>1. jobs[j].status = "running"
      BY <1>1, <2>2 DEF MarkSucceeded, Permits
    <3> QED BY <2>2, <3>1 DEF MarkSucceeded, Put, Inv, TypeOK
  <2>3. CASE EscalateJob(j, w) \/ RetryTimedOut(j, w) \/ FinalizeTimeout(j, w)
    <3>1. /\ jobs[j].status = "cancelling"
               => EscalateCancellation(jobs[j]).status # "succeeded"
          /\ Reopened(jobs[j]).status # "succeeded"
          /\ TimedOut(jobs[j]).status # "succeeded"
      BY <1>1 DEF EscalateCancellation, Reopened, TimedOut, JobRecord
    <3> QED BY <2>3, <3>1, PutMakesNoSuccess
            DEF EscalateJob, RetryTimedOut, FinalizeTimeout, Permits
  <2> QED BY <1>5, <2>1, <2>2, <2>3 DEF WorkerStep
<1>6. ASSUME NEW j \in JobIds, JobStep(j) PROVE k \in files
  <2>1. CASE RecoverOverdue(j)
    <3>1. TimedOut(jobs[j]).status # "succeeded"
      BY <1>1 DEF TimedOut, JobRecord
    <3>2. CASE j \in files
      BY <2>1, <3>2 DEF RecoverOverdue, Put, Inv, TypeOK
    <3>3. CASE j \notin files
      BY <2>1, <3>1, <3>3, PutMakesNoSuccess DEF RecoverOverdue
    <3> QED BY <3>2, <3>3
  <2>2. CASE CreateJob(j)
    BY <2>2 DEF CreateJob, NewRecord, Inv, TypeOK
  <2>3. CASE CancelQueued(j)
    <3>1. Cancelled(jobs[j]).status # "succeeded"
      BY <1>1 DEF Cancelled, JobRecord
    <3> QED BY <2>3, <3>1, PutMakesNoSuccess DEF CancelQueued
  <2>4. CASE WriteOutput(j)
    BY <2>4 DEF WriteOutput
  <2>5. CASE DeadlinePasses(j)
    <3>1. /\ jobs[j].status = "cancelling"
          /\ [jobs[j] EXCEPT !.deadline = "elapsed"].status = jobs[j].status
      BY <1>1, <2>5 DEF DeadlinePasses, JobRecord
    <3> QED BY <2>5, <3>1, PutMakesNoSuccess DEF DeadlinePasses
  <2> QED BY <1>6, <2>1, <2>2, <2>3, <2>4, <2>5 DEF JobStep
<1> QED BY <1>2, <1>3, <1>4, <1>5, <1>6 DEF Next

\* The store moves a job only along the lifecycle graph of lifecycle.py, apart
\* from the exceptions LegalMove names, and recovery goes by the output file.
THEOREM MovesStayLegal == Spec => MovesAreLegal
<1> DEFINE A == \A j \in JobIds : SameJob(j) =>
                  /\ LegalMove(jobs[j], jobs'[j])
                  /\ jobs[j].status = "cancelling" /\ jobs'[j].status = "succeeded"
                       => j \in files
<1>1. Inv /\ [Next]_storeVars => [A]_storeVars
  <2> SUFFICES ASSUME Inv, Next, NEW j \in JobIds, SameJob(j)
               PROVE  /\ LegalMove(jobs[j], jobs'[j])
                      /\ jobs[j].status = "cancelling" /\ jobs'[j].status = "succeeded"
                           => j \in files
    OBVIOUS
  <2>1. Change(jobs[j], jobs'[j])
    BY NextChanges
  <2>2. LegalMove(jobs[j], jobs'[j])
    BY <2>1 DEF Change, Rewritten, LegalMove, SameJob, Exists,
                CanTransition, AllowedTransitions, Statuses, CanonicalStates
  <2> QED BY <2>2, RecoveryGoesByTheFile
<1> HIDE DEF A
<1>2. Spec => [][A]_storeVars
  BY <1>1, InvHolds, PTL DEF Spec
<1> QED BY <1>2 DEF A, MovesAreLegal

\* A succeeded job is never changed or deleted, and its output is not removed.
THEOREM SucceededStaysFinal == Spec => SucceededIsFinal
<1> DEFINE A == \A j \in JobIds : jobs[j].status = "succeeded" =>
                  /\ jobs'[j] = jobs[j]
                  /\ j \in files => j \in files'
<1>1. Inv /\ [Next]_storeVars => [A]_storeVars
  <2> SUFFICES ASSUME Inv, Next, NEW j \in JobIds, jobs[j].status = "succeeded"
               PROVE  jobs'[j] = jobs[j] /\ (j \in files => j \in files')
    OBVIOUS
  <2>1. Change(jobs[j], jobs'[j]) /\ (j \in files => j \in files')
    BY NextChanges
  <2> QED BY <2>1 DEF Change, Rewritten
<1> HIDE DEF A
<1>2. Spec => [][A]_storeVars
  BY <1>1, InvHolds, PTL DEF Spec
<1> QED BY <1>2 DEF A, SucceededIsFinal

\* No operation hands a claimed job to another worker.
THEOREM OwnerStaysPut == Spec => OwnerNeverChanges
<1> DEFINE A == \A j \in JobIds : SameJob(j) /\ jobs[j].worker # NoWorker =>
                  jobs'[j].worker = jobs[j].worker
<1>1. Inv /\ [Next]_storeVars => [A]_storeVars
  <2> SUFFICES ASSUME Inv, Next, NEW j \in JobIds, SameJob(j),
                      jobs[j].worker # NoWorker
               PROVE  jobs'[j].worker = jobs[j].worker
    OBVIOUS
  <2>1. Change(jobs[j], jobs'[j])
    BY NextChanges
  <2>2. jobs[j].status # "queued"
    BY StoredIsGood DEF GoodRecord, Coherent, OwnedInFlight
  <2> QED BY <2>1, <2>2 DEF Change, Rewritten, SameJob, Exists
<1> HIDE DEF A
<1>2. Spec => [][A]_storeVars
  BY <1>1, InvHolds, PTL DEF Spec
<1> QED BY <1>2 DEF A, OwnerNeverChanges

\* A job that left the queue does not come back to it.
THEOREM WorkIsHandedOutOnce == Spec => NeverRequeued
<1> DEFINE A == \A j \in JobIds : SameJob(j) /\ jobs[j].status # "queued" =>
                  jobs'[j].status # "queued"
<1>1. Inv /\ [Next]_storeVars => [A]_storeVars
  <2> SUFFICES ASSUME Inv, Next, NEW j \in JobIds, SameJob(j),
                      jobs[j].status # "queued"
               PROVE  jobs'[j].status # "queued"
    OBVIOUS
  <2>1. Change(jobs[j], jobs'[j])
    BY NextChanges
  <2> QED BY <2>1 DEF Change, Rewritten, SameJob, Exists
<1> HIDE DEF A
<1>2. Spec => [][A]_storeVars
  BY <1>1, InvHolds, PTL DEF Spec
<1> QED BY <1>2 DEF A, NeverRequeued

-----------------------------------------------------------------------------
(* The store implements the ledger.                                        *)

Phase == [j \in JobIds |-> PhaseOf(jobs[j])]
Holder == [j \in JobIds |-> jobs[j].worker]

\* A write of one record is, to the ledger, a write of one phase and holder.
LEMMA PutAbstracted ==
  ASSUME Inv, NEW j \in JobIds, NEW r, Put(j, r)
  PROVE  /\ Phase' = [Phase EXCEPT ![j] = PhaseOf(r)]
         /\ Holder' = [Holder EXCEPT ![j] = r.worker]
BY DEF Put, Inv, TypeOK, Phase, Holder, PhaseOf

LEMMA StartAbstracted == Init => Ledger!LedgerInit
<1> SUFFICES ASSUME Init PROVE Ledger!LedgerInit
  OBVIOUS
<1>1. \A j \in JobIds : jobs[j].worker = NoWorker
  BY LegacyRecordsAreGood DEF Init, NoRecord, NewRecord
<1>2. \A j \in JobIds : PhaseOf(jobs[j]) \in Ledger!Phases
  BY DEF PhaseOf, Ledger!Phases
<1> QED BY <1>1, <1>2 DEF Ledger!LedgerInit

\* An in-place write that keeps the owner is a stutter, a Settle, or, for a
\* lost job with a holder, a TakeUpAgain.
LEMMA RewriteAbstracted ==
  ASSUME Inv, NEW j \in JobIds, NEW r, Put(j, r), r.worker = jobs[j].worker,
         \/ PhaseOf(r) = PhaseOf(jobs[j])
         \/ PhaseOf(jobs[j]) = "held" /\ PhaseOf(r) = "success"
         \/ PhaseOf(jobs[j]) \in {"held", "waiting"} /\ PhaseOf(r) = "loss"
         \/ /\ PhaseOf(jobs[j]) = "loss" /\ PhaseOf(r) = "held"
            /\ r.worker \in Workers
  PROVE  [Ledger!LedgerNext]_(Ledger!ledgerVars)
<1>1. /\ Phase' = [Phase EXCEPT ![j] = PhaseOf(r)]
      /\ Holder' = [Holder EXCEPT ![j] = r.worker]
  BY PutAbstracted
<1>2. Phase[j] = PhaseOf(jobs[j]) /\ Holder[j] = jobs[j].worker
  BY DEF Phase, Holder
<1>3. Holder' = Holder
  BY <1>1, <1>2 DEF Holder
<1>4. CASE PhaseOf(r) = PhaseOf(jobs[j])
  <2>1. Phase' = Phase
    BY <1>1, <1>2, <1>4 DEF Phase
  <2> QED BY <1>3, <2>1 DEF Ledger!ledgerVars, Phase, Holder
<1>5. CASE PhaseOf(jobs[j]) = "held" /\ PhaseOf(r) = "success"
  <2>1. Ledger!Settle(j)
    BY <1>1, <1>2, <1>3, <1>5 DEF Ledger!Settle, Phase, Holder
  <2> QED BY <2>1 DEF Ledger!LedgerNext
<1>6. CASE PhaseOf(jobs[j]) \in {"held", "waiting"} /\ PhaseOf(r) = "loss"
  <2>1. Ledger!Settle(j)
    BY <1>1, <1>2, <1>3, <1>6 DEF Ledger!Settle, Phase, Holder
  <2> QED BY <2>1 DEF Ledger!LedgerNext
<1>7. CASE PhaseOf(jobs[j]) = "loss" /\ PhaseOf(r) = "held" /\ r.worker \in Workers
  <2>1. Ledger!TakeUpAgain(j)
    BY <1>1, <1>2, <1>3, <1>7 DEF Ledger!TakeUpAgain, Phase, Holder
  <2> QED BY <2>1 DEF Ledger!LedgerNext
<1> QED BY <1>4, <1>5, <1>6, <1>7

LEMMA CancelAbstracted ==
  ASSUME Inv, NEW j \in JobIds, NEW w \in Owners, CancelStep(j, w)
  PROVE  [Ledger!LedgerNext]_(Ledger!ledgerVars)
<1> USE DEF PhaseOf, Permits
<1>1. jobs[j] \in JobRecord(Owners)
  BY DEF Inv, TypeOK
<1>2. CASE CancelFinished(j, w)
  BY <1>1, <1>2, RewriteAbstracted DEF CancelFinished, Cancelled, JobRecord
<1>3. CASE CancelClaimed(j, w)
  BY <1>1, <1>3, RewriteAbstracted DEF CancelClaimed, Cancelled, JobRecord
<1>4. CASE CancelRunning(j, w)
  BY <1>1, <1>4, RewriteAbstracted DEF CancelRunning, BeginCancellation, JobRecord
<1> QED BY <1>2, <1>3, <1>4 DEF CancelStep

LEMMA ClaimAbstracted ==
  ASSUME Inv, NEW j \in JobIds, NEW w \in Workers, ClaimJob(j, w)
  PROVE  Ledger!LedgerNext
<1> DEFINE r == [jobs[j] EXCEPT !.status = "claimed", !.worker = w]
<1>1. Put(j, r) /\ jobs[j].status = "queued" /\ jobs[j] \in JobRecord(Owners)
  BY DEF ClaimJob, OldestQueued, IsQueued, Inv, TypeOK
<1>2. PhaseOf(r) = "held" /\ r.worker = w /\ PhaseOf(jobs[j]) = "waiting"
  BY <1>1 DEF PhaseOf, JobRecord
<1> HIDE DEF r
<1>3. /\ Phase' = [Phase EXCEPT ![j] = "held"]
      /\ Holder' = [Holder EXCEPT ![j] = w]
  BY <1>1, <1>2, PutAbstracted
<1>4. Ledger!Take(j, w)
  BY <1>2, <1>3 DEF Ledger!Take, Phase, Holder
<1> QED BY <1>4 DEF Ledger!LedgerNext

LEMMA WorkerAbstracted ==
  ASSUME Inv, NEW j \in JobIds, NEW w \in Workers, WorkerStep(j, w)
  PROVE  [Ledger!LedgerNext]_(Ledger!ledgerVars)
<1> USE DEF PhaseOf, Permits
<1>1. jobs[j] \in JobRecord(Owners)
  BY DEF Inv, TypeOK
<1>2. CASE ClaimJob(j, w)
  BY <1>2, ClaimAbstracted
<1>3. CASE MarkRunning(j, w)
  BY <1>1, <1>3, RewriteAbstracted DEF MarkRunning, JobRecord
<1>4. CASE MarkSucceeded(j, w)
  BY <1>1, <1>4, RewriteAbstracted DEF MarkSucceeded, JobRecord
<1>5. CASE MarkFailed(j, w)
  BY <1>1, <1>5, RewriteAbstracted DEF MarkFailed, JobRecord
<1>6. CASE EscalateJob(j, w)
  BY <1>1, <1>6, RewriteAbstracted DEF EscalateJob, EscalateCancellation, JobRecord
<1>7. CASE RetryTimedOut(j, w)
  BY <1>1, <1>7, RewriteAbstracted
     DEF RetryTimedOut, Reopened, EscalateCancellation, JobRecord
<1>8. CASE FinalizeTimeout(j, w)
  BY <1>1, <1>8, RewriteAbstracted DEF FinalizeTimeout, TimedOut, JobRecord
<1> QED BY <1>2, <1>3, <1>4, <1>5, <1>6, <1>7, <1>8 DEF WorkerStep

LEMMA CreateAbstracted ==
  ASSUME Inv, NEW j \in JobIds, CreateJob(j)
  PROVE  Ledger!LedgerNext
<1> DEFINE r == NewRecord(clock + 1)
<1>1. r.worker = NoWorker /\ PhaseOf(r) = "waiting" /\ PhaseOf(jobs[j]) = "absent"
  BY DEF CreateJob, Exists, PhaseOf, NewRecord
<1> HIDE DEF r
<1>2. Phase' = [Phase EXCEPT ![j] = "waiting"]
  BY <1>1 DEF CreateJob, Inv, TypeOK, Phase, PhaseOf, r
<1>3. Holder' = Holder
  <2>1. jobs[j].status = "absent" => jobs[j].worker = NoWorker
    BY StoredIsGood DEF GoodRecord, Coherent, OwnedInFlight
  <2> QED BY <1>1, <2>1 DEF CreateJob, Exists, Inv, TypeOK, Holder, r
<1>4. Ledger!Submit(j)
  BY <1>1, <1>2, <1>3 DEF Ledger!Submit, Phase, Holder
<1> QED BY <1>4 DEF Ledger!LedgerNext

LEMMA JobStepAbstracted ==
  ASSUME Inv, NEW j \in JobIds, JobStep(j)
  PROVE  [Ledger!LedgerNext]_(Ledger!ledgerVars)
<1> USE DEF PhaseOf, Permits
<1>1. jobs[j] \in JobRecord(Owners)
  BY DEF Inv, TypeOK
<1>2. CASE CreateJob(j)
  BY <1>2, CreateAbstracted
<1>3. CASE CancelQueued(j)
  BY <1>1, <1>3, RewriteAbstracted DEF CancelQueued, Cancelled, JobRecord
<1>4. CASE RecoverOverdue(j)
  BY <1>1, <1>4, RewriteAbstracted DEF RecoverOverdue, TimedOut, JobRecord
<1>5. CASE WriteOutput(j)
  BY <1>5 DEF WriteOutput, Ledger!ledgerVars
<1>6. CASE DeadlinePasses(j)
  BY <1>1, <1>6, RewriteAbstracted DEF DeadlinePasses, JobRecord
<1> QED BY <1>2, <1>3, <1>4, <1>5, <1>6 DEF JobStep

\* delete_failed_jobs purges exactly the losses.
LEMMA DeleteAbstracted ==
  ASSUME Inv, DeleteFailed
  PROVE  Ledger!LedgerNext
<1>1. ASSUME NEW j \in JobIds
      PROVE  /\ PhaseOf(jobs'[j]) = IF PhaseOf(jobs[j]) = "loss" THEN "absent"
                                                               ELSE PhaseOf(jobs[j])
             /\ jobs'[j].worker = IF PhaseOf(jobs[j]) = "loss" THEN NoWorker
                                                             ELSE jobs[j].worker
  <2>1. jobs[j].status \in Statuses
    BY DEF Inv, TypeOK, JobRecord
  <2>2. PhaseOf(jobs[j]) = "loss" <=> jobs[j].status \in {"failed", "cancelled"}
    BY <2>1 DEF PhaseOf, Statuses, CanonicalStates
  <2>3. PhaseOf(NoRecord) = "absent" /\ NoRecord.worker = NoWorker
    BY DEF PhaseOf, NoRecord, NewRecord
  <2>4. jobs'[j] = IF PhaseOf(jobs[j]) = "loss" THEN NoRecord ELSE jobs[j]
    BY <2>2 DEF DeleteFailed
  <2> QED BY <2>3, <2>4
<1>2. Ledger!Purge
  BY <1>1 DEF Ledger!Purge
<1> QED BY <1>2 DEF Ledger!LedgerNext

\* The restore of a starting API sweeps what waited or was held; in dev mode it
\* changes labels only.
LEMMA RestoreAbstracted ==
  ASSUME Inv, Restore
  PROVE  [Ledger!LedgerNext]_(Ledger!ledgerVars)
<1>1. ASSUME NEW r, GoodRecord(r)
      PROVE  /\ PhaseOf(NormalizeLegacy(r)) = PhaseOf(r)
             /\ NormalizeLegacy(r).worker = r.worker
  BY <1>1 DEF GoodRecord, JobRecord, NormalizeLegacy, PhaseOf
<1>2. ASSUME NEW r, GoodRecord(r)
      PROVE  /\ PhaseOf(NormalizeRestored(r)) =
                   IF PhaseOf(r) \in {"waiting", "held"} THEN "loss" ELSE PhaseOf(r)
             /\ NormalizeRestored(r).worker = r.worker
  <2>1. CASE NormalizeLegacy(r).status \in InflightStates
    <3>1. NormalizeLegacy(r) = r /\ PhaseOf(r) \in {"waiting", "held"}
      BY <1>2, <2>1 DEF GoodRecord, JobRecord, NormalizeLegacy, InflightStates, PhaseOf
    <3>2. PhaseOf(FailInflight(r)) = "loss" /\ FailInflight(r).worker = r.worker
      BY <1>2 DEF GoodRecord, JobRecord, FailInflight, PhaseOf
    <3> QED BY <2>1, <3>1, <3>2 DEF NormalizeRestored
  <2>2. CASE NormalizeLegacy(r).status \notin InflightStates
    <3>1. PhaseOf(NormalizeLegacy(r)) \notin {"waiting", "held"}
      BY <2>2 DEF InflightStates, PhaseOf
    <3> QED BY <1>1, <1>2, <2>2, <3>1 DEF NormalizeRestored
  <2> QED BY <2>1, <2>2
<1>3. CASE DevMode
  <2>1. \A j \in JobIds : /\ PhaseOf(jobs'[j]) = PhaseOf(jobs[j])
                          /\ jobs'[j].worker = jobs[j].worker
    BY <1>1, <1>3, StoredIsGood DEF Restore
  <2> QED BY <2>1 DEF Ledger!ledgerVars
<1>4. CASE ~DevMode
  <2>1. \A j \in JobIds :
          /\ PhaseOf(jobs'[j]) = IF PhaseOf(jobs[j]) \in {"waiting", "held"}
                                 THEN "loss" ELSE PhaseOf(jobs[j])
          /\ jobs'[j].worker = jobs[j].worker
    BY <1>2, <1>4, StoredIsGood DEF Restore
  <2>2. Ledger!Sweep
    BY <2>1 DEF Ledger!Sweep
  <2> QED BY <2>2 DEF Ledger!LedgerNext
<1> QED BY <1>3, <1>4

LEMMA NextAbstracted ==
  Inv /\ [Next]_storeVars => [Ledger!LedgerNext]_(Ledger!ledgerVars)
<1> SUFFICES ASSUME Inv, [Next]_storeVars
             PROVE  [Ledger!LedgerNext]_(Ledger!ledgerVars)
  OBVIOUS
<1>1. CASE UNCHANGED storeVars
  BY <1>1 DEF storeVars, Ledger!ledgerVars
<1>2. CASE Next
  BY <1>2, CancelAbstracted, WorkerAbstracted, JobStepAbstracted,
     DeleteAbstracted, RestoreAbstracted DEF Next
<1> QED BY <1>1, <1>2

\* The store implements the ledger: every critical section of the backend is
\* one step of JobLedger or invisible to it, so a job is held by the one worker
\* that took it from the queue, a success is final, and only a loss is purged or
\* taken up again, by its own holder.
THEOREM StoreImplementsLedger == Spec => ImplementsLedger
BY StartAbstracted, NextAbstracted, InvHolds, PTL
   DEF Spec, ImplementsLedger, Ledger!LedgerSpec

(***************************************************************************)
(* Part 2: the service.                                                    *)
(***************************************************************************)

\* The steps at which a process works on a job.
JobSteps ==
  {"prepare", "check", "start", "execute", "succeed", "fail", "stopped",
   "cancel1", "cancel2", "cancel3", "cancel4", "cancel_queued", "reread",
   "retry", "escalate"}

\* A process that works on a job has it in its frame; a worker acts in its own
\* name, and who retries or escalates a cancellation names an owner.
Fits(a, step, f) ==
  /\ f \in Frames
  /\ a \in Workers => step \in WorkerSteps
  /\ a \in Handlers => step \in HandlerSteps
  /\ step \in JobSteps => f.job \in JobIds
  /\ step \in JobSteps /\ a \in Workers => f.who = a
  /\ step \in {"retry", "escalate"} => f.who # NoWorker

LocalsOK ==
  /\ pc \in [Actors -> WorkerSteps \union HandlerSteps]
  /\ frame \in [Actors -> Frames]
  /\ todo \in [Actors -> SUBSET (JobIds \X Owners)]
  /\ used \in SUBSET JobIds
  /\ asked \in SUBSET (JobIds \X Nat)
  /\ crashes \in Nat
  /\ restarts \in Nat
  /\ \A a \in Actors : Fits(a, pc[a], frame[a])

\* The store says that w is to execute j: what its probe looks for.
Active(w, j) ==
  jobs[j].worker = w /\ jobs[j].status \in {"claimed", "running"}

\* Ranks are handed out once, and the records of older versions have rank 0.
RanksUsed ==
  \A j \in JobIds :
    /\ jobs[j].created <= clock
    /\ jobs[j].status \in {"absent", "completed"} => jobs[j].created = 0

\* The submission a worker holds is out of the queue for good, and a later one
\* under the same id is never this worker's to execute.
ClaimIsExclusive ==
  \A w \in Workers : Holding(w) =>
    /\ frame[w].born <= clock
    /\ jobs[MyJob(w)].created = frame[w].born => ~IsQueued(MyJob(w))
    /\ Active(w, MyJob(w)) => jobs[MyJob(w)].created = frame[w].born

\* A worker that is about to report success wrote the output, or will be refused.
OutputOrRefusal ==
  \A w \in Workers :
    pc[w] = "succeed" => MyJob(w) \in files \/ ~Active(w, MyJob(w))

SysInv ==
  /\ TypeOK /\ RecordsCoherent
  /\ LocalsOK
  /\ RanksUsed /\ ClaimIsExclusive /\ SingleExecutor
  /\ OutputOrRefusal /\ SucceededHasOutput

-----------------------------------------------------------------------------
(* What the operations of the store do to one record, whoever calls them.  *)

\* Every call but the two by which a worker takes a job and reports success.
QuietStep ==
  \/ \E j \in JobIds, w \in Owners : CancelStep(j, w)
  \/ \E j \in JobIds, w \in Workers :
       \/ MarkRunning(j, w) \/ MarkFailed(j, w) \/ EscalateJob(j, w)
       \/ RetryTimedOut(j, w) \/ FinalizeTimeout(j, w)
  \/ \E j \in JobIds : JobStep(j)
  \/ DeleteFailed
  \/ Restore

\* The same submission with the same owner, and nobody gains a right to run it.
Kept(r, s) ==
  /\ s.created = r.created /\ s.worker = r.worker
  /\ r.status = "absent" \/ s.status \in {"absent", "queued", "claimed", "completed"}
       => s.status = r.status
  /\ s.status = "running" => r.status \in {"claimed", "running"}

Purged(r, s) == r.status \in {"failed", "cancelled"} /\ s = NoRecord

Submitted(r, s) ==
  r.status = "absent" /\ s = NewRecord(clock + 1) /\ clock' = clock + 1

\* A record reads succeeded after the step because it did before, under one of
\* two names, or because it was cancelling and its output was there.
Grounded(j, r, s) ==
  s.status = "succeeded" =>
    r.status \in {"succeeded", "completed"} \/ (r.status = "cancelling" /\ j \in files)

QuietEffect ==
  /\ \A j \in JobIds :
       /\ Kept(jobs[j], jobs'[j]) \/ Purged(jobs[j], jobs'[j])
            \/ Submitted(jobs[j], jobs'[j])
       /\ Grounded(j, jobs[j], jobs'[j])
       /\ j \in files => j \in files' \/ jobs[j].status \in {"failed", "cancelled"}
  /\ clock' \in {clock, clock + 1}

\* An operation that writes one record in place.
LEMMA PutIsQuiet ==
  ASSUME Inv, NEW j \in JobIds, NEW r, Put(j, r), Kept(jobs[j], r),
         Grounded(j, jobs[j], r)
  PROVE  QuietEffect
BY DEF Put, Inv, TypeOK, Kept, QuietEffect, Grounded

\* The guarded cancellations.
LEMMA CancelIsQuiet ==
  ASSUME Inv, NEW j \in JobIds, NEW w \in Owners, CancelStep(j, w)
  PROVE  QuietEffect
<1> USE DEF Kept, Grounded, GoodRecord, JobRecord
<1>1. GoodRecord(jobs[j])
  BY StoredIsGood
<1>2. CASE CancelFinished(j, w)
  <2>1. Kept(jobs[j], Cancelled(jobs[j])) /\ Cancelled(jobs[j]).status = "cancelled"
    BY <1>1, <1>2 DEF CancelFinished, Permits, Cancelled
  <2> QED BY <1>2, <2>1, PutIsQuiet DEF CancelFinished
<1>3. CASE CancelClaimed(j, w)
  <2>1. Kept(jobs[j], Cancelled(jobs[j])) /\ Cancelled(jobs[j]).status = "cancelled"
    BY <1>1, <1>3 DEF CancelClaimed, Permits, Cancelled
  <2> QED BY <1>3, <2>1, PutIsQuiet DEF CancelClaimed
<1>4. CASE CancelRunning(j, w)
  <2> DEFINE r == BeginCancellation(jobs[j])
  <2>1. Kept(jobs[j], r) /\ r.status = "cancelling"
    BY <1>1, <1>4 DEF CancelRunning, Permits, BeginCancellation
  <2> QED BY <1>4, <2>1, PutIsQuiet DEF CancelRunning
<1> QED BY <1>2, <1>3, <1>4 DEF CancelStep

\* The reports of a worker, except of a success, and what is done in its name.
LEMMA ReportIsQuiet ==
  ASSUME Inv, NEW j \in JobIds, NEW w \in Workers,
         \/ MarkRunning(j, w) \/ MarkFailed(j, w) \/ EscalateJob(j, w)
         \/ RetryTimedOut(j, w) \/ FinalizeTimeout(j, w)
  PROVE  QuietEffect
<1> USE DEF Kept, Grounded, GoodRecord, JobRecord
<1>1. GoodRecord(jobs[j])
  BY StoredIsGood
<1>2. CASE MarkRunning(j, w)
  <2> DEFINE r == [jobs[j] EXCEPT !.status = "running", !.error = "none"]
  <2>1. Kept(jobs[j], r) /\ r.status = "running"
    BY <1>1, <1>2 DEF MarkRunning, Permits
  <2> QED BY <1>2, <2>1, PutIsQuiet DEF MarkRunning
<1>3. CASE MarkFailed(j, w)
  <2> DEFINE r == [jobs[j] EXCEPT !.status = "failed", !.finished = TRUE,
                                  !.error = "engine_error"]
  <2>1. Kept(jobs[j], r) /\ r.status = "failed"
    BY <1>1, <1>3 DEF MarkFailed, Permits
  <2> QED BY <1>3, <2>1, PutIsQuiet DEF MarkFailed
<1>4. CASE EscalateJob(j, w)
  <2> DEFINE r == EscalateCancellation(jobs[j])
  <2>1. Kept(jobs[j], r) /\ r.status = "cancelling"
    BY <1>1, <1>4 DEF EscalateJob, Permits, EscalateCancellation
  <2> QED BY <1>4, <2>1, PutIsQuiet DEF EscalateJob
<1>5. CASE RetryTimedOut(j, w)
  <2>1. Kept(jobs[j], Reopened(jobs[j])) /\ Reopened(jobs[j]).status = "cancelling"
    BY <1>1, <1>5 DEF RetryTimedOut, Reopened, EscalateCancellation
  <2> QED BY <1>5, <2>1, PutIsQuiet DEF RetryTimedOut
<1>6. CASE FinalizeTimeout(j, w)
  <2>1. Kept(jobs[j], TimedOut(jobs[j])) /\ TimedOut(jobs[j]).status = "failed"
    BY <1>1, <1>6 DEF FinalizeTimeout, Permits, TimedOut
  <2> QED BY <1>6, <2>1, PutIsQuiet DEF FinalizeTimeout
<1> QED BY <1>2, <1>3, <1>4, <1>5, <1>6

\* The operations that name no worker.
LEMMA JobStepIsQuiet ==
  ASSUME Inv, NEW j \in JobIds, JobStep(j)
  PROVE  QuietEffect
<1> USE DEF Kept, Grounded, GoodRecord, JobRecord
<1>1. GoodRecord(jobs[j]) /\ clock \in Nat
  BY StoredIsGood DEF Inv, TypeOK
<1>2. CASE CreateJob(j)
  <2>1. ASSUME NEW k \in JobIds
        PROVE  /\ Kept(jobs[k], jobs'[k]) \/ Submitted(jobs[k], jobs'[k])
               /\ Grounded(k, jobs[k], jobs'[k])
    BY <1>2 DEF CreateJob, Exists, Submitted, Grounded, NewRecord, Inv, TypeOK
  <2> QED BY <1>2, <2>1 DEF CreateJob, QuietEffect
<1>3. CASE CancelQueued(j)
  <2>1. Kept(jobs[j], Cancelled(jobs[j])) /\ Cancelled(jobs[j]).status = "cancelled"
    BY <1>1, <1>3 DEF CancelQueued, Permits, Cancelled
  <2> QED BY <1>3, <2>1, PutIsQuiet DEF CancelQueued
<1>4. CASE RecoverOverdue(j)
  <2> DEFINE r == [jobs[j] EXCEPT !.status = "succeeded", !.finished = TRUE,
                                  !.error = "none", !.code = "none"]
  <2>1. Kept(jobs[j], r) /\ Kept(jobs[j], TimedOut(jobs[j]))
    BY <1>1, <1>4 DEF RecoverOverdue, TimedOut
  <2>2. TimedOut(jobs[j]).status = "failed"
    BY <1>1 DEF TimedOut
  <2> QED BY <1>4, <2>1, <2>2, PutIsQuiet DEF RecoverOverdue
<1>5. CASE WriteOutput(j)
  BY <1>5 DEF WriteOutput, QuietEffect, Grounded
<1>6. CASE DeadlinePasses(j)
  <2> DEFINE r == [jobs[j] EXCEPT !.deadline = "elapsed"]
  <2>1. Kept(jobs[j], r) /\ r.status = "cancelling"
    BY <1>1, <1>6 DEF DeadlinePasses
  <2> QED BY <1>6, <2>1, PutIsQuiet DEF DeadlinePasses
<1> QED BY <1>2, <1>3, <1>4, <1>5, <1>6 DEF JobStep

\* What restore makes of a record.
LEMMA NormalizeIsQuiet ==
  ASSUME NEW r, GoodRecord(r), NEW s, s = NormalizeLegacy(r) \/ s = NormalizeRestored(r)
  PROVE  /\ Kept(r, s)
         /\ s.status = "succeeded" => r.status \in {"succeeded", "completed"}
<1> USE DEF Kept, GoodRecord, JobRecord, NormalizeLegacy
<1>1. CASE s = NormalizeLegacy(r)
  BY <1>1
<1>2. CASE s = NormalizeRestored(r) /\ NormalizeLegacy(r).status \in InflightStates
  <2>1. NormalizeLegacy(r) = r
    BY <1>2 DEF InflightStates
  <2> QED BY <1>2, <2>1 DEF NormalizeRestored, FailInflight, InflightStates
<1>3. CASE s = NormalizeRestored(r) /\ NormalizeLegacy(r).status \notin InflightStates
  BY <1>3 DEF NormalizeRestored
<1> QED BY <1>1, <1>2, <1>3

\* Apart from a claim and a report of success, no operation gives anybody work,
\* puts a job back into the queue, or makes it a success without its output.
LEMMA QuietStepEffect ==
  ASSUME Inv, QuietStep \/ UNCHANGED storeVars
  PROVE  QuietEffect
<1>1. CASE UNCHANGED storeVars
  BY <1>1 DEF storeVars, QuietEffect, Grounded, Kept
<1>2. CASE DeleteFailed
  <2>1. ASSUME NEW j \in JobIds
        PROVE  /\ Kept(jobs[j], jobs'[j]) \/ Purged(jobs[j], jobs'[j])
               /\ Grounded(j, jobs[j], jobs'[j])
    BY <1>2 DEF DeleteFailed, Kept, Purged, Grounded, NoRecord, NewRecord
  <2> QED BY <1>2, <2>1 DEF DeleteFailed, QuietEffect
<1>3. CASE Restore
  <2>1. ASSUME NEW j \in JobIds
        PROVE  Kept(jobs[j], jobs'[j]) /\ Grounded(j, jobs[j], jobs'[j])
    BY <1>3, StoredIsGood, NormalizeIsQuiet DEF Restore, Grounded
  <2> QED BY <1>3, <2>1 DEF Restore, QuietEffect
<1> QED
  BY <1>1, <1>2, <1>3, CancelIsQuiet, ReportIsQuiet, JobStepIsQuiet DEF QuietStep

-----------------------------------------------------------------------------
(* Every step of a process is a call of the store, or none.                *)

Claims(w) ==
  \E j \in JobIds :
    /\ ClaimJob(j, w)
    /\ Enter(w, IF j \in UpscaleIds THEN "start" ELSE "prepare",
             [job |-> j, who |-> w, born |-> jobs[j].created])

Succeeds(w) == pc[w] = "succeed" /\ MarkSucceeded(MyJob(w), w) /\ Return(w)

\* A process that works on a job has one, of the right types.
LEMMA FrameHolds ==
  ASSUME LocalsOK, NEW a \in Actors, pc[a] \in JobSteps
  PROVE  /\ MyJob(a) \in JobIds /\ frame[a].who \in Owners
         /\ pc[a] \in {"retry", "escalate"} => frame[a].who \in Workers
BY DEF LocalsOK, Fits, Frames, MyJob, Owners

\* Reconciliation, by a worker or by a handler.
LEMMA ReconcileCalls ==
  ASSUME LocalsOK, NEW a \in Actors, ReconcileOne(a)
  PROVE  QuietStep \/ UNCHANGED storeVars
<1>1. PICK t \in todo[a] : Settles(t[1], t[2]) \/ SettleRefused(t[1], t[2])
  BY DEF ReconcileOne
<1>2. t[1] \in JobIds /\ t[2] \in Owners
  BY <1>1 DEF LocalsOK
<1> QED
  BY <1>1, <1>2 DEF Settles, SettleRefused, QuietStep, JobStep, Owners

\* The four attempts of request_cancellation.
LEMMA CancellationCalls ==
  ASSUME LocalsOK, NEW a \in Actors, RequestCancellation(a)
  PROVE  QuietStep \/ UNCHANGED storeVars
<1>1. pc[a] \in JobSteps
  BY DEF RequestCancellation, TryFinished, TryQueued, TryClaimed, TryRunning, JobSteps
<1>2. MyJob(a) \in JobIds /\ frame[a].who \in Owners
  BY <1>1, FrameHolds
<1>3. CASE TryFinished(a)
  BY <1>2, <1>3 DEF TryFinished, QuietStep, CancelStep
<1>4. CASE TryQueued(a)
  BY <1>2, <1>4 DEF TryQueued, QuietStep, JobStep
<1>5. CASE TryClaimed(a)
  BY <1>2, <1>5 DEF TryClaimed, QuietStep, CancelStep
<1>6. CASE TryRunning(a)
  BY <1>2, <1>6 DEF TryRunning, QuietStep, CancelStep
<1> QED BY <1>3, <1>4, <1>5, <1>6 DEF RequestCancellation

\* A worker's step is a claim, a report of success, or quiet.
LEMMA WorkerCalls ==
  ASSUME LocalsOK, NEW w \in Workers, WorkerRuns(w) \/ CrashWorker(w)
  PROVE  Claims(w) \/ Succeeds(w) \/ QuietStep \/ UNCHANGED storeVars
<1>1. w \in Actors /\ (pc[w] \in JobSteps => MyJob(w) \in JobIds)
  BY FrameHolds DEF Actors
<1>2. CASE ClaimNext(w)
  BY <1>2 DEF ClaimNext, Claims
<1>3. CASE StartJob(w)
  BY <1>1, <1>3 DEF StartJob, QuietStep, JobSteps
<1>4. CASE Execute(w)
  BY <1>1, <1>4 DEF Execute, QuietStep, JobStep, JobSteps
<1>5. CASE ReportSuccess(w)
  BY <1>5 DEF ReportSuccess, Succeeds
<1>6. CASE ReportFailure(w)
  BY <1>1, <1>6 DEF ReportFailure, QuietStep, JobSteps
<1>7. CASE ReconcileOne(w) \/ RequestCancellation(w)
  BY <1>1, <1>7, ReconcileCalls, CancellationCalls
<1>8. CASE StartWorker(w) \/ LoopTop(w) \/ CheckCapacity(w) \/ Prepare(w)
             \/ CheckClaim(w) \/ CrashWorker(w)
  BY <1>8 DEF StartWorker, LoopTop, ListOverdue, CheckCapacity, Prepare, CheckClaim,
              CrashWorker
<1> QED BY <1>2, <1>3, <1>4, <1>5, <1>6, <1>7, <1>8 DEF WorkerRuns

\* A handler's step is quiet.
LEMMA HandlerCalls ==
  ASSUME LocalsOK, NEW h \in Handlers, HandlerRuns(h) \/ NewRequest(h)
  PROVE  QuietStep \/ UNCHANGED storeVars
<1>1. /\ h \in Actors
      /\ pc[h] \in JobSteps => MyJob(h) \in JobIds
      /\ pc[h] \in {"retry", "escalate"} => frame[h].who \in Workers
  BY FrameHolds DEF Actors, JobSteps
<1>2. CASE BootApi(h)
  BY <1>2 DEF BootApi, QuietStep
<1>3. CASE CancelQueuedJob(h)
  BY <1>1, <1>3 DEF CancelQueuedJob, QuietStep, JobStep, JobSteps
<1>4. CASE RetryCancel(h)
  BY <1>1, <1>4 DEF RetryCancel, QuietStep, JobSteps
<1>5. CASE EscalateCancel(h)
  BY <1>1, <1>5 DEF EscalateCancel, QuietStep, JobSteps
<1>6. CASE \E j \in JobIds : Submit(h, j)
  BY <1>6 DEF Submit, QuietStep, JobStep
<1>7. CASE DeleteRequest(h)
  BY <1>7 DEF DeleteRequest, QuietStep
<1>8. CASE ReconcileOne(h) \/ RequestCancellation(h)
  BY <1>1, <1>8, ReconcileCalls, CancellationCalls
<1>9. CASE \/ SettleAtBoot(h) \/ Serve(h) \/ Reread(h) \/ ReadRequest(h)
           \/ \E j \in JobIds : CancelRequest(h, j) \/ EscalateRequest(h, j)
  BY <1>9 DEF SettleAtBoot, Serve, Reread, ReadRequest, ListOverdue, CancelRequest,
              EscalateRequest
<1> QED
  BY <1>2, <1>3, <1>4, <1>5, <1>6, <1>7, <1>8, <1>9 DEF HandlerRuns, NewRequest

\* A step of the service is a claim, a report of success, or quiet.
LEMMA SysCalls ==
  ASSUME LocalsOK, [SysNext]_vars
  PROVE  \/ \E w \in Workers : Claims(w) \/ Succeeds(w)
         \/ QuietStep \/ UNCHANGED storeVars
<1>1. CASE \E w \in Workers : WorkerRuns(w) \/ CrashWorker(w)
  BY <1>1, WorkerCalls
<1>2. CASE \E h \in Handlers : HandlerRuns(h) \/ NewRequest(h)
  BY <1>2, HandlerCalls
<1>3. CASE TimePasses
  BY <1>3 DEF TimePasses, QuietStep, JobStep
<1>4. CASE CrashApi \/ UNCHANGED vars
  BY <1>4 DEF CrashApi, vars
<1> QED BY <1>1, <1>2, <1>3, <1>4 DEF SysNext

\* The store sees nothing but its own operations.
LEMMA SysStepsAreStoreSteps ==
  ASSUME LocalsOK, [SysNext]_vars
  PROVE  [Next]_storeVars
<1>1. QuietStep => Next
  BY DEF QuietStep, Next, WorkerStep
<1>2. ASSUME NEW w \in Workers, Claims(w) PROVE Next
  BY <1>2 DEF Claims, Next, WorkerStep
<1>3. ASSUME NEW w \in Workers, Succeeds(w) PROVE Next
  <2>1. MyJob(w) \in JobIds
    BY <1>3, FrameHolds DEF Succeeds, JobSteps, Actors
  <2> QED BY <1>3, <2>1 DEF Succeeds, Next, WorkerStep
<1> QED BY <1>1, <1>2, <1>3, SysCalls

-----------------------------------------------------------------------------
(* What a step does to the locals of its process, and of the others.       *)

SharedTypes ==
  /\ todo \in [Actors -> SUBSET (JobIds \X Owners)]
  /\ used \in SUBSET JobIds
  /\ asked \in SUBSET (JobIds \X Nat)
  /\ crashes \in Nat
  /\ restarts \in Nat

\* A step of process a to a place with a frame that fits it.
Moves(a, step, f) ==
  /\ Fits(a, step, f)
  /\ pc' = [pc EXCEPT ![a] = step]
  /\ frame' = [frame EXCEPT ![a] = f]
  /\ SharedTypes'

\* A move keeps the types and leaves the other processes where they are.
LEMMA MoveKeepsLocals ==
  ASSUME LocalsOK, NEW a \in Actors, NEW step, NEW f, Moves(a, step, f)
  PROVE  /\ LocalsOK'
         /\ \A b \in Actors \ {a} : pc'[b] = pc[b] /\ frame'[b] = frame[b]
<1>1. step \in WorkerSteps \union HandlerSteps /\ f \in Frames
  BY DEF Moves, Fits, Actors
<1>2. \A b \in Actors : Fits(b, pc[b], frame[b])
  BY DEF LocalsOK
<1>3. /\ pc' \in [Actors -> WorkerSteps \union HandlerSteps]
      /\ frame' \in [Actors -> Frames]
      /\ pc'[a] = step /\ frame'[a] = f
      /\ \A b \in Actors \ {a} : pc'[b] = pc[b] /\ frame'[b] = frame[b]
  BY <1>1 DEF LocalsOK, Moves
<1>4. ASSUME NEW b \in Actors PROVE Fits(b, pc'[b], frame'[b])
  BY <1>2, <1>3 DEF Moves
<1> QED BY <1>3, <1>4 DEF LocalsOK, Moves, SharedTypes, Fits

\* The steps of a worker: it comes to a job by a claim and keeps it until it
\* returns, and comes to report success with an output or after a stop signal.
WorkerMove(w, step, f) ==
  /\ Moves(w, step, f)
  /\ step \in JobSteps => (pc[w] \in JobSteps /\ f = frame[w]) \/ Claims(w)
  /\ step = "succeed" =>
       \/ WriteOutput(MyJob(w))
       \/ ShouldStop(w) /\ UNCHANGED storeVars

\* A process that keeps its frame moves, if the frame fits where it goes.
LEMMA GotoMoves ==
  ASSUME LocalsOK, NEW a \in Actors, NEW step, Goto(a, step), UNCHANGED historyVars,
         Fits(a, step, frame[a])
  PROVE  Moves(a, step, frame[a])
BY DEF LocalsOK, Goto, historyVars, Moves, SharedTypes

\* So does one that takes a frame for its next step.
LEMMA EnterMoves ==
  ASSUME LocalsOK, NEW a \in Actors, NEW step, NEW f, Enter(a, step, f),
         UNCHANGED <<used, crashes, restarts>>,
         asked' \in SUBSET (JobIds \X Nat), Fits(a, step, f)
  PROVE  Moves(a, step, f)
BY DEF LocalsOK, Enter, Moves, SharedTypes

\* So does one whose call is over.
LEMMA ReturnMoves ==
  ASSUME LocalsOK, NEW a \in Actors, Return(a), UNCHANGED <<used, crashes, restarts>>,
         asked' \in SUBSET (JobIds \X Nat)
  PROVE  Moves(a, Home(a), NoFrame) /\ Home(a) \notin JobSteps
<1>1. Fits(a, Home(a), NoFrame) /\ Home(a) \notin JobSteps
  BY ActorsAssumption
     DEF Actors, Fits, Home, NoFrame, Frames, Owners, WorkerSteps, HandlerSteps, JobSteps
<1> QED BY <1>1 DEF LocalsOK, Return, Moves, SharedTypes

\* A process that keeps its frame may go to any of its steps that need no more.
LEMMA SameFrameFits ==
  ASSUME LocalsOK, NEW a \in Actors, NEW step,
         a \in Workers => step \in WorkerSteps,
         a \in Handlers => step \in HandlerSteps,
         step \in JobSteps => pc[a] \in JobSteps,
         step \notin {"retry", "escalate"}
  PROVE  Fits(a, step, frame[a])
BY DEF LocalsOK, Fits

\* Listing the overdue jobs and settling them one by one.
LEMMA ListMoves ==
  ASSUME LocalsOK, TypeOK, NEW a \in Actors, NEW S \in SUBSET JobIds,
         NEW otherwise, ListOverdue(a, S, otherwise),
         otherwise \notin JobSteps,
         a \in Workers => otherwise \in WorkerSteps,
         a \in Handlers => otherwise \in HandlerSteps
  PROVE  \E step : step \notin JobSteps /\ Moves(a, step, frame[a])
<1> DEFINE step == IF S = {} THEN otherwise ELSE "recon"
<1>1. Listed(S) \subseteq JobIds \X Owners
  BY DEF Listed, TypeOK, JobRecord
<1>2. step \notin JobSteps /\ Fits(a, step, frame[a])
  BY SameFrameFits DEF JobSteps, WorkerSteps, HandlerSteps
<1>3. pc' = [pc EXCEPT ![a] = step] /\ frame' = [frame EXCEPT ![a] = frame[a]]
  BY DEF ListOverdue, LocalsOK
<1>4. SharedTypes'
  BY <1>1 DEF ListOverdue, LocalsOK, SharedTypes, historyVars
<1> QED BY <1>2, <1>3, <1>4 DEF Moves

\* Settling one of the listed jobs, the last one or another.
LEMMA ReconcileMoves ==
  ASSUME LocalsOK, NEW a \in Actors, ReconcileOne(a)
  PROVE  \E step : step \notin JobSteps /\ Moves(a, step, frame[a])
<1>1. PICK t \in todo[a], healed \in BOOLEAN :
        /\ todo' = [todo EXCEPT ![a] = @ \ {t}]
        /\ pc' = [pc EXCEPT ![a] =
                     IF todo[a] # {t} THEN (IF healed THEN "healed" ELSE "recon")
                                      ELSE AfterRecon(a, healed)]
  BY DEF ReconcileOne
<1> DEFINE step == IF todo[a] # {t} THEN (IF healed THEN "healed" ELSE "recon")
                                    ELSE AfterRecon(a, healed)
<1>2. step \notin JobSteps /\ Fits(a, step, frame[a])
  BY SameFrameFits, ActorsAssumption
     DEF AfterRecon, Actors, JobSteps, WorkerSteps, HandlerSteps
<1>3. frame' = [frame EXCEPT ![a] = frame[a]] /\ UNCHANGED historyVars
  BY DEF ReconcileOne, LocalsOK
<1>4. SharedTypes'
  BY <1>1, <1>3 DEF LocalsOK, SharedTypes, historyVars
<1> QED BY <1>1, <1>2, <1>3, <1>4 DEF Moves

\* request_cancellation goes through its attempts with the same frame.
LEMMA CancellationMoves ==
  ASSUME LocalsOK, NEW a \in Actors, RequestCancellation(a)
  PROVE  \/ \E step \in JobSteps \ {"succeed"} : Moves(a, step, frame[a])
         \/ Moves(a, Home(a), NoFrame) /\ Home(a) \notin JobSteps
<1>1. asked' \in SUBSET (JobIds \X Nat) /\ UNCHANGED historyVars
  BY DEF RequestCancellation, TryFinished, TryQueued, TryClaimed, TryRunning,
         historyVars, LocalsOK
<1>2. CASE Return(a)
  BY <1>1, <1>2, ReturnMoves DEF historyVars
<1>3. ASSUME NEW step \in {"cancel2", "cancel3", "cancel4"}, Goto(a, step), pc[a] \in JobSteps
      PROVE  step \in JobSteps \ {"succeed"} /\ Moves(a, step, frame[a])
  <2>1. step \in JobSteps /\ step \in WorkerSteps /\ step \in HandlerSteps
        /\ step \notin {"succeed", "retry", "escalate"}
    BY DEF JobSteps, WorkerSteps, HandlerSteps
  <2>2. Fits(a, step, frame[a])
    BY <1>3, <2>1, SameFrameFits
  <2> QED BY <1>1, <1>3, <2>1, <2>2, GotoMoves
<1>4. CASE TryFinished(a)
  BY <1>2, <1>3, <1>4 DEF TryFinished, JobSteps
<1>5. CASE TryQueued(a)
  BY <1>2, <1>3, <1>5 DEF TryQueued, JobSteps
<1>6. CASE TryClaimed(a)
  BY <1>2, <1>3, <1>6 DEF TryClaimed, JobSteps
<1>7. CASE TryRunning(a)
  BY <1>2, <1>7 DEF TryRunning
<1> QED BY <1>4, <1>5, <1>6, <1>7 DEF RequestCancellation

\* A worker's step with the same frame, to a place other than "succeed".
LEMMA PlainWorkerMove ==
  ASSUME LocalsOK, NEW w \in Workers, NEW step \in WorkerSteps \ {"succeed"},
         Goto(w, step), UNCHANGED historyVars, step \in JobSteps => pc[w] \in JobSteps
  PROVE  WorkerMove(w, step, frame[w])
<1>1. w \in Actors /\ w \notin Handlers /\ step \notin {"retry", "escalate"}
  BY ActorsAssumption DEF Actors, WorkerSteps
<1>2. Moves(w, step, frame[w])
  BY <1>1, SameFrameFits, GotoMoves
<1> QED BY <1>2 DEF WorkerMove

\* A worker's return to its loop.
LEMMA WorkerReturns ==
  ASSUME LocalsOK, NEW w \in Workers, Return(w), UNCHANGED historyVars
  PROVE  WorkerMove(w, Home(w), NoFrame)
<1>1. w \in Actors /\ asked' \in SUBSET (JobIds \X Nat)
      /\ UNCHANGED <<used, crashes, restarts>>
  BY DEF Actors, historyVars, LocalsOK
<1>2. Moves(w, Home(w), NoFrame) /\ Home(w) \notin JobSteps
  BY <1>1, ReturnMoves
<1> QED BY <1>2 DEF WorkerMove, JobSteps

\* Every step of a worker, and its death, is such a move.
LEMMA WorkerMoves ==
  ASSUME LocalsOK, TypeOK, NEW w \in Workers, WorkerRuns(w) \/ CrashWorker(w)
  PROVE  \E step, f : WorkerMove(w, step, f)
<1> USE PlainWorkerMove, WorkerReturns
<1>0. w \in Actors /\ w \notin Handlers
  BY ActorsAssumption DEF Actors
<1>1. CASE StartWorker(w)
  BY <1>1 DEF StartWorker, WorkerSteps, JobSteps
<1>2. CASE LoopTop(w) \/ ReconcileOne(w)
  <2>1. \E step : step \notin JobSteps /\ Moves(w, step, frame[w])
    BY <1>0, <1>2, ListMoves, ReconcileMoves DEF LoopTop, JobSteps, WorkerSteps
  <2> QED BY <2>1 DEF WorkerMove, JobSteps
<1>3. CASE CheckCapacity(w)
  BY <1>3 DEF CheckCapacity, WorkerSteps, JobSteps
<1>4. CASE ClaimNext(w)
  <2>1. CASE Claims(w)
    <3>1. PICK j \in JobIds :
            Enter(w, IF j \in UpscaleIds THEN "start" ELSE "prepare",
                  [job |-> j, who |-> w, born |-> jobs[j].created])
      BY <2>1 DEF Claims
    <3> DEFINE step == IF j \in UpscaleIds THEN "start" ELSE "prepare"
               f == [job |-> j, who |-> w, born |-> jobs[j].created]
    <3>2. Fits(w, step, f)
      BY <1>0 DEF Fits, Frames, WorkerSteps, JobSteps, TypeOK, JobRecord, Owners
    <3>3. asked' \in SUBSET (JobIds \X Nat) /\ UNCHANGED <<used, crashes, restarts>>
      BY <1>4 DEF ClaimNext, historyVars, LocalsOK
    <3>4. Enter(w, step, f)
      BY <3>1
    <3>5. step # "succeed"
      OBVIOUS
    <3> HIDE DEF step, f
    <3>6. Moves(w, step, f)
      BY <1>0, <3>2, <3>3, <3>4, EnterMoves
    <3> QED BY <2>1, <3>5, <3>6 DEF WorkerMove
  <2>2. CASE ~Claims(w)
    BY <1>4, <2>2 DEF ClaimNext, Claims
  <2> QED BY <2>1, <2>2
<1>5. CASE Prepare(w)
  BY <1>5 DEF Prepare, WorkerSteps, JobSteps
<1>6. CASE CheckClaim(w)
  BY <1>6 DEF CheckClaim, WorkerSteps, JobSteps
<1>7. CASE StartJob(w)
  BY <1>7 DEF StartJob, WorkerSteps, JobSteps
<1>8. CASE Execute(w)
  <2>1. CASE Goto(w, "succeed")
    <3>1. Moves(w, "succeed", frame[w])
      BY <1>0, <1>8, <2>1, SameFrameFits, GotoMoves DEF Execute, WorkerSteps, JobSteps
    <3>2. WriteOutput(MyJob(w)) \/ (ShouldStop(w) /\ UNCHANGED storeVars)
      <4>1. pc'[w] = "succeed"
        BY <1>0, <2>1 DEF Goto, LocalsOK
      <4> QED BY <1>0, <1>8, <4>1 DEF Execute, Goto, LocalsOK
    <3> QED BY <1>8, <3>1, <3>2 DEF WorkerMove, Execute, JobSteps
  <2>2. CASE ~Goto(w, "succeed")
    BY <1>8, <2>2 DEF Execute, WorkerSteps, JobSteps
  <2> QED BY <2>1, <2>2
<1>9. CASE ReportSuccess(w)
  BY <1>9 DEF ReportSuccess, WorkerSteps, JobSteps
<1>10. CASE ReportFailure(w)
  BY <1>10 DEF ReportFailure, WorkerSteps, JobSteps
<1>11. CASE RequestCancellation(w)
  <2>1. pc[w] \in JobSteps
    BY <1>11 DEF RequestCancellation, TryFinished, TryQueued, TryClaimed, TryRunning, JobSteps
  <2> QED BY <1>0, <1>11, <2>1, CancellationMoves DEF WorkerMove, JobSteps
<1>12. CASE CrashWorker(w)
  <2>1. Fits(w, "down", NoFrame)
    BY <1>0 DEF Fits, NoFrame, Frames, Owners, WorkerSteps, JobSteps
  <2>2. SharedTypes'
    <3>1. todo' \in [Actors -> SUBSET (JobIds \X Owners)]
      BY <1>12 DEF CrashWorker, LocalsOK
    <3> QED BY <1>12, <3>1 DEF CrashWorker, LocalsOK, SharedTypes
  <2>3. Moves(w, "down", NoFrame)
    BY <1>12, <2>1, <2>2 DEF CrashWorker, Moves
  <2> QED BY <2>3 DEF WorkerMove, JobSteps
<1> QED
  BY <1>1, <1>2, <1>3, <1>4, <1>5, <1>6, <1>7, <1>8, <1>9, <1>10, <1>11, <1>12
     DEF WorkerRuns

\* Process a stays where it is, or is a handler that begins to serve.
Waits(a) ==
  \/ pc'[a] = pc[a] /\ frame'[a] = frame[a]
  \/ a \in Handlers /\ pc'[a] = "idle"

\* A handler's steps keep the types, and leave the other processes where they
\* are; the last step of the start lets every handler serve.
LEMMA HandlerMoves ==
  ASSUME LocalsOK, TypeOK, NEW h \in Handlers, HandlerRuns(h) \/ NewRequest(h)
  PROVE  /\ LocalsOK'
         /\ \A a \in Actors \ {h} : Waits(a)
<1>0. h \in Actors /\ h \notin Workers /\ Workers \subseteq Actors \ {h}
  BY ActorsAssumption DEF Actors
<1> SUFFICES \/ \E step, f : Moves(h, step, f)
             \/ LocalsOK' /\ \A a \in Actors \ {h} : Waits(a)
  BY <1>0, MoveKeepsLocals DEF Waits
<1>1. ASSUME Return(h), UNCHANGED <<used, crashes, restarts>>,
             asked' \in SUBSET (JobIds \X Nat)
      PROVE  \E step, f : Moves(h, step, f)
  BY <1>0, <1>1, ReturnMoves
<1>2. ASSUME NEW step \in HandlerSteps \ {"retry", "escalate"}, Goto(h, step),
             UNCHANGED historyVars, step \in JobSteps => pc[h] \in JobSteps
      PROVE  \E g, f : Moves(h, g, f)
  BY <1>0, <1>2, SameFrameFits, GotoMoves
<1>3. ASSUME NEW step \in HandlerSteps, NEW j \in JobIds, NEW o \in Owners,
             step \in {"retry", "escalate"} => o # NoWorker,
             Enter(h, step, [job |-> j, who |-> o, born |-> 0]),
             UNCHANGED <<used, crashes, restarts>>, asked' \in SUBSET (JobIds \X Nat)
      PROVE  \E g, f : Moves(h, g, f)
  <2>1. Fits(h, step, [job |-> j, who |-> o, born |-> 0])
    BY <1>0, <1>3 DEF Fits, Frames
  <2> QED BY <1>0, <1>3, <2>1, EnterMoves
<1>4. ASSUME NEW j \in JobIds, Dispatch(h, j), UNCHANGED <<used, crashes, restarts>>,
             asked' \in SUBSET (JobIds \X Nat)
      PROVE  \E step, f : Moves(h, step, f)
  <2>1. jobs[j].worker \in Owners
    BY DEF TypeOK, JobRecord
  <2> QED BY <1>1, <1>3, <1>4, <2>1 DEF Dispatch, HandlerSteps
<1>5. UNCHANGED historyVars => UNCHANGED <<used, crashes, restarts>>
                               /\ asked' \in SUBSET (JobIds \X Nat)
  BY DEF historyVars, LocalsOK
<1>6. CASE BootApi(h)
  BY <1>2, <1>6 DEF BootApi, HandlerSteps, JobSteps
<1>7. CASE SettleAtBoot(h)
  BY <1>0, <1>7, ListMoves DEF SettleAtBoot, HandlerSteps, JobSteps
<1>8. CASE ReadRequest(h)
  BY <1>0, <1>8, ListMoves DEF ReadRequest, HandlerSteps, JobSteps
<1>9. CASE ReconcileOne(h)
  BY <1>0, <1>9, ReconcileMoves
<1>10. CASE RequestCancellation(h)
  BY <1>0, <1>10, CancellationMoves
<1>11. CASE Serve(h)
  <2>1. ASSUME NEW a \in Actors PROVE Fits(a, pc'[a], frame'[a])
    BY <1>11, <2>1, ActorsAssumption DEF Serve, LocalsOK, Fits, HandlerSteps, JobSteps
  <2>2. pc' \in [Actors -> WorkerSteps \union HandlerSteps]
    BY <1>11 DEF Serve, LocalsOK, HandlerSteps
  <2>3. \A a \in Actors \ {h} : Waits(a)
    BY <1>11, <2>1 DEF Serve, LocalsOK, Waits
  <2> QED
    BY <1>11, <2>1, <2>2, <2>3 DEF Serve, LocalsOK, historyVars
<1>12. CASE CancelQueuedJob(h)
  BY <1>1, <1>2, <1>5, <1>12 DEF CancelQueuedJob, HandlerSteps, JobSteps
<1>13. CASE Reread(h)
  <2>1. MyJob(h) \in JobIds
    BY <1>0, <1>13, FrameHolds DEF Reread, JobSteps
  <2> QED BY <1>4, <1>5, <1>13, <2>1 DEF Reread
<1>14. CASE RetryCancel(h) \/ EscalateCancel(h)
  BY <1>1, <1>5, <1>14 DEF RetryCancel, EscalateCancel
<1>15. CASE \E j \in JobIds : Submit(h, j)
  BY <1>15 DEF Submit, localVars, LocalsOK, Waits
<1>16. ASSUME NEW j \in JobIds, CancelRequest(h, j)
       PROVE  \E step, f : Moves(h, step, f)
  <2>1. asked' \in SUBSET (JobIds \X Nat)
    BY <1>16 DEF CancelRequest, LocalsOK, TypeOK, JobRecord
  <2> QED BY <1>3, <1>4, <1>16, <2>1 DEF CancelRequest, HandlerSteps, Owners
<1>17. ASSUME NEW j \in JobIds, EscalateRequest(h, j)
       PROVE  \E step, f : Moves(h, step, f)
  <2>1. jobs[j].worker \in Owners
    BY DEF TypeOK, JobRecord
  <2> QED BY <1>3, <1>5, <1>17, <2>1 DEF EscalateRequest, HandlerSteps
<1>18. CASE DeleteRequest(h)
  BY <1>18 DEF DeleteRequest, localVars, historyVars, LocalsOK, Waits
<1> QED
  BY <1>6, <1>7, <1>8, <1>9, <1>10, <1>11, <1>12, <1>13, <1>14, <1>15, <1>16, <1>17, <1>18
     DEF HandlerRuns, NewRequest

\* What the rest of the proof needs of a step: the types are kept, and a worker
\* stays where it is or makes a move of its own.
LEMMA SysMoves ==
  ASSUME LocalsOK, TypeOK, [SysNext]_vars
  PROVE  /\ LocalsOK'
         /\ \A w \in Workers :
              \/ pc'[w] = pc[w] /\ frame'[w] = frame[w]
              \/ \E step, f : WorkerMove(w, step, f)
<1>1. ASSUME NEW w \in Workers, WorkerRuns(w) \/ CrashWorker(w)
      PROVE  /\ LocalsOK'
             /\ \E step, f : WorkerMove(w, step, f)
             /\ \A v \in Workers \ {w} : pc'[v] = pc[v] /\ frame'[v] = frame[v]
  <2>1. PICK step, f : WorkerMove(w, step, f)
    BY <1>1, WorkerMoves
  <2> QED BY <2>1, MoveKeepsLocals DEF WorkerMove, Actors
<1>2. CASE \E h \in Handlers : HandlerRuns(h) \/ NewRequest(h)
  BY <1>2, HandlerMoves, ActorsAssumption DEF Actors, Waits
<1>3. CASE CrashApi
  <2>1. ASSUME NEW a \in Actors PROVE Fits(a, pc'[a], frame'[a])
    BY <1>3, <2>1, ActorsAssumption
       DEF CrashApi, LocalsOK, Fits, NoFrame, Frames, Owners, HandlerSteps, JobSteps
  <2>2. pc' \in [Actors -> WorkerSteps \union HandlerSteps]
    BY <1>3 DEF CrashApi, LocalsOK, HandlerSteps
  <2>3. frame' \in [Actors -> Frames]
    BY <1>3 DEF CrashApi, LocalsOK, NoFrame, Frames, Owners
  <2>4. todo' \in [Actors -> SUBSET (JobIds \X Owners)]
    BY <1>3 DEF CrashApi, LocalsOK
  <2>5. \A w \in Workers : pc'[w] = pc[w] /\ frame'[w] = frame[w]
    BY <1>3, ActorsAssumption DEF CrashApi, Actors
  <2>6. LocalsOK'
    BY <1>3, <2>1, <2>2, <2>3, <2>4 DEF CrashApi, LocalsOK
  <2> QED BY <2>5, <2>6
<1>4. CASE TimePasses \/ UNCHANGED vars
  BY <1>4 DEF TimePasses, vars, localVars, historyVars, LocalsOK
<1> QED BY <1>1, <1>2, <1>3, <1>4 DEF SysNext

-----------------------------------------------------------------------------
(* The invariant.                                                          *)

\* What ClaimIsExclusive says of a worker that holds submission b of job j.
Exclusive(w, j, b) ==
  /\ b <= clock
  /\ jobs[j].created = b => ~IsQueued(j)
  /\ Active(w, j) => jobs[j].created = b

\* The invariant holds of an empty store, and of one an older version left.
LEMMA InitSysInv == SysInit => SysInv
<1> SUFFICES ASSUME SysInit PROVE SysInv
  OBVIOUS
<1>1. TypeOK /\ RecordsCoherent
  BY InitEstablishesInv DEF SysInit, Inv
<1>2. LocalsOK
  <2>1. \A a \in Actors : Fits(a, "down", NoFrame)
    BY DEF Fits, NoFrame, Frames, Owners, WorkerSteps, HandlerSteps, JobSteps
  <2> QED
    BY <2>1 DEF SysInit, LocalsOK, NoFrame, Frames, Owners, WorkerSteps
<1>3. \A j \in JobIds : jobs[j].created = 0
  <2>1. \A r \in LegacyRecords \union {NoRecord} : r.created = 0
    BY DEF LegacyRecords, NoRecord, NewRecord
  <2> QED BY <2>1 DEF SysInit, Init
<1>4. clock = 0 /\ \A w \in Workers : pc[w] = "down"
  BY DEF SysInit, Init, Actors
<1> QED
  BY <1>1, <1>2, <1>3, <1>4
     DEF SysInv, RanksUsed, ClaimIsExclusive, SingleExecutor, Holding,
         OutputOrRefusal, SucceededHasOutput

\* What a worker knows of the job it holds stays true whatever others do.
LEMMA ExclusiveIsStable ==
  ASSUME SysInv, NEW w \in Workers, NEW j \in JobIds, NEW b \in Nat,
         Exclusive(w, j, b),
         QuietEffect \/ \E v \in Workers : (Claims(v) /\ v # w) \/ Succeeds(v)
  PROVE  /\ Exclusive(w, j, b)'
         /\ Active(w, j)' => Active(w, j)
<1>0. clock \in Nat /\ jobs \in [JobIds -> JobRecord(Owners)]
  BY DEF SysInv, TypeOK
<1>1. CASE QuietEffect
  <2>1. CASE Kept(jobs[j], jobs'[j])
    BY <1>0, <1>1, <2>1 DEF QuietEffect, Exclusive, Active, IsQueued, Kept
  <2>2. CASE Purged(jobs[j], jobs'[j])
    BY <1>0, <1>1, <2>2
       DEF QuietEffect, Exclusive, Active, IsQueued, Purged, NoRecord, NewRecord
  <2>3. CASE Submitted(jobs[j], jobs'[j])
    BY <1>0, <2>3, NoWorkerAssumption
       DEF Exclusive, Active, IsQueued, Submitted, NewRecord
  <2> QED BY <1>1, <2>1, <2>2, <2>3 DEF QuietEffect
<1>2. ASSUME NEW v \in Workers, Claims(v), v # w
      PROVE  Exclusive(w, j, b)' /\ (Active(w, j)' => Active(w, j))
  <2>1. PICK k \in JobIds :
          jobs' = [jobs EXCEPT ![k] = [jobs[k] EXCEPT !.status = "claimed", !.worker = v]]
          /\ clock' = clock
    BY <1>2 DEF Claims, ClaimJob, Put
  <2> QED BY <1>0, <1>2, <2>1 DEF Exclusive, Active, IsQueued, JobRecord
<1>3. ASSUME NEW v \in Workers, Succeeds(v)
      PROVE  Exclusive(w, j, b)' /\ (Active(w, j)' => Active(w, j))
  <2>1. MyJob(v) \in JobIds
    BY <1>3, FrameHolds DEF SysInv, Succeeds, JobSteps, Actors
  <2>2. jobs' = [jobs EXCEPT ![MyJob(v)] =
                   [jobs[MyJob(v)] EXCEPT !.status = "succeeded", !.finished = TRUE,
                                          !.error = "none"]]
        /\ clock' = clock
    BY <1>3 DEF Succeeds, MarkSucceeded, Put
  <2> QED BY <1>0, <2>1, <2>2 DEF Exclusive, Active, IsQueued, JobRecord
<1> QED BY <1>1, <1>2, <1>3

\* A worker holds what it held, unless it has just claimed it.
LEMMA HoldingGoesOn ==
  ASSUME LocalsOK, TypeOK, [SysNext]_vars, NEW w \in Workers, ~Claims(w), Holding(w)'
  PROVE  Holding(w) /\ frame'[w] = frame[w]
<1>1. \A step \in WorkerSteps : step \in JobSteps <=>
        step \in {"prepare", "check", "start", "execute", "succeed", "fail",
                  "stopped", "cancel1", "cancel2", "cancel3", "cancel4"}
  BY DEF WorkerSteps, JobSteps
<1>2. pc[w] \in WorkerSteps /\ pc'[w] \in WorkerSteps
  BY SysMoves DEF LocalsOK, Fits, Actors
<1>3. pc'[w] \in JobSteps
  BY <1>1, <1>2 DEF Holding
<1>4. pc[w] \in JobSteps /\ frame'[w] = frame[w]
  <2>1. CASE \E step, f : WorkerMove(w, step, f)
    BY <1>3, <2>1 DEF WorkerMove, Moves, LocalsOK, Actors
  <2> QED BY <1>3, <2>1, SysMoves
<1> QED BY <1>1, <1>2, <1>4 DEF Holding

\* A claim takes a queued job, and the frame remembers which submission.
LEMMA ClaimEffect ==
  ASSUME SysInv, NEW w \in Workers, Claims(w)
  PROVE  \E j \in JobIds :
           /\ IsQueued(j)
           /\ jobs' = [jobs EXCEPT ![j] = [jobs[j] EXCEPT !.status = "claimed", !.worker = w]]
           /\ files' = files /\ clock' = clock
           /\ frame'[w] = [job |-> j, who |-> w, born |-> jobs[j].created]
           /\ pc'[w] \in {"start", "prepare"}
           /\ \A v \in Workers \ {w} : pc'[v] = pc[v] /\ frame'[v] = frame[v]
BY DEF SysInv, LocalsOK, Actors, Claims, ClaimJob, OldestQueued, Put, Enter

\* A report of success is accepted only of a running job of its own.
LEMMA SuccessEffect ==
  ASSUME SysInv, NEW w \in Workers, Succeeds(w)
  PROVE  /\ MyJob(w) \in JobIds /\ MyJob(w) \in files
         /\ jobs' = [jobs EXCEPT ![MyJob(w)] =
                       [jobs[MyJob(w)] EXCEPT !.status = "succeeded", !.finished = TRUE,
                                              !.error = "none"]]
         /\ files' = files /\ clock' = clock
<1>1. MyJob(w) \in JobIds
  BY FrameHolds DEF SysInv, Succeeds, JobSteps, Actors
<1>2. Active(w, MyJob(w))
  BY <1>1, NoWorkerAssumption DEF Succeeds, MarkSucceeded, Permits, Active
<1> QED
  BY <1>1, <1>2 DEF SysInv, OutputOrRefusal, Succeeds, MarkSucceeded, Put

\* The three ways a step may change the store.
LEMMA SysEffect ==
  ASSUME SysInv, [SysNext]_vars
  PROVE  QuietEffect \/ \E w \in Workers : Claims(w) \/ Succeeds(w)
BY SysCalls, QuietStepEffect DEF SysInv, Inv

\* No step hands out a rank twice or makes a claimed job of an old record.
LEMMA RanksStayUsed ==
  ASSUME SysInv, [SysNext]_vars
  PROVE  RanksUsed'
<1>0. clock \in Nat /\ jobs \in [JobIds -> JobRecord(Owners)] /\ RanksUsed
  BY DEF SysInv, TypeOK
<1>1. CASE QuietEffect
  <2> SUFFICES ASSUME NEW j \in JobIds
               PROVE  /\ jobs'[j].created <= clock'
                      /\ jobs'[j].status \in {"absent", "completed"} => jobs'[j].created = 0
    BY DEF RanksUsed
  <2>1. CASE Kept(jobs[j], jobs'[j])
    BY <1>0, <1>1, <2>1 DEF QuietEffect, RanksUsed, Kept, JobRecord
  <2>2. CASE Purged(jobs[j], jobs'[j])
    BY <1>0, <1>1, <2>2 DEF QuietEffect, Purged, NoRecord, NewRecord
  <2>3. CASE Submitted(jobs[j], jobs'[j])
    BY <1>0, <2>3 DEF Submitted, NewRecord
  <2> QED BY <1>1, <2>1, <2>2, <2>3 DEF QuietEffect
<1>2. ASSUME NEW w \in Workers, Claims(w) PROVE RanksUsed'
  <2>1. PICK j \in JobIds :
          /\ jobs' = [jobs EXCEPT ![j] = [jobs[j] EXCEPT !.status = "claimed", !.worker = w]]
          /\ clock' = clock
    BY <1>2, ClaimEffect
  <2> QED BY <1>0, <2>1 DEF RanksUsed, JobRecord
<1>3. ASSUME NEW w \in Workers, Succeeds(w) PROVE RanksUsed'
  BY <1>0, <1>3, SuccessEffect DEF RanksUsed, JobRecord
<1> QED BY <1>1, <1>2, <1>3, SysEffect

\* Whatever is claimed, deleted or submitted, a worker's submission stays its own.
LEMMA ClaimsStayExclusive ==
  ASSUME SysInv, [SysNext]_vars
  PROVE  ClaimIsExclusive'
<1>0. ASSUME NEW w \in Workers, Holding(w)',
             NEW j \in JobIds, NEW b \in Nat, frame'[w].job = j, frame'[w].born = b
      PROVE  Exclusive(w, j, b)'
  <2>1. CASE Claims(w)
    <3>1. PICK k \in JobIds :
            /\ jobs' = [jobs EXCEPT ![k] = [jobs[k] EXCEPT !.status = "claimed", !.worker = w]]
            /\ clock' = clock
            /\ frame'[w] = [job |-> k, who |-> w, born |-> jobs[k].created]
      BY <2>1, ClaimEffect
    <3>2. j = k /\ b = jobs[k].created
      BY <1>0, <3>1
    <3> QED
      BY <3>1, <3>2 DEF SysInv, TypeOK, JobRecord, RanksUsed, Exclusive, IsQueued, Active
  <2>2. CASE ~Claims(w)
    <3>1. Holding(w) /\ frame'[w] = frame[w]
      BY <1>0, <2>2, HoldingGoesOn DEF SysInv
    <3>2. Exclusive(w, j, b)
      BY <1>0, <3>1 DEF SysInv, ClaimIsExclusive, Exclusive, Active, MyJob
    <3>3. QuietEffect \/ \E v \in Workers : (Claims(v) /\ v # w) \/ Succeeds(v)
      BY <2>2, SysEffect
    <3> QED BY <3>2, <3>3, ExclusiveIsStable
  <2> QED BY <2>1, <2>2
<1> SUFFICES ASSUME NEW w \in Workers, Holding(w)'
             PROVE  /\ frame'[w].born <= clock'
                    /\ jobs'[frame'[w].job].created = frame'[w].born
                         => ~IsQueued(MyJob(w))'
                    /\ (jobs'[frame'[w].job].worker = w
                          /\ jobs'[frame'[w].job].status \in {"claimed", "running"})
                         => jobs'[frame'[w].job].created = frame'[w].born
  BY DEF ClaimIsExclusive, Active, MyJob
<1>1. frame'[w].job \in JobIds /\ frame'[w].born \in Nat
  <2>1. LocalsOK' /\ w \in Actors
    BY SysMoves DEF SysInv, Actors
  <2>2. pc'[w] \in JobSteps
    BY DEF Holding, JobSteps
  <2> QED BY <2>1, <2>2 DEF LocalsOK, Fits, Frames
<1>2. PICK j \in JobIds, b \in Nat : frame'[w].job = j /\ frame'[w].born = b
  BY <1>1
<1>3. Exclusive(w, j, b)'
  BY <1>0, <1>2
<1> QED BY <1>2, <1>3 DEF Exclusive, Active, IsQueued, MyJob

\* A claim takes a job nobody holds, and no other step gives a worker a job.
LEMMA ExecutorStaysSingle ==
  ASSUME SysInv, [SysNext]_vars
  PROVE  SingleExecutor'
<1>1. ASSUME NEW v \in Workers, NEW w \in Workers, v # w, Claims(v), Holding(w)'
      PROVE  frame'[v].job # frame'[w].job \/ frame'[v].born # frame'[w].born
  <2>1. PICK j \in JobIds :
          /\ IsQueued(j)
          /\ frame'[v] = [job |-> j, who |-> v, born |-> jobs[j].created]
          /\ pc'[w] = pc[w] /\ frame'[w] = frame[w]
    BY <1>1, ClaimEffect
  <2>2. Holding(w)
    BY <1>1, <2>1 DEF Holding
  <2> QED BY <2>1, <2>2 DEF SysInv, ClaimIsExclusive, MyJob
<1>2. ASSUME NEW v \in Workers, NEW w \in Workers, v # w, ~Claims(v), ~Claims(w),
             Holding(v)', Holding(w)'
      PROVE  frame'[v].job # frame'[w].job \/ frame'[v].born # frame'[w].born
  <2>1. /\ Holding(v) /\ frame'[v] = frame[v]
        /\ Holding(w) /\ frame'[w] = frame[w]
    BY <1>2, HoldingGoesOn DEF SysInv
  <2> QED BY <1>2, <2>1 DEF SysInv, SingleExecutor, Held
<1> QED BY <1>1, <1>2 DEF SingleExecutor, Held

\* A worker comes to report success with the output, or after a stop signal that
\* is never withdrawn; no step takes the output of a job that is being executed.
LEMMA ReportsStayBacked ==
  ASSUME SysInv, [SysNext]_vars
  PROVE  OutputOrRefusal'
<1> SUFFICES ASSUME NEW w \in Workers, pc'[w] = "succeed"
             PROVE  \/ frame'[w].job \in files'
                    \/ ~(jobs'[frame'[w].job].worker = w
                           /\ jobs'[frame'[w].job].status \in {"claimed", "running"})
  BY DEF OutputOrRefusal, MyJob, Active
<1>1. ~Claims(w)
  <2>1. Claims(w) => pc'[w] \in {"start", "prepare"}
    BY ClaimEffect
  <2> QED BY <2>1
<1>2. Holding(w) /\ frame'[w] = frame[w]
  BY <1>1, HoldingGoesOn DEF SysInv, Holding
<1>3. frame[w].job \in JobIds /\ frame[w].born \in Nat
  <2>1. pc[w] \in JobSteps /\ w \in Actors
    BY <1>2 DEF Holding, JobSteps, Actors
  <2> QED BY <2>1, FrameHolds DEF SysInv, LocalsOK, Frames, MyJob
<1>4. PICK j \in JobIds, b \in Nat : frame[w].job = j /\ frame[w].born = b
  BY <1>3
<1>5. QuietEffect \/ \E v \in Workers : (Claims(v) /\ v # w) \/ Succeeds(v)
  BY <1>1, SysEffect
<1>6. Active(w, j)' => Active(w, j)
  <2>1. Exclusive(w, j, b)
    BY <1>2, <1>4 DEF SysInv, ClaimIsExclusive, Exclusive, Active, MyJob
  <2> QED BY <1>5, <2>1, ExclusiveIsStable
<1>7. Active(w, j) /\ j \in files => j \in files'
  <2>1. CASE QuietEffect
    BY <2>1 DEF QuietEffect, Active
  <2>2. ASSUME NEW v \in Workers, Claims(v) \/ Succeeds(v) PROVE files' = files
    BY <2>2, ClaimEffect, SuccessEffect
  <2> QED BY <1>5, <2>1, <2>2
<1>8. CASE pc[w] = "succeed"
  <2>1. j \in files \/ ~Active(w, j)
    BY <1>4, <1>8 DEF SysInv, OutputOrRefusal, MyJob
  <2> QED BY <1>2, <1>4, <1>6, <1>7, <2>1 DEF Active
<1>9. CASE pc[w] # "succeed"
  <2>1. WriteOutput(MyJob(w)) \/ ShouldStop(w)
    <3>1. PICK step, f : WorkerMove(w, step, f)
      BY <1>9, SysMoves DEF SysInv
    <3>2. step = "succeed"
      BY <3>1 DEF WorkerMove, Moves, SysInv, LocalsOK, Actors
    <3> QED BY <3>1, <3>2 DEF WorkerMove
  <2>2. WriteOutput(MyJob(w)) => j \in files'
    BY <1>4 DEF WriteOutput, MyJob
  <2>3. ShouldStop(w) => ~Active(w, j)
    BY <1>4 DEF ShouldStop, Exists, Active, MyJob
  <2> QED BY <1>2, <1>4, <1>6, <2>1, <2>2, <2>3 DEF Active
<1> QED BY <1>8, <1>9

\* No step makes a job read succeeded without its output, or deletes that.
LEMMA SuccessesKeepOutput ==
  ASSUME SysInv, [SysNext]_vars
  PROVE  SucceededHasOutput'
<1>0. jobs \in [JobIds -> JobRecord(Owners)] /\ SucceededHasOutput /\ RanksUsed
  BY DEF SysInv, TypeOK
<1> SUFFICES ASSUME NEW j \in JobIds, jobs'[j].status = "succeeded", jobs'[j].created > 0
             PROVE  j \in files'
  BY DEF SucceededHasOutput
<1>1. CASE QuietEffect
  <2>1. Kept(jobs[j], jobs'[j])
    BY <1>1 DEF QuietEffect, Purged, Submitted, NoRecord, NewRecord
  <2>2. \/ jobs[j].status = "succeeded" /\ jobs[j].created > 0
        \/ jobs[j].status = "cancelling" /\ j \in files
    BY <1>0, <1>1, <2>1 DEF QuietEffect, Grounded, Kept, RanksUsed
  <2> QED BY <1>0, <1>1, <2>2 DEF QuietEffect, SucceededHasOutput
<1>2. ASSUME NEW w \in Workers, Claims(w) PROVE j \in files'
  <2>1. PICK k \in JobIds :
          /\ jobs' = [jobs EXCEPT ![k] = [jobs[k] EXCEPT !.status = "claimed", !.worker = w]]
          /\ files' = files
    BY <1>2, ClaimEffect
  <2> QED BY <1>0, <2>1 DEF SucceededHasOutput, JobRecord
<1>3. ASSUME NEW w \in Workers, Succeeds(w) PROVE j \in files'
  <2>1. /\ MyJob(w) \in JobIds /\ MyJob(w) \in files /\ files' = files
        /\ \A k \in JobIds \ {MyJob(w)} : jobs'[k] = jobs[k]
    BY <1>0, <1>3, SuccessEffect
  <2> QED BY <1>0, <2>1 DEF SucceededHasOutput
<1> QED BY <1>1, <1>2, <1>3, SysEffect

\* Every step of the service keeps the invariant.
LEMMA SysInvInductive == SysInv /\ [SysNext]_vars => SysInv'
<1> SUFFICES ASSUME SysInv, [SysNext]_vars PROVE SysInv'
  OBVIOUS
<1>1. TypeOK' /\ RecordsCoherent'
  BY SysStepsAreStoreSteps, NextKeepsInv DEF SysInv, Inv
<1>2. LocalsOK'
  BY SysMoves DEF SysInv
<1> QED
  BY <1>1, <1>2, RanksStayUsed, ClaimsStayExclusive, ExecutorStaysSingle,
     ReportsStayBacked, SuccessesKeepOutput DEF SysInv

\* The invariant holds in every reachable state.
LEMMA SysInvHolds == SysSpec => []SysInv
BY InitSysInv, SysInvInductive, PTL DEF SysSpec

-----------------------------------------------------------------------------
(* Theorems.                                                               *)

\* The state of the processes keeps its types: who works on a job has one in
\* its frame, whatever it is called next.
THEOREM SysTypeCorrect == SysSpec => []SysTypeOK
<1>1. SysInv => SysTypeOK
  BY DEF SysInv, LocalsOK, SysTypeOK
<1> QED BY <1>1, SysInvHolds, PTL

\* No submission of a job is ever held by two workers, for any number of
\* workers, handlers, crashes, retries, deletions and reused ids.
THEOREM OneExecutor == SysSpec => []SingleExecutor
<1>1. SysInv => SingleExecutor
  BY DEF SysInv
<1> QED BY <1>1, SysInvHolds, PTL

\* A job that reads succeeded has its output file.
THEOREM OutputBacksSuccess == SysSpec => []SucceededHasOutput
<1>1. SysInv => SucceededHasOutput
  BY DEF SysInv
<1> QED BY <1>1, SysInvHolds, PTL

\* A probe that does not say stop looks at the submission being executed.
THEOREM ProbeIsRight == SysSpec => []ProbeSeesOwnJob
<1>1. SysInv => ProbeSeesOwnJob
  BY DEF SysInv, ClaimIsExclusive, ProbeSeesOwnJob, Holding, Active, ShouldStop, MyJob
<1> QED BY <1>1, SysInvHolds, PTL

\* A stop signal that an engine has not polled yet is still there when it does.
THEOREM StopStays == SysSpec => StopIsStable
<1>1. ASSUME SysInv, [SysNext]_vars, NEW w \in Workers,
             pc[w] = "execute", ShouldStop(w), pc'[w] = "execute"
      PROVE  ShouldStop(w)'
  <2>1. ~Claims(w)
    <3>1. Claims(w) => pc'[w] \in {"start", "prepare"}
      BY <1>1, ClaimEffect
    <3> QED BY <1>1, <3>1
  <2>2. Holding(w) /\ frame'[w] = frame[w]
    BY <1>1, <2>1, HoldingGoesOn DEF SysInv, Holding
  <2>3. frame[w].job \in JobIds /\ frame[w].born \in Nat
    <3>1. pc[w] \in JobSteps /\ w \in Actors
      BY <2>2 DEF Holding, JobSteps, Actors
    <3> QED BY <1>1, <3>1, FrameHolds DEF SysInv, LocalsOK, Frames, MyJob
  <2>4. PICK j \in JobIds, b \in Nat : frame[w].job = j /\ frame[w].born = b
    BY <2>3
  <2>5. Exclusive(w, j, b)
    BY <1>1, <2>2, <2>4 DEF SysInv, ClaimIsExclusive, Exclusive, Active, MyJob
  <2>6. QuietEffect \/ \E v \in Workers : (Claims(v) /\ v # w) \/ Succeeds(v)
    BY <1>1, <2>1, SysEffect
  <2>7. Active(w, j)' => Active(w, j)
    BY <1>1, <2>5, <2>6, ExclusiveIsStable
  <2>8. ~Active(w, j)
    BY <1>1, <2>4 DEF ShouldStop, Active, Exists, MyJob
  <2> QED
    BY <2>2, <2>4, <2>7, <2>8 DEF ShouldStop, Active, Exists, MyJob
<1>2. SysInv /\ [SysNext]_vars
        => [\A w \in Workers : pc[w] = "execute" /\ ShouldStop(w) /\ pc'[w] = "execute"
              => ShouldStop(w)']_vars
  BY <1>1
<1> QED BY <1>2, SysInvHolds, PTL DEF SysSpec, StopIsStable

\* The running service implements the store's specification: every step of every
\* process, crash and restart is one store operation or leaves the store alone,
\* so what part 1 proves of the store holds of the service.
THEOREM ServiceUsesStore == SysSpec => ImplementsStore
<1>1. SysInit => Init
  BY DEF SysInit
<1>2. SysInv /\ [SysNext]_vars => [Next]_storeVars
  BY SysStepsAreStoreSteps DEF SysInv
<1> QED BY <1>1, <1>2, SysInvHolds, PTL DEF SysSpec, Spec, ImplementsStore

\* So in the running service, with its crashes and restarts, records stay
\* coherent, jobs move along the lifecycle graph, a success is final, a job
\* keeps its owner and never returns to the queue, and the whole is a ledger.
THEOREM ServiceKeepsGuarantees ==
  SysSpec => /\ []RecordsCoherent
             /\ MovesAreLegal /\ SucceededIsFinal
             /\ OwnerNeverChanges /\ NeverRequeued
             /\ ImplementsLedger
<1>1. SysSpec => Spec
  BY ServiceUsesStore DEF ImplementsStore
<1> QED
  BY <1>1, RecordsStayCoherent, MovesStayLegal, SucceededStaysFinal, OwnerStaysPut,
     WorkIsHandedOutOnce, StoreImplementsLedger

-----------------------------------------------------------------------------
(* While ids are not reused, nobody's job is cancelled unless somebody     *)
(* asked for it.                                                           *)
(*                                                                         *)
(* A cancelled job was cancelling or timed out before, or was cancelled    *)
(* while it waited or ran.  The first kind is asked for by induction       *)
(* (Doomed).  The second is done by a request handler, which remembers     *)
(* that it was asked, or by a worker that finalizes a job the store has    *)
(* already taken from it, and then only under a reused id.                 *)

\* Somebody asked to cancel what is now stored under j; records of older
\* versions, of rank 0, are not spoken of.
Asked(j) == jobs[j].created > 0 => <<j, jobs[j].created>> \in asked

\* The record is cancelled, or is on its way there, or may be taken up again.
Doomed(r) == r.status \in {"cancelling", "cancelled"} \/ r.code = "cancel_timeout"

Claimed(w, j) == jobs[j].worker = w /\ jobs[j].status = "claimed"

FinalSteps == {"cancel1", "cancel2", "cancel3", "cancel4"}

\* A worker that started its job no longer finds it claimed, and one that was
\* refused its report does not find it active again.
ReportsStand ==
  \A w \in Workers :
    /\ pc[w] \in {"execute", "succeed"} => ~Claimed(w, MyJob(w))
    /\ pc[w] \in FinalSteps => ~Active(w, MyJob(w))

\* An id that is worked on was submitted, and a worker's job that is still
\* stored is the submission it claimed.
IdsAreSpent ==
  /\ \A j \in JobIds : Exists(j) => j \in used
  /\ \A a \in Actors : pc[a] \in JobSteps => MyJob(a) \in used
  /\ \A w \in Workers : Holding(w) /\ Exists(MyJob(w))
       => jobs[MyJob(w)].created = frame[w].born

\* Whoever is about to cancel was asked to, and so was what is cancelled.
CancelsAreAsked ==
  /\ \A j \in JobIds : Doomed(jobs[j]) => Asked(j)
  /\ \A h \in Handlers :
       pc[h] \in JobSteps \ {"escalate"} /\ Exists(MyJob(h)) => Asked(MyJob(h))

\* The text by which older versions marked a cancellation is only on records
\* of theirs.
LegacyIsOld ==
  \A j \in JobIds : jobs[j].error = "Cancelled by user" => jobs[j].created = 0

CancelInv == SysInv /\ ReportsStand /\ IdsAreSpent /\ CancelsAreAsked /\ LegacyIsOld

-----------------------------------------------------------------------------
(* What the operations of the store do to one record.                      *)

\* Record s continues what is stored under j: the same submission, not brought
\* closer to a cancellation unless that was asked for.
Continues(j, s) ==
  /\ s.created = jobs[j].created
  /\ s.status # "absent" => Exists(j)
  /\ Doomed(s) => Doomed(jobs[j]) \/ Asked(j)
  /\ s.error = "Cancelled by user" => jobs[j].error = "Cancelled by user"

Begins(j, s) == j \notin used /\ j \in used' /\ s = NewRecord(clock + 1)

AskedEffect ==
  \A j \in JobIds :
    Continues(j, jobs'[j]) \/ Begins(j, jobs'[j]) \/ jobs'[j] = NoRecord

\* The operations that cancel nothing that was not being cancelled.
CalmStep ==
  \/ \E j \in JobIds, w \in Owners : CancelFinished(j, w)
  \/ \E j \in JobIds, w \in Workers : WorkerStep(j, w)
  \/ \E j \in JobIds : RecoverOverdue(j) \/ WriteOutput(j) \/ DeadlinePasses(j)
  \/ DeleteFailed
  \/ Restore

\* The operations that cancel a job, as the step of the process that calls them.
CancelCall(a) ==
  \/ pc[a] \in {"cancel_queued", "cancel2"} /\ CancelQueued(MyJob(a))
  \/ pc[a] = "cancel3" /\ CancelClaimed(MyJob(a), frame[a].who)
  \/ pc[a] = "cancel4" /\ CancelRunning(MyJob(a), frame[a].who)

\* An operation that writes one record in place.
LEMMA PutContinues ==
  ASSUME Inv, NEW j \in JobIds, NEW r, Put(j, r), Continues(j, r)
  PROVE  AskedEffect
BY DEF Put, Inv, TypeOK, Continues, Exists, AskedEffect

\* What a worker reports, and what is done in its name, cancels nothing.
LEMMA WorkerStepIsCalm ==
  ASSUME Inv, NEW j \in JobIds, NEW w \in Workers, WorkerStep(j, w)
  PROVE  AskedEffect
<1> USE DEF Continues, Doomed, GoodRecord, JobRecord
<1>1. GoodRecord(jobs[j])
  BY StoredIsGood
<1>2. CASE ClaimJob(j, w)
  BY <1>1, <1>2, PutContinues DEF ClaimJob, OldestQueued, IsQueued, Exists
<1>3. CASE MarkRunning(j, w)
  BY <1>1, <1>3, PutContinues DEF MarkRunning, Permits
<1>4. CASE MarkSucceeded(j, w)
  BY <1>1, <1>4, PutContinues DEF MarkSucceeded, Permits
<1>5. CASE MarkFailed(j, w)
  BY <1>1, <1>5, PutContinues DEF MarkFailed, Permits
<1>6. CASE EscalateJob(j, w)
  <2>1. Continues(j, EscalateCancellation(jobs[j]))
    BY <1>1, <1>6 DEF EscalateJob, Permits, EscalateCancellation
  <2> QED BY <1>6, <2>1, PutContinues DEF EscalateJob
<1>7. CASE RetryTimedOut(j, w)
  <2>1. Continues(j, Reopened(jobs[j]))
    BY <1>1, <1>7 DEF RetryTimedOut, Reopened, EscalateCancellation, Exists
  <2> QED BY <1>7, <2>1, PutContinues DEF RetryTimedOut
<1>8. CASE FinalizeTimeout(j, w)
  <2>1. Continues(j, TimedOut(jobs[j]))
    BY <1>1, <1>8 DEF FinalizeTimeout, Permits, TimedOut
  <2> QED BY <1>8, <2>1, PutContinues DEF FinalizeTimeout
<1> QED BY <1>2, <1>3, <1>4, <1>5, <1>6, <1>7, <1>8 DEF WorkerStep

\* Restoring a record cancels only what an older version had cancelled.
LEMMA RestoreContinues ==
  ASSUME Inv, LegacyIsOld, NEW j \in JobIds, NEW s,
         s = NormalizeLegacy(jobs[j]) \/ s = NormalizeRestored(jobs[j])
  PROVE  Continues(j, s)
<1> USE DEF Continues, Doomed, GoodRecord, JobRecord, Exists
<1>0. GoodRecord(jobs[j])
  BY StoredIsGood
<1>1. Continues(j, NormalizeLegacy(jobs[j]))
  <2> DEFINE r == jobs[j]
             c == [r EXCEPT !.status = "cancelled", !.error = "none"]
  <2>1. CASE r.status = "failed" /\ r.error = "Cancelled by user"
    <3>1. c.created = 0 /\ r.created = 0 /\ c.error = "none"
      BY <1>0, <2>1 DEF LegacyIsOld
    <3>2. NormalizeLegacy(r) = c
      BY <2>1 DEF NormalizeLegacy
    <3>3. Asked(j)
      BY <3>1 DEF Asked
    <3> QED BY <2>1, <3>1, <3>2, <3>3
  <2>2. CASE r.status = "completed"
    BY <1>0, <2>2 DEF NormalizeLegacy
  <2>3. CASE NormalizeLegacy(r) = r
    BY <2>3
  <2> QED BY <2>1, <2>2, <2>3 DEF NormalizeLegacy
<1>2. CASE NormalizeLegacy(jobs[j]).status \in InflightStates
  <2>1. NormalizeLegacy(jobs[j]) = jobs[j]
    BY <1>0, <1>2 DEF InflightStates, NormalizeLegacy
  <2>2. Continues(j, FailInflight(jobs[j]))
    BY <1>0, <1>2, <2>1 DEF FailInflight, InflightStates
  <2> QED BY <1>1, <1>2, <2>1, <2>2 DEF NormalizeRestored
<1>3. CASE NormalizeLegacy(jobs[j]).status \notin InflightStates
  BY <1>1, <1>3 DEF NormalizeRestored
<1> QED BY <1>2, <1>3

\* None of these operations cancels anything that nobody asked for.
LEMMA CalmStepEffect ==
  ASSUME Inv, LegacyIsOld, CalmStep \/ UNCHANGED storeVars
  PROVE  AskedEffect
<1> USE DEF Continues, Doomed, GoodRecord, JobRecord
<1>1. CASE UNCHANGED storeVars
  BY <1>1 DEF storeVars, AskedEffect, Exists
<1>2. ASSUME NEW j \in JobIds, NEW w \in Owners, CancelFinished(j, w)
      PROVE  AskedEffect
  <2>1. Continues(j, Cancelled(jobs[j]))
    BY <1>2, StoredIsGood DEF CancelFinished, Permits, Cancelled
  <2> QED BY <1>2, <2>1, PutContinues DEF CancelFinished
<1>3. ASSUME NEW j \in JobIds, RecoverOverdue(j)
      PROVE  AskedEffect
  <2> DEFINE r == [jobs[j] EXCEPT !.status = "succeeded", !.finished = TRUE,
                                  !.error = "none", !.code = "none"]
  <2>1. Continues(j, r) /\ Continues(j, TimedOut(jobs[j]))
    BY <1>3, StoredIsGood DEF RecoverOverdue, TimedOut, Exists
  <2> QED BY <1>3, <2>1, PutContinues DEF RecoverOverdue
<1>4. ASSUME NEW j \in JobIds, WriteOutput(j)
      PROVE  AskedEffect
  BY <1>4 DEF WriteOutput, AskedEffect, Exists
<1>5. ASSUME NEW j \in JobIds, DeadlinePasses(j)
      PROVE  AskedEffect
  <2>1. Continues(j, [jobs[j] EXCEPT !.deadline = "elapsed"])
    BY <1>5, StoredIsGood DEF DeadlinePasses, Exists
  <2> QED BY <1>5, <2>1, PutContinues DEF DeadlinePasses
<1>6. CASE DeleteFailed
  BY <1>6 DEF DeleteFailed, AskedEffect, Exists
<1>7. CASE Restore
  BY <1>7, RestoreContinues DEF Restore, AskedEffect
<1> QED
  BY <1>1, <1>2, <1>3, <1>4, <1>5, <1>6, <1>7, WorkerStepIsCalm DEF CalmStep

\* Who cancels the job it works on, when that was asked for.
LEMMA CancelCallEffect ==
  ASSUME Inv, NEW a \in Actors, MyJob(a) \in JobIds, CancelCall(a),
         Exists(MyJob(a)) => Asked(MyJob(a))
  PROVE  AskedEffect
<1> USE DEF Continues, GoodRecord, JobRecord
<1> DEFINE j == MyJob(a)
<1>1. GoodRecord(jobs[j]) /\ (Exists(j) => Asked(j))
  BY StoredIsGood
<1>2. CASE CancelQueued(j) \/ CancelClaimed(j, frame[a].who)
  <2>1. Put(j, Cancelled(jobs[j])) /\ Exists(j)
    BY <1>2 DEF CancelQueued, CancelClaimed, Permits
  <2>2. Continues(j, Cancelled(jobs[j]))
    BY <1>1, <2>1 DEF Cancelled
  <2> QED BY <2>1, <2>2, PutContinues
<1>3. CASE CancelRunning(j, frame[a].who)
  <2>1. Put(j, BeginCancellation(jobs[j])) /\ Exists(j)
    BY <1>3 DEF CancelRunning, Permits
  <2>2. Continues(j, BeginCancellation(jobs[j]))
    BY <1>1, <2>1 DEF BeginCancellation
  <2> QED BY <2>1, <2>2, PutContinues
<1> QED BY <1>2, <1>3 DEF CancelCall

-----------------------------------------------------------------------------
(* Who calls what, and what each process did before.                       *)

\* Reconciliation times out and recovers, and cancels nothing.
LEMMA ReconcileIsCalm ==
  ASSUME LocalsOK, NEW a \in Actors, ReconcileOne(a)
  PROVE  CalmStep \/ UNCHANGED storeVars
<1>1. PICK t \in todo[a] : Settles(t[1], t[2]) \/ SettleRefused(t[1], t[2])
  BY DEF ReconcileOne
<1>2. t[1] \in JobIds /\ t[2] \in Owners
  BY <1>1 DEF LocalsOK
<1> QED
  BY <1>1, <1>2 DEF Settles, SettleRefused, CalmStep, WorkerStep, Owners

\* request_cancellation cancels the job of its caller's frame.
LEMMA RequestCancels ==
  ASSUME LocalsOK, NEW a \in Actors, RequestCancellation(a)
  PROVE  CalmStep \/ CancelCall(a) \/ UNCHANGED storeVars
<1>1. CASE TryFinished(a)
  <2>1. MyJob(a) \in JobIds /\ frame[a].who \in Owners
    BY <1>1, FrameHolds DEF TryFinished, JobSteps
  <2> QED BY <1>1, <2>1 DEF TryFinished, CalmStep
<1>2. CASE TryQueued(a)
  BY <1>2 DEF TryQueued, CancelCall
<1>3. CASE TryClaimed(a)
  BY <1>3 DEF TryClaimed, CancelCall
<1>4. CASE TryRunning(a)
  BY <1>4 DEF TryRunning, CancelCall
<1> QED BY <1>1, <1>2, <1>3, <1>4 DEF RequestCancellation

\* Every step of the service is calm, or cancels the job of a frame, or is a
\* submission.
LEMMA SysCancels ==
  ASSUME LocalsOK, [SysNext]_vars
  PROVE  \/ CalmStep \/ UNCHANGED storeVars
         \/ \E a \in Actors : CancelCall(a)
         \/ \E h \in Handlers, j \in JobIds : Submit(h, j)
<1>0. \A a \in Actors :
        /\ pc[a] \in JobSteps => MyJob(a) \in JobIds
        /\ pc[a] \in {"retry", "escalate"} => frame[a].who \in Workers
  BY FrameHolds DEF JobSteps
<1>1. ASSUME NEW w \in Workers, WorkerRuns(w) \/ CrashWorker(w)
      PROVE  CalmStep \/ CancelCall(w) \/ UNCHANGED storeVars
  <2>0. w \in Actors
    BY DEF Actors
  <2>1. CASE ClaimNext(w)
    BY <2>1 DEF ClaimNext, CalmStep, WorkerStep
  <2>2. CASE StartJob(w)
    BY <1>0, <2>0, <2>2 DEF StartJob, CalmStep, WorkerStep, JobSteps
  <2>3. CASE Execute(w)
    BY <1>0, <2>0, <2>3 DEF Execute, CalmStep, JobSteps
  <2>4. CASE ReportSuccess(w)
    BY <1>0, <2>0, <2>4 DEF ReportSuccess, CalmStep, WorkerStep, JobSteps
  <2>5. CASE ReportFailure(w)
    BY <1>0, <2>0, <2>5 DEF ReportFailure, CalmStep, WorkerStep, JobSteps
  <2>6. CASE ReconcileOne(w) \/ RequestCancellation(w)
    BY <2>0, <2>6, ReconcileIsCalm, RequestCancels
  <2>7. CASE StartWorker(w) \/ LoopTop(w) \/ CheckCapacity(w) \/ Prepare(w)
               \/ CheckClaim(w) \/ CrashWorker(w)
    BY <2>7 DEF StartWorker, LoopTop, ListOverdue, CheckCapacity, Prepare, CheckClaim,
                CrashWorker
  <2> QED BY <1>1, <2>1, <2>2, <2>3, <2>4, <2>5, <2>6, <2>7 DEF WorkerRuns
<1>2. ASSUME NEW h \in Handlers, HandlerRuns(h) \/ NewRequest(h)
      PROVE  CalmStep \/ CancelCall(h) \/ UNCHANGED storeVars
               \/ \E j \in JobIds : Submit(h, j)
  <2>0. h \in Actors
    BY DEF Actors
  <2>1. CASE BootApi(h) \/ DeleteRequest(h)
    BY <2>1 DEF BootApi, DeleteRequest, CalmStep
  <2>2. CASE CancelQueuedJob(h)
    BY <2>2 DEF CancelQueuedJob, CancelCall
  <2>3. CASE RetryCancel(h)
    BY <1>0, <2>0, <2>3 DEF RetryCancel, CalmStep, WorkerStep, JobSteps
  <2>4. CASE EscalateCancel(h)
    BY <1>0, <2>0, <2>4 DEF EscalateCancel, CalmStep, WorkerStep, JobSteps
  <2>5. CASE ReconcileOne(h) \/ RequestCancellation(h)
    BY <2>0, <2>5, ReconcileIsCalm, RequestCancels
  <2>6. CASE \/ SettleAtBoot(h) \/ Serve(h) \/ Reread(h) \/ ReadRequest(h)
             \/ \E j \in JobIds : CancelRequest(h, j) \/ EscalateRequest(h, j)
    BY <2>6 DEF SettleAtBoot, Serve, Reread, ReadRequest, ListOverdue, CancelRequest,
                EscalateRequest
  <2> QED BY <1>2, <2>1, <2>2, <2>3, <2>4, <2>5, <2>6 DEF HandlerRuns, NewRequest
<1>3. CASE TimePasses
  BY <1>3 DEF TimePasses, CalmStep
<1>4. CASE CrashApi \/ UNCHANGED vars
  BY <1>4 DEF CrashApi, vars
<1> QED BY <1>1, <1>2, <1>3, <1>4 DEF SysNext, Actors

\* What was submitted and what was asked for is not forgotten.
LEMMA HistoryGrows ==
  ASSUME [SysNext]_vars
  PROVE  asked \subseteq asked' /\ used \subseteq used'
<1>1. ASSUME NEW w \in Workers, WorkerRuns(w) \/ CrashWorker(w)
      PROVE  asked' = asked /\ used' = used
  BY <1>1 DEF WorkerRuns, StartWorker, LoopTop, ListOverdue, CheckCapacity, ClaimNext,
       Prepare, CheckClaim, StartJob, Execute, ReportSuccess, ReportFailure, ReconcileOne,
       RequestCancellation, TryFinished, TryQueued, TryClaimed, TryRunning, CrashWorker,
       historyVars
<1>2. ASSUME NEW h \in Handlers, HandlerRuns(h)
      PROVE  asked' = asked /\ used' = used
  BY <1>2 DEF HandlerRuns, BootApi, SettleAtBoot, ListOverdue, Serve, CancelQueuedJob,
       Reread, RetryCancel, EscalateCancel, ReconcileOne, RequestCancellation,
       TryFinished, TryQueued, TryClaimed, TryRunning, historyVars
<1>3. ASSUME NEW h \in Handlers, NewRequest(h)
      PROVE  asked \subseteq asked' /\ used \subseteq used'
  BY <1>3 DEF NewRequest, Submit, CancelRequest, EscalateRequest, ReadRequest,
       ListOverdue, DeleteRequest, historyVars
<1> QED
  BY <1>1, <1>2, <1>3 DEF SysNext, CrashApi, TimePasses, vars, historyVars

\* A process is at a job after a step because it was where it is, or by a step
\* of its own.
LEMMA WhoMoves ==
  ASSUME LocalsOK, TypeOK, [SysNext]_vars, NEW a \in Actors, pc'[a] \in JobSteps
  PROVE  \/ pc'[a] = pc[a] /\ frame'[a] = frame[a]
         \/ a \in Workers /\ WorkerRuns(a)
         \/ a \in Handlers /\ (HandlerRuns(a) \/ NewRequest(a))
<1>1. ASSUME NEW w \in Workers, WorkerRuns(w) \/ CrashWorker(w), w # a
      PROVE  pc'[a] = pc[a] /\ frame'[a] = frame[a]
  <2>1. PICK step, f : WorkerMove(w, step, f)
    BY <1>1, WorkerMoves
  <2> QED BY <1>1, <2>1, MoveKeepsLocals DEF WorkerMove, Actors
<1>2. ASSUME NEW h \in Handlers, HandlerRuns(h) \/ NewRequest(h), h # a
      PROVE  pc'[a] = pc[a] /\ frame'[a] = frame[a]
  BY <1>2, HandlerMoves DEF Waits, JobSteps
<1>3. ASSUME NEW w \in Workers, CrashWorker(w), w = a
      PROVE  FALSE
  BY <1>3 DEF CrashWorker, LocalsOK, JobSteps
<1>4. CASE CrashApi
  BY <1>4, ActorsAssumption DEF CrashApi, JobSteps, Actors
<1>5. CASE TimePasses \/ UNCHANGED vars
  BY <1>5 DEF TimePasses, vars, localVars
<1> QED BY <1>1, <1>2, <1>3, <1>4, <1>5 DEF SysNext

\* A handler comes to a job by a request: it read the record, and if it goes on
\* to cancel the job, the request is on record.
LEMMA HandlerAsks ==
  ASSUME LocalsOK, TypeOK, [SysNext]_vars, NEW h \in Handlers, pc'[h] \in JobSteps
  PROVE  \/ /\ pc[h] \in JobSteps /\ frame'[h].job = frame[h].job
            /\ pc[h] = "escalate" => pc'[h] = "escalate"
         \/ \E j \in JobIds :
              /\ frame'[h].job = j /\ Exists(j) /\ jobs' = jobs
              /\ pc'[h] # "escalate" => <<j, jobs[j].created>> \in asked'
<1>0. h \in Actors /\ h \notin Workers
  BY ActorsAssumption DEF Actors
<1>1. \/ pc'[h] = pc[h] /\ frame'[h] = frame[h]
      \/ HandlerRuns(h) \/ NewRequest(h)
  BY <1>0, WhoMoves
<1>2. ASSUME Return(h) PROVE FALSE
  BY <1>0, <1>2 DEF Return, Home, LocalsOK, JobSteps
<1>3. ASSUME NEW step, step \notin JobSteps, Moves(h, step, frame[h]) PROVE FALSE
  BY <1>0, <1>3 DEF Moves, LocalsOK
<1>4. ASSUME NEW j \in JobIds, Dispatch(h, j)
      PROVE  frame'[h].job = j /\ Exists(j) /\ pc'[h] # "escalate"
  BY <1>0, <1>2, <1>4 DEF Dispatch, Enter, Exists, LocalsOK
<1>5. CASE CancelQueuedJob(h)
  BY <1>0, <1>2, <1>5 DEF CancelQueuedJob, Goto, LocalsOK, JobSteps
<1>6. CASE Reread(h)
  <2>1. MyJob(h) \in JobIds
    BY <1>0, <1>6, FrameHolds DEF Reread, JobSteps
  <2> QED BY <1>4, <1>6, <2>1 DEF Reread, MyJob, JobSteps
<1>7. CASE RetryCancel(h) \/ EscalateCancel(h)
  BY <1>2, <1>7 DEF RetryCancel, EscalateCancel
<1>8. CASE ReconcileOne(h)
  BY <1>0, <1>3, <1>8, ReconcileMoves
<1>9. CASE RequestCancellation(h)
  <2>1. pc[h] \in {"cancel1", "cancel2", "cancel3", "cancel4"}
    BY <1>9 DEF RequestCancellation, TryFinished, TryQueued, TryClaimed, TryRunning
  <2>2. frame'[h] = frame[h]
    BY <1>0, <1>2, <1>9 DEF RequestCancellation, TryFinished, TryQueued, TryClaimed,
         TryRunning, Goto
  <2> QED BY <2>1, <2>2 DEF JobSteps
<1>10. CASE SettleAtBoot(h) \/ ReadRequest(h)
  BY <1>0, <1>3, <1>10, ListMoves
     DEF SettleAtBoot, ReadRequest, HandlerSteps, JobSteps
<1>11. CASE BootApi(h) \/ Serve(h)
  BY <1>0, <1>11 DEF BootApi, Serve, Goto, LocalsOK, JobSteps
<1>12. CASE DeleteRequest(h) \/ \E j \in JobIds : Submit(h, j)
  BY <1>12 DEF DeleteRequest, Submit, localVars, JobSteps
<1>13. ASSUME NEW j \in JobIds, CancelRequest(h, j)
       PROVE  /\ frame'[h].job = j /\ Exists(j) /\ jobs' = jobs
              /\ <<j, jobs[j].created>> \in asked'
  <2>1. frame'[h].job = j
    BY <1>0, <1>4, <1>13 DEF CancelRequest, Enter, LocalsOK
  <2> QED BY <1>13, <2>1 DEF CancelRequest, storeVars
<1>14. ASSUME NEW j \in JobIds, EscalateRequest(h, j)
       PROVE  /\ frame'[h].job = j /\ Exists(j) /\ jobs' = jobs
              /\ pc'[h] = "escalate"
  BY <1>0, <1>14 DEF EscalateRequest, Enter, LocalsOK, storeVars
<1> QED
  BY <1>1, <1>5, <1>6, <1>7, <1>8, <1>9, <1>10, <1>11, <1>12, <1>13, <1>14
     DEF HandlerRuns, NewRequest

\* A worker comes to execute a job that its own report made running.
LEMMA WorkerStarts ==
  ASSUME LocalsOK, TypeOK, [SysNext]_vars, NEW w \in Workers,
         pc'[w] \in {"execute", "succeed"}
  PROVE  \/ pc[w] \in {"execute", "succeed"}
         \/ MarkRunning(MyJob(w), w)
<1>0. w \in Actors /\ w \notin Handlers /\ pc'[w] \in JobSteps
  BY ActorsAssumption DEF Actors, JobSteps
<1>1. pc'[w] = pc[w] \/ WorkerRuns(w)
  BY <1>0, WhoMoves
<1>2. ASSUME NEW step, NEW f, Moves(w, step, f), step \notin {"execute", "succeed"}
      PROVE  FALSE
  BY <1>0, <1>2 DEF Moves, LocalsOK
<1>3. ASSUME Return(w) PROVE FALSE
  BY <1>0, <1>3 DEF Return, Home, LocalsOK, JobSteps
<1>4. ASSUME NEW step \in {"loop", "capacity", "claim", "check", "fail", "start",
                           "cancel1", "cancel2", "cancel3", "cancel4"},
             Goto(w, step)
      PROVE  FALSE
  BY <1>0, <1>4 DEF Goto, LocalsOK
<1>5. CASE LoopTop(w) \/ ReconcileOne(w)
  <2>1. \E step : step \notin JobSteps /\ Moves(w, step, frame[w])
    BY <1>0, <1>5, ListMoves, ReconcileMoves DEF LoopTop, JobSteps, WorkerSteps
  <2> QED BY <1>2, <2>1 DEF JobSteps
<1>6. CASE ClaimNext(w)
  BY <1>0, <1>3, <1>6 DEF ClaimNext, Enter, LocalsOK
<1>7. CASE StartWorker(w) \/ CheckCapacity(w) \/ Prepare(w) \/ CheckClaim(w)
  BY <1>3, <1>4, <1>7 DEF StartWorker, CheckCapacity, Prepare, CheckClaim
<1>8. CASE StartJob(w)
  BY <1>3, <1>8 DEF StartJob
<1>9. CASE Execute(w) \/ ReportSuccess(w)
  BY <1>9 DEF Execute, ReportSuccess
<1>10. CASE ReportFailure(w) \/ RequestCancellation(w)
  BY <1>3, <1>4, <1>10 DEF ReportFailure, RequestCancellation, TryFinished, TryQueued,
       TryClaimed, TryRunning
<1> QED
  BY <1>1, <1>5, <1>6, <1>7, <1>8, <1>9, <1>10 DEF WorkerRuns

\* A worker comes to cancel its job when the store refused its report.
LEMMA WorkerRefused ==
  ASSUME LocalsOK, TypeOK, ReportsStand, [SysNext]_vars, NEW w \in Workers,
         pc'[w] \in FinalSteps
  PROVE  ~Active(w, MyJob(w))
<1>0. w \in Actors /\ w \notin Handlers /\ pc'[w] \in JobSteps
  BY ActorsAssumption DEF Actors, JobSteps, FinalSteps
<1>1. pc'[w] = pc[w] \/ WorkerRuns(w)
  BY <1>0, WhoMoves
<1>2. ASSUME NEW step, NEW f, Moves(w, step, f), step \notin FinalSteps
      PROVE  FALSE
  BY <1>0, <1>2 DEF Moves, LocalsOK
<1>3. ASSUME Return(w) PROVE FALSE
  BY <1>0, <1>3 DEF Return, Home, LocalsOK, FinalSteps
<1>4. ASSUME NEW step \in {"loop", "capacity", "claim", "check", "start", "execute",
                           "succeed", "fail", "stopped"},
             Goto(w, step)
      PROVE  FALSE
  BY <1>0, <1>4 DEF Goto, LocalsOK, FinalSteps
<1>5. CASE LoopTop(w) \/ ReconcileOne(w)
  <2>1. \E step : step \notin JobSteps /\ Moves(w, step, frame[w])
    BY <1>0, <1>5, ListMoves, ReconcileMoves DEF LoopTop, JobSteps, WorkerSteps
  <2> QED BY <1>2, <2>1 DEF JobSteps, FinalSteps
<1>6. CASE ClaimNext(w)
  BY <1>0, <1>3, <1>6 DEF ClaimNext, Enter, LocalsOK, FinalSteps
<1>7. CASE StartWorker(w) \/ CheckCapacity(w) \/ Prepare(w) \/ CheckClaim(w)
             \/ StartJob(w) \/ Execute(w)
  BY <1>3, <1>4, <1>7 DEF StartWorker, CheckCapacity, Prepare, CheckClaim, StartJob,
       Execute
<1>8. CASE ReportSuccess(w)
  <2>1. ~Permits(MyJob(w), w, {"running"}, "succeeded")
    BY <1>3, <1>8 DEF ReportSuccess
  <2>2. ~Claimed(w, MyJob(w))
    BY <1>8 DEF ReportSuccess, ReportsStand
  <2> QED
    BY <2>1, <2>2 DEF Permits, Active, Claimed, Exists, CanTransition,
       AllowedTransitions, Statuses, CanonicalStates
<1>9. CASE ReportFailure(w)
  <2>1. ~Permits(MyJob(w), w, {"claimed", "running", "cancelling"}, "failed")
    BY <1>3, <1>9 DEF ReportFailure
  <2> QED
    BY <2>1 DEF Permits, Active, Exists, CanTransition,
       AllowedTransitions, Statuses, CanonicalStates
<1>10. CASE RequestCancellation(w) \/ pc'[w] = pc[w]
  BY <1>10 DEF RequestCancellation, TryFinished, TryQueued, TryClaimed, TryRunning,
       FinalSteps, ReportsStand
<1> QED
  BY <1>1, <1>5, <1>6, <1>7, <1>8, <1>9, <1>10 DEF WorkerRuns

-----------------------------------------------------------------------------
(* The invariant is inductive while ids are not reused.                    *)

\* Who is about to cancel a job that is stored was asked to: a handler by its
\* request, and a worker is never there with a job the store still gives it.
LEMMA CancelsWereAsked ==
  ASSUME CancelInv, NEW a \in Actors, CancelCall(a)
  PROVE  MyJob(a) \in JobIds /\ Asked(MyJob(a))
<1>1. pc[a] \in JobSteps \ {"escalate"}
  BY DEF CancelCall, JobSteps
<1>2. MyJob(a) \in JobIds /\ Exists(MyJob(a))
  <2>1. MyJob(a) \in JobIds
    BY <1>1, FrameHolds DEF CancelInv, SysInv
  <2> QED
    BY <2>1 DEF CancelCall, CancelQueued, CancelClaimed, CancelRunning, Permits
<1>3. CASE a \in Handlers
  BY <1>1, <1>2, <1>3 DEF CancelInv, CancelsAreAsked
<1>4. ASSUME a \in Workers PROVE FALSE
  <2>1. frame[a].who = a /\ a # NoWorker /\ pc[a] \in FinalSteps
    BY <1>1, <1>4, NoWorkerAssumption
       DEF CancelInv, SysInv, LocalsOK, Fits, CancelCall, FinalSteps, WorkerSteps
  <2>2. Holding(a) /\ ~Active(a, MyJob(a))
    BY <1>4, <2>1 DEF Holding, FinalSteps, CancelInv, ReportsStand
  <2>3. ~IsQueued(MyJob(a))
    BY <1>2, <1>4, <2>2 DEF CancelInv, IdsAreSpent, SysInv, ClaimIsExclusive
  <2> QED
    BY <2>1, <2>2, <2>3
       DEF CancelCall, CancelQueued, CancelClaimed, CancelRunning, Permits, IsQueued,
           Active
<1> QED BY <1>3, <1>4 DEF Actors

\* Every step continues the stored submissions, begins one or deletes one.
LEMMA SysAskedEffect ==
  ASSUME ~ReuseIds, CancelInv, [SysNext]_vars
  PROVE  AskedEffect
<1>0. Inv /\ LegacyIsOld /\ LocalsOK
  BY DEF CancelInv, SysInv, Inv
<1>1. CASE CalmStep \/ UNCHANGED storeVars
  BY <1>0, <1>1, CalmStepEffect
<1>2. ASSUME NEW a \in Actors, CancelCall(a) PROVE AskedEffect
  BY <1>0, <1>2, CancelsWereAsked, CancelCallEffect
<1>3. ASSUME NEW h \in Handlers, NEW j \in JobIds, Submit(h, j) PROVE AskedEffect
  <2>1. /\ j \notin used /\ j \in used'
        /\ jobs' = [jobs EXCEPT ![j] = NewRecord(clock + 1)]
    BY <1>3 DEF Submit, CreateJob
  <2> QED
    BY <1>0, <2>1 DEF Inv, TypeOK, AskedEffect, Continues, Begins, Exists
<1> QED BY <1>0, <1>1, <1>2, <1>3, SysCancels

\* What is stored under a spent id is the submission that was there.
LEMMA SpentIdsContinue ==
  ASSUME AskedEffect, NEW j \in JobIds, j \in used, jobs'[j].status # "absent"
  PROVE  Continues(j, jobs'[j]) /\ Exists(j)
<1>1. jobs'[j] # NoRecord /\ ~Begins(j, jobs'[j])
  BY DEF NoRecord, NewRecord, Begins
<1> QED BY <1>1 DEF AskedEffect, Continues

\* No step writes the text of older versions, or gives an old record a rank.
LEMMA LegacyStaysOld ==
  ASSUME LegacyIsOld, AskedEffect
  PROVE  LegacyIsOld'
<1>1. NoRecord.error = "none" /\ \A c : NewRecord(c).error = "none"
  BY DEF NoRecord, NewRecord
<1> QED BY <1>1 DEF LegacyIsOld, AskedEffect, Continues, Begins

\* A submission uses up its id, whoever takes a job finds it stored, and a claim
\* remembers which submission it took.
LEMMA IdsStaySpent ==
  ASSUME CancelInv, AskedEffect, [SysNext]_vars
  PROVE  IdsAreSpent'
<1>0. SysInv /\ LocalsOK /\ TypeOK /\ IdsAreSpent /\ used \subseteq used'
  BY HistoryGrows DEF CancelInv, SysInv
<1>1. \A j \in JobIds : jobs'[j].status # "absent" => j \in used'
  <2>1. NoRecord.status = "absent"
    BY DEF NoRecord, NewRecord
  <2> QED BY <1>0, <2>1 DEF AskedEffect, Continues, Begins, IdsAreSpent
<1>2. ASSUME NEW a \in Actors, pc'[a] \in JobSteps
      PROVE  frame'[a].job \in used'
  <2>1. CASE a \in Handlers
    <3>1. CASE pc[a] \in JobSteps /\ frame'[a].job = frame[a].job
      BY <1>0, <3>1 DEF IdsAreSpent, MyJob
    <3>2. CASE \E j \in JobIds : frame'[a].job = j /\ Exists(j)
      BY <1>0, <3>2 DEF IdsAreSpent
    <3> QED BY <1>0, <1>2, <2>1, <3>1, <3>2, HandlerAsks
  <2>2. CASE a \in Workers /\ Claims(a)
    <3>1. PICK j \in JobIds :
            /\ IsQueued(j)
            /\ frame'[a] = [job |-> j, who |-> a, born |-> jobs[j].created]
      BY <1>0, <2>2, ClaimEffect
    <3>2. frame'[a].job = j /\ Exists(j)
      BY <3>1 DEF IsQueued, Exists
    <3> QED BY <1>0, <3>2 DEF IdsAreSpent
  <2>3. CASE a \in Workers /\ ~Claims(a)
    <3>1. CASE \E step, f : WorkerMove(a, step, f)
      BY <1>0, <1>2, <2>3, <3>1 DEF WorkerMove, Moves, LocalsOK, IdsAreSpent, MyJob
    <3>2. CASE pc'[a] = pc[a] /\ frame'[a] = frame[a]
      BY <1>0, <1>2, <3>2 DEF IdsAreSpent, MyJob
    <3> QED BY <1>0, <2>3, <3>1, <3>2, SysMoves
  <2> QED BY <2>1, <2>2, <2>3 DEF Actors
<1>3. ASSUME NEW w \in Workers, Holding(w)', NEW j \in JobIds, frame'[w].job = j,
             jobs'[j].status # "absent"
      PROVE  jobs'[j].created = frame'[w].born
  <2>1. CASE Claims(w)
    <3>1. PICK k \in JobIds :
            /\ jobs' = [jobs EXCEPT ![k] = [jobs[k] EXCEPT !.status = "claimed", !.worker = w]]
            /\ frame'[w] = [job |-> k, who |-> w, born |-> jobs[k].created]
      BY <1>0, <2>1, ClaimEffect
    <3> QED BY <1>0, <1>3, <3>1 DEF TypeOK, JobRecord
  <2>2. CASE ~Claims(w)
    <3>1. Holding(w) /\ frame'[w] = frame[w]
      BY <1>0, <1>3, <2>2, HoldingGoesOn
    <3>2. j \in used
      BY <1>0, <1>3, <3>1 DEF Holding, JobSteps, Actors, IdsAreSpent, MyJob
    <3>3. Continues(j, jobs'[j]) /\ Exists(j)
      BY <1>3, <3>2, SpentIdsContinue
    <3> QED BY <1>0, <1>3, <3>1, <3>3 DEF IdsAreSpent, MyJob, Continues
  <2> QED BY <2>1, <2>2
<1>4. ASSUME NEW w \in Workers, Holding(w)' PROVE frame'[w].job \in JobIds
  <2>1. LocalsOK' /\ w \in Actors
    BY <1>0, SysMoves DEF Actors
  <2>2. pc'[w] \in JobSteps
    BY <1>4 DEF Holding, JobSteps
  <2> QED BY <2>1, <2>2 DEF LocalsOK, Fits
<1> QED BY <1>1, <1>2, <1>3, <1>4 DEF IdsAreSpent, Exists, MyJob

\* A cancellation goes on from one that was asked for, and a handler that goes on
\* to cancel has put its request on record.
LEMMA CancelsStayAsked ==
  ASSUME CancelInv, AskedEffect, [SysNext]_vars
  PROVE  CancelsAreAsked'
<1>0. /\ SysInv /\ LocalsOK /\ TypeOK /\ IdsAreSpent /\ CancelsAreAsked
      /\ asked \subseteq asked'
  BY HistoryGrows DEF CancelInv, SysInv
<1>1. ASSUME NEW j \in JobIds, Asked(j), jobs'[j].created = jobs[j].created
      PROVE  jobs'[j].created > 0 => <<j, jobs'[j].created>> \in asked'
  BY <1>0, <1>1 DEF Asked
<1>2. ASSUME NEW j \in JobIds, Doomed(jobs'[j])
      PROVE  jobs'[j].created > 0 => <<j, jobs'[j].created>> \in asked'
  <2>1. ~Doomed(NoRecord) /\ ~Doomed(NewRecord(clock + 1))
    BY DEF Doomed, NoRecord, NewRecord
  <2>2. Continues(j, jobs'[j])
    BY <1>2, <2>1 DEF AskedEffect, Begins
  <2> QED BY <1>0, <1>1, <1>2, <2>2 DEF Continues, CancelsAreAsked
<1>3. ASSUME NEW h \in Handlers, pc'[h] \in JobSteps \ {"escalate"},
             NEW j \in JobIds, frame'[h].job = j, jobs'[j].status # "absent"
      PROVE  jobs'[j].created > 0 => <<j, jobs'[j].created>> \in asked'
  <2>1. CASE /\ pc[h] \in JobSteps \ {"escalate"}
             /\ frame[h].job = j
    <3>1. j \in used
      BY <1>0, <2>1 DEF IdsAreSpent, Actors, MyJob
    <3>2. Continues(j, jobs'[j]) /\ Exists(j)
      BY <1>3, <3>1, SpentIdsContinue
    <3>3. Asked(j)
      BY <1>0, <2>1, <3>2 DEF CancelsAreAsked, MyJob
    <3> QED BY <1>1, <3>2, <3>3 DEF Continues
  <2>2. CASE jobs' = jobs /\ <<j, jobs[j].created>> \in asked'
    BY <2>2
  <2> QED BY <1>0, <1>3, <2>1, <2>2, HandlerAsks
<1>4. ASSUME NEW h \in Handlers, pc'[h] \in JobSteps PROVE frame'[h].job \in JobIds
  <2>1. LocalsOK' /\ h \in Actors
    BY <1>0, SysMoves DEF Actors
  <2> QED BY <1>4, <2>1 DEF LocalsOK, Fits
<1> QED BY <1>2, <1>3, <1>4 DEF CancelsAreAsked, Asked, Exists, MyJob

\* A job its worker has started is not claimed by it again.
LEMMA ClaimedIsStable ==
  ASSUME SysInv, NEW w \in Workers, NEW j \in JobIds, ~Claimed(w, j),
         QuietEffect \/ \E v \in Workers : (Claims(v) /\ v # w) \/ Succeeds(v)
  PROVE  ~Claimed(w, j)'
<1>0. jobs \in [JobIds -> JobRecord(Owners)]
  BY DEF SysInv, TypeOK
<1>1. CASE QuietEffect
  BY <1>0, <1>1 DEF QuietEffect, Claimed, Kept, Purged, Submitted, NoRecord, NewRecord
<1>2. ASSUME NEW v \in Workers, Claims(v), v # w PROVE ~Claimed(w, j)'
  <2>1. PICK k \in JobIds :
          jobs' = [jobs EXCEPT ![k] = [jobs[k] EXCEPT !.status = "claimed", !.worker = v]]
    BY <1>2, ClaimEffect
  <2> QED BY <1>0, <1>2, <2>1 DEF Claimed, JobRecord
<1>3. ASSUME NEW v \in Workers, Succeeds(v) PROVE ~Claimed(w, j)'
  BY <1>0, <1>3, SuccessEffect DEF Claimed, JobRecord
<1> QED BY <1>1, <1>2, <1>3

\* What the store told a worker of its job stays true while it finalizes the job.
LEMMA ReportsGoOnStanding ==
  ASSUME CancelInv, [SysNext]_vars
  PROVE  ReportsStand'
<1>0. SysInv /\ LocalsOK /\ TypeOK /\ ReportsStand
  BY DEF CancelInv, SysInv
<1> SUFFICES ASSUME NEW w \in Workers,
                    pc'[w] \in {"execute", "succeed"} \union FinalSteps
             PROVE  /\ pc'[w] \in {"execute", "succeed"} =>
                         ~(jobs'[frame'[w].job].worker = w
                             /\ jobs'[frame'[w].job].status = "claimed")
                    /\ pc'[w] \in FinalSteps =>
                         ~(jobs'[frame'[w].job].worker = w
                             /\ jobs'[frame'[w].job].status \in {"claimed", "running"})
  BY DEF ReportsStand, MyJob, Claimed, Active
<1>1. ~Claims(w)
  <2>1. Claims(w) => pc'[w] \in {"start", "prepare"}
    BY <1>0, ClaimEffect
  <2> QED BY <2>1 DEF FinalSteps
<1>2. Holding(w) /\ frame'[w] = frame[w]
  BY <1>0, <1>1, HoldingGoesOn DEF Holding, FinalSteps
<1>3. frame[w].job \in JobIds /\ frame[w].born \in Nat
  <2>1. pc[w] \in JobSteps /\ w \in Actors
    BY <1>2 DEF Holding, JobSteps, Actors
  <2> QED BY <1>0, <2>1, FrameHolds DEF LocalsOK, Frames, MyJob
<1>4. PICK j \in JobIds, b \in Nat : frame[w].job = j /\ frame[w].born = b
  BY <1>3
<1>5. QuietEffect \/ \E v \in Workers : (Claims(v) /\ v # w) \/ Succeeds(v)
  BY <1>0, <1>1, SysEffect
<1>6. ASSUME pc'[w] \in FinalSteps PROVE ~Active(w, j)'
  <2>1. ~Active(w, j)
    BY <1>0, <1>4, <1>6, WorkerRefused DEF MyJob
  <2>2. Exclusive(w, j, b)
    BY <1>0, <1>2, <1>4 DEF SysInv, ClaimIsExclusive, Exclusive, Active, MyJob
  <2> QED BY <1>0, <1>5, <2>1, <2>2, ExclusiveIsStable
<1>7. ASSUME pc'[w] \in {"execute", "succeed"} PROVE ~Claimed(w, j)'
  <2>1. CASE pc[w] \in {"execute", "succeed"}
    BY <1>0, <1>4, <1>5, <2>1, ClaimedIsStable DEF ReportsStand, MyJob
  <2>2. CASE MarkRunning(j, w)
    BY <1>0, <2>2 DEF MarkRunning, Put, Claimed, TypeOK, JobRecord
  <2>3. pc[w] \in {"execute", "succeed"} \/ MarkRunning(MyJob(w), w)
    BY <1>0, <1>7, WorkerStarts
  <2>4. MyJob(w) = j
    BY <1>4 DEF MyJob
  <2> QED BY <2>1, <2>2, <2>3, <2>4
<1> QED BY <1>2, <1>4, <1>6, <1>7 DEF Claimed, Active

\* The invariant holds of the first states: nobody works on anything.
LEMMA InitCancelInv == SysInit => CancelInv
<1> SUFFICES ASSUME SysInit PROVE CancelInv
  OBVIOUS
<1>1. SysInv
  BY InitSysInv
<1>2. \A j \in JobIds : jobs[j].created = 0
  <2>1. \A r \in LegacyRecords \union {NoRecord} : r.created = 0
    BY DEF LegacyRecords, NoRecord, NewRecord
  <2> QED BY <2>1 DEF SysInit, Init
<1>3. \A a \in Actors : pc[a] = "down"
  BY DEF SysInit
<1>4. \A j \in JobIds : Exists(j) => j \in used
  BY DEF SysInit
<1>5. \A j \in JobIds : Asked(j)
  BY <1>2 DEF Asked
<1> QED
  BY <1>1, <1>2, <1>3, <1>4, <1>5
     DEF CancelInv, ReportsStand, IdsAreSpent, CancelsAreAsked, LegacyIsOld, Holding,
         JobSteps, FinalSteps, Actors

\* Every step keeps it, if no id is submitted twice.
LEMMA CancelInvInductive == ~ReuseIds /\ CancelInv /\ [SysNext]_vars => CancelInv'
<1> SUFFICES ASSUME ~ReuseIds, CancelInv, [SysNext]_vars PROVE CancelInv'
  OBVIOUS
<1>1. AskedEffect
  BY SysAskedEffect
<1>2. SysInv'
  BY SysInvInductive DEF CancelInv
<1> QED
  BY <1>1, <1>2, IdsStaySpent, CancelsStayAsked, LegacyStaysOld, ReportsGoOnStanding
     DEF CancelInv

-----------------------------------------------------------------------------
\* If the API draws the ids, as it does for every job a client does not name,
\* a job is cancelled only if somebody asked to cancel that job: a finalizing
\* worker's unconditional request_cancellation never takes a queued or claimed
\* one, whatever crashes, times out, is retried or deleted meanwhile.
THEOREM CancelledWasAsked == ~ReuseIds => (SysSpec => []CancelledOnlyIfAsked)
<1> SUFFICES ASSUME ~ReuseIds PROVE SysSpec => []CancelledOnlyIfAsked
  OBVIOUS
<1>1. CancelInv => CancelledOnlyIfAsked
  BY DEF CancelInv, CancelsAreAsked, Doomed, Asked, CancelledOnlyIfAsked
<1>2. CancelInv /\ [SysNext]_vars => CancelInv'
  BY CancelInvInductive
<1> QED BY <1>1, <1>2, InitCancelInv, PTL DEF SysSpec
==============================================================================
