---------------------------- MODULE WorkerRegistry ----------------------------
(***************************************************************************)
(* The worker registry: LocalWorkerRegistry of app/jobs/workers.py and the *)
(* places of app/worker_service.py that change it.                         *)
(*                                                                         *)
(* A worker publishes its record at the top of its loop: it counts the     *)
(* in-flight jobs it owns in the job store and then, in a section of       *)
(* another file, overwrites its record.  In between it adds one when it    *)
(* starts a job and takes one off when the job is over.  Reconciliation,   *)
(* in any worker, takes one off the record of the owner of the job it      *)
(* settles; the API settles overdue jobs too and leaves the registry       *)
(* alone.  Every update of a record refreshes last_seen, whoever makes it. *)
(*                                                                         *)
(* Jobs are abstracted to what the registry depends on: "finished" stands  *)
(* for every terminal state and for a deleted job, "timed_out" for the     *)
(* failed state a client may reopen.  Deadlines elapse at any moment.      *)
(***************************************************************************)
EXTENDS Naturals, FiniteSets

CONSTANTS
  Jobs,
  Workers,
  NoWorker,            \* no owner
  NoJob,               \* a worker holds no job
  MaxConcurrentJobs,   \* settings.max_concurrent_jobs
  MaxRetries,          \* bound: timed-out cancellations clients reopen
  MaxCrashes           \* bound: deaths of a worker

ASSUME RegistryAssumption ==
  /\ NoWorker \notin Workers /\ NoJob \notin Jobs
  /\ IsFiniteSet(Jobs)
  /\ MaxConcurrentJobs \in Nat \ {0}
  /\ MaxRetries \in Nat /\ MaxCrashes \in Nat

VARIABLES
  status, owner,   \* the job store
  workers,         \* the registry: a record per worker id
  pc,              \* where a worker is in its loop
  counted,         \* _owned_inflight_jobs as the worker last read it
  hand,            \* the job the worker has claimed
  credit,          \* the worker whose slot a reconciliation has to release
  credited,        \* ghost: slots others released since w published
  retries, crashes

jobVars == <<status, owner>>
loopVars == <<counted, hand, credit>>
bounds == <<retries, crashes>>
vars == <<jobVars, workers, pc, loopVars, credited, bounds>>

Inflight == {"running", "cancelling"}

\* The record of a worker that never published.
Unknown == [known |-> FALSE, running |-> 0, fresh |-> FALSE]

\* running_jobs counts at most every job and the job at hand.
Records == [known : BOOLEAN, running : 0..Cardinality(Jobs) + 1, fresh : BOOLEAN]

OwnedInflight(w) == Cardinality({j \in Jobs : owner[j] = w /\ status[j] \in Inflight})

\* upsert_worker: the record is replaced and stamped.
Upsert(w, n) ==
  workers' = [workers EXCEPT ![w] = [known |-> TRUE, running |-> n, fresh |-> TRUE]]

\* adjust_running_jobs: an unknown worker is ignored, the record is stamped.
Adjust(w, n) == IF workers[w].known THEN Upsert(w, n) ELSE UNCHANGED workers

Occupy(w) == Adjust(w, workers[w].running + 1)

Release_Unclamped(w) == Adjust(w, workers[w].running - 1)

\* adjust_running_jobs(w, -1), clamped at zero.
Release(w) == Adjust(w, IF workers[w].running = 0 THEN 0 ELSE workers[w].running - 1)

Init ==
  /\ status = [j \in Jobs |-> "queued"]
  /\ owner = [j \in Jobs |-> NoWorker]
  /\ workers = [w \in Workers |-> Unknown]
  /\ pc = [w \in Workers |-> "down"]
  /\ counted = [w \in Workers |-> 0]
  /\ hand = [w \in Workers |-> NoJob]
  /\ credit = [w \in Workers |-> NoWorker]
  /\ credited = [w \in Workers |-> 0]
  /\ retries = 0 /\ crashes = 0

Goes(w, from, to) == pc[w] = from /\ pc' = [pc EXCEPT ![w] = to]
SetStatus(j, s) == status' = [status EXCEPT ![j] = s] /\ UNCHANGED owner

-----------------------------------------------------------------------------
(* The loop of a worker.  It publishes once before the loop as well.       *)
StartWorker(w) ==
  /\ Goes(w, "down", "boot")
  /\ UNCHANGED <<jobVars, workers, loopVars, credited, bounds>>

CountInflight(w) ==
  /\ \/ Goes(w, "boot", "announce")
     \/ Goes(w, "top", "publish")
  /\ counted' = [counted EXCEPT ![w] = OwnedInflight(w)]
  /\ UNCHANGED <<jobVars, workers, hand, credit, credited, bounds>>

\* running_jobs = None would keep the number on record
\* (_current_worker_running_jobs); the loop never passes it.
Publish_KeepsCount(w) ==
  /\ \/ Goes(w, "announce", "top")
     \/ Goes(w, "publish", "reconcile")
  /\ Upsert(w, workers[w].running)
  /\ credited' = [credited EXCEPT ![w] = 0]
  /\ UNCHANGED <<jobVars, loopVars, bounds>>

Publish(w) ==
  /\ \/ Goes(w, "announce", "top")
     \/ Goes(w, "publish", "reconcile")
  /\ Upsert(w, counted[w])
  /\ credited' = [credited EXCEPT ![w] = 0]
  /\ UNCHANGED <<jobVars, loopVars, bounds>>

\* One overdue job is settled in the name of its owner ...
SettleOverdue(w, j) ==
  /\ pc[w] \in {"reconcile", "reconciling"}
  /\ status[j] = "cancelling"
  /\ SetStatus(j, "timed_out")
  /\ credit' = [credit EXCEPT ![w] = owner[j]]
  /\ pc' = [pc EXCEPT ![w] = "credit"]
  /\ UNCHANGED <<workers, counted, hand, credited, bounds>>

\* ... and then the slot of the owner is released in the registry.
ReleaseOwner(w) ==
  /\ Goes(w, "credit", "reconciling")
  /\ Release(credit[w])
  /\ credited' = [credited EXCEPT ![credit[w]] = IF credit[w] = w THEN @ ELSE 1]
  /\ credit' = [credit EXCEPT ![w] = NoWorker]
  /\ UNCHANGED <<jobVars, counted, hand, bounds>>

\* The loop starts again when something was settled.
EndReconcile(w) ==
  /\ \/ Goes(w, "reconciling", "top")
     \/ Goes(w, "reconcile", "capacity")
  /\ UNCHANGED <<jobVars, workers, loopVars, credited, bounds>>

CheckCapacity(w) ==
  /\ Goes(w, "capacity", IF OwnedInflight(w) < MaxConcurrentJobs THEN "claim" ELSE "top")
  /\ UNCHANGED <<jobVars, workers, loopVars, credited, bounds>>

ClaimNothing(w) ==
  /\ Goes(w, "claim", "top")
  /\ \A j \in Jobs : status[j] # "queued"
  /\ UNCHANGED <<jobVars, workers, loopVars, credited, bounds>>

Claim(w, j) ==
  /\ Goes(w, "claim", "prepare")
  /\ status[j] = "queued"
  /\ status' = [status EXCEPT ![j] = "claimed"]
  /\ owner' = [owner EXCEPT ![j] = w]
  /\ hand' = [hand EXCEPT ![w] = j]
  /\ UNCHANGED <<workers, counted, credit, credited, bounds>>

\* engine.prepare returns, or raises and the job is reported as failed.
Prepare(w) ==
  /\ \/ Goes(w, "prepare", "start")
     \/ Goes(w, "prepare", "report")
  /\ UNCHANGED <<jobVars, workers, loopVars, credited, bounds>>

StartJob(w) ==
  LET j == hand[w]
  IN  /\ Goes(w, "start", "occupy")
      /\ status[j] = "claimed"
      /\ SetStatus(j, "running")
      /\ UNCHANGED <<workers, loopVars, credited, bounds>>

StartRefused(w) ==
  /\ Goes(w, "start", "top")
  /\ status[hand[w]] # "claimed"
  /\ hand' = [hand EXCEPT ![w] = NoJob]
  /\ UNCHANGED <<jobVars, workers, counted, credit, credited, bounds>>

OccupySlot_Forgotten(w) ==
  /\ Goes(w, "occupy", "execute")
  /\ UNCHANGED <<jobVars, workers, loopVars, credited, bounds>>

OccupySlot(w) ==
  /\ Goes(w, "occupy", "execute")
  /\ Occupy(w)
  /\ UNCHANGED <<jobVars, loopVars, credited, bounds>>

Execute(w) ==
  /\ Goes(w, "execute", "report")
  /\ UNCHANGED <<jobVars, workers, loopVars, credited, bounds>>

\* The report is refused when the job is no longer in flight.
Report(w) ==
  LET j == hand[w]
  IN  /\ Goes(w, "report", "release")
      /\ IF status[j] \in {"claimed"} \union Inflight
           THEN SetStatus(j, "finished")
           ELSE UNCHANGED jobVars
      /\ UNCHANGED <<workers, loopVars, credited, bounds>>

\* The job is read again: the slot stays while the job is in flight.
CheckRelease(w) ==
  /\ pc[w] = "release"
  /\ \/ /\ status[hand[w]] \in {"claimed"} \union Inflight
        /\ Goes(w, "release", "top")
        /\ hand' = [hand EXCEPT ![w] = NoJob]
     \/ /\ status[hand[w]] \notin {"claimed"} \union Inflight
        /\ Goes(w, "release", "vacate")
        /\ UNCHANGED hand
  /\ UNCHANGED <<jobVars, workers, counted, credit, credited, bounds>>

VacateSlot(w) ==
  /\ Goes(w, "vacate", "top")
  /\ Release(w)
  /\ hand' = [hand EXCEPT ![w] = NoJob]
  /\ UNCHANGED <<jobVars, counted, credit, credited, bounds>>

-----------------------------------------------------------------------------
CrashWorker(w) ==
  /\ pc[w] # "down"
  /\ crashes < MaxCrashes
  /\ crashes' = crashes + 1
  /\ pc' = [pc EXCEPT ![w] = "down"]
  /\ hand' = [hand EXCEPT ![w] = NoJob]
  /\ credit' = [credit EXCEPT ![w] = NoWorker]
  /\ UNCHANGED <<jobVars, workers, counted, credited, retries>>

RequestCancellation(j) ==
  /\ \/ status[j] \in {"queued", "claimed"} /\ SetStatus(j, "finished")
     \/ status[j] = "running" /\ SetStatus(j, "cancelling")
  /\ UNCHANGED <<workers, pc, loopVars, credited, bounds>>

RetryTimedOut(j) ==
  /\ status[j] = "timed_out"
  /\ retries < MaxRetries
  /\ retries' = retries + 1
  /\ SetStatus(j, "cancelling")
  /\ UNCHANGED <<workers, pc, loopVars, credited, crashes>>

\* A read of the API settles an overdue job; the registry is not told.
ApiReconciles(j) ==
  /\ status[j] = "cancelling"
  /\ SetStatus(j, "timed_out")
  /\ UNCHANGED <<workers, pc, loopVars, credited, bounds>>

\* WORKER_STALE_SECONDS pass without an update of the record.  A round of the
\* loop without a job takes less (WORKER_POLL_INTERVAL_SECONDS).
GoesStale(w) ==
  /\ pc[w] \in {"down", "boot", "prepare", "execute"}
  /\ workers[w].fresh
  /\ workers' = [workers EXCEPT ![w].fresh = FALSE]
  /\ UNCHANGED <<jobVars, pc, loopVars, credited, bounds>>

-----------------------------------------------------------------------------
\* list_workers with stale_seconds.
Online_Known == {w \in Workers : workers[w].known}
Online == {w \in Workers : workers[w].known /\ workers[w].fresh}

WorkerStep(w) ==
  \/ StartWorker(w) \/ CountInflight(w) \/ Publish(w)
  \/ \E j \in Jobs : SettleOverdue(w, j)
  \/ ReleaseOwner(w) \/ EndReconcile(w) \/ CheckCapacity(w)
  \/ ClaimNothing(w) \/ \E j \in Jobs : Claim(w, j)
  \/ Prepare(w) \/ StartJob(w) \/ StartRefused(w) \/ OccupySlot(w)
  \/ Execute(w) \/ Report(w) \/ CheckRelease(w) \/ VacateSlot(w)

ClientStep ==
  \E j \in Jobs : RequestCancellation(j) \/ RetryTimedOut(j) \/ ApiReconciles(j)

Next ==
  \/ \E w \in Workers : WorkerStep(w) \/ CrashWorker(w) \/ GoesStale(w)
  \/ ClientStep

Spec == Init /\ [][Next]_vars

(* A worker runs and is restarted when it dies unless it is taken out of    *)
(* service; an engine call ends; time passes for a worker that is down.     *)
Fairness ==
  \A w \in Workers : /\ WF_vars(WorkerStep(w) /\ pc[w] # "down")
                      /\ WF_vars(GoesStale(w) /\ pc[w] = "down")

FairSpec == Spec /\ Fairness

-----------------------------------------------------------------------------
Places == {"down", "boot", "announce", "top", "publish", "reconcile", "reconciling",
           "credit", "capacity", "claim", "prepare", "start", "occupy", "execute",
           "report", "release", "vacate"}

RegistryTypeOK ==
  /\ status \in [Jobs -> {"queued", "claimed", "timed_out", "finished"} \union Inflight]
  /\ owner \in [Jobs -> Workers \union {NoWorker}]
  /\ workers \in [Workers -> Records]
  /\ pc \in [Workers -> Places]
  /\ counted \in [Workers -> 0..Cardinality(Jobs)]
  /\ hand \in [Workers -> Jobs \union {NoJob}]
  /\ credit \in [Workers -> Workers \union {NoWorker}]
  /\ credited \in [Workers -> 0..1]
  /\ retries \in 0..MaxRetries /\ crashes \in 0..MaxCrashes

\* A worker that executes a job shows at least one running job, unless another
\* worker released a slot in its name since it last published: nothing the
\* worker or the API does on its own hides it.
HiddenOnlyByOthers ==
  \A w \in Workers : pc[w] = "execute" => workers[w].running > 0 \/ credited[w] = 1

\* A record never shows more than what the worker counted when it published
\* and the job it is at: crashes, lost releases and late reports do not add up.
NeverAddsUp ==
  \A w \in Workers : pc[w] \in {"capacity", "claim", "prepare", "start", "execute", "report"}
    => workers[w].running <= counted[w] + (IF hand[w] = NoJob THEN 0 ELSE 1)

\* A worker that stays up is seen online again and again, and one that stays
\* down is not, although others update its record in its name.
AliveIsSeen ==
  \A w \in Workers : /\ (<>[](pc[w] # "down") => []<>(w \in Online))
                      /\ (<>[](pc[w] = "down") => <>[](w \notin Online))

=============================================================================
