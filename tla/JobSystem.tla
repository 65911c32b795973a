------------------------------ MODULE JobSystem ------------------------------
(***************************************************************************)
(* The service as it runs: worker processes in the main loop of            *)
(* app/worker_service.py, request handlers of the API process              *)
(* (app/api.py), both working on one job store (JobStore), the engines     *)
(* that execute jobs, the passing of cancel deadlines, and crashes and     *)
(* restarts of every process.                                              *)
(*                                                                         *)
(* A process is a program counter and a frame of local variables.  It      *)
(* takes one critical section of the store, or one engine call, per step;  *)
(* what it read in an earlier section may be stale when it acts on it.     *)
(***************************************************************************)
EXTENDS JobStore, FiniteSets

CONSTANTS
  Handlers,           \* request threads of the API process
  NoJob,              \* the job of a frame that has none
  UpscaleIds,         \* the ids of upscale jobs; the others are generate jobs
  ReuseIds,           \* whether clients name their jobs and may reuse a name
  MaxConcurrentJobs,  \* settings.max_concurrent_jobs
  MaxCrashes,         \* bound: how often a worker process dies
  MaxRestarts         \* bound: how often the API process dies

ASSUME ActorsAssumption ==
  /\ Handlers \intersect Workers = {}
  /\ NoJob \notin JobIds
  /\ UpscaleIds \subseteq JobIds
  /\ ReuseIds \in BOOLEAN
  /\ MaxConcurrentJobs \in Nat /\ MaxCrashes \in Nat /\ MaxRestarts \in Nat

VARIABLES
  pc,        \* where each process is
  frame,     \* its locals: the job, the worker_id it acts for, the job's rank
  todo,      \* the overdue jobs its reconciliation listed: <<job, owner>>
  used,      \* the ids ever submitted (a uuid is never drawn twice)
  asked,     \* history: the jobs somebody asked to cancel, <<id, rank>>
  crashes, restarts

localVars == <<pc, frame, todo>>
historyVars == <<used, asked, crashes, restarts>>
vars == <<storeVars, localVars, historyVars>>

Actors == Workers \union Handlers

NoFrame == [job |-> NoJob, who |-> NoWorker, born |-> 0]
Frames == [job : JobIds \union {NoJob}, who : Owners, born : Nat]

WorkerSteps == {"down", "loop", "recon", "healed", "capacity", "claim",
                "prepare", "check", "start", "execute", "succeed", "fail",
                "stopped", "cancel1", "cancel2", "cancel3", "cancel4"}
HandlerSteps == {"down", "boot", "recon", "healed", "ready", "idle",
                 "cancel_queued", "reread", "cancel2", "cancel3", "cancel4",
                 "retry", "escalate"}

\* A finished call returns to the main loop, or ends the request.
Home(a) == IF a \in Workers THEN "loop" ELSE "idle"

Goto(a, step) ==
  /\ pc' = [pc EXCEPT ![a] = step]
  /\ UNCHANGED <<frame, todo>>

Return(a) ==
  /\ pc' = [pc EXCEPT ![a] = Home(a)]
  /\ frame' = [frame EXCEPT ![a] = NoFrame]
  /\ UNCHANGED todo

Enter(a, step, f) ==
  /\ pc' = [pc EXCEPT ![a] = step]
  /\ frame' = [frame EXCEPT ![a] = f]
  /\ UNCHANGED todo

MyJob(a) == frame[a].job

SysInit ==
  /\ Init
  /\ pc = [a \in Actors |-> "down"]
  /\ frame = [a \in Actors |-> NoFrame]
  /\ todo = [a \in Actors |-> {}]
  /\ used = {j \in JobIds : Exists(j)}
  /\ asked = {}
  /\ crashes = 0
  /\ restarts = 0

-----------------------------------------------------------------------------
(* reconcile_overdue_cancellations, run by the worker loop, by API reads   *)
(* and by the starting API: list the cancelling jobs whose deadline has    *)
(* gone by (a missing deadline counts as gone), then time each of them out *)
(* in the name of the owner the list gave, whatever happened since.        *)
Overdue_Inverted(j) ==
  /\ jobs[j].status = "cancelling"
  /\ jobs[j].deadline \in {"pending", "none"}

Overdue(j) ==
  /\ jobs[j].status = "cancelling"
  /\ jobs[j].deadline \in {"elapsed", "none"}

Listed(S) == {<<j, jobs[j].worker>> : j \in S}

ListOverdue(a, S, otherwise) ==
  /\ todo' = [todo EXCEPT ![a] = Listed(S)]
  /\ pc' = [pc EXCEPT ![a] = IF S = {} THEN otherwise ELSE "recon"]
  /\ UNCHANGED <<frame, storeVars, historyVars>>

Settles_WritesCancelled(j, owner) ==
  Put(j, Cancelled(jobs[j]))

Settles(j, owner) ==
  \/ owner # NoWorker /\ FinalizeTimeout(j, owner)
  \/ owner = NoWorker /\ RecoverOverdue(j)

SettleRefused(j, owner) ==
  /\ IF owner # NoWorker THEN ~Permits(j, owner, {"cancelling"}, "failed")
                         ELSE jobs[j].status # "cancelling"
  /\ UNCHANGED storeVars

\* Where a reconciliation continues: the worker loop starts over if it
\* healed a job, a starting API serves once it has listed everything.
AfterRecon(a, healed) ==
  IF a \in Workers THEN (IF healed THEN "loop" ELSE "capacity")
                   ELSE IF \E h \in Handlers : pc[h] = "down" THEN "ready"
                                                             ELSE "idle"

ReconcileOne(a) ==
  /\ pc[a] \in {"recon", "healed"}
  /\ \E t \in todo[a], healed \in BOOLEAN :
       /\ \/ Settles(t[1], t[2]) /\ healed
          \/ SettleRefused(t[1], t[2]) /\ healed = (pc[a] = "healed")
       /\ todo' = [todo EXCEPT ![a] = @ \ {t}]
       /\ pc' = [pc EXCEPT ![a] =
                   IF todo[a] # {t} THEN (IF healed THEN "healed" ELSE "recon")
                                    ELSE AfterRecon(a, healed)]
  /\ UNCHANGED <<frame, historyVars>>

-----------------------------------------------------------------------------
(* A worker process: main and run_one_job.                                 *)
StartWorker(w) ==
  /\ pc[w] = "down"
  /\ Goto(w, "loop")
  /\ UNCHANGED <<storeVars, historyVars>>

LoopTop(w) ==
  /\ pc[w] = "loop"
  /\ ListOverdue(w, {j \in JobIds : Overdue(j)}, "capacity")

\* _worker_has_capacity counts the running and cancelling jobs the store
\* says this worker owns.
OwnedInflight_Everything(w) ==
  {j \in JobIds : jobs[j].worker = w}

OwnedInflight(w) ==
  {j \in JobIds : jobs[j].worker = w /\ jobs[j].status \in {"running", "cancelling"}}

CheckCapacity(w) ==
  /\ pc[w] = "capacity"
  /\ Goto(w, IF Cardinality(OwnedInflight(w)) < MaxConcurrentJobs
             THEN "claim" ELSE "loop")
  /\ UNCHANGED <<storeVars, historyVars>>

\* Upscale engines have no prepare step.
ClaimNext(w) ==
  /\ pc[w] = "claim"
  /\ \/ \E j \in JobIds :
          /\ ClaimJob(j, w)
          /\ Enter(w, IF j \in UpscaleIds THEN "start" ELSE "prepare",
                   [job |-> j, who |-> w, born |-> jobs[j].created])
     \/ /\ ~\E j \in JobIds : IsQueued(j)
        /\ Return(w)
        /\ UNCHANGED storeVars
  /\ UNCHANGED historyVars

\* engine.prepare loads the model, or raises.
Prepare(w) ==
  /\ pc[w] = "prepare"
  /\ \E step \in {"check", "fail"} : Goto(w, step)
  /\ UNCHANGED <<storeVars, historyVars>>

CheckClaim(w) ==
  /\ pc[w] = "check"
  /\ IF jobs[MyJob(w)].status \in {"absent", "cancelled"}
     THEN Return(w)
     ELSE Goto(w, "start")
  /\ UNCHANGED <<storeVars, historyVars>>

StartJob(w) ==
  /\ pc[w] = "start"
  /\ \/ MarkRunning(MyJob(w), w) /\ Goto(w, "execute")
     \/ /\ ~Permits(MyJob(w), w, {"claimed"}, "running")
        /\ Return(w)
        /\ UNCHANGED storeVars
  /\ UNCHANGED historyVars

\* _should_cancel_job: the engine's probe reads the store by job id.
ShouldStop_AnyOwner(w) ==
  jobs[MyJob(w)].status \notin {"claimed", "running"}

ShouldStop(w) ==
  \/ ~Exists(MyJob(w))
  \/ jobs[MyJob(w)].worker # w
  \/ jobs[MyJob(w)].status \notin {"claimed", "running"}

\* The engine writes the output and returns, or raises, or sees the probe say
\* stop: then PanoWan returns an output path it has not written, and the
\* upscaler, whose process is killed, raises UpscaleCancelledError.
Execute(w) ==
  /\ pc[w] = "execute"
  /\ \/ WriteOutput(MyJob(w)) /\ Goto(w, "succeed")
     \/ Goto(w, "fail") /\ UNCHANGED storeVars
     \/ /\ ShouldStop(w)
        /\ Goto(w, IF MyJob(w) \in UpscaleIds THEN "stopped" ELSE "succeed")
        /\ UNCHANGED storeVars
  /\ UNCHANGED historyVars

\* _finalize_job_success
ReportSuccess(w) ==
  /\ pc[w] = "succeed"
  /\ \/ MarkSucceeded(MyJob(w), w) /\ Return(w)
     \/ /\ ~Permits(MyJob(w), w, {"running"}, "succeeded")
        /\ Goto(w, "cancel1")
        /\ UNCHANGED storeVars
  /\ UNCHANGED historyVars

ReportFailure_NotClaimed(w) ==
  /\ pc[w] \in {"fail", "stopped"}
  /\ \/ jobs[MyJob(w)].status # "claimed" /\ MarkFailed(MyJob(w), w) /\ Return(w)
     \/ /\ ~Permits(MyJob(w), w, {"running", "cancelling"}, "failed")
        /\ Goto(w, "cancel1")
        /\ UNCHANGED storeVars
  /\ UNCHANGED historyVars

\* _finalize_job_failure, whatever the engine raised
ReportFailure(w) ==
  /\ pc[w] \in {"fail", "stopped"}
  /\ \/ MarkFailed(MyJob(w), w) /\ Return(w)
     \/ /\ ~Permits(MyJob(w), w, {"claimed", "running", "cancelling"}, "failed")
        /\ Goto(w, "cancel1")
        /\ UNCHANGED storeVars
  /\ UNCHANGED historyVars

-----------------------------------------------------------------------------
(* request_cancellation, called by a finalizing worker with finished=True  *)
(* (from cancel1) or by a handler without (from cancel2).                  *)
TryFinished(a) ==
  /\ pc[a] = "cancel1"
  /\ \/ CancelFinished(MyJob(a), frame[a].who) /\ Return(a)
     \/ /\ ~Permits(MyJob(a), frame[a].who, {"cancelling"}, "cancelled")
        /\ Goto(a, "cancel2")
        /\ UNCHANGED storeVars
  /\ UNCHANGED historyVars

TryQueued(a) ==
  /\ pc[a] = "cancel2"
  /\ \/ CancelQueued(MyJob(a)) /\ Return(a)
     \/ /\ ~IsQueued(MyJob(a))
        /\ Goto(a, "cancel3")
        /\ UNCHANGED storeVars
  /\ UNCHANGED historyVars

TryClaimed(a) ==
  /\ pc[a] = "cancel3"
  /\ \/ CancelClaimed(MyJob(a), frame[a].who) /\ Return(a)
     \/ /\ ~Permits(MyJob(a), frame[a].who, {"claimed"}, "cancelled")
        /\ Goto(a, "cancel4")
        /\ UNCHANGED storeVars
  /\ UNCHANGED historyVars

TryRunning(a) ==
  /\ pc[a] = "cancel4"
  /\ \/ CancelRunning(MyJob(a), frame[a].who)
     \/ /\ ~Permits(MyJob(a), frame[a].who, {"running"}, "cancelling")
        /\ UNCHANGED storeVars
  /\ Return(a)
  /\ UNCHANGED historyVars

RequestCancellation(a) ==
  TryFinished(a) \/ TryQueued(a) \/ TryClaimed(a) \/ TryRunning(a)

WorkerRuns(w) ==
  \/ StartWorker(w) \/ LoopTop(w) \/ CheckCapacity(w) \/ ClaimNext(w)
  \/ Prepare(w) \/ CheckClaim(w) \/ StartJob(w) \/ Execute(w)
  \/ ReportSuccess(w) \/ ReportFailure(w)
  \/ ReconcileOne(w) \/ RequestCancellation(w)

\* The process dies and forgets everything; it comes back under the same id.
CrashWorker(w) ==
  /\ pc[w] # "down"
  /\ crashes < MaxCrashes
  /\ crashes' = crashes + 1
  /\ pc' = [pc EXCEPT ![w] = "down"]
  /\ frame' = [frame EXCEPT ![w] = NoFrame]
  /\ todo' = [todo EXCEPT ![w] = {}]
  /\ UNCHANGED <<storeVars, used, asked, restarts>>

-----------------------------------------------------------------------------
(* The API process.                                                        *)

\* lifespan: restore the store, settle what is left cancelling (the deadline
\* counts as gone), then serve.
BootApi(h) ==
  /\ \A g \in Handlers : pc[g] = "down"
  /\ Restore
  /\ Goto(h, "boot")
  /\ UNCHANGED historyVars

SettleAtBoot(h) ==
  /\ pc[h] = "boot"
  /\ ListOverdue(h, {j \in JobIds : jobs[j].status = "cancelling"}, "ready")

Serve(h) ==
  /\ pc[h] = "ready"
  /\ pc' = [a \in Actors |-> IF a \in Handlers THEN "idle" ELSE pc[a]]
  /\ UNCHANGED <<frame, todo, storeVars, historyVars>>

CrashApi ==
  /\ \E h \in Handlers : pc[h] # "down"
  /\ restarts < MaxRestarts
  /\ restarts' = restarts + 1
  /\ pc' = [a \in Actors |-> IF a \in Handlers THEN "down" ELSE pc[a]]
  /\ frame' = [a \in Actors |-> IF a \in Handlers THEN NoFrame ELSE frame[a]]
  /\ todo' = [a \in Actors |-> IF a \in Handlers THEN {} ELSE todo[a]]
  /\ UNCHANGED <<storeVars, used, asked, crashes>>

\* POST /generate and /upscale
Submit(h, j) ==
  /\ pc[h] = "idle"
  /\ j \in used => ReuseIds /\ j \notin UpscaleIds
  /\ CreateJob(j)
  /\ used' = used \union {j}
  /\ UNCHANGED <<localVars, asked, crashes, restarts>>

\* cancel_job acts on the status and owner of the record it read.
Dispatch(h, j) ==
  LET r == jobs[j]
      f == [job |-> j, who |-> r.worker, born |-> 0]
  IN  CASE r.status \in {"claimed", "running"} -> Enter(h, "cancel2", f)
        [] /\ r.status = "failed"
           /\ r.code = "cancel_timeout"
           /\ r.worker # NoWorker           -> Enter(h, "retry", f)
        [] OTHER                            -> Return(h)

\* POST /jobs/{id}/cancel
CancelRequest(h, j) ==
  /\ pc[h] = "idle"
  /\ Exists(j)
  /\ asked' = asked \union {<<j, jobs[j].created>>}
  /\ IF IsQueued(j)
     THEN Enter(h, "cancel_queued", [job |-> j, who |-> NoWorker, born |-> 0])
     ELSE Dispatch(h, j)
  /\ UNCHANGED <<storeVars, used, crashes, restarts>>

CancelQueuedJob(h) ==
  /\ pc[h] = "cancel_queued"
  /\ \/ CancelQueued(MyJob(h)) /\ Return(h)
     \/ /\ ~IsQueued(MyJob(h))
        /\ Goto(h, "reread")
        /\ UNCHANGED storeVars
  /\ UNCHANGED historyVars

Reread(h) ==
  /\ pc[h] = "reread"
  /\ Dispatch(h, MyJob(h))
  /\ UNCHANGED <<storeVars, historyVars>>

RetryCancel(h) ==
  /\ pc[h] = "retry"
  /\ \/ RetryTimedOut(MyJob(h), frame[h].who)
     \/ UNCHANGED storeVars /\ ~(/\ jobs[MyJob(h)].code = "cancel_timeout"
                                 /\ jobs[MyJob(h)].worker = frame[h].who
                                 /\ jobs[MyJob(h)].attempt < MaxAttempts)
  /\ Return(h)
  /\ UNCHANGED historyVars

\* POST /jobs/{id}/cancel/escalate
EscalateRequest(h, j) ==
  /\ pc[h] = "idle"
  /\ Exists(j)
  /\ jobs[j].worker # NoWorker
  /\ Enter(h, "escalate", [job |-> j, who |-> jobs[j].worker, born |-> 0])
  /\ UNCHANGED <<storeVars, historyVars>>

EscalateCancel(h) ==
  /\ pc[h] = "escalate"
  /\ \/ EscalateJob(MyJob(h), frame[h].who)
     \/ UNCHANGED storeVars /\ ~(/\ jobs[MyJob(h)].status = "cancelling"
                                 /\ jobs[MyJob(h)].worker = frame[h].who
                                 /\ jobs[MyJob(h)].attempt < MaxAttempts)
  /\ Return(h)
  /\ UNCHANGED historyVars

\* GET /jobs and the other reads that heal overdue cancellations
ReadRequest(h) ==
  /\ pc[h] = "idle"
  /\ ListOverdue(h, {j \in JobIds : Overdue(j)}, "idle")

\* DELETE /jobs/failed
DeleteRequest(h) ==
  /\ pc[h] = "idle"
  /\ DeleteFailed
  /\ UNCHANGED <<localVars, historyVars>>

NewRequest(h) ==
  \/ \E j \in JobIds : Submit(h, j) \/ CancelRequest(h, j) \/ EscalateRequest(h, j)
  \/ ReadRequest(h)
  \/ DeleteRequest(h)

HandlerRuns(h) ==
  \/ BootApi(h) \/ SettleAtBoot(h) \/ Serve(h)
  \/ CancelQueuedJob(h) \/ Reread(h) \/ RetryCancel(h) \/ EscalateCancel(h)
  \/ ReconcileOne(h) \/ RequestCancellation(h)

TimePasses == \E j \in JobIds : DeadlinePasses(j) /\ UNCHANGED <<localVars, historyVars>>

SysNext ==
  \/ \E w \in Workers : WorkerRuns(w) \/ CrashWorker(w)
  \/ \E h \in Handlers : HandlerRuns(h) \/ NewRequest(h)
  \/ CrashApi
  \/ TimePasses

SysSpec == SysInit /\ [][SysNext]_vars

\* Processes keep running and are restarted when they die, an engine call
\* ends, and time goes by; nothing makes a client send a request.
Fairness ==
  /\ \A w \in Workers : WF_vars(WorkerRuns(w))
  /\ \A h \in Handlers : WF_vars(HandlerRuns(h))
  /\ WF_vars(TimePasses)

FairSysSpec == SysSpec /\ Fairness

-----------------------------------------------------------------------------
(***************************************************************************)
(* Properties.                                                             *)
(***************************************************************************)

\* Types of the processes' state.
SysTypeOK ==
  /\ TypeOK
  /\ pc \in [Actors -> WorkerSteps \union HandlerSteps]
  /\ frame \in [Actors -> Frames]
  /\ todo \in [Actors -> SUBSET (JobIds \X Owners)]
  /\ used \in SUBSET JobIds
  /\ asked \in SUBSET (JobIds \X Nat)
  /\ crashes \in Nat
  /\ restarts \in Nat

\* The steps at which a worker holds a job it claimed.
Holding(w) ==
  pc[w] \in {"prepare", "check", "start", "execute", "succeed", "fail",
             "stopped", "cancel1", "cancel2", "cancel3", "cancel4"}

Held(w) == <<frame[w].job, frame[w].born>>

\* No job is executed twice: whatever times out, is retried, deleted, submitted
\* again or restored, two workers never hold the same submission of a job
\* (claim_next_job is the only source of work and nothing requeues).
SingleExecutor ==
  \A v, w \in Workers : v # w /\ Holding(v) /\ Holding(w) => Held(v) # Held(w)

\* A job that reads succeeded has its output: the download endpoint finds the
\* file, although engines return a path without writing it when they are told
\* to stop, workers report late, ids are reused and artifacts are deleted.
SucceededHasOutput ==
  \A j \in JobIds : jobs[j].status = "succeeded" /\ jobs[j].created > 0 => j \in files

\* The probe identifies a job by id and owner only, yet it never takes a later
\* submission under the same id for the one being executed.
ProbeSeesOwnJob ==
  \A w \in Workers : pc[w] = "execute" /\ ~ShouldStop(w)
     => jobs[MyJob(w)].created = frame[w].born

\* A stop signal is never withdrawn while the engine still runs, so an engine
\* that polls rarely cannot miss it (cancelling, timed out, retried, deleted,
\* resubmitted and claimed by another worker all read as stop).
StopIsStable ==
  [][\A w \in Workers : pc[w] = "execute" /\ ShouldStop(w) /\ pc'[w] = "execute"
       => ShouldStop(w)']_vars

\* As long as ids are not submitted again, a job is cancelled only if somebody
\* asked to cancel it.  (With a reused id the late finalization of the deleted
\* job takes the queued one for its own, local.py:253-263.)
CancelledOnlyIfAsked ==
  \A j \in JobIds : jobs[j].status = "cancelled" /\ jobs[j].created > 0
     => <<j, jobs[j].created>> \in asked

\* Every step of every process is a step of the store or leaves it alone: what
\* JobStore guarantees holds of the running service.
ImplementsStore == Spec

\* A cancellation converges: a job does not stay cancelling once clients stop
\* escalating and retrying, even if its worker dies (the deadline passes and
\* any worker loop times it out).
CancellationConverges ==
  \A j \in JobIds : jobs[j].status = "cancelling" ~> jobs[j].status # "cancelling"

\* While no worker dies, every submitted job is settled (or purged).
EveryJobSettles ==
  [](crashes = 0) =>
    \A j \in JobIds : Exists(j) /\ jobs[j].created > 0
                        ~> jobs[j].status \in TerminalStates \union {"absent"}
==============================================================================
