# PanoWan web service: TLA+ models, model checking and proofs

PanoWan web is a job service around GPU engines. A FastAPI process takes
generate and upscale requests and writes job records to a JSON file; worker
processes claim jobs from that file, run an engine, and report. There is no
database and no broker: everything the processes agree on goes through the store
file, and cancellation is a conversation held in its records. That conversation
(claims, reports, cancellations, timeouts, retries, restarts) is the core of the
program and of this project.

## 1. Inventory

| Component (code) | State | Operations | Talks to |
|---|---|---|---|
| Lifecycle, cancellation (`app/jobs/lifecycle.py`, `app/cancellation.py`) | none; functions on records | transition graph, legacy and restore normalization, begin/escalate | job store |
| Job store (`app/jobs/local.py`) | the job file, an in-process copy, a thread lock and a file lock | create, claim, mark running/succeeded/failed, request/escalate/retry cancellation, timeout, recovery, delete, restore, update | API, workers (each has its own object on the same file) |
| Worker (`app/worker_service.py`) | a local job, the runtime host | main loop: publish, idle eviction, reconciliation, capacity, claim, prepare, execute, finalize | store, registry, host, engines |
| Job API (`app/api.py`) | none but the store | submit, cancel, escalate, read (heals overdue cancellations), delete failed, restore at start | store, event feed |
| Runtime host (`app/runtime_host.py`) | per provider: state, identity, loaded runtime, last use, lock | prepare, execute, preload, evict, reset, idle eviction | provider (GPU) |
| Engines, providers (`app/engines`, `app/runtime_host_registration.py`, `third_party/PanoWan`) | GPU models | prepare, execute | host, probe |
| Upscaler, process runner (`app/upscaler.py`, `app/process_runner.py`, `app/generator.py`) | child processes, output directory | validate, run, stop, discover output | engines |
| Worker registry (`app/jobs/workers.py`) | worker file: heartbeat, capabilities, occupancy | upsert, adjust running jobs, list | worker, API summary |
| Event feed (`app/sse.py`, `/jobs/events`, `/api/events`) | subscriber queues, what a stream saw last | subscribe, broadcast, poll | API, browser |
| Result views (`app/result_views.py`) | none; a view of the jobs | list results, versions, lineage | API, browser |
| Backend installation (`app/backends`) | installed files, manifests | verify, acquire, materialize | setup commands |
| Browser (`frontend/src`, `app/static/index.html`) | selection, lists | fetch, subscribe, submit, cancel | API |
| Settings, scripts, compose files | configuration | | all |

What makes each of them correct:

- **Store**: a job is handed out once, has one owner, reaches one outcome; a
  success is final; the metadata of a record agrees with its state, also after
  the operations that write around the guarded transition.
- **Workers and API**: nothing is executed twice; "succeeded" means there is an
  output; a cancellation ends; a stop signal is not lost; nobody's job is
  cancelled without a request; every job is settled.
- **Runtime host**: one resident runtime at a time, always the one the job needs,
  never a corrupted one, and a slot every later job can start from.
- **Registry**: occupancy does not add up over crashes and late reports, a busy
  worker shows it, and the living are told from the dead.
- **Event feed**: a subscriber ends up with the state of the store.
- **Upscaler, runner**: a job is given its own output; a process that is stopped
  is really gone.
- **Installation**: what verifies is whole and of the declared revision, and
  repeating an installation completes it.
- **Results, page**: a version stays in its result, order and status do not depend
  on clocks, something playable stays selected, the page follows the store.

Hard to test, and why: the API and the workers interleave between critical
sections (a listing, a probe or a record read earlier is stale when it is used);
any process may die between two steps and comes back with nothing but the file;
deadlines race late engine results; ids may be reused by clients. The list, with
the line where each one bites, is `hazards` in `PROJECT.json`.

## 2. Modules

| Module | Models | Extends / instantiates |
|---|---|---|
| `Lifecycle` | records, states, transition graph, normalization | |
| `JobStore` | the store: one action per critical section, callers unconstrained | `Lifecycle`; `JobLedger` through `Ledger` |
| `JobLedger` | what the store promises, abstractly | |
| `StoreFile` | the critical section itself: two locks, load, temporary file, failures, crashes | `AtomicFile` through `Atomic` |
| `AtomicFile` | what the processes that share a store file may rely on | |
| `JobSystem` | workers, request threads, API process, engines, clock, crashes | `JobStore` |
| `DocumentedClaims` | a sentence of an ADR as a property | `JobSystem` |
| `WorkerRegistry` | occupancy and heartbeat records, and everyone who changes them | |
| `RuntimeHost` | the runtime host of one provider, any number of threads | |
| `UpscaleRun` | an upscale job from the request to its output file | |
| `BackendInstall` | install / rebuild of a backend and the model assets | |
| `EventFeed` | the broadcast bus, its publishers and a `/jobs/events` stream | |
| `ResultViews` | results and versions computed from the jobs | |
| `Workbench` | the job store as results, `/api/events`, the React page and its requests | `ResultViews` |
| `JobSystemProofs` | theorems about `JobStore` (part 1) and `JobSystem` (part 2) | `JobSystem`, `TLAPS` |
| `StoreFileProofs`, `RuntimeHostProofs`, `UpscaleRunProofs`, `BackendInstallProofs`, `EventFeedProofs`, `WorkerRegistryProofs`, `WorkbenchProofs` | theorems about the module each is named after | that module, `TLAPS`, theorems on sequences and finite sets |
| `MC...` | instances, definitions of constants and symmetry sets for TLC | |

`JobStore` is the middle: `StoreFile` is how one of its steps comes about,
`JobSystem` is who takes them, `JobLedger` what they amount to. The other
modules each keep the part of the job store they depend on and nothing else.

### Lifecycle and JobStore

`jobs` is the store file: a record for each job id, with `NoRecord` for an id
that is not a key. Timestamps are reduced to what the code asks of them:
`created` is the rank of `created_at` (the claim order and the identity of a
submission), `finished` whether `finished_at` is set, `deadline` whether
`cancel_deadline_at` is missing, ahead or past. `started_at`, prompts, paths and
parameters are left out. `files` is the set of jobs whose output file exists.

Every operation of `LocalJobBackend` takes the file lock, reloads the file,
changes it and replaces it; one action stands for that section. The guards of
`_guarded_transition` are `Permits`. `request_cancellation` is up to four guarded
transitions in as many sections, hence four actions; `JobSystem` gives their
order. `RetryTimedOut`, `RecoverOverdue`, `CancelQueued`, `DeleteFailed` and
`Restore` write around `_guarded_transition`, as the code does. With `Upgraded`
the initial store holds records of older versions: the label `completed`,
failures that stand for cancellations, in-flight records without a worker.

In `JobStore` alone any caller may name any job and worker at any time. What
holds there needs no good behaviour of workers and handlers, and it is what the
theorems are about.

### JobLedger

The ledger knows only whether a job is absent, waiting, held, a success or a
loss, and who holds it. `JobStore` implements it (`ImplementsLedger`): "claimed",
"running" and "cancelling" are *held*, "failed" and "cancelled" a *loss*. The
ledger says what the seven states are for: one holder, taken from the queue once;
a final success; a loss that may be purged, or taken up again by its holder.

### JobSystem

Each process has a program counter and a frame of locals. A worker repeats
`LoopTop`, `ReconcileOne`, `CheckCapacity`, `ClaimNext`, then `Prepare` ..
`Execute` and its report, which is `main` and `run_one_job` with one step for
each section or engine call. The engine may write the output, raise, or see the
probe (`ShouldStop`, which is `_should_cancel_job`) and stop: PanoWan then
returns normally without an output, the upscaler raises. A request handler holds
what it read (`frame`) while others move; reconciliation holds its listing
(`todo`). `CrashWorker` and `CrashApi` forget all locals; a restarted API runs
`Restore` and settles what is left cancelling before it serves. Handlers run in
a thread pool, so several are in progress at once.

History variables: `frame[w].born` (which submission a worker claimed), `asked`,
`used` (a uuid is not drawn twice unless `ReuseIds`: clients of `/generate` may
choose their ids).

`ImplementsStore` checks that every step of every process is a step of
`JobStore` or leaves it alone, so the store's theorems hold of the service.

The registry is not in this model: the capacity check reads the job store and
the main loop republishes the occupancy from it, so the registry never decides
what a worker does. It has `WorkerRegistry` to itself.

### StoreFile and AtomicFile

`LocalJobBackend` and `LocalWorkerRegistry` have the same `_StoreLock`, `_load`
and `_persist`; the module is both, and its definitions are mapped to one or the
other. A thread takes the thread lock of its process (`mutex`), then the file lock
(`flock`), loads the file into the process's copy (`cache`), and either reads or
changes the copy, opens the temporary file, writes it and moves it over the
store. The content of a file is the set of updates it holds; a file that is being
written is "torn". Any call may raise: in `__enter__` (`EnterRaises`, `Unwind`),
where `__exit__` does not run and the thread lock stays taken, or in the body
(`BodyRaises`), where it does. A process may die anywhere (`Crash`); the kernel
frees its file lock.

`AtomicFile` has two actions: an update takes effect, an update is confirmed.
`ImplementsAtomicFile` is what `JobStore` assumes when it makes a critical section
one action.

### WorkerRegistry

`workers` holds what the registry says of a worker: known, `running_jobs`, and
whether `last_seen` is within `WORKER_STALE_SECONDS`. Jobs are reduced to what
moves the count: deadlines elapse at any moment, "finished" is every terminal
state and a deleted job, "timed_out" the failed state a client may reopen. A
worker's round is the one of `JobSystem` with the registry calls put back:
publishing takes two sections of two files (`CountInflight`, `Publish`),
reconciliation two as well (`SettleOverdue`, `ReleaseOwner`), and so does the
release of a slot (`CheckRelease`, `VacateSlot`). The API settles overdue jobs
without touching the registry (`ApiReconciles`). A record goes stale only where a
round takes long: when the worker is down, loads a runtime or executes.
`credited` is a ghost: a slot was released in w's name by another worker since w
published.

### UpscaleRun

The first part translates parameters: `Accepts` and `Resolved` are
`_resolve_upscale_params`, `Valid` the `validate_params` of the three backends,
`RuntimeModel` and `RenameModel` the two ends of the model name's translation in
`create_upscale_version_api`. The second is the run: `Launch` lists the directory
and starts the process; `Stop`, `TimeOut`, `Wait` are a turn of the polling loop,
in the order of the code; `Communicate` is a `communicate` that returned or timed
out; `Collect` and `Replace` find the output and move it. The directory is a
sequence from the oldest file to the newest, because discovery asks for the
newest new file; it is one for all jobs since `output_dir` and
`upscale_output_dir` are one path (`settings.py:120`). An entry records who wrote
it, from which source, and whether it is whole. The subprocess is external: it
opens its file, finishes it and exits, or fails, or hangs, or exits without a
file. `crowded` is a ghost: another run was active during the run.

### BackendInstall

`vendor` gives for each file of the vendor directory the version it was copied
from, `Cut` while it is copied; `stamp` is `.revision`. Verification sees only
the stamp, the files expected by name, and the existence of the directory
expected as a whole (`TreeFiles` are in it). Removal takes the entries in any
order. The three model assets are one of each provider, in the order of
`model_specs.py`. `Interrupt` is a kill or a call that raises, at any step;
`Checkout` a change of the declared revision or of `sources/` between two runs of
the command.

### ResultViews and Workbench

`ResultViews` has the pure functions of `result_views.py`, on a set of job ids and
their parent, rank of `created_at` and status. The loops up the sources become the
set of jobs they visit: `Lineage` is the least set that holds a job and, with
a job, its source; `Tops` are the jobs a walk can end at, and `Depth` counts. The
`seen` sets of the code, which stop a walk that comes back to a job, have no
counterpart: `WalksEnd` proves that the walks of a store that the API wrote never
do. The sorted list of versions is its order `Before` and its last element
`LastOf`. `Workbench` puts a store, the
`/api/events` stream and the React page around them. The initial states are all
stores the page may be opened on (any jobs in any status, upscales only of
succeeded jobs), because a page can meet a history it has not seen. Requests are
counted in `asks`, answers wait in `answers`, and either may be taken in any
order; an answer carries one reading of the store. `clean` is a ghost: the page
has loaded everything since it connected, no answer was overtaken by an event,
and every change that was made behind the page, or behind an answer on its way, is
one that the events make up for (`Noticed`). A status that went away and came back
between two polls, and a deleted id that was created again (`GenerateAgain`; only
`/generate` takes ids from its clients), are no change to the stream and mislead a
page that was served in between. What an answer sets is decided when it
arrives (`Sets`): a result replaces all its versions on the page, also those made
after the answer.

### RuntimeHost

One registered provider (providers share no state and no call holds two locks).
A method is an acquisition of the lock, provider calls, and a release; between
`prepare_runtime` and `execute_job` the lock is free and the thread holds a
handle. A runtime is a number and the identity it was loaded for; `live` are
those loaded and not torn down, `corrupt` those a failure was classified as
having corrupted. `last_used_at` and the time of the last load are "recent" or
"old" against the idle threshold. A teardown that raises is swallowed by the
code and counts as a teardown. `classify_failure` returns (a classifier that
raises would leave the slot running; PanoWan's cannot).

### EventFeed

`store` holds, per job, the number of the write that produced its record: what a
record says does not matter here, only whether two of them differ and which is
the later one. Request threads write and broadcast in separate steps, and the
broadcast itself copies the list of subscribers and then fills one queue after
another, so events of one job reach a queue in any order. Workers, the restore
and `GET /jobs` write without a broadcast. A stream subscribes, reads the store,
and then relays its queue or, after a second of silence, polls
(`_collect_job_store_events`, with the overdue cancellations it writes first).
`pending` is what the generator has still to yield; a client that leaves in the
middle is `Unsubscribe`. `sent` is not in the code: it is what a client shows
that started from the stream's first reading and applied every event. A callback
that waits in the event loop is the same as a broadcast that comes later, so
`call_soon_threadsafe` and `put_nowait` are one step. The queues are unbounded
(`subscribe()` passes no size); heartbeats are left out.

## 3. Runs

| Run | Instance | Question |
|---|---|---|
| `store` | 2 jobs, 2 workers, 2 creations, 2 attempts, legacy records | what the store guarantees to arbitrary callers |
| `system` | 1 id used twice, 2 workers, 2 handlers, 1 crash, 1 API restart, 2 attempts | races of workers, handlers, restarts and reused ids |
| `liveness` | 1 generate, 1 upscale job, 1 worker, 1 handler, 1 worker crash, dev mode, legacy records, fairness | a cancellation ends; without crashes every job is settled; nothing is cancelled unasked |
| `store_file` | 2 API threads, 1 worker process, 1 update each, 1 raising call, 1 crash, fairness | the critical section is atomic and durable; a failure stays in its process |
| `registry` | 2 workers, 2 jobs, 1 crash, 1 reopened job, fairness | what a record may show, and that the living are seen |
| `runtime_host` | 2 threads, 2 identities, 4 loads | the slot under concurrent calls |
| `upscale_run` | 2 jobs, 2 videos, 2 workers, 5 payloads, 1 fault, fairness | the output is the job's own; a run ends; no process is left |
| `install` | 2 + 2 files, 2 revisions, 2 versions of `sources/`, 2 checkouts, 2 faults, fairness | what verification accepts; repeating the command converges |
| `event_feed` | 2 jobs, 2 request threads, 1 stream, 4 writes, fairness | a client ends with the state of the store |
| `results` | 3 jobs with any history, 4 statuses, 2 changes, 2 requests at a time, 1 reload or lost connection, fairness | results and selection are stable; a quiet page is right, and the page gets there |
| `claim_upscale_stop`, `claim_rename` | the smallest that shows it | a sentence of the repository that the code breaks |

Why these bounds are enough: the interesting cases are pairs (two workers on a
job, a handler and a worker, two submissions under one id, one crash in the
middle of a job), and every one of them occurs. Two attempts let a cancellation
time out, be retried and time out again. In `store_file` three threads in two
processes meet every pair of locks, and the one update per thread is enough to
lose one. In `install` two faults interrupt an installation and the one that
repairs it. In `upscale_run` the five payloads are the three backends, one that
each check of the API refuses, and the two ways to name a model; a fault is a
stop, a raising probe or a process that fails, and hanging and timeouts are not
counted. `results` has a chain of three versions, or two results, and clocks that
disagree with the order of creation; "claimed", "running" and "cancelled" are
left out of the instance for its size (the first two are handled like "queued", the
third like a "failed" that stays, by every definition but those of the status of a
result). Two changes are one
and one that overtakes it, a status that leaves and comes back (a job that timed out
and is retried), or a job that is deleted and created again; both occur behind a
page that notices and behind one that does not.
Streams share nothing but the writers, so one is enough for `event_feed` and for
`results`. Ids, workers, handlers and threads are interchangeable, so the safety
runs with many of them use symmetry; the runs with liveness do not. The constants
named `Max...`, other than `MaxConcurrentJobs` and `MaxParallel`, bound counters
only, and the theorems do not depend on them.

Fairness. *Workers and the API* take a step when they can and come back after a
crash (`restart: unless-stopped` in the compose file); engine calls end; deadlines
pass. Clients are not fair: requests need not come. `CancellationConverges` needs
only that; it does not rely on the engine's answer being a cooperative one.
*Locks* are handed on: strong fairness of a thread's steps, since the kernel wakes
the waiters of `flock` in turn. *Registry*: a worker that is up goes on; a worker
that is down may stay down, and its record then grows old. *Upscale*: the worker
goes on with its run and the deadline passes (strong fairness, it is looked at in
every turn of the loop); the process may hang for ever. *Installation*: the
command runs to its end and somebody runs it again. *Streams and pages*: request
threads finish what they broadcast, generators are resumed, the browser connects
again, requests are answered; nobody has to write, connect, act or leave.

`CHECK_DEADLOCK FALSE` stands where the system may stop: `event_feed` and
`results` when the writes are used up and everything is delivered, `store_file`
when all updates are made and every thread waits on a leaked lock, `upscale_run`
when every job has ended.

### What the checks show

- **store, system, liveness**: a job is handed out once, has one executor and one
  outcome, a success is final and has an output; a stop signal lasts; every step of
  the service is a step of `JobStore`, so the theorems hold of the service.
- **store_file**: a section is atomic and its update durable whatever died or
  raised; a process whose `__enter__` raised may block itself, never another.
- **registry**: an executing worker shows a running job unless another worker
  released a slot in its name after a late settlement; a record never shows more
  than its worker counted plus the job at hand; who stays up is seen online again
  and again, who stays down is not, whoever else writes its record.
- **runtime_host**: one runtime, of the right model, alive and not corrupted
  whenever a job runs that prepared it.
- **upscale_run**: a lone run of a backend with a known file name gets its own
  whole output whatever was left in the directory; every run ends; no process
  outlives its run, with one exception (a probe that raises).
- **install**: a directory that verifies is whole, with one exception (a removal
  that was interrupted before it reached the stamp); what `ensure_backend` built
  verifies, although it does not look; repeating the command ends in
  a verified backend and hashed weights from any state of the disk.
- **event_feed**: a poll sends just what the client lacks (`PollClosesTheGap`), and
  the feed converges because the stream polls: late broadcasts
  take clients back to older records, and only `known_jobs`, kept equal to what was
  sent, lets the next silent second repair them.
- **results**: a version never changes its result, parents sort before children
  whatever the clocks say, something playable stays selected, and, unless an
  answer was overtaken by an event or the page was served between a change and its
  reversal, a page with nothing on its way to it shows the statuses of the store
  (`QuietPageAgrees`) and gets there (`PageCatchesUp`).

Where a sentence of the repository and the code disagree, with a run:

- *cancelling -> cancelled when cooperative cancellation completes* (ADR
  0010:102): an upscale that stopped as asked is recorded as failed.
- *queued jobs remain executable by the current worker* (`api.py:496`): the
  version API renames the model of the queued job to `seedvr2`, which
  `upscale_video` does not know; the job runs only if a worker claimed it before
  the rename. The React form sends `seedvr2` always.

Others were met while modelling and are visible in the modules:

- *Terminal states are immutable* (`lifecycle.py:10`): `RetryTimedOut` reopens a
  failed job.
- *Stale observers must not overwrite newer state* (ADR 0010:137): a worker whose
  job was deleted cancels a new queued job under the same id, because the queued
  branch of `request_cancellation` checks no owner (`local.py:253`).
  `CancelledOnlyIfAsked` is therefore checked without reuse of ids.
- *Force jobs whose cancel deadline has elapsed* (`worker_service.py:528`, also
  `local.py:343`): a timeout is written from an old listing although an escalation
  or a retry came in between and gave the cancellation a new deadline: `ReadRequest`,
  `EscalateCancel`, `ReconcileOne`. `local.py:344` says only the owning worker may
  write it; any process does, in the owner's name.
- *Converting stale claimed or running tasks after lease expiry* (ADR 0010:219):
  nothing does; a running job of a dead worker fills that worker's capacity until
  somebody cancels it or the API restarts.
- *Evict ... if idle past the configured threshold* (`worker_service.py:239`): a
  runtime just loaded may be evicted on the strength of an older `last_used_at`.
- ADR 0010:100 cancels a claimed job in two steps, the graph of `lifecycle.py` in
  one. ADR 0010:104 forbids cancelling -> succeeded; `RecoverOverdue` does it, for a
  job with an output file only (an exception in `LegalMove`, and the condition in
  `MovesAreLegal`). Its caller in the service takes it for records without an owner,
  which only an older version wrote.
- The registry's count may be too low or too high for a while (a slot released by
  a reconciliation that was overtaken by a publication, an API settlement it never
  hears of), against the occupancy of
  `2026-05-01-worker-and-cancellation-governance-design.md:154`; the next
  publication repairs it. While a job runs longer than the stale threshold its
  worker is offline for `has_upscale_model`, and upscales are refused.
- Two upscales that overlap may take each other's files: "the newest new file" and
  "the only video" belong to whoever looks first, and a run whose process wrote
  nothing succeeds with a file of another. SeedVR2 is given the whole directory as
  input. A computed SeedVR2 target that is not a multiple of 32 is accepted by the
  API and refused by the runner.
- A probe that raises leaves the subprocess running (`process_runner.py:95`).
- A rebuild killed during its removal leaves a directory that verifies as "ok"
  while its stamp lasts. Files of `sources/` edited at an unchanged revision are
  not installed. A hub repository counts as present when its listed files are.
- A first reading of `/jobs/events` that fails leaves its queue on the bus
  (`FirstReadingFails`). `/api/events` never announces a deletion, and an answer
  that is overtaken by an event leaves an old status on the page until the next
  reload, against the freshness of
  `2026-05-02-react-result-workbench-design.md:834`.
- `update_job` raises `KeyError` when the queued job was deleted before the rename:
  the request ends with an error although the version was created.

## 4. Proofs

All theorems hold for every value of the constants that satisfies the named
assumptions of the module: ids that stand for "none" are no one's, sets that
must differ are disjoint, bounds are numbers. Three modules need a little more,
`IsFiniteSet(Jobs)`: `WorkerRegistry` counts the jobs of a worker, in `EventFeed`
and `Workbench` a poll puts the jobs that changed in some order, and a version has a
depth. The sets are the keys of one JSON file; the statuses `Workbench` tells
apart are finitely many too. In each module the theorems follow from an
inductive invariant that TLC checked on the module's instance first. What is only a
type (`TypeOK`, `HostTypeOK`, `FeedTypeOK`), and `NeverRequeued`, which
`MovesAreLegal` implies, are theorems without a run.

**JobSystemProofs, part 1** — `TypeCorrect`, `RecordsStayCoherent`; `MovesStayLegal`,
`SucceededStaysFinal`, `OwnerStaysPut`, `WorkIsHandedOutOnce`;
`StoreImplementsLedger` (refinement). The invariant is
`TypeOK /\ RecordsCoherent`. Neither half carries itself: that an owner never
changes needs to know that a queued record has no owner, that a timeout leaves a
coherent record needs the type, and a deleted record must have no owner for a
later submission to be a step of the ledger. All operations but create, delete
and restore write one record, so the argument is about records: `PutKeepsInv`
says that writing a good record keeps the invariant, and each action has one
obligation, that the record it writes is good. For the action properties every
step is one of five kinds of `Change` to each record, and each property is read
off that list; the one thing the list does not say, that a success made of a
cancellation has its output file, is `RecoveryGoesByTheFile`. For the refinement, `RewriteAbstracted` does the same with the
phases of the ledger.

**JobSystemProofs, part 2** — `SysTypeCorrect`, `OneExecutor`, `OutputBacksSuccess`,
`ProbeIsRight`, `StopStays`; `ServiceUsesStore` (refinement: the service with its
crashes, restarts and reused ids takes steps of `JobStore` only) and from it
`ServiceKeepsGuarantees`, the guarantees of the store and the ledger for the
running service; `CancelledWasAsked`. `SysInv` adds to the invariant of the store
what a process remembers: a worker's frame names a submission by id, owner
and rank; that submission has left the queue for good, and what is
stored as active under the worker's name is that submission and no later one
(`ClaimIsExclusive`). Without ranks this fails: an id submitted again can be
active for another worker. A worker that is about to report success has written
its output or will be refused (`OutputOrRefusal`). `SysMoves` lists how each step
moves a process, `SysCalls` which operation of the store it performs, and
`QuietEffect` what every operation but a claim and a success does to a record;
each conjunct of the invariant is an argument about those three.

`CancelledWasAsked` has the hypothesis `~ReuseIds`: the API draws the ids of the
jobs that clients do not name. It is a condition of the property, not of the
proof: a late report on a reused id can cancel the new job (section 3). Its
invariant `CancelInv` has to explain every place a cancellation comes from: a
request handler was asked, and a worker that was refused its report finds its job
no longer active, so that its unconditional `request_cancellation` continues a
cancellation and does not begin one (`ReportsStand`).

**StoreFileProofs** — `SectionsExclude`, `StoreFileIsAtomic` (refinement of
`AtomicFile`). `FileTypeOK` says who holds the locks between `flock` and its
release; `FileInv` adds the thread that waits for `flock` with the thread lock in
its hands, the copy of a process, which is the file until its thread changes it, and
the temporary file, which is whole when it replaces the store.

**RuntimeHostProofs** — `HostTypeCorrect`, `AtMostOneResident`, `ModelIsRight`,
`ExecutesOnSound`, from `HostInv`: the lock and the state of the slot are
determined by the place of the thread inside a method, a runtime's number is
new when it is loaded, and, as long as no call came between a prepare and its
execute, the prepared thread is alone and its runtime is the one in the slot.

**UpscaleRunProofs** — `UpscaleTypeCorrect`, `AloneFindsItsOwn`. `UpscaleInv`
follows the file of a run through a directory that every run shares: no two files
have one name; a final name is there only when its job has ended, so that a move
never lands on a file; a run that is alone is the only active one, and what its process
wrote is where it wrote it (`OwnFile`), so that the search takes it
(`FoundIsOwn`). The lemmas on directories (`RemoveAtProperties`,
`WithoutProperties`, `RenamedProperties`) say what each change does to the set of
files, and the rest of the proof is about sets.

**BackendInstallProofs** — `InstallTypeCorrect`, `VerificationIsSound`. The
stamp is written last, so outside an unfinished removal it tells the truth;
`InstallInv` says so of the revision that is stamped, because the declared one
may change between two commands. `EnsureDoesDeliver` needs besides that a file is in
its directory, since verification looks for the directory only, and that nothing
is checked out while the command runs.

**EventFeedProofs** — `FeedTypeCorrect`, `ServerIsRight`, `PollsCloseTheGap`. What
the server believes it sent is what the client gets once the events under way are
out; to keep that, the events under way must name different jobs, and a generator
that is not yielding must owe nothing. A poll then starts from what the client
shows, and its difference applied to that is the store.

**WorkerRegistryProofs** — `RegistryTypeCorrect`, `ExecutionShows`,
`CountsDoNotDrift`. Others only take from a record, so between two publications it
shows at most what its worker counted, and one more while the worker is at a job
it started; `Adjust` stops at zero, so a release too many hides a job but never
shows one.

**WorkbenchProofs** — `WorkbenchTypeCorrect`, `WalksEnd`; `SummariesAreSound`,
`VersionsKeepTheirResult`, `PlayableStays`; `CleanPageIsRight`. The first five rest on
`SourcesStand`: a source has succeeded, hence is never cleared, and any set of jobs
has one whose source is outside it. That is well-foundedness said without
numbers, since ids are chosen at random and clocks disagree. The lineage being a
least closed set, facts about walks are proved by exhibiting a closed set, without
induction (`LineageIsLeast`); that a walk has an end is the well-foundedness applied
to the lineage (`TopExists`), and that it has one end only is minimality
(`TopIsUnique`). An upscale has the lineage of its source and itself, so it is
deeper by one and comes later. A step changes a lineage in no other way than
by adding a new job under it (`WhatStays`), so roots stay.

`CleanPageIsRight` needs `PageInv`. For each stored version, one of three things
accounts for what the page is behind: an event about it is on the wire, or the
stream has not seen its status and the next poll will send it (`Caught`), or a request
or an answer under way fetches it (`Fetching`). The same is said of every answer
that was not overtaken, as it stands for what the page will show (`AnswersOK`);
`WireOK` adds that the last event about a version says what the stream saw last, so
that a version whose events are all handled is right. `clean` is true of the page
exactly as long as this argument goes through, and the steps that end it are those of
section 3: an overtaken answer, and a change that comes back to what the stream saw
and that the page saw undone. A change that is noticed keeps the argument going
(`Noticed` says which of the three then accounts for it).

Only model-checked:

- liveness (`CancellationConverges`, `EveryJobSettles`, `FailureStaysInside`,
  `AliveIsSeen`, `RunEnds`, `InstallConverges`, `StreamCatchesUp`,
  `PageCatchesUp`): fairness is outside the prover. Of the last three the part
  that is safe is proved: where a command, a poll or a quiet page has got to is the
  right place (`EnsureDelivers`, `PollClosesTheGap`, `QuietPageAgrees`);
- which file `Discover` takes when no expected one is there (`SelectSeq`, recursive
  too). `OwnWhenAlone` is about the backends with an expected name, whose search
  does not come to that.

Two definitions of `UpscaleRun` take one file out of the directory with `RemoveAt`
for the same reason: names are distinct and a process has one file, so it is
the same as selecting the others.

## 5. Plan

Done: every module of the table; every invariant and every action property of
the passing runs is a theorem. Liveness stays with TLC. What could be added:

1. The legacy page (`static/index.html`): its table is not modelled, and two of the
   hazards in `PROJECT.json` are about it.
2. A run of `results` with "claimed", "running" and "cancelled" in the instance. The
   theorems hold for them; TLC's time does not allow it beside the interleavings of
   requests.

### Not modelled

Numerical and vendored code, provider modules on the GPU, generation parameters
(`generator.py`), markup, styles and the legacy page, settings and path helpers,
build and deployment scripts: no state of the service or no control of their own.
Of modelled parts: which upscale backends are installed (`_has_backend_assets`,
`_has_backend_runtime`: reads of the disk), command lines, labels and dimensions
of versions, the parsing of `backend.toml`, glob filtering, the summary and
download endpoints (they only read), heartbeats of the streams, and the user's
selection on the page. `finalize_runtime_cancellation`, `apply_transition` and
`force_*` have no caller in the program.
