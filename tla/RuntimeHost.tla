----------------------------- MODULE RuntimeHost -----------------------------
(***************************************************************************)
(* ResidentRuntimeHost of app/runtime_host.py, for one registered provider:*)
(* the loaded model (a runtime) is kept between jobs, replaced when a job  *)
(* needs another one, repaired after a failure and evicted when idle.      *)
(*                                                                         *)
(* Each public method holds the provider's lock from start to end, but a   *)
(* job is two calls, prepare_runtime and execute_job, and the lock is free *)
(* between them.  A thread calls any method at any time; the worker's main *)
(* loop is the case of one thread.  Calls into the provider (load, execute,*)
(* teardown) take a step of their own.                                     *)
(***************************************************************************)
EXTENDS Naturals, FiniteSets

CONSTANTS
  Threads,         \* callers of the host
  NoThread,        \* the owner of a free lock
  Identities,      \* runtime identities: which model a job needs
  NoIdentity,      \* the identity of an empty slot (None)
  MaxLoads         \* bound: how many runtimes are ever loaded

ASSUME HostAssumption ==
  /\ NoThread \notin Threads
  /\ NoIdentity \notin Identities
  /\ MaxLoads \in Nat

VARIABLES
  state,           \* RuntimeInstance.state
  identity,        \* RuntimeInstance.identity
  loaded,          \* RuntimeInstance.loaded: a runtime, NoRuntime for None
  lastUsed,        \* RuntimeInstance.last_used_at: "none", "recent" or "old"
  lastError,       \* whether RuntimeInstance.last_error is set
  lock,            \* the thread in a method of the host
  pc, goal, handle,\* per thread: where it is, the identity it needs, the
                   \* runtime prepare_runtime returned to it
  live,            \* the runtimes loaded and not torn down
  corrupt,         \* the runtimes an execution has corrupted
  loads,           \* how many runtimes were loaded
  overlapped       \* whether a call ever came between the prepare and the
                   \* execute of another thread (never, in the worker)

instance == <<state, identity, loaded, lastUsed, lastError>>
threads == <<lock, pc, goal, handle, overlapped>>
history == <<live, corrupt, loads>>
hostVars == <<instance, threads, history>>

\* A runtime is known by its number and the identity it was loaded for.
Runtimes == (1 .. MaxLoads) \X Identities
NoRuntime == <<0, NoIdentity>>

RuntimeStates == {"cold", "loading", "warm", "running", "evicting", "failed"}
Preparing == {"prepare", "prepare_load", "preload", "preload_load"}
Steps == Preparing \union {"idle", "prepare_repair", "preload_repair",
                           "prepare_replace", "preload_replace",
                           "evict", "evict_idle", "reset", "prepared", "execute"}

HostInit ==
  /\ state = "cold" /\ identity = NoIdentity /\ loaded = NoRuntime
  /\ lastUsed = "none" /\ lastError = FALSE
  /\ lock = NoThread
  /\ pc = [t \in Threads |-> "idle"]
  /\ goal = [t \in Threads |-> NoIdentity]
  /\ handle = [t \in Threads |-> NoRuntime]
  /\ live = {} /\ corrupt = {} /\ loads = 0
  /\ overlapped = FALSE

-----------------------------------------------------------------------------
Acquire(t, step) ==
  /\ lock = NoThread
  /\ lock' = t
  /\ pc' = [pc EXCEPT ![t] = step]
  /\ overlapped' = (overlapped \/ \E u \in Threads \ {t} : pc[u] = "prepared")

Continue(t, step) ==
  /\ pc' = [pc EXCEPT ![t] = step]
  /\ UNCHANGED <<lock, goal, handle, overlapped>>

\* A call returns or raises; "prepared" holds what prepare_runtime returned.
Release(t, step, i, r) ==
  /\ lock' = NoThread
  /\ pc' = [pc EXCEPT ![t] = step]
  /\ goal' = [goal EXCEPT ![t] = i]
  /\ handle' = [handle EXCEPT ![t] = r]
  /\ UNCHANGED overlapped

Finish(t) == Release(t, "idle", NoIdentity, NoRuntime)

\* _safe_teardown: an exception of the provider is swallowed.
SafeTeardown(next) ==
  /\ state' = next
  /\ identity' = NoIdentity
  /\ loaded' = NoRuntime
  /\ live' = live \ {loaded}
  /\ UNCHANGED <<lastUsed, corrupt, loads>>

SetState(s) ==
  /\ state' = s
  /\ UNCHANGED <<identity, loaded, lastUsed, lastError, history>>

-----------------------------------------------------------------------------
(* prepare_runtime and preload: repair a failed slot, replace a runtime of *)
(* another identity, load into a cold slot, or reuse the warm one.         *)
BeginPrepare(t, call, i) ==
  /\ pc[t] = "idle"
  /\ goal' = [goal EXCEPT ![t] = i]
  /\ UNCHANGED handle
  /\ IF state = "failed"
     THEN Acquire(t, IF call = "prepare" THEN "prepare_repair" ELSE "preload_repair")
          /\ SetState("evicting")
     ELSE Acquire(t, call) /\ UNCHANGED <<instance, history>>

Repair(t) ==
  /\ pc[t] \in {"prepare_repair", "preload_repair"}
  /\ SafeTeardown("cold")
  /\ Continue(t, IF pc[t] = "prepare_repair" THEN "prepare" ELSE "preload")
  /\ UNCHANGED lastError

\* runtime_identity_from_job may refuse the job.
RefuseJob(t) ==
  /\ pc[t] = "prepare"
  /\ Finish(t)
  /\ UNCHANGED <<instance, history>>

Reuse_AnyIdentity(t) ==
  /\ pc[t] \in {"prepare", "preload"}
  /\ state # "cold"
  /\ IF pc[t] = "prepare" THEN Release(t, "prepared", goal[t], loaded) ELSE Finish(t)
  /\ UNCHANGED <<instance, history>>

Reuse(t) ==
  /\ pc[t] \in {"prepare", "preload"}
  /\ state # "cold"
  /\ ~(state = "warm" /\ identity # goal[t])
  /\ IF pc[t] = "prepare" THEN Release(t, "prepared", goal[t], loaded) ELSE Finish(t)
  /\ UNCHANGED <<instance, history>>

BeginReplace(t) ==
  /\ pc[t] \in {"prepare", "preload"}
  /\ state = "warm" /\ identity # goal[t]
  /\ SetState("evicting")
  /\ Continue(t, IF pc[t] = "prepare" THEN "prepare_replace" ELSE "preload_replace")

Replace_WithoutTeardown(t) ==
  /\ pc[t] \in {"prepare_replace", "preload_replace"}
  /\ SetState("loading")
  /\ Continue(t, IF pc[t] = "prepare_replace" THEN "prepare_load" ELSE "preload_load")

Replace(t) ==
  /\ pc[t] \in {"prepare_replace", "preload_replace"}
  /\ SafeTeardown("loading")
  /\ Continue(t, IF pc[t] = "prepare_replace" THEN "prepare_load" ELSE "preload_load")
  /\ UNCHANGED lastError

BeginLoad(t) ==
  /\ pc[t] \in {"prepare", "preload"}
  /\ state = "cold"
  /\ SetState("loading")
  /\ Continue(t, IF pc[t] = "prepare" THEN "prepare_load" ELSE "preload_load")

LoadSucceeds(t) ==
  LET r == <<loads + 1, goal[t]>>
  IN  /\ pc[t] \in {"prepare_load", "preload_load"}
      /\ loads < MaxLoads
      /\ loads' = loads + 1
      /\ state' = "warm" /\ identity' = goal[t] /\ loaded' = r
      /\ lastError' = FALSE
      /\ live' = live \union {r}
      /\ IF pc[t] = "prepare_load" THEN Release(t, "prepared", goal[t], r) ELSE Finish(t)
      /\ UNCHANGED <<lastUsed, corrupt>>

LoadFails(t) ==
  /\ pc[t] \in {"prepare_load", "preload_load"}
  /\ state' = "failed" /\ identity' = NoIdentity /\ loaded' = NoRuntime
  /\ lastError' = TRUE
  /\ Finish(t)
  /\ UNCHANGED <<lastUsed, history>>

-----------------------------------------------------------------------------
(* execute_job runs on the runtime prepare_runtime returned to this thread.*)
BeginExecute(t) ==
  /\ pc[t] = "prepared"
  /\ Acquire(t, "execute")
  /\ SetState("running")
  /\ UNCHANGED <<goal, handle>>

\* The job was cancelled while its runtime was prepared.
DropPrepared(t) ==
  /\ pc[t] = "prepared"
  /\ pc' = [pc EXCEPT ![t] = "idle"]
  /\ goal' = [goal EXCEPT ![t] = NoIdentity]
  /\ handle' = [handle EXCEPT ![t] = NoRuntime]
  /\ UNCHANGED <<lock, overlapped, instance, history>>

\* The job succeeds, or fails in a way the provider calls benign.
ExecuteEnds(t) ==
  /\ pc[t] = "execute"
  /\ state' = "warm" /\ lastUsed' = "recent"
  /\ Finish(t)
  /\ UNCHANGED <<identity, loaded, lastError, history>>

ExecuteCorrupts_Benign(t) ==
  /\ pc[t] = "execute"
  /\ corrupt' = corrupt \union {handle[t]}
  /\ state' = "warm" /\ lastUsed' = "recent"
  /\ Finish(t)
  /\ UNCHANGED <<identity, loaded, lastError, live, loads>>

\* classify_failure says the failure corrupted the runtime.
ExecuteCorrupts(t) ==
  /\ pc[t] = "execute"
  /\ corrupt' = corrupt \union {handle[t]}
  /\ state' = "failed" /\ lastError' = TRUE
  /\ Finish(t)
  /\ UNCHANGED <<identity, loaded, lastUsed, live, loads>>

-----------------------------------------------------------------------------
(* evict, reset_failed and maybe_evict_idle.                               *)
BeginTeardown(t, step) ==
  /\ pc[t] = "idle"
  /\ Acquire(t, step)
  /\ SetState("evicting")
  /\ UNCHANGED <<goal, handle>>

Evict(t) == ~(state = "cold" /\ loaded = NoRuntime) /\ BeginTeardown(t, "evict")

ResetFailed(t) == state = "failed" /\ BeginTeardown(t, "reset")

MaybeEvictIdle(t) ==
  state = "warm" /\ lastUsed = "old" /\ BeginTeardown(t, "evict_idle")

EndTeardown(t) ==
  /\ pc[t] \in {"evict", "evict_idle", "reset"}
  /\ SafeTeardown("cold")
  /\ lastError' = (lastError /\ pc[t] # "reset")
  /\ Finish(t)

-----------------------------------------------------------------------------
\* The idle threshold goes by since a runtime was used.
IdleTimePasses ==
  /\ lastUsed = "recent" /\ lastUsed' = "old"
  /\ UNCHANGED <<state, identity, loaded, lastError, threads, live, corrupt, loads>>

Call(t) ==
  \/ \E i \in Identities, call \in {"prepare", "preload"} : BeginPrepare(t, call, i)
  \/ BeginExecute(t) \/ DropPrepared(t)
  \/ Evict(t) \/ ResetFailed(t) \/ MaybeEvictIdle(t)

Step(t) ==
  \/ Repair(t) \/ RefuseJob(t) \/ Reuse(t)
  \/ BeginReplace(t) \/ Replace(t)
  \/ BeginLoad(t) \/ LoadSucceeds(t) \/ LoadFails(t)
  \/ ExecuteEnds(t) \/ ExecuteCorrupts(t)
  \/ EndTeardown(t)

HostNext == (\E t \in Threads : Call(t) \/ Step(t)) \/ IdleTimePasses

HostSpec == HostInit /\ [][HostNext]_hostVars

-----------------------------------------------------------------------------
(***************************************************************************)
(* Properties.                                                             *)
(***************************************************************************)

\* Types of the host's state.
HostTypeOK ==
  /\ state \in RuntimeStates
  /\ identity \in Identities \union {NoIdentity}
  /\ loaded \in Runtimes \union {NoRuntime}
  /\ lastUsed \in {"none", "recent", "old"}
  /\ lastError \in BOOLEAN
  /\ lock \in Threads \union {NoThread}
  /\ pc \in [Threads -> Steps]
  /\ goal \in [Threads -> Identities \union {NoIdentity}]
  /\ handle \in [Threads -> Runtimes \union {NoRuntime}]
  /\ live \in SUBSET Runtimes /\ corrupt \in SUBSET Runtimes
  /\ loads \in 0 .. MaxLoads
  /\ overlapped \in BOOLEAN

\* The device holds at most one runtime, also while one is replaced, repaired
\* or loaded.  Whichever way a call ends, by a return, a refused job, a failed
\* load or a failed execution, it leaves the slot in a state the next call can
\* start from, with the error of a failure kept and track lost of no runtime.
OneResident ==
  /\ Cardinality(live) <= 1
  /\ lock = NoThread => /\ state \in {"cold", "warm", "failed"}
                        /\ state = "failed" => lastError
                        /\ live = {loaded} \ {NoRuntime}

\* A thread gets a runtime of the identity its job needs, never a warm one of
\* another, whatever other threads replaced or evicted meanwhile.
RightModel ==
  /\ \A t \in Threads : pc[t] \in {"prepared", "execute"} => handle[t][2] = goal[t]
  /\ identity = loaded[2]

\* As long as no call comes between the prepare and the execute of another
\* thread, which the worker's single thread guarantees, a job executes on a
\* runtime that is still loaded, whatever was evicted or replaced before, and
\* that no earlier execution corrupted (prepare_runtime: "so a previous
\* corrupting execute failure cannot poison the next job").
RunsOnSound ==
  ~overlapped => \A t \in Threads : pc[t] = "execute" => handle[t] \in live \ corrupt
==============================================================================
