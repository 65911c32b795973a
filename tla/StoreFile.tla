------------------------------ MODULE StoreFile ------------------------------
(***************************************************************************)
(* How one critical section of a store comes about: the _StoreLock of      *)
(* app/jobs/local.py, its twin of app/jobs/workers.py, and _load and       *)
(* _persist of the two stores.                                             *)
(*                                                                         *)
(* A section takes the thread lock of the process, opens the lock file,    *)
(* locks it, loads the store file, works on the loaded copy, and, if it    *)
(* changed something, writes a temporary file and moves it over the store  *)
(* file; then it unlocks.  The API has several threads, a worker has one.  *)
(* Any of these calls may raise, and any process may die between two of    *)
(* them: the operating system then frees the file lock and the thread lock *)
(* is gone with the process.                                               *)
(*                                                                         *)
(* __exit__ runs only after __enter__ has returned.  When __enter__        *)
(* raises, the handle is closed as soon as the exception is dropped, which *)
(* frees the file lock, but nobody releases the thread lock.               *)
(***************************************************************************)
EXTENDS Naturals

CONSTANTS
  Api,            \* the API process
  ApiThreads,     \* its threads
  WorkerProcs,    \* worker processes, of one thread each
  NoThread,       \* nobody holds a lock
  MaxUpdates,     \* bound: sections of one thread that write
  MaxFaults,      \* bound: calls of the operating system that raise
  MaxCrashes      \* bound: deaths of a process

ASSUME ProcessAssumption == Api \notin WorkerProcs
                              /\ ApiThreads \intersect WorkerProcs = {}
ASSUME NoThreadAssumption == NoThread \notin ApiThreads \union WorkerProcs
ASSUME FileBounds == MaxUpdates \in Nat /\ MaxFaults \in Nat /\ MaxCrashes \in Nat

Threads == ApiThreads \union WorkerProcs
Procs == {Api} \union WorkerProcs
ProcOf(t) == IF t \in ApiThreads THEN Api ELSE t
ThreadsOf(p) == {t \in Threads : ProcOf(t) = p}

Updates == Threads \X (1..MaxUpdates)

VARIABLES
  file,       \* the store file
  tmp,        \* the temporary file next to it
  flock,      \* the thread that holds the lock on the lock file
  mutex,      \* the thread that took the thread lock of a process
  cache,      \* the records a process keeps between sections
  pc,         \* where a thread is in its section
  mode,       \* what the section does: "read", "write", or "raised"
  written,    \* how many writing sections a thread began
  confirmed,  \* the updates that returned to their caller
  faults, crashes

lockVars == <<flock, mutex>>
diskVars == <<file, tmp>>
vars == <<diskVars, lockVars, cache, pc, mode, written, confirmed, faults, crashes>>

Places == {"idle", "wanting", "locking", "loading", "body", "writing",
           "replacing", "unlocking", "leaving", "unwinding"}

\* Between flock and its release.
Critical == {"loading", "body", "writing", "replacing", "unlocking"}

FileStates == [form : {"absent", "torn", "whole"}, content : SUBSET Updates]
NoFile == [form |-> "absent", content |-> {}]
TornFile == [form |-> "torn", content |-> {}]
Whole(c) == [form |-> "whole", content |-> c]

UpdateOf(t) == <<t, written[t]>>
Goes(t, from, to) == pc[t] = from /\ pc' = [pc EXCEPT ![t] = to]

Init ==
  /\ file = NoFile /\ tmp = NoFile
  /\ flock = NoThread /\ mutex = [p \in Procs |-> NoThread]
  /\ cache = [p \in Procs |-> {}]
  /\ pc = [t \in Threads |-> "idle"]
  /\ mode = [t \in Threads |-> "read"]
  /\ written = [t \in Threads |-> 0]
  /\ confirmed = {}
  /\ faults = 0 /\ crashes = 0

-----------------------------------------------------------------------------
\* An operation of the store is called: get_job, list_jobs and refused
\* operations only read, the others write.
CallRead(t) ==
  /\ Goes(t, "idle", "wanting")
  /\ UNCHANGED <<diskVars, lockVars, cache, mode, written, confirmed, faults, crashes>>

CallWrite(t) ==
  /\ Goes(t, "idle", "wanting")
  /\ written[t] < MaxUpdates
  /\ written' = [written EXCEPT ![t] = @ + 1]
  /\ mode' = [mode EXCEPT ![t] = "write"]
  /\ UNCHANGED <<diskVars, lockVars, cache, confirmed, faults, crashes>>

TakeMutex(t) ==
  /\ Goes(t, "wanting", "locking")
  /\ mutex[ProcOf(t)] = NoThread
  /\ mutex' = [mutex EXCEPT ![ProcOf(t)] = t]
  /\ UNCHANGED <<diskVars, flock, cache, mode, written, confirmed, faults, crashes>>

TakeFlock_Shared(t) ==
  /\ Goes(t, "locking", "loading")
  /\ flock' = t
  /\ UNCHANGED <<diskVars, mutex, cache, mode, written, confirmed, faults, crashes>>

\* The lock file is opened and locked.
TakeFlock(t) ==
  /\ Goes(t, "locking", "loading")
  /\ flock = NoThread
  /\ flock' = t
  /\ UNCHANGED <<diskVars, mutex, cache, mode, written, confirmed, faults, crashes>>

Load(t) ==
  /\ Goes(t, "loading", "body")
  /\ file.form # "torn"
  /\ cache' = [cache EXCEPT ![ProcOf(t)] = file.content]
  /\ UNCHANGED <<diskVars, lockVars, mode, written, confirmed, faults, crashes>>

\* A call of __enter__ raises, or the store file cannot be parsed.
EnterRaises(t) ==
  /\ pc[t] \in {"locking", "loading"}
  /\ \/ pc[t] = "loading" /\ file.form = "torn" /\ UNCHANGED faults
     \/ faults < MaxFaults /\ faults' = faults + 1
  /\ pc' = [pc EXCEPT ![t] = "unwinding"]
  /\ mode' = [mode EXCEPT ![t] = "read"]
  /\ UNCHANGED <<diskVars, lockVars, cache, written, confirmed, crashes>>

Unwind_KeepsHandle(t) ==
  /\ Goes(t, "unwinding", "idle")
  /\ UNCHANGED <<diskVars, lockVars, cache, mode, written, confirmed, faults, crashes>>

\* The exception reaches its handler and the lock file is closed.  The thread
\* may go on: a request thread answers 500, run_one_job reports a failure.
Unwind(t) ==
  /\ Goes(t, "unwinding", "idle")
  /\ flock' = IF flock = t THEN NoThread ELSE flock
  /\ UNCHANGED <<diskVars, mutex, cache, mode, written, confirmed, faults, crashes>>

ReadOnly(t) ==
  /\ mode[t] = "read"
  /\ Goes(t, "body", "unlocking")
  /\ UNCHANGED <<diskVars, lockVars, cache, mode, written, confirmed, faults, crashes>>

OpenTmp_InPlace(t) ==
  /\ mode[t] = "write"
  /\ Goes(t, "body", "writing")
  /\ cache' = [cache EXCEPT ![ProcOf(t)] = @ \union {UpdateOf(t)}]
  /\ tmp' = TornFile /\ file' = TornFile
  /\ UNCHANGED <<lockVars, mode, written, confirmed, faults, crashes>>

\* The section changes the loaded records; _persist_unlocked then opens the
\* temporary file, which empties it.
OpenTmp(t) ==
  /\ mode[t] = "write"
  /\ Goes(t, "body", "writing")
  /\ cache' = [cache EXCEPT ![ProcOf(t)] = @ \union {UpdateOf(t)}]
  /\ tmp' = TornFile
  /\ UNCHANGED <<file, lockVars, mode, written, confirmed, faults, crashes>>

WriteTmp(t) ==
  /\ Goes(t, "writing", "replacing")
  /\ tmp' = Whole(cache[ProcOf(t)])
  /\ UNCHANGED <<file, lockVars, cache, mode, written, confirmed, faults, crashes>>

Replace(t) ==
  /\ Goes(t, "replacing", "unlocking")
  /\ file' = tmp /\ tmp' = NoFile
  /\ UNCHANGED <<lockVars, cache, mode, written, confirmed, faults, crashes>>

\* The body of the with statement raises: __exit__ runs, and the loaded
\* records may differ from the file until the next section loads them again.
BodyRaises(t) ==
  /\ pc[t] \in {"body", "writing", "replacing"}
  /\ faults < MaxFaults
  /\ faults' = faults + 1
  /\ mode' = [mode EXCEPT ![t] = "raised"]
  /\ pc' = [pc EXCEPT ![t] = "unlocking"]
  /\ UNCHANGED <<diskVars, lockVars, cache, written, confirmed, crashes>>

ReleaseFlock(t) ==
  /\ Goes(t, "unlocking", "leaving")
  /\ flock' = NoThread
  /\ UNCHANGED <<diskVars, mutex, cache, mode, written, confirmed, faults, crashes>>

ReleaseMutex(t) ==
  /\ Goes(t, "leaving", "idle")
  /\ mutex' = [mutex EXCEPT ![ProcOf(t)] = NoThread]
  /\ confirmed' = IF mode[t] = "write" THEN confirmed \union {UpdateOf(t)} ELSE confirmed
  /\ mode' = [mode EXCEPT ![t] = "read"]
  /\ UNCHANGED <<diskVars, flock, cache, written, faults, crashes>>

Crash(p) ==
  /\ crashes < MaxCrashes
  /\ crashes' = crashes + 1
  /\ pc' = [t \in Threads |-> IF ProcOf(t) = p THEN "idle" ELSE pc[t]]
  /\ flock' = IF flock \in ThreadsOf(p) THEN NoThread ELSE flock
  /\ mutex' = [mutex EXCEPT ![p] = NoThread]
  /\ cache' = [cache EXCEPT ![p] = {}]
  /\ mode' = [t \in Threads |-> IF ProcOf(t) = p THEN "read" ELSE mode[t]]
  /\ UNCHANGED <<diskVars, written, confirmed, faults>>

-----------------------------------------------------------------------------
\* A thread that asked for a section goes on.
Proceed(t) ==
  \/ TakeMutex(t) \/ TakeFlock(t) \/ Load(t) \/ ReadOnly(t)
  \/ OpenTmp(t) \/ WriteTmp(t) \/ Replace(t)
  \/ ReleaseFlock(t) \/ ReleaseMutex(t) \/ Unwind(t)

Next ==
  \/ \E t \in Threads : \/ CallRead(t) \/ CallWrite(t) \/ Proceed(t)
                        \/ EnterRaises(t) \/ BodyRaises(t)
  \/ \E p \in Procs : Crash(p)

Spec == Init /\ [][Next]_vars

(* The two locks are handed on: the kernel wakes the waiters of flock in    *)
(* order and a Python lock does not keep a waiter out for ever.  Nothing    *)
(* makes a caller call.                                                     *)
Fairness == \A t \in Threads : SF_vars(Proceed(t))

FairSpec == Spec /\ Fairness

-----------------------------------------------------------------------------
\* The types of the variables; whoever is between flock and its release holds
\* both locks.
FileTypeOK ==
  /\ file \in FileStates /\ tmp \in FileStates
  /\ flock \in Threads \union {NoThread}
  /\ mutex \in [Procs -> Threads \union {NoThread}]
  /\ cache \in [Procs -> SUBSET Updates]
  /\ pc \in [Threads -> Places]
  /\ mode \in [Threads -> {"read", "write", "raised"}]
  /\ written \in [Threads -> 0..MaxUpdates]
  /\ confirmed \subseteq Updates
  /\ faults \in 0..MaxFaults /\ crashes \in 0..MaxCrashes
  /\ \A t \in Threads : pc[t] \in Critical => flock = t /\ mutex[ProcOf(t)] = t

\* The sections of all processes implement one atomic file: no update is lost,
\* undone or confirmed without being in the file, wherever a process died or
\* failed while it wrote, and whatever a failed section left in the memory of
\* its own process.
Atomic == INSTANCE AtomicFile WITH content <- file.content
ImplementsAtomicFile == Atomic!Spec

\* The thread lock of a process was taken by a section that will not return it.
Leaked(p) ==
  mutex[p] # NoThread /\ pc[mutex[p]] \in {"idle", "wanting", "unwinding"}

\* Whoever dies or raises, a thread that wants a section gets in, unless an
\* __enter__ of its own process raised: a failure stays in its process.
FailureStaysInside ==
  \A t \in Threads : pc[t] = "wanting" ~> pc[t] # "wanting" \/ Leaked(ProcOf(t))
==============================================================================
