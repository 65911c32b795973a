---------------------------- MODULE StoreFileProofs ----------------------------
(***************************************************************************)
(* Theorems about StoreFile, for any number of threads and processes and   *)
(* any bounds: the sections exclude one another, and together they         *)
(* implement one atomic file.                                              *)
(*                                                                         *)
(* FileTypeOK alone is not inductive: it says who holds the locks between  *)
(* flock and its release, and nothing of the thread that waits for flock   *)
(* with the thread lock in its hands, nor of the copies the file is        *)
(* rewritten from.  FileInv adds both.                                     *)
(***************************************************************************)
EXTENDS StoreFile, TLAPS

\* Where a thread has the thread lock of its process: from TakeMutex to
\* ReleaseMutex.
Inside == Critical \union {"locking", "leaving"}

\* No update of a section that has not begun is in the file, and a section that
\* has not reached its Replace is not in it either.
Fresh(t) ==
  mode[t] = "write" /\ pc[t] \notin {"unlocking", "leaving"}
     => UpdateOf(t) \notin file.content

\* What a thread relies on at each place of its section.
Progress(t) ==
  /\ pc[t] \in Inside => mutex[ProcOf(t)] = t
  /\ pc[t] \in {"idle", "unwinding"} => mode[t] = "read"
  /\ mode[t] = "write" => written[t] > 0
  /\ pc[t] = "body" => cache[ProcOf(t)] = file.content
  /\ pc[t] \in {"writing", "replacing"} =>
        mode[t] = "write" /\ cache[ProcOf(t)] = file.content \union {UpdateOf(t)}
  /\ pc[t] = "replacing" => tmp = Whole(cache[ProcOf(t)])
  /\ pc[t] \in {"unlocking", "leaving"} /\ mode[t] = "write"
        => UpdateOf(t) \in file.content

FileInv ==
  /\ FileTypeOK
  /\ file.form # "torn"
  /\ \A u \in file.content : u[2] <= written[u[1]]
  /\ confirmed \subseteq file.content
  /\ \A t \in Threads : Progress(t) /\ Fresh(t)

-----------------------------------------------------------------------------
\* Every thread has a process, and none is the owner of a free lock.
LEMMA ProcsOfThreads ==
  ASSUME NEW t \in Threads
  PROVE  ProcOf(t) \in Procs /\ t # NoThread
BY NoThreadAssumption DEF ProcOf, Procs, Threads

\* The number of a writing section is within its bound.
LEMMA UpdateOfThread ==
  ASSUME FileTypeOK, NEW t \in Threads, written[t] > 0
  PROVE  UpdateOf(t) \in Updates
BY FileBounds DEF FileTypeOK, UpdateOf, Updates

\* A section that begins has a number that no update in the file has.
LEMMA CallWriteIsFresh ==
  ASSUME FileInv, NEW t \in Threads, CallWrite(t)
  PROVE  /\ \A u \in file.content : u[2] <= written'[u[1]]
         /\ UpdateOf(t)' \notin file.content
<1>1. \A u \in file.content : u \in Updates /\ u[2] <= written[u[1]]
  BY DEF FileInv, FileTypeOK, FileStates
<1>2. written \in [Threads -> 0..MaxUpdates] /\ written' = [written EXCEPT ![t] = written[t] + 1]
  BY DEF FileInv, FileTypeOK, CallWrite
<1>3. ASSUME NEW u \in file.content PROVE u[2] <= written'[u[1]] /\ u # UpdateOf(t)'
  <2>1. u[1] \in Threads /\ u[2] \in Nat /\ written[u[1]] \in Nat /\ u[2] <= written[u[1]]
    BY <1>1, <1>2, FileBounds DEF Updates
  <2>2. written'[u[1]] = IF u[1] = t THEN written[u[1]] + 1 ELSE written[u[1]]
    BY <1>2, <2>1
  <2> QED BY <2>1, <2>2 DEF UpdateOf
<1> QED BY <1>3

\* A new section: its thread has nothing in the file yet.
LEMMA CallWriteKeepsInv ==
  ASSUME FileInv, NEW t \in Threads, CallWrite(t)
  PROVE  FileInv'
<1>1. FileTypeOK'
  BY FileBounds
     DEF CallWrite, Goes, FileInv, FileTypeOK, Places, Critical, diskVars, lockVars
<1>2. ASSUME NEW u \in Threads PROVE Progress(u)' /\ Fresh(u)'
  <2>1. CASE u = t
    BY <2>1, CallWriteIsFresh, FileBounds
       DEF CallWrite, Goes, diskVars, lockVars, FileInv, FileTypeOK, Progress, Fresh,
           Inside, Critical, UpdateOf
  <2>2. CASE u # t
    BY <2>2
       DEF CallWrite, Goes, diskVars, lockVars, FileInv, FileTypeOK, Progress, Fresh, UpdateOf
  <2> QED BY <2>1, <2>2
<1> QED BY <1>1, <1>2, CallWriteIsFresh DEF CallWrite, diskVars, FileInv

\* Replace adds the update of its section and nothing else, because no other
\* thread is between flock and its release.
LEMMA ReplaceAddsUpdate ==
  ASSUME FileInv, NEW t \in Threads, Replace(t)
  PROVE  /\ file' = Whole(file.content \union {UpdateOf(t)})
         /\ mode[t] = "write"
         /\ UpdateOf(t) \in Updates /\ UpdateOf(t) \notin file.content
         /\ \A u \in Threads \ {t} : pc[u] \notin Critical
BY UpdateOfThread DEF FileInv, FileTypeOK, Progress, Fresh, Replace, Goes, Critical

\* os.replace puts a whole file in place, so the thread may confirm its update.
LEMMA ReplaceKeepsInv ==
  ASSUME FileInv, NEW t \in Threads, Replace(t)
  PROVE  FileInv'
<1>1. /\ file'.form = "whole"
      /\ file'.content = file.content \union {UpdateOf(t)}
      /\ UpdateOf(t) \in Updates
      /\ \A u \in Threads \ {t} : pc[u] \notin Critical
  BY ReplaceAddsUpdate DEF Whole
<1>2. FileTypeOK'
  <2>1. file' \in FileStates /\ tmp' \in FileStates
    BY DEF Replace, FileInv, FileTypeOK, FileStates, NoFile
  <2> QED BY <2>1 DEF Replace, Goes, FileInv, FileTypeOK, Places, Critical, lockVars
<1>3. ASSUME NEW u \in Threads PROVE Progress(u)'
  <2>1. CASE u = t
    BY <1>1, <2>1 DEF Replace, Goes, FileInv, FileTypeOK, Progress, Inside, Critical,
       lockVars, UpdateOf
  <2>2. CASE u # t
    <3>1. pc'[u] = pc[u] /\ pc[u] \notin Critical
      BY <1>1, <2>2 DEF Replace, Goes, FileInv, FileTypeOK
    <3> QED
      BY <1>1, <3>1 DEF Replace, FileInv, Progress, Inside, Critical, lockVars, UpdateOf
  <2> QED BY <2>1, <2>2
<1>4. ASSUME NEW u \in Threads PROVE Fresh(u)'
  <2>1. CASE u = t
    BY <2>1 DEF Replace, Goes, FileInv, FileTypeOK, Fresh
  <2>2. CASE u # t
    BY <1>1, <2>2 DEF Replace, Goes, FileInv, FileTypeOK, Fresh, UpdateOf
  <2> QED BY <2>1, <2>2
<1>5. \A u \in file'.content : u[2] <= written'[u[1]]
  BY <1>1, FileBounds DEF Replace, FileInv, FileTypeOK, UpdateOf
<1>6. confirmed' \subseteq file'.content
  BY <1>1 DEF Replace, FileInv
<1> QED BY <1>1, <1>2, <1>3, <1>4, <1>5, <1>6 DEF FileInv

\* No file, no locks and no sections.
LEMMA InitFileInv == Init => FileInv
BY FileBounds, ProcsOfThreads, NoThreadAssumption
   DEF Init, FileInv, FileTypeOK, Progress, Fresh, Inside, Critical, Places,
       FileStates, NoFile, Updates

\* Each step of a section, each failure of one and each death of a process
\* preserves FileInv.
LEMMA FileInvInductive == FileInv /\ [Next]_vars => FileInv'
<1> SUFFICES ASSUME FileInv, [Next]_vars PROVE FileInv'
  OBVIOUS
<1> USE ProcsOfThreads, FileBounds
    DEF FileInv, FileTypeOK, Progress, Fresh, Inside, Critical, UpdateOf,
        Places, Goes, diskVars, lockVars, vars
<1>1. ASSUME NEW t \in Threads, CallRead(t) PROVE FileInv'
  BY <1>1 DEF CallRead
<1>2. ASSUME NEW t \in Threads, CallWrite(t) PROVE FileInv'
  BY <1>2, CallWriteKeepsInv
<1>3. ASSUME NEW t \in Threads, TakeMutex(t) PROVE FileInv'
  BY <1>3 DEF TakeMutex
<1>4. ASSUME NEW t \in Threads, TakeFlock(t) PROVE FileInv'
  BY <1>4 DEF TakeFlock
<1>5. ASSUME NEW t \in Threads, Load(t) PROVE FileInv'
  BY <1>5 DEF Load, FileStates
<1>6. ASSUME NEW t \in Threads, EnterRaises(t) PROVE FileInv'
  BY <1>6 DEF EnterRaises
<1>7. ASSUME NEW t \in Threads, Unwind(t) PROVE FileInv'
  <2>1. \A u \in Threads : pc'[u] \in Inside => u # t /\ pc[u] = pc'[u]
    BY <1>7 DEF Unwind
  <2>2. \A u \in Threads : pc'[u] \in Critical => flock' = u
    BY <1>7, <2>1 DEF Unwind
  <2>3. FileTypeOK'
    BY <1>7, <2>1, <2>2 DEF Unwind
  <2>4. ASSUME NEW u \in Threads PROVE Progress(u)' /\ Fresh(u)'
    BY <1>7, <2>1 DEF Unwind
  <2> QED BY <1>7, <2>3, <2>4 DEF Unwind
<1>8. ASSUME NEW t \in Threads, ReadOnly(t) PROVE FileInv'
  BY <1>8 DEF ReadOnly
<1>9. ASSUME NEW t \in Threads, OpenTmp(t) PROVE FileInv'
  BY <1>9, UpdateOfThread DEF OpenTmp, FileStates, TornFile
<1>10. ASSUME NEW t \in Threads, WriteTmp(t) PROVE FileInv'
  BY <1>10 DEF WriteTmp, FileStates, Whole
<1>11. ASSUME NEW t \in Threads, Replace(t) PROVE FileInv'
  BY <1>11, ReplaceKeepsInv
<1>12. ASSUME NEW t \in Threads, BodyRaises(t) PROVE FileInv'
  BY <1>12 DEF BodyRaises
<1>13. ASSUME NEW t \in Threads, ReleaseFlock(t) PROVE FileInv'
  BY <1>13 DEF ReleaseFlock
<1>14. ASSUME NEW t \in Threads, ReleaseMutex(t) PROVE FileInv'
  <2>1. mode[t] = "write" => UpdateOf(t) \in file.content /\ UpdateOf(t) \in Updates
    BY <1>14, UpdateOfThread DEF ReleaseMutex
  <2>2. \A u \in Threads : u # t /\ pc[u] \in Inside => ProcOf(u) # ProcOf(t)
    BY <1>14 DEF ReleaseMutex
  <2>3. \A u \in Threads : pc'[u] \in Inside => mutex'[ProcOf(u)] = u
    BY <1>14, <2>2 DEF ReleaseMutex
  <2>4. FileTypeOK'
    BY <1>14, <2>1, <2>3 DEF ReleaseMutex
  <2>5. ASSUME NEW u \in Threads PROVE Progress(u)' /\ Fresh(u)'
    BY <1>14, <2>3 DEF ReleaseMutex
  <2> QED BY <1>14, <2>1, <2>4, <2>5 DEF ReleaseMutex
<1>15. ASSUME NEW p \in Procs, Crash(p) PROVE FileInv'
  BY <1>15 DEF Crash, ThreadsOf
<1>16. CASE UNCHANGED vars
  BY <1>16
<1> QED
  BY <1>1, <1>2, <1>3, <1>4, <1>5, <1>6, <1>7, <1>8, <1>9, <1>10, <1>11, <1>12,
     <1>13, <1>14, <1>15, <1>16 DEF Next, Proceed

\* FileInv holds of every reachable state.
LEMMA FileInvHolds == Spec => []FileInv
<1> QED BY InitFileInv, FileInvInductive, PTL DEF Spec

\* The critical sections of _StoreLock exclude one another, among the threads of
\* a process and among processes, whatever raises and whoever dies: who is
\* between flock and its release holds both locks (app/jobs/local.py).
THEOREM SectionsExclude == Spec => []FileTypeOK
<1>1. FileInv => FileTypeOK
  BY DEF FileInv
<1> QED BY <1>1, FileInvHolds, PTL

\* Load, work, write a temporary file and os.replace it, under the two locks,
\* implement one atomic file: an update takes effect once and for good, and is
\* confirmed to its caller only when it is in the file.
THEOREM StoreFileIsAtomic == Spec => ImplementsAtomicFile
<1>1. Init => Atomic!Init
  BY DEF Init, Atomic!Init, NoFile
<1>2. FileInv /\ [Next]_vars => [Atomic!Next]_<<file.content, confirmed>>
  <2> SUFFICES ASSUME FileInv, [Next]_vars
               PROVE  Atomic!Next \/ UNCHANGED <<file.content, confirmed>>
    OBVIOUS
  <2>1. ASSUME NEW t \in Threads, Replace(t) PROVE Atomic!Apply(UpdateOf(t))
    BY <2>1, ReplaceAddsUpdate DEF Replace, Whole, Atomic!Apply
  <2>2. ASSUME NEW t \in Threads, ReleaseMutex(t), mode[t] = "write"
        PROVE  Atomic!Confirm(UpdateOf(t))
    BY <2>2 DEF ReleaseMutex, Goes, diskVars, FileInv, Progress, Atomic!Confirm
  <2>3. ASSUME NEW t \in Threads, Replace(t) \/ (ReleaseMutex(t) /\ mode[t] = "write")
        PROVE  UpdateOf(t) \in Updates
    BY <2>3, UpdateOfThread, FileBounds
       DEF Replace, ReleaseMutex, Goes, FileInv, FileTypeOK, Progress
  <2>4. CASE \E t \in Threads : Replace(t) \/ (ReleaseMutex(t) /\ mode[t] = "write")
    BY <2>1, <2>2, <2>3, <2>4 DEF Atomic!Next
  <2>5. CASE \A t \in Threads : ~Replace(t) /\ ~(ReleaseMutex(t) /\ mode[t] = "write")
    BY <2>5 DEF Next, Proceed, CallRead, CallWrite, TakeMutex, TakeFlock, Load,
         EnterRaises, Unwind, ReadOnly, OpenTmp, WriteTmp, BodyRaises,
         ReleaseFlock, ReleaseMutex, Crash, diskVars, vars
  <2> QED BY <2>4, <2>5
<1> QED
  BY <1>1, <1>2, FileInvHolds, PTL DEF Spec, ImplementsAtomicFile, Atomic!Spec
==============================================================================
