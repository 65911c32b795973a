--------------------------- MODULE RuntimeHostProofs ---------------------------
(***************************************************************************)
(* Theorems about RuntimeHost, for any number of threads and identities.   *)
(*                                                                         *)
(* None of the four invariants is inductive.  HostInv ties the lock and    *)
(* the slot to the place of the thread inside a method, and, as long as no *)
(* call came between a prepare and its execute, the runtime that a thread  *)
(* was handed to the one in the slot.                                      *)
(***************************************************************************)
EXTENDS RuntimeHost, FiniteSetTheorems, TLAPS

Loading == {"prepare_load", "preload_load"}
Repairing == {"prepare_repair", "preload_repair"}
Replacing == {"prepare_replace", "preload_replace"}
Evicting == {"evict", "evict_idle", "reset"}
TearingDown == Repairing \union Replacing \union Evicting
Deciding == {"prepare", "preload"}
Resting == {"idle", "prepared"}

\* A thread is in a method exactly when it holds the lock.
LockMatches == \A t \in Threads : pc[t] \notin Resting <=> lock = t

\* The slot, by the place of the thread in the method.
SlotMatches ==
  /\ \A t \in Threads :
       /\ pc[t] \in Deciding => state \in {"cold", "warm"}
       /\ pc[t] \in Loading => state = "loading"
       /\ pc[t] \in TearingDown => state = "evicting"
       /\ pc[t] = "execute" => state = "running"
  /\ lock = NoThread => state \in {"cold", "warm", "failed"}
  /\ lock = NoThread /\ state = "failed" => lastError

\* What the slot says of the runtime on the device.
SlotIsTrue ==
  /\ state \in {"cold", "loading"} => loaded = NoRuntime
  /\ identity = loaded[2]
  /\ live = {loaded} \ {NoRuntime}

\* Which identity a call is about, and what a prepare handed out for it.
GoalsMatch ==
  \A t \in Threads :
    /\ pc[t] \in Deciding \union Loading \union Repairing \union Replacing
                  \union {"prepared", "execute"} => goal[t] \in Identities
    /\ pc[t] \in {"prepared", "execute"} => handle[t][2] = goal[t]

\* The number of a runtime is new when it is loaded.
NumbersUsed ==
  /\ \A r \in corrupt : r[1] <= loads
  /\ loaded[1] <= loads
  /\ \A t \in Threads : handle[t][1] <= loads

\* Without overlapping calls a prepared thread is alone, and it was handed the
\* runtime that is in the slot and works; a corrupt one waits for its teardown.
PreparedIsSound ==
  ~overlapped =>
    /\ loaded \in corrupt => state \in {"failed", "evicting"}
    /\ \A t \in Threads : pc[t] \in {"prepared", "execute"} =>
         /\ handle[t] = loaded
         /\ loaded # NoRuntime /\ loaded \notin corrupt
         /\ pc[t] = "prepared" => state = "warm"
         /\ \A u \in Threads \ {t} : pc[u] = "idle"

HostInv ==
  /\ HostTypeOK
  /\ LockMatches /\ SlotMatches /\ SlotIsTrue
  /\ GoalsMatch /\ NumbersUsed /\ PreparedIsSound

-----------------------------------------------------------------------------
\* An empty slot, a free lock and idle threads.
LEMMA InitHostInv == HostInit => HostInv
<1> SUFFICES ASSUME HostInit PROVE HostInv
  OBVIOUS
<1>1. HostTypeOK
  <2>1. /\ pc \in [Threads -> Steps]
        /\ goal \in [Threads -> Identities \union {NoIdentity}]
        /\ handle \in [Threads -> Runtimes \union {NoRuntime}]
    BY DEF HostInit, Steps
  <2>2. loads \in 0 .. MaxLoads
    BY HostAssumption DEF HostInit
  <2> QED BY <2>1, <2>2 DEF HostInit, HostTypeOK, RuntimeStates
<1>2. LockMatches /\ SlotMatches
  BY HostAssumption
     DEF HostInit, LockMatches, SlotMatches, Resting, Deciding, Loading,
         TearingDown, Repairing, Replacing, Evicting
<1>3. SlotIsTrue /\ NumbersUsed
  BY DEF HostInit, SlotIsTrue, NumbersUsed, NoRuntime
<1>4. GoalsMatch /\ PreparedIsSound
  BY DEF HostInit, GoalsMatch, PreparedIsSound, Deciding, Loading, Repairing, Replacing
<1> QED BY <1>1, <1>2, <1>3, <1>4 DEF HostInv

\* The runtime that is loaded has a number that none before it had.
LEMMA LoadedIsNew ==
  ASSUME HostInv, NEW t \in Threads, LoadSucceeds(t)
  PROVE  /\ loaded' = <<loads + 1, goal[t]>> /\ loaded' \in Runtimes
         /\ loaded' # NoRuntime /\ loaded' \notin corrupt
         /\ live' = {loaded'} /\ identity' = loaded'[2]
         /\ loads \in Nat /\ loads' = loads + 1 /\ loads' \in 0 .. MaxLoads
<1>1. /\ pc[t] \in Loading /\ goal[t] \in Identities
      /\ loaded = NoRuntime /\ live = {}
  BY DEF HostInv, SlotMatches, SlotIsTrue, GoalsMatch, LoadSucceeds, Loading
<1>2. loads \in Nat /\ loads < MaxLoads
  BY HostAssumption DEF HostInv, HostTypeOK, LoadSucceeds
<1>3. <<loads + 1, goal[t]>> \notin corrupt
  BY <1>2 DEF HostInv, NumbersUsed
<1> QED BY <1>1, <1>2, <1>3, HostAssumption DEF LoadSucceeds, Runtimes, NoRuntime

\* A successful load leaves a warm slot, and a preparing thread with the runtime
\* that is in it.
LEMMA LoadKeepsInv ==
  ASSUME HostInv, NEW t \in Threads, LoadSucceeds(t)
  PROVE  HostInv'
<1> DEFINE step == IF pc[t] = "prepare_load" THEN "prepared" ELSE "idle"
<1>1. /\ pc[t] \in Loading /\ lock = t /\ goal[t] \in Identities
      /\ step \in {"prepared", "idle"}
      /\ pc' = [pc EXCEPT ![t] = step]
      /\ goal' = [goal EXCEPT ![t] = IF step = "prepared" THEN goal[t] ELSE NoIdentity]
      /\ handle' = [handle EXCEPT ![t] = IF step = "prepared" THEN loaded' ELSE NoRuntime]
      /\ lock' = NoThread /\ state' = "warm" /\ lastError' = FALSE
      /\ UNCHANGED <<lastUsed, corrupt, overlapped>>
  BY LoadedIsNew
     DEF HostInv, LockMatches, GoalsMatch, Loading, Resting, LoadSucceeds, Finish, Release
<1> HIDE DEF step
<1>2. HostTypeOK'
  <2>1. /\ loaded' \in Runtimes \union {NoRuntime} /\ live' \in SUBSET Runtimes
        /\ identity' \in Identities \union {NoIdentity}
    BY <1>1, LoadedIsNew
  <2>2. /\ pc' \in [Threads -> Steps]
        /\ goal' \in [Threads -> Identities \union {NoIdentity}]
        /\ handle' \in [Threads -> Runtimes \union {NoRuntime}]
    BY <1>1, <2>1 DEF HostInv, HostTypeOK, Steps
  <2> QED BY <1>1, <2>1, <2>2, LoadedIsNew DEF HostInv, HostTypeOK, RuntimeStates
<1>3. LockMatches'
  BY <1>1, HostAssumption DEF HostInv, HostTypeOK, LockMatches, Resting
<1>4. SlotMatches' /\ SlotIsTrue'
  BY <1>1, <1>3, LoadedIsNew, HostAssumption
     DEF HostInv, HostTypeOK, LockMatches, SlotMatches, SlotIsTrue, Resting,
         Deciding, Loading, TearingDown, Repairing, Replacing, Evicting
<1>5. GoalsMatch'
  BY <1>1, LoadedIsNew
     DEF HostInv, HostTypeOK, GoalsMatch, Deciding, Loading, Repairing, Replacing
<1>6. NumbersUsed'
  <2>1. \A r \in corrupt : r[1] \in Nat
    BY DEF HostInv, HostTypeOK, Runtimes
  <2>2. \A u \in Threads : handle[u][1] \in Nat
    BY DEF HostInv, HostTypeOK, Runtimes, NoRuntime
  <2> QED BY <1>1, <2>1, <2>2, LoadedIsNew DEF HostInv, HostTypeOK, NumbersUsed, NoRuntime
<1>7. PreparedIsSound'
  BY <1>1, LoadedIsNew, HostAssumption
     DEF HostInv, HostTypeOK, LockMatches, PreparedIsSound, Resting
<1> QED BY <1>2, <1>3, <1>4, <1>5, <1>6, <1>7 DEF HostInv

\* Every step of a method, every call and the passing of time preserve HostInv.
LEMMA HostInvInductive == HostInv /\ [HostNext]_hostVars => HostInv'
<1> SUFFICES ASSUME HostInv, [HostNext]_hostVars PROVE HostInv'
  OBVIOUS
<1>13. ASSUME NEW t \in Threads, LoadSucceeds(t) PROVE HostInv'
  BY <1>13, LoadKeepsInv
<1> USE HostAssumption
    DEF HostInv, HostTypeOK, LockMatches, SlotMatches, SlotIsTrue, GoalsMatch,
        NumbersUsed, PreparedIsSound, Loading, Repairing, Replacing, Evicting,
        TearingDown, Deciding, Resting, Runtimes, NoRuntime, RuntimeStates,
        Preparing, Steps, instance, threads, history, Acquire, Continue, Release,
        Finish, SafeTeardown, SetState
<1>1. ASSUME NEW t \in Threads, NEW call \in {"prepare", "preload"}, NEW i \in Identities,
             BeginPrepare(t, call, i)
      PROVE  HostInv'
  <2>1. CASE state = "failed"
    BY <1>1, <2>1 DEF BeginPrepare
  <2>2. CASE state # "failed"
    <3>1. \A u \in Threads \ {t} : pc[u] \in Resting
      BY <1>1, <2>2 DEF BeginPrepare
    <3>2. PreparedIsSound'
      <4>1. /\ state' = state /\ loaded' = loaded /\ corrupt' = corrupt
            /\ pc' = [pc EXCEPT ![t] = call]
            /\ ~overlapped' => ~overlapped /\ \A u \in Threads \ {t} : pc[u] # "prepared"
        BY <1>1, <2>2 DEF BeginPrepare
      <4>2. \A u \in Threads : ~overlapped' => pc'[u] \notin {"prepared", "execute"}
        BY <1>1, <3>1, <4>1
      <4> QED BY <4>1, <4>2
    <3>3. HostTypeOK' /\ LockMatches' /\ SlotMatches'
      BY <1>1, <2>2, <3>1 DEF BeginPrepare
    <3>4. SlotIsTrue' /\ GoalsMatch' /\ NumbersUsed'
      BY <1>1, <2>2 DEF BeginPrepare
    <3> QED BY <3>2, <3>3, <3>4
  <2> QED BY <2>1, <2>2
<1>2. ASSUME NEW t \in Threads, BeginExecute(t) PROVE HostInv'
  BY <1>2 DEF BeginExecute
<1>3. ASSUME NEW t \in Threads, DropPrepared(t) PROVE HostInv'
  BY <1>3 DEF DropPrepared
<1>4. ASSUME NEW t \in Threads, Evict(t) PROVE HostInv'
  BY <1>4 DEF Evict, BeginTeardown
<1>5. ASSUME NEW t \in Threads, ResetFailed(t) PROVE HostInv'
  BY <1>5 DEF ResetFailed, BeginTeardown
<1>6. ASSUME NEW t \in Threads, MaybeEvictIdle(t) PROVE HostInv'
  BY <1>6 DEF MaybeEvictIdle, BeginTeardown
<1>7. ASSUME NEW t \in Threads, Repair(t) PROVE HostInv'
  BY <1>7 DEF Repair
<1>8. ASSUME NEW t \in Threads, RefuseJob(t) PROVE HostInv'
  BY <1>8 DEF RefuseJob
<1>9. ASSUME NEW t \in Threads, Reuse(t) PROVE HostInv'
  BY <1>9 DEF Reuse
<1>10. ASSUME NEW t \in Threads, BeginReplace(t) PROVE HostInv'
  BY <1>10 DEF BeginReplace
<1>11. ASSUME NEW t \in Threads, Replace(t) PROVE HostInv'
  BY <1>11 DEF Replace
<1>12. ASSUME NEW t \in Threads, BeginLoad(t) PROVE HostInv'
  BY <1>12 DEF BeginLoad
<1>14. ASSUME NEW t \in Threads, LoadFails(t) PROVE HostInv'
  BY <1>14 DEF LoadFails
<1>15. ASSUME NEW t \in Threads, ExecuteEnds(t) PROVE HostInv'
  BY <1>15 DEF ExecuteEnds
<1>16. ASSUME NEW t \in Threads, ExecuteCorrupts(t) PROVE HostInv'
  BY <1>16 DEF ExecuteCorrupts
<1>17. ASSUME NEW t \in Threads, EndTeardown(t) PROVE HostInv'
  BY <1>17 DEF EndTeardown
<1>18. CASE IdleTimePasses
  BY <1>18 DEF IdleTimePasses
<1>19. CASE UNCHANGED hostVars
  BY <1>19 DEF hostVars
<1> QED
  BY <1>1, <1>2, <1>3, <1>4, <1>5, <1>6, <1>7, <1>8, <1>9, <1>10, <1>11, <1>12,
     <1>13, <1>14, <1>15, <1>16, <1>17, <1>18, <1>19 DEF HostNext, Call, Step

\* HostInv holds of every reachable state.
LEMMA HostInvHolds == HostSpec => []HostInv
BY InitHostInv, HostInvInductive, PTL DEF HostSpec

-----------------------------------------------------------------------------
\* The types of the host's state (app/runtime_host.py).
THEOREM HostTypeCorrect == HostSpec => []HostTypeOK
<1>1. HostInv => HostTypeOK
  BY DEF HostInv
<1> QED BY <1>1, HostInvHolds, PTL

\* The device holds at most one runtime, and every call of the host, however it
\* ends, leaves a slot the next one can start from and loses track of nothing.
THEOREM AtMostOneResident == HostSpec => []OneResident
<1>1. ASSUME HostInv PROVE OneResident
  <2>1. live = {} \/ live = {loaded}
    BY <1>1 DEF HostInv, SlotIsTrue
  <2>2. Cardinality(live) <= 1
    BY <2>1, FS_EmptySet, FS_Singleton
  <2> QED BY <1>1, <2>2 DEF HostInv, SlotMatches, SlotIsTrue, OneResident
<1> QED BY <1>1, HostInvHolds, PTL

\* prepare_runtime never hands out a runtime of another identity than the job's.
THEOREM ModelIsRight == HostSpec => []RightModel
<1>1. HostInv => RightModel
  BY DEF HostInv, GoalsMatch, SlotIsTrue, RightModel
<1> QED BY <1>1, HostInvHolds, PTL

\* In a worker, whose one thread prepares and executes in turn, a job executes
\* on a runtime that is loaded and that no earlier execution corrupted.
THEOREM ExecutesOnSound == HostSpec => []RunsOnSound
<1>1. HostInv => RunsOnSound
  BY DEF HostInv, SlotIsTrue, PreparedIsSound, RunsOnSound
<1> QED BY <1>1, HostInvHolds, PTL
==============================================================================
