------------------------ MODULE WorkerRegistryProofs ------------------------
(***************************************************************************)
(* Theorems about WorkerRegistry, for any finite set of jobs, any workers  *)
(* and any bounds.                                                         *)
(*                                                                         *)
(* A record is written by its worker and, in its name, by every worker     *)
(* that reconciles.  Others only ever take from it, so between two         *)
(* publications it shows at most what was counted, and one more while the  *)
(* worker is at a job it started.                                          *)
(***************************************************************************)
EXTENDS WorkerRegistry, FiniteSetTheorems, TLAPS

\* The places at which a worker has a job in hand.
AtJob == {"prepare", "start", "occupy", "execute", "report", "release", "vacate"}

\* The places between a publication and the start of a job, and those after it.
Published == {"reconcile", "capacity", "claim", "prepare", "start", "occupy"}
Started == {"execute", "report", "release", "vacate"}

HandMatches == \A w \in Workers : pc[w] \in AtJob <=> hand[w] \in Jobs

\* A job somebody took has an owner, and a reconciliation that settled one
\* knows whom to credit.
OwnersKnown ==
  /\ \A j \in Jobs : status[j] \in {"claimed", "timed_out"} \union Inflight
                       => owner[j] \in Workers
  /\ \A w \in Workers : pc[w] = "credit" => credit[w] \in Workers

\* A worker in its loop has a record.
RecordsPublished ==
  \A w \in Workers : pc[w] \notin {"down", "boot", "announce"} => workers[w].known

\* Others only take from what a worker published.
OnlyOneMore ==
  \A w \in Workers :
    /\ pc[w] \in Published => workers[w].running <= counted[w]
    /\ pc[w] \in Started => workers[w].running <= counted[w] + 1

RegistryInv ==
  /\ RegistryTypeOK
  /\ HandMatches /\ OwnersKnown /\ RecordsPublished
  /\ OnlyOneMore
  /\ HiddenOnlyByOthers

-----------------------------------------------------------------------------
\* What a worker counts is a number of jobs.
LEMMA CountBounded ==
  ASSUME NEW w \in Workers
  PROVE  OwnedInflight(w) \in 0..Cardinality(Jobs)
<1> DEFINE S == {j \in Jobs : owner[j] = w /\ status[j] \in Inflight}
<1>1. S \in SUBSET Jobs /\ IsFiniteSet(Jobs)
  BY RegistryAssumption
<1> HIDE DEF S
<1>2. /\ IsFiniteSet(S) /\ Cardinality(S) <= Cardinality(Jobs)
      /\ Cardinality(Jobs) \in Nat /\ Cardinality(S) \in Nat
  BY <1>1, FS_Subset, FS_CardinalityType
<1> QED BY <1>2 DEF OwnedInflight, S

\* The number of jobs is a number.
LEMMA JobsCounted == Cardinality(Jobs) \in Nat
BY RegistryAssumption, FS_CardinalityType

\* Taking a slot off a record: the record stays one, and shows no more.
LEMMA ReleaseEffect ==
  ASSUME RegistryTypeOK, NEW v \in Workers, Release(v)
  PROVE  /\ workers' \in [Workers -> Records]
         /\ \A w \in Workers \ {v} : workers'[w] = workers[w]
         /\ workers'[v].known = workers[v].known
         /\ workers'[v].running <= workers[v].running
<1> DEFINE n == IF workers[v].running = 0 THEN 0 ELSE workers[v].running - 1
<1>1. /\ workers[v].running \in 0..Cardinality(Jobs) + 1
      /\ n \in 0..Cardinality(Jobs) + 1 /\ n <= workers[v].running
  BY JobsCounted DEF RegistryTypeOK, Records
<1> HIDE DEF n
<1>2. CASE workers[v].known
  <2>1. workers' = [workers EXCEPT ![v] = [known |-> TRUE, running |-> n, fresh |-> TRUE]]
    BY <1>2 DEF Release, Adjust, Upsert, n
  <2>2. [known |-> TRUE, running |-> n, fresh |-> TRUE] \in Records
    BY <1>1 DEF Records
  <2> QED BY <1>1, <1>2, <2>1, <2>2 DEF RegistryTypeOK
<1>3. CASE ~workers[v].known
  BY <1>1, <1>3 DEF Release, Adjust, RegistryTypeOK
<1> QED BY <1>2, <1>3

\* Taking a slot on a published record.
LEMMA OccupyEffect ==
  ASSUME RegistryTypeOK, NEW w \in Workers, Occupy(w), workers[w].known,
         workers[w].running <= counted[w]
  PROVE  /\ workers' \in [Workers -> Records]
         /\ \A v \in Workers \ {w} : workers'[v] = workers[v]
         /\ workers'[w].known /\ workers'[w].running = workers[w].running + 1
<1> DEFINE n == workers[w].running + 1
<1>1. n \in 0..Cardinality(Jobs) + 1
  BY JobsCounted DEF RegistryTypeOK, Records
<1> HIDE DEF n
<1>2. workers' = [workers EXCEPT ![w] = [known |-> TRUE, running |-> n, fresh |-> TRUE]]
  BY DEF Occupy, Adjust, Upsert, n
<1>3. [known |-> TRUE, running |-> n, fresh |-> TRUE] \in Records
  BY <1>1 DEF Records
<1> QED BY <1>2, <1>3 DEF RegistryTypeOK, n

-----------------------------------------------------------------------------
(* The invariant.                                                          *)

\* Nobody runs and nothing is published.
LEMMA InitRegistryInv == Init => RegistryInv
<1> SUFFICES ASSUME Init PROVE RegistryInv
  OBVIOUS
<1>1. Unknown \in Records /\ 0 \in 0..Cardinality(Jobs)
  BY JobsCounted DEF Unknown, Records
<1>2. RegistryTypeOK
  BY <1>1, RegistryAssumption DEF Init, RegistryTypeOK, Places
<1>3. HandMatches /\ OwnersKnown /\ RecordsPublished /\ OnlyOneMore /\ HiddenOnlyByOthers
  BY RegistryAssumption
     DEF Init, HandMatches, AtJob, OwnersKnown, Inflight, RecordsPublished,
         OnlyOneMore, Published, Started, HiddenOnlyByOthers
<1> QED BY <1>2, <1>3 DEF RegistryInv

\* The steps of a worker between its places that leave the records alone.
LEMMA LoopKeepsInv ==
  ASSUME RegistryInv, NEW w \in Workers,
         \/ StartWorker(w) \/ CountInflight(w) \/ EndReconcile(w) \/ CheckCapacity(w)
         \/ ClaimNothing(w) \/ Prepare(w) \/ StartJob(w) \/ StartRefused(w)
         \/ Execute(w) \/ Report(w) \/ CheckRelease(w)
         \/ (\E j \in Jobs : SettleOverdue(w, j) \/ Claim(w, j))
         \/ CrashWorker(w)
  PROVE  RegistryInv'
<1> USE RegistryAssumption
    DEF RegistryInv, RegistryTypeOK, HandMatches, OwnersKnown, RecordsPublished,
        OnlyOneMore, HiddenOnlyByOthers, Places, AtJob, Published, Started, Inflight,
        Goes, SetStatus, jobVars, loopVars, bounds
<1>1. CASE StartWorker(w)
  BY <1>1 DEF StartWorker
<1>2. CASE CountInflight(w)
  BY <1>2, CountBounded DEF CountInflight
<1>3. CASE EndReconcile(w)
  BY <1>3 DEF EndReconcile
<1>4. CASE CheckCapacity(w)
  BY <1>4 DEF CheckCapacity
<1>5. CASE ClaimNothing(w)
  BY <1>5 DEF ClaimNothing
<1>6. CASE Prepare(w)
  <2>1. pc[w] = "prepare" /\ workers[w].running <= counted[w] + 1
    <3>1. pc[w] = "prepare" /\ workers[w].running <= counted[w]
      BY <1>6 DEF Prepare
    <3>2. workers[w].running \in Nat /\ counted[w] \in Nat
      BY JobsCounted DEF Records
    <3> QED BY <3>1, <3>2
  <2>2. CASE pc' = [pc EXCEPT ![w] = "start"]
    BY <1>6, <2>2 DEF Prepare
  <2>3. CASE pc' = [pc EXCEPT ![w] = "report"]
    BY <1>6, <2>1, <2>3 DEF Prepare
  <2> QED BY <1>6, <2>2, <2>3 DEF Prepare
<1>7. CASE StartJob(w)
  BY <1>7 DEF StartJob
<1>8. CASE StartRefused(w)
  BY <1>8 DEF StartRefused
<1>9. CASE Execute(w)
  BY <1>9 DEF Execute
<1>10. CASE Report(w)
  BY <1>10 DEF Report
<1>11. CASE CheckRelease(w)
  BY <1>11 DEF CheckRelease
<1>12. ASSUME NEW j \in Jobs, SettleOverdue(w, j) PROVE RegistryInv'
  BY <1>12 DEF SettleOverdue
<1>13. ASSUME NEW j \in Jobs, Claim(w, j) PROVE RegistryInv'
  BY <1>13 DEF Claim
<1>14. CASE CrashWorker(w)
  BY <1>14 DEF CrashWorker
<1> QED
  BY <1>1, <1>2, <1>3, <1>4, <1>5, <1>6, <1>7, <1>8, <1>9, <1>10, <1>11, <1>12,
     <1>13, <1>14

\* A publication replaces the record by what was counted.
LEMMA PublishKeepsInv ==
  ASSUME RegistryInv, NEW w \in Workers, Publish(w)
  PROVE  RegistryInv'
<1> USE DEF RegistryInv, RegistryTypeOK
<1>1. [known |-> TRUE, running |-> counted[w], fresh |-> TRUE] \in Records
  BY JobsCounted DEF Records
<1>2. workers' = [workers EXCEPT ![w] = [known |-> TRUE, running |-> counted[w], fresh |-> TRUE]]
  BY DEF Publish, Upsert
<1>3. /\ UNCHANGED <<jobVars, loopVars, bounds>>
      /\ credited' = [credited EXCEPT ![w] = 0]
      /\ \/ pc[w] = "announce" /\ pc' = [pc EXCEPT ![w] = "top"]
         \/ pc[w] = "publish" /\ pc' = [pc EXCEPT ![w] = "reconcile"]
  BY DEF Publish, Goes
<1>4. RegistryTypeOK'
  BY <1>1, <1>2, <1>3 DEF Places, jobVars, loopVars, bounds
<1>5. HandMatches' /\ OwnersKnown' /\ RecordsPublished'
  BY <1>2, <1>3 DEF HandMatches, OwnersKnown, RecordsPublished, AtJob, jobVars, loopVars
<1>6. OnlyOneMore' /\ HiddenOnlyByOthers'
  BY <1>1, <1>2, <1>3
     DEF OnlyOneMore, HiddenOnlyByOthers, Published, Started, Records, loopVars
<1> QED BY <1>4, <1>5, <1>6

\* The worker takes a slot when it starts the job.
LEMMA OccupyKeepsInv ==
  ASSUME RegistryInv, NEW w \in Workers, OccupySlot(w)
  PROVE  RegistryInv'
<1> USE DEF RegistryInv
<1>1. /\ pc[w] = "occupy" /\ pc' = [pc EXCEPT ![w] = "execute"]
      /\ UNCHANGED <<jobVars, loopVars, credited, bounds>>
  BY DEF OccupySlot, Goes
<1>2. /\ workers' \in [Workers -> Records]
      /\ \A v \in Workers \ {w} : workers'[v] = workers[v]
      /\ workers'[w].known /\ workers'[w].running = workers[w].running + 1
  BY <1>1, OccupyEffect DEF OccupySlot, RecordsPublished, OnlyOneMore, Published
<1>3. RegistryTypeOK'
  BY <1>1, <1>2 DEF RegistryTypeOK, Places, jobVars, loopVars, bounds
<1>4. HandMatches' /\ OwnersKnown' /\ RecordsPublished'
  BY <1>1, <1>2
     DEF RegistryTypeOK, HandMatches, OwnersKnown, RecordsPublished, AtJob, jobVars, loopVars
<1>5. workers[w].running \in Nat /\ counted[w] \in Nat
  BY JobsCounted DEF RegistryTypeOK, Records
<1>6. OnlyOneMore' /\ HiddenOnlyByOthers'
  BY <1>1, <1>2, <1>5
     DEF RegistryTypeOK, OnlyOneMore, HiddenOnlyByOthers, Published, Started, loopVars
<1> QED BY <1>3, <1>4, <1>6

\* A slot is released, by the worker that leaves its job or by one that settled
\* an overdue job: whoever is credited by another is marked so.
LEMMA ReleaseKeepsInv ==
  ASSUME RegistryInv, NEW w \in Workers, ReleaseOwner(w) \/ VacateSlot(w)
  PROVE  RegistryInv'
<1> USE DEF RegistryInv
<1>1. PICK v \in Workers :
        /\ Release(v)
        /\ pc[w] \in {"credit", "vacate"}
        /\ pc' = [pc EXCEPT ![w] = IF pc[w] = "credit" THEN "reconciling" ELSE "top"]
        /\ hand' = [hand EXCEPT ![w] = IF pc[w] = "credit" THEN hand[w] ELSE NoJob]
        /\ credit' \in [Workers -> Workers \union {NoWorker}]
        /\ \A u \in Workers \ {w} : credit'[u] = credit[u]
        /\ credited' \in [Workers -> 0..1]
        /\ \A u \in Workers \ {v} : credited'[u] = credited[u]
        /\ v # w => credited'[v] = 1
        /\ UNCHANGED <<jobVars, counted, bounds>>
  <2>1. CASE ReleaseOwner(w)
    <3>1. credit[w] \in Workers
      BY <2>1 DEF ReleaseOwner, Goes, OwnersKnown
    <3>2. credited[credit[w]] \in 0..1
      BY <3>1 DEF RegistryTypeOK
    <3> QED
      BY <2>1, <3>1, <3>2 DEF ReleaseOwner, Goes, RegistryTypeOK
  <2>2. CASE VacateSlot(w)
    BY <2>2 DEF VacateSlot, Goes, RegistryTypeOK
  <2> QED BY <2>1, <2>2
<1>2. /\ workers' \in [Workers -> Records]
      /\ \A u \in Workers \ {v} : workers'[u] = workers[u]
      /\ workers'[v].known = workers[v].known
      /\ workers'[v].running <= workers[v].running
  BY <1>1, ReleaseEffect
<1>3. RegistryTypeOK'
  BY <1>1, <1>2 DEF RegistryTypeOK, Places, jobVars, bounds
<1>4. HandMatches' /\ OwnersKnown' /\ RecordsPublished'
  BY <1>1, <1>2, RegistryAssumption
     DEF RegistryTypeOK, HandMatches, OwnersKnown, RecordsPublished, AtJob, jobVars
<1>5. \A u \in Workers : /\ workers[u].running \in Nat /\ workers'[u].running \in Nat
                         /\ counted[u] \in Nat /\ workers'[u].running <= workers[u].running
  BY <1>2, JobsCounted DEF RegistryTypeOK, Records
<1>6. OnlyOneMore'
  BY <1>1, <1>5 DEF RegistryTypeOK, OnlyOneMore, Published, Started
<1>7. HiddenOnlyByOthers'
  BY <1>1, <1>2, <1>5 DEF RegistryTypeOK, HiddenOnlyByOthers
<1> QED BY <1>3, <1>4, <1>6, <1>7

\* Clients, the API and the passing of time.
LEMMA OthersKeepInv ==
  ASSUME RegistryInv, ClientStep \/ (\E w \in Workers : GoesStale(w)) \/ UNCHANGED vars
  PROVE  RegistryInv'
<1> USE DEF RegistryInv, RegistryTypeOK, HandMatches, OwnersKnown, RecordsPublished,
            OnlyOneMore, HiddenOnlyByOthers, Inflight, SetStatus, jobVars, loopVars, bounds
<1>1. ASSUME NEW j \in Jobs, RequestCancellation(j) PROVE RegistryInv'
  BY <1>1 DEF RequestCancellation
<1>2. ASSUME NEW j \in Jobs, RetryTimedOut(j) PROVE RegistryInv'
  BY <1>2, RegistryAssumption DEF RetryTimedOut
<1>3. ASSUME NEW j \in Jobs, ApiReconciles(j) PROVE RegistryInv'
  BY <1>3 DEF ApiReconciles
<1>4. ASSUME NEW w \in Workers, GoesStale(w) PROVE RegistryInv'
  BY <1>4 DEF GoesStale, Records
<1>5. CASE UNCHANGED vars
  BY <1>5 DEF vars
<1> QED BY <1>1, <1>2, <1>3, <1>4, <1>5 DEF ClientStep

\* The invariant is inductive.
LEMMA RegistryInvInductive == RegistryInv /\ [Next]_vars => RegistryInv'
BY LoopKeepsInv, PublishKeepsInv, OccupyKeepsInv, ReleaseKeepsInv, OthersKeepInv
   DEF Next, WorkerStep

\* The invariant holds throughout.
LEMMA RegistryInvHolds == Spec => []RegistryInv
BY InitRegistryInv, RegistryInvInductive, PTL DEF Spec

-----------------------------------------------------------------------------
(* Theorems.                                                               *)

\* The registry keeps its types: no record counts below zero or above every job
\* and the one at hand.
THEOREM RegistryTypeCorrect == Spec => []RegistryTypeOK
<1>1. RegistryInv => RegistryTypeOK
  BY DEF RegistryInv
<1> QED BY <1>1, RegistryInvHolds, PTL

\* A worker that executes a job shows it, unless another worker released a slot
\* in its name since it published.
THEOREM ExecutionShows == Spec => []HiddenOnlyByOthers
<1>1. RegistryInv => HiddenOnlyByOthers
  BY DEF RegistryInv
<1> QED BY <1>1, RegistryInvHolds, PTL

\* A record never shows more than what was counted and the job at hand.
THEOREM CountsDoNotDrift == Spec => []NeverAddsUp
<1>1. ASSUME RegistryInv PROVE NeverAddsUp
  <2>1. \A w \in Workers : workers[w].running \in Nat /\ counted[w] \in Nat
    BY <1>1, JobsCounted DEF RegistryInv, RegistryTypeOK, Records
  <2> QED
    BY <1>1, <2>1, RegistryAssumption
       DEF RegistryInv, HandMatches, OnlyOneMore, AtJob, Published, Started, NeverAddsUp
<1> QED BY <1>1, RegistryInvHolds, PTL
==============================================================================
