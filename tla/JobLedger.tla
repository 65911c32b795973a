------------------------------ MODULE JobLedger ------------------------------
(***************************************************************************)
(* What the job store promises, without its states and metadata: a ledger  *)
(* in which a job waits, is held by one worker, and is settled, either as  *)
(* a success, which is final, or as a loss.  A loss may be purged, and a   *)
(* loss its holder failed to stop in time may be taken up again by that    *)
(* same holder.  JobStore implements this ledger.                          *)
(***************************************************************************)
CONSTANTS JobIds, Workers, NoWorker

VARIABLES
  phase,           \* "absent", "waiting", "held", "success" or "loss"
  holder           \* the worker that holds or held the job, NoWorker if none

ledgerVars == <<phase, holder>>

Phases == {"absent", "waiting", "held", "success", "loss"}

LedgerTypeOK ==
  /\ phase \in [JobIds -> Phases]
  /\ holder \in [JobIds -> Workers \union {NoWorker}]

\* A store file may already hold jobs; none of them names a worker.
LedgerInit ==
  /\ phase \in [JobIds -> Phases]
  /\ holder = [j \in JobIds |-> NoWorker]

Submit(j) ==
  /\ phase[j] = "absent"
  /\ phase' = [phase EXCEPT ![j] = "waiting"]
  /\ UNCHANGED holder

Take(j, w) ==
  /\ phase[j] = "waiting"
  /\ phase' = [phase EXCEPT ![j] = "held"]
  /\ holder' = [holder EXCEPT ![j] = w]

Settle(j) ==
  /\ \/ phase[j] = "held" /\ phase' = [phase EXCEPT ![j] = "success"]
     \/ phase[j] \in {"held", "waiting"} /\ phase' = [phase EXCEPT ![j] = "loss"]
  /\ UNCHANGED holder

TakeUpAgain(j) ==
  /\ phase[j] = "loss"
  /\ holder[j] \in Workers
  /\ phase' = [phase EXCEPT ![j] = "held"]
  /\ UNCHANGED holder

\* Everything waiting or held is lost when the service restarts.
Sweep ==
  /\ phase' = [j \in JobIds |-> IF phase[j] \in {"waiting", "held"} THEN "loss"
                                                                    ELSE phase[j]]
  /\ UNCHANGED holder

Purge ==
  /\ phase' = [j \in JobIds |-> IF phase[j] = "loss" THEN "absent" ELSE phase[j]]
  /\ holder' = [j \in JobIds |-> IF phase[j] = "loss" THEN NoWorker ELSE holder[j]]

LedgerNext ==
  \/ \E j \in JobIds : Submit(j) \/ Settle(j) \/ TakeUpAgain(j)
  \/ \E j \in JobIds, w \in Workers : Take(j, w)
  \/ Sweep
  \/ Purge

LedgerSpec == LedgerInit /\ [][LedgerNext]_ledgerVars
==============================================================================
