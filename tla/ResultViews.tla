----------------------------- MODULE ResultViews -----------------------------
(***************************************************************************)
(* The projection of the jobs to results and versions of                   *)
(* app/result_views.py.  jobs is the set of ids in the store, and parent,  *)
(* created and status give source_job_id, the rank of created_at and the   *)
(* status of a job.  A job whose source is not in the store keeps its      *)
(* source_job_id.  The walks of the code up the sources become the set of  *)
(* jobs they visit; their guard against a cycle is left out, since the     *)
(* sources of the store form none.                                         *)
(***************************************************************************)
EXTENDS Naturals, FiniteSets

CONSTANT NoJob      \* source_job_id of a generated video

ActiveStatuses == {"queued", "claimed", "running", "cancelling"}

\* With a job, its source as far as the store knows it.
ClosedUp(jobs, parent, S) ==
  \A i \in S : parent[i] \in jobs => parent[i] \in S

\* The job j, its source, the source of that, and so on.
Lineage(jobs, parent, j) ==
  {i \in jobs : \A S \in SUBSET jobs :
                  j \in S /\ ClosedUp(jobs, parent, S) => i \in S}

Tops(jobs, parent, j) == {i \in Lineage(jobs, parent, j) : parent[i] \notin jobs}

\* _root_job_id: a source that is gone still names the result.
RootJob(jobs, parent, j) ==
  LET top == CHOOSE i \in Tops(jobs, parent, j) : TRUE
  IN  IF parent[top] = NoJob THEN top ELSE parent[top]

Group(jobs, parent, r) == {j \in jobs : RootJob(jobs, parent, j) = r}

Depth(jobs, parent, j) == Cardinality(Lineage(jobs, parent, j)) - 1

Before_ByAge(jobs, parent, created, i, j) ==
  \/ created[i] < created[j]
  \/ created[i] = created[j] /\ i < j

\* The order of the versions of a result by _version_sort_key.
Before(jobs, parent, created, i, j) ==
  LET di == Depth(jobs, parent, i)
      dj == Depth(jobs, parent, j)
  IN  \/ di < dj
      \/ di = dj /\ created[i] < created[j]
      \/ di = dj /\ created[i] = created[j] /\ i < j

LastOf(jobs, parent, created, S) ==
  CHOOSE j \in S : \A i \in S \ {j} : Before(jobs, parent, created, i, j)

ResultStatus(s) ==
  CASE s = "succeeded" -> "completed"
    [] s \in {"claimed", "running", "cancelling"} -> "running"
    [] OTHER -> s

AggregateStatus(found) ==
  CASE Cardinality(found) = 1 -> ResultStatus(CHOOSE s \in found : TRUE)
    [] Cardinality(found) > 1 /\ found \subseteq ActiveStatuses -> "running"
    [] OTHER -> "mixed"

Selected_Newest(jobs, parent, created, status, versions) ==
  LastOf(jobs, parent, created, versions)

\* The last version that succeeded, else the last one.
Selected(jobs, parent, created, status, versions) ==
  LET done == {j \in versions : status[j] = "succeeded"}
  IN  LastOf(jobs, parent, created, IF done # {} THEN done ELSE versions)
==============================================================================
