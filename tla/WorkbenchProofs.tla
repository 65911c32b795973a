---------------------------- MODULE WorkbenchProofs ----------------------------
(***************************************************************************)
(* Theorems about Workbench, for any set of jobs, any created_at and any   *)
(* bounds.  The invariant is WorkbenchTypeOK, whose second part says that  *)
(* sources succeed, stay and make no cycle; that is what the lineage, the  *)
(* root and the depth of a job need to be what the code computes.  For the *)
(* page it is strengthened by PageInv: whatever the page is behind the     *)
(* store is on the wire, will be found by the next poll, or is fetched.    *)
(***************************************************************************)
EXTENDS Workbench, TLAPS, FiniteSetTheorems, WellFoundedInduction

-----------------------------------------------------------------------------
(* Lineage, root and depth, over any set of jobs.                          *)

\* Sources make no cycle.
Acyclic(J, P) == \A S \in SUBSET J : S # {} => \E i \in S : P[i] \notin S

\* A job is in its lineage, and with a job its source is.
LEMMA LineageIsClosed ==
  ASSUME NEW J, NEW P, NEW j \in J
  PROVE  /\ Lineage(J, P, j) \subseteq J
         /\ j \in Lineage(J, P, j)
         /\ \A i \in Lineage(J, P, j) : P[i] \in J => P[i] \in Lineage(J, P, j)
BY DEF Lineage, ClosedUp

\* The lineage is the least such set.
LEMMA LineageIsLeast ==
  ASSUME NEW J, NEW P, NEW j \in J,
         NEW S \in SUBSET J, j \in S, \A i \in S : P[i] \in J => P[i] \in S
  PROVE  Lineage(J, P, j) \subseteq S
BY DEF Lineage, ClosedUp

\* An upscale has the lineage of its source and itself.
LEMMA LineageGoesUp ==
  ASSUME NEW J, NEW P, NEW j \in J, P[j] \in J
  PROVE  Lineage(J, P, j) = {j} \union Lineage(J, P, P[j])
<1>1. Lineage(J, P, j) \subseteq {j} \union Lineage(J, P, P[j])
  <2> DEFINE S == {j} \union Lineage(J, P, P[j])
  <2>1. S \in SUBSET J /\ j \in S
    BY LineageIsClosed
  <2>2. \A i \in S : P[i] \in J => P[i] \in S
    BY LineageIsClosed
  <2> HIDE DEF S
  <2>3. Lineage(J, P, j) \subseteq S
    BY <2>1, <2>2, LineageIsLeast
  <2> QED BY <2>3 DEF S
<1>2. {j} \subseteq Lineage(J, P, j) /\ P[j] \in Lineage(J, P, j)
  BY LineageIsClosed
<1>3. Lineage(J, P, P[j]) \subseteq Lineage(J, P, j)
  <2>1. Lineage(J, P, j) \in SUBSET J
        /\ \A i \in Lineage(J, P, j) : P[i] \in J => P[i] \in Lineage(J, P, j)
    BY LineageIsClosed
  <2> QED BY <1>2, <2>1, LineageIsLeast
<1> QED BY <1>1, <1>2, <1>3

\* A job without a source in the store is its whole lineage.
LEMMA LineageOfTop ==
  ASSUME NEW J, NEW P, NEW j \in J, P[j] \notin J
  PROVE  Lineage(J, P, j) = {j}
<1>1. Lineage(J, P, j) \subseteq {j}
  <2>1. {j} \in SUBSET J /\ \A i \in {j} : P[i] \in J => P[i] \in {j}
    OBVIOUS
  <2> QED BY <2>1, LineageIsLeast
<1> QED BY <1>1, LineageIsClosed

\* The walk up the sources ends.
LEMMA TopExists ==
  ASSUME NEW J, NEW P, NEW j \in J, Acyclic(J, P)
  PROVE  Tops(J, P, j) # {}
<1>1. PICK i \in Lineage(J, P, j) : P[i] \notin Lineage(J, P, j)
  BY LineageIsClosed DEF Acyclic
<1>2. P[i] \notin J
  BY <1>1, LineageIsClosed
<1> QED BY <1>1, <1>2 DEF Tops

\* And it ends at one job, however it was taken.
LEMMA TopIsUnique ==
  ASSUME NEW J, NEW P, NEW j \in J, NEW s \in Tops(J, P, j), NEW t \in Tops(J, P, j)
  PROVE  s = t
<1> DEFINE S == {i \in Lineage(J, P, j) : t \in Lineage(J, P, i)}
<1>1. t \in Lineage(J, P, j) /\ P[t] \notin J /\ s \in Lineage(J, P, j) /\ P[s] \notin J
  BY DEF Tops
<1>2. S \in SUBSET J /\ j \in S
  BY <1>1, LineageIsClosed
<1>3. ASSUME NEW i \in S, P[i] \in J PROVE P[i] \in S
  <2>1. i \in J /\ t \in Lineage(J, P, i) /\ i # t
    BY <1>1, <1>2, <1>3
  <2>2. t \in Lineage(J, P, P[i])
    BY <1>3, <2>1, LineageGoesUp
  <2>3. P[i] \in Lineage(J, P, j)
    BY <1>3, LineageIsClosed
  <2> QED BY <2>2, <2>3
<1>4. t \in Lineage(J, P, s)
  <2>1. Lineage(J, P, j) \subseteq S
    <3> HIDE DEF S
    <3> QED BY <1>2, <1>3, LineageIsLeast
  <2> QED BY <1>1, <2>1
<1>5. s \in J
  BY <1>1, LineageIsClosed
<1> QED BY <1>1, <1>4, <1>5, LineageOfTop

\* A job is not above its own source.
LEMMA NotAboveItsSource ==
  ASSUME NEW J, NEW P, NEW k \in J, P[k] \in J, Acyclic(J, P)
  PROVE  k \notin Lineage(J, P, P[k])
<1> SUFFICES ASSUME k \in Lineage(J, P, P[k]) PROVE FALSE
  OBVIOUS
<1> DEFINE S == {i \in Lineage(J, P, P[k]) : k \in Lineage(J, P, i)}
<1>1. S \in SUBSET J /\ k \in S
  BY LineageIsClosed
<1>2. ASSUME NEW i \in S PROVE P[i] \in S
  <2>1. i \in J /\ k \in Lineage(J, P, i)
    BY <1>1
  <2>2. P[i] \in J
    BY <2>1, LineageOfTop
  <2>3. P[i] \in Lineage(J, P, P[k])
    BY <2>2, LineageIsClosed
  <2>4. k \in Lineage(J, P, P[i])
    <3>1. CASE i = k
      BY <3>1
    <3>2. CASE i # k
      BY <3>2, <2>1, <2>2, LineageGoesUp
    <3> QED BY <3>1, <3>2
  <2> QED BY <2>3, <2>4
<1> HIDE DEF S
<1> QED BY <1>1, <1>2 DEF Acyclic

\* A depth is a number, and an upscale is one deeper than its source.
LEMMA DepthIsNat ==
  ASSUME NEW J, NEW P, NEW j \in J, IsFiniteSet(J)
  PROVE  /\ IsFiniteSet(Lineage(J, P, j))
         /\ Depth(J, P, j) \in Nat
<1>1. IsFiniteSet(Lineage(J, P, j))
  BY LineageIsClosed, FS_Subset
<1>2. Cardinality(Lineage(J, P, j)) \in Nat /\ Cardinality(Lineage(J, P, j)) # 0
  BY <1>1, LineageIsClosed, FS_CardinalityType, FS_EmptySet
<1> QED BY <1>1, <1>2 DEF Depth

LEMMA DepthGoesUp ==
  ASSUME NEW J, NEW P, NEW k \in J, P[k] \in J, IsFiniteSet(J), Acyclic(J, P)
  PROVE  Depth(J, P, P[k]) < Depth(J, P, k)
<1> DEFINE L == Lineage(J, P, P[k])
<1>1. Lineage(J, P, k) = L \union {k} /\ k \notin L /\ IsFiniteSet(L)
  BY LineageGoesUp, NotAboveItsSource, DepthIsNat
<1>2. Cardinality(L \union {k}) = Cardinality(L) + 1 /\ Cardinality(L) \in Nat
  BY <1>1, FS_AddElement, FS_CardinalityType
<1> HIDE DEF L
<1>3. Depth(J, P, k) = Cardinality(L) /\ Depth(J, P, P[k]) = Cardinality(L) - 1
  BY <1>1, <1>2 DEF Depth, L
<1> QED BY <1>2, <1>3

\* What a change of the store leaves alone above a job, it leaves to its root.
LEMMA RootIsKept ==
  ASSUME NEW J, NEW P, NEW K, NEW Q, NEW j \in J, Acyclic(J, P),
         \A i \in Lineage(J, P, j) :
           i \in K /\ Q[i] = P[i] /\ (P[i] \in J <=> P[i] \in K)
  PROVE  RootJob(K, Q, j) = RootJob(J, P, j)
<1>1. j \in K
  BY LineageIsClosed
<1>2. Lineage(K, Q, j) \subseteq Lineage(J, P, j)
  <2>1. Lineage(J, P, j) \in SUBSET K /\ j \in Lineage(J, P, j)
    BY LineageIsClosed
  <2>2. \A i \in Lineage(J, P, j) : Q[i] \in K => Q[i] \in Lineage(J, P, j)
    BY LineageIsClosed
  <2> QED BY <1>1, <2>1, <2>2, LineageIsLeast
<1>3. Lineage(J, P, j) \subseteq Lineage(K, Q, j)
  <2>1. Lineage(K, Q, j) \in SUBSET J /\ j \in Lineage(K, Q, j)
    BY <1>1, <1>2, LineageIsClosed
  <2>2. \A i \in Lineage(K, Q, j) : P[i] \in J => P[i] \in Lineage(K, Q, j)
    BY <1>1, <1>2, LineageIsClosed
  <2> QED BY <2>1, <2>2, LineageIsLeast
<1> DEFINE T == Tops(J, P, j)
<1>4. Tops(K, Q, j) = T
  BY <1>2, <1>3 DEF Tops
<1>5. T # {} /\ T \subseteq Lineage(J, P, j)
  BY TopExists DEF Tops
<1> DEFINE t == CHOOSE i \in T : TRUE
<1>6. t \in T
  BY <1>5
<1>7. RootJob(J, P, j) = IF P[t] = NoJob THEN t ELSE P[t]
  BY DEF RootJob
<1>8. RootJob(K, Q, j) = IF Q[t] = NoJob THEN t ELSE Q[t]
  BY <1>4 DEF RootJob
<1>9. Q[t] = P[t]
  BY <1>5, <1>6
<1> HIDE DEF t
<1> QED BY <1>7, <1>8, <1>9

-----------------------------------------------------------------------------
(* The order of the versions, and the last of them.                        *)

\* Before, as a statement about three numbers of a job.
LEMMA BeforeIsLexicographic ==
  ASSUME NEW J, NEW P, NEW C, NEW i, NEW k
  PROVE  Before(J, P, C, i, k) <=>
           \/ Depth(J, P, i) < Depth(J, P, k)
           \/ Depth(J, P, i) = Depth(J, P, k) /\ C[i] < C[k]
           \/ Depth(J, P, i) = Depth(J, P, k) /\ C[i] = C[k] /\ i < k
BY DEF Before

\* What the order is over.
Ordered(J, P, C) == J \subseteq Nat /\ IsFiniteSet(J) /\ \A i \in J : C[i] \in Nat

\* Any two versions are in one order, and in one only.
LEMMA BeforeIsTotal ==
  ASSUME NEW J, NEW P, NEW C, Ordered(J, P, C), NEW i \in J, NEW k \in J
  PROVE  /\ ~Before(J, P, C, i, i)
         /\ i # k => Before(J, P, C, i, k) \/ Before(J, P, C, k, i)
         /\ ~(Before(J, P, C, i, k) /\ Before(J, P, C, k, i))
<1>1. Depth(J, P, i) \in Nat /\ Depth(J, P, k) \in Nat
  BY DepthIsNat DEF Ordered
<1>2. i \in Nat /\ k \in Nat /\ C[i] \in Nat /\ C[k] \in Nat
  BY DEF Ordered
<1> QED BY <1>1, <1>2, BeforeIsLexicographic

LEMMA BeforeIsTransitive ==
  ASSUME NEW J, NEW P, NEW C, Ordered(J, P, C), NEW i \in J, NEW k \in J, NEW l \in J,
         Before(J, P, C, i, k), Before(J, P, C, k, l)
  PROVE  Before(J, P, C, i, l)
<1>1. /\ Depth(J, P, i) \in Nat /\ Depth(J, P, k) \in Nat /\ Depth(J, P, l) \in Nat
  BY DepthIsNat DEF Ordered
<1>2. /\ i \in Nat /\ k \in Nat /\ l \in Nat
      /\ C[i] \in Nat /\ C[k] \in Nat /\ C[l] \in Nat
  BY DEF Ordered
<1> QED BY <1>1, <1>2, BeforeIsLexicographic

\* A set of numbers has a least one.
LEMMA LeastNumber ==
  ASSUME NEW N \in SUBSET Nat, N # {}
  PROVE  \E n \in N : \A m \in N : n <= m
<1>1. PICK n \in N : \A m \in N : <<m, n>> \notin OpToRel(<, Nat)
  BY NatLessThanWellFounded, WFMin
<1>2. \A m \in N : ~(m < n)
  BY <1>1 DEF OpToRel
<1> QED BY <1>2

\* A finite set of versions has a last one: one that the fewest come after.
LEMMA LastExists ==
  ASSUME NEW J, NEW P, NEW C, Ordered(J, P, C), NEW S \in SUBSET J, S # {}
  PROVE  LastOf(J, P, C, S) \in S
<1> DEFINE After(j) == {i \in S : Before(J, P, C, j, i)}
<1> DEFINE N == {Cardinality(After(j)) : j \in S}
<1>1. \A j \in S : IsFiniteSet(After(j)) /\ Cardinality(After(j)) \in Nat
  <2> TAKE j \in S
  <2>1. After(j) \in SUBSET J /\ IsFiniteSet(J)
    BY DEF Ordered
  <2> HIDE DEF After
  <2> QED BY <2>1, FS_Subset, FS_CardinalityType
<1>2. N \in SUBSET Nat /\ N # {}
  BY <1>1
<1>3. PICK n \in N : \A m \in N : n <= m
  <2> HIDE DEF N
  <2> QED BY <1>2, LeastNumber
<1>4. PICK j \in S : n = Cardinality(After(j))
  OBVIOUS
<1>5. ASSUME NEW i \in S \ {j}, ~Before(J, P, C, i, j) PROVE FALSE
  <2>1. Before(J, P, C, j, i)
    BY <1>5, BeforeIsTotal
  <2>2. After(i) \subseteq After(j)
    BY <2>1, BeforeIsTransitive
  <2>3. i \in After(j) /\ i \notin After(i)
    BY <2>1, BeforeIsTotal
  <2>4. n <= Cardinality(After(i))
    BY <1>3
  <2>5. Cardinality(After(i)) <= Cardinality(After(j))
        /\ (Cardinality(After(i)) = Cardinality(After(j)) => After(j) = After(i))
    <3>1. IsFiniteSet(After(j)) /\ After(i) \in SUBSET After(j)
      BY <1>1, <2>2
    <3> HIDE DEF After
    <3> QED BY <3>1, FS_Subset
  <2>6. Cardinality(After(i)) \in Nat /\ Cardinality(After(j)) \in Nat
    BY <1>1
  <2> HIDE DEF After
  <2> QED BY <1>4, <2>3, <2>4, <2>5, <2>6
<1>6. \E l \in S : \A i \in S \ {l} : Before(J, P, C, i, l)
  BY <1>5
<1> QED BY <1>6 DEF LastOf

\* A version that succeeded is selected where there is one.
LEMMA SelectedIsDone ==
  ASSUME NEW J, NEW P, NEW C, Ordered(J, P, C), NEW S \in SUBSET J, S # {}, NEW st
  PROVE  /\ Selected(J, P, C, st, S) \in S
         /\ (\E j \in S : st[j] = "succeeded")
              => st[Selected(J, P, C, st, S)] = "succeeded"
<1> DEFINE D == {j \in S : st[j] = "succeeded"}
<1> DEFINE V == IF D # {} THEN D ELSE S
<1>1. V \in SUBSET J /\ V # {} /\ V \subseteq S
  OBVIOUS
<1>2. LastOf(J, P, C, V) \in V
  <2> HIDE DEF V
  <2> QED BY <1>1, LastExists
<1>3. Selected(J, P, C, st, S) = LastOf(J, P, C, V)
  BY DEF Selected
<1> QED BY <1>2, <1>3

-----------------------------------------------------------------------------
(* The types, and the sources.                                             *)

StoreOK ==
  /\ status \in Views
  /\ parent \in [Jobs -> Jobs \union {NoJob, Absent}]
  /\ SourcesStand
  /\ writes \in Nat

StreamOK ==
  /\ conn \in {"down", "open"} /\ known \in Views
  /\ wire \in Seq(Events)
  /\ loads \in Nat

PageOK ==
  /\ shown \in Views
  /\ asks \in [Jobs \union {All} -> Nat]
  /\ answers \subseteq Answers
  /\ clean \in BOOLEAN

LEMMA TypeParts == WorkbenchTypeOK <=> StoreOK /\ StreamOK /\ PageOK
BY DEF WorkbenchTypeOK, StoreOK, StreamOK, PageOK

LEMMA TypePartsNext == WorkbenchTypeOK' <=> StoreOK' /\ StreamOK' /\ PageOK'
BY TypeParts, PTL

\* Any jobs in the store are ordered.
LEMMA StoredIsOrdered ==
  ASSUME NEW v, NEW P
  PROVE  Ordered(Stored(v), P, CreatedAt)
<1>1. Stored(v) \in SUBSET Jobs /\ IsFiniteSet(Jobs)
  BY WorkbenchAssumption DEF Stored
<1>2. IsFiniteSet(Stored(v))
  BY <1>1, FS_Subset
<1> QED BY <1>1, <1>2, WorkbenchAssumption DEF Ordered

\* The jobs of the store are ordered and make no cycle.
LEMMA StoreIsOrdered ==
  ASSUME StoreOK
  PROVE  /\ Stored(status) \subseteq Jobs
         /\ Ordered(Stored(status), parent, CreatedAt)
         /\ Acyclic(Stored(status), parent)
<1>1. Stored(status) \in SUBSET Jobs
  BY DEF Stored
<1>2. Acyclic(Stored(status), parent)
  BY <1>1 DEF Acyclic, StoreOK, SourcesStand
<1> QED BY <1>1, <1>2, StoredIsOrdered

LEMMA InitTypes == Init => WorkbenchTypeOK
<1> SUFFICES ASSUME Init PROVE WorkbenchTypeOK
  OBVIOUS
<1>1. \A S \in SUBSET Jobs : S # {} => \E i \in S : parent[i] \notin S
  <2> TAKE S \in SUBSET Jobs
  <2> HAVE S # {}
  <2>1. S \in SUBSET Nat
    BY WorkbenchAssumption
  <2>2. PICK n \in S : \A m \in S : n <= m
    BY <2>1, LeastNumber
  <2>3. parent[n] \notin S
    <3>1. SUFFICES ASSUME parent[n] \in S PROVE FALSE
      OBVIOUS
    <3>2. parent[n] < n /\ n <= parent[n]
      BY <3>1, <2>2 DEF Init
    <3>3. n \in Nat /\ parent[n] \in Nat
      BY <3>1, <2>1
    <3> QED BY <3>2, <3>3
  <2> QED BY <2>3
<1>2. SourcesStand
  BY <1>1 DEF Init, SourcesStand
<1>3. StoreOK
  BY <1>2 DEF Init, StoreOK
<1>4. StreamOK
  BY DEF Init, StreamOK, Views
<1>5. PageOK
  BY DEF Init, PageOK, Views
<1> QED BY <1>3, <1>4, <1>5, TypeParts

\* What creates a job: it had no record, and its source has succeeded.
Creates(k, p) ==
  /\ k \in Jobs /\ p \in Jobs \union {NoJob}
  /\ p \in Jobs => CanUpscale(p)
  /\ NewJob(k, p)

LEMMA CreationKeepsStore ==
  ASSUME StoreOK, NEW k, NEW p, Creates(k, p)
  PROVE  StoreOK'
<1>1. k \in Jobs /\ parent[k] = Absent /\ status[k] = Absent /\ p # Absent
  BY WorkbenchAssumption DEF Creates, NewJob, StoreOK, SourcesStand
<1>2. status' = [status EXCEPT ![k] = "queued"] /\ parent' = [parent EXCEPT ![k] = p]
  BY DEF Creates, NewJob
<1>3. status' \in Views /\ parent' \in [Jobs -> Jobs \union {NoJob, Absent}]
  BY <1>1, <1>2, WorkbenchAssumption DEF StoreOK, Views, Creates
<1>4. writes' \in Nat
  BY DEF StoreOK, Creates, NewJob, Writes
<1>5. p # k /\ \A j \in Jobs : parent[j] # k
  BY <1>1, WorkbenchAssumption DEF StoreOK, SourcesStand, CanUpscale, Creates
<1>6. \A j \in Jobs : /\ parent'[j] = Absent => status'[j] = Absent
                      /\ parent'[j] \in Jobs => status'[parent'[j]] = "succeeded"
  <2> TAKE j \in Jobs
  <2>1. CASE j = k
    <3>1. parent'[j] = p
      BY <2>1, <1>2 DEF StoreOK
    <3>2. p \in Jobs => status'[p] = status[p]
      BY <1>2, <1>5 DEF StoreOK, Views
    <3> QED BY <3>1, <3>2, <1>1 DEF Creates, CanUpscale
  <2>2. CASE j # k
    <3>1. parent'[j] = parent[j] /\ status'[j] = status[j]
      BY <2>2, <1>2 DEF StoreOK, Views
    <3>2. parent[j] \in Jobs => status'[parent[j]] = status[parent[j]]
      BY <1>2, <1>5 DEF StoreOK, Views
    <3> QED BY <3>1, <3>2 DEF StoreOK, SourcesStand, CanUpscale
  <2> QED BY <2>1, <2>2
<1>7. \A S \in SUBSET Jobs : S # {} => \E i \in S : parent'[i] \notin S
  <2> TAKE S \in SUBSET Jobs
  <2> HAVE S # {}
  <2>1. CASE S = {k}
    BY <2>1, <1>1, <1>2, <1>5 DEF StoreOK
  <2>2. CASE S # {k}
    <3>1. PICK i \in S \ {k} : parent[i] \notin S \ {k}
      <4>1. S \ {k} \in SUBSET Jobs /\ S \ {k} # {}
        BY <2>2
      <4> QED BY <4>1 DEF StoreOK, SourcesStand
    <3>2. parent'[i] = parent[i] /\ parent[i] # k
      BY <3>1, <1>2, <1>5 DEF StoreOK
    <3> QED BY <3>1, <3>2
  <2> QED BY <2>1, <2>2
<1>8. SourcesStand'
  BY <1>6, <1>7 DEF SourcesStand, CanUpscale
<1> QED BY <1>3, <1>4, <1>8 DEF StoreOK

LEMMA MoveKeepsStore ==
  ASSUME StoreOK, NEW k \in Jobs, Move(k)
  PROVE  StoreOK'
<1>1. PICK s \in Moves(status[k]) : status' = [status EXCEPT ![k] = s]
  BY DEF Move
<1>2. parent' = parent /\ writes' \in Nat /\ status[k] # Absent
  BY DEF Move, Writes, StoreOK
<1>3. s \in Statuses /\ status[k] # "succeeded"
  BY <1>1 DEF Moves
<1>4. status' \in Views
  BY <1>1, <1>3 DEF StoreOK, Views
<1>5. \A j \in Jobs : status[j] \in {Absent, "succeeded"} => status'[j] = status[j]
  BY <1>1, <1>2, <1>3 DEF StoreOK, Views
<1>6. SourcesStand'
  BY <1>2, <1>5 DEF SourcesStand, CanUpscale, StoreOK
<1> QED BY <1>2, <1>4, <1>6 DEF StoreOK

\* A job that is not stored is no source.
LEMMA GoneIsNoSource ==
  ASSUME StoreOK, NEW k \in Jobs, status[k] = Absent, NEW j \in Jobs
  PROVE  parent[j] # k
BY WorkbenchAssumption DEF StoreOK, SourcesStand, CanUpscale

LEMMA ReturnKeepsStore ==
  ASSUME StoreOK, NEW k \in Jobs, GenerateAgain(k)
  PROVE  StoreOK'
<1>1. /\ status' = [status EXCEPT ![k] = "queued"] /\ status[k] = Absent
      /\ parent' = parent /\ parent[k] = NoJob /\ writes' \in Nat
  BY DEF GenerateAgain, Writes, StoreOK
<1>2. status' \in Views
  BY <1>1, WorkbenchAssumption DEF StoreOK, Views
<1>3. \A j \in Jobs \ {k} : status'[j] = status[j]
  BY <1>1 DEF StoreOK, Views
<1>4. \A j \in Jobs : parent[j] # k
  BY <1>1, GoneIsNoSource
<1>5. parent[k] # Absent
  BY <1>1, WorkbenchAssumption
<1>6. SourcesStand'
  BY <1>1, <1>3, <1>4, <1>5 DEF SourcesStand, CanUpscale, StoreOK
<1> QED BY <1>1, <1>2, <1>6 DEF StoreOK

LEMMA ClearKeepsStore ==
  ASSUME StoreOK, ClearElsewhere
  PROVE  StoreOK'
<1>1. parent' = parent /\ writes' \in Nat /\ status' = Cleared(status)
  BY DEF ClearElsewhere, Writes, StoreOK
<1>2. status' \in Views
  BY <1>1 DEF Cleared, StoreOK, Views
<1>3. \A j \in Jobs : status[j] \in {Absent, "succeeded"} => status'[j] = status[j]
  BY <1>1 DEF Cleared
<1>4. SourcesStand'
  BY <1>1, <1>3 DEF SourcesStand, CanUpscale, StoreOK
<1> QED BY <1>1, <1>2, <1>4 DEF StoreOK

\* The root of a job in the store is the id of a job.
LEMMA RootIsJob ==
  ASSUME StoreOK, NEW j \in Stored(status)
  PROVE  Root(j) \in Jobs
<1> DEFINE J == Stored(status)
<1> DEFINE T == Tops(J, parent, j)
<1> DEFINE top == CHOOSE i \in T : TRUE
<1>1. J \subseteq Jobs /\ T # {} /\ T \subseteq J
  <2>1. T # {}
    BY StoreIsOrdered, TopExists
  <2>2. T \subseteq J
    BY LineageIsClosed DEF Tops
  <2> QED BY <2>1, <2>2, StoreIsOrdered
<1>2. top \in T
  BY <1>1
<1>3. Root(j) = IF parent[top] = NoJob THEN top ELSE parent[top]
  BY DEF Root, RootJob
<1>4. \A i \in J : i \in Jobs /\ status[i] # Absent
  BY DEF Stored
<1>5. parent[top] \in Jobs \union {NoJob}
  <2> HIDE DEF top, J, T
  <2>1. top \in Jobs /\ status[top] # Absent
    BY <1>1, <1>2, <1>4
  <2> QED BY <2>1 DEF StoreOK, SourcesStand
<1> HIDE DEF top
<1> QED BY <1>1, <1>2, <1>3, <1>5

\* The image of a finite set of jobs, in some order, is a sequence.
LEMMA SequenceOfSet ==
  ASSUME NEW S, IsFiniteSet(S)
  PROVE  /\ SetToSeq(S) \in Seq(S)
         /\ \A x \in S : \E i \in DOMAIN SetToSeq(S) : SetToSeq(S)[i] = x
<1> DEFINE n == Cardinality(S)
<1>1. n \in Nat /\ ExistsBijection(1..n, S)
  BY FS_CardinalityType
<1>2. \E f \in [1..n -> S] : IsInjective(f)
  BY <1>1 DEF ExistsBijection, Bijection, Injection, IsInjective
<1>3. SetToSeq(S) \in [1..n -> S] /\ IsInjective(SetToSeq(S))
  BY <1>2 DEF SetToSeq
<1>4. SetToSeq(S) \in Surjection(1..n, S)
  <2> DEFINE q == SetToSeq(S)
  <2>1. q \in Injection(1..n, S)
    BY <1>3 DEF Injection
  <2>2. IsFiniteSet(1..n) /\ Cardinality(1..n) = n
    BY <1>1, FS_Interval
  <2> HIDE DEF q
  <2>3. Cardinality(1..n) = Cardinality(S) <=> q \in Surjection(1..n, S)
    BY <2>1, FS_Injection
  <2> QED BY <2>2, <2>3 DEF q
<1>5. \A x \in S : \E i \in 1..n : SetToSeq(S)[i] = x
  BY <1>4 DEF Surjection
<1> HIDE DEF n
<1> QED BY <1>1, <1>3, <1>5

LEMMA ChangesAreEvents ==
  ASSUME StoreOK
  PROVE  Changes \subseteq Events /\ IsFiniteSet(Changes) /\ SetToSeq(Changes) \in Seq(Events)
<1> DEFINE S == {i \in Stored(status) : known[i] # status[i]}
<1> DEFINE E(j) == Event(IF known[j] = Absent THEN "version_created" ELSE "version_updated", j)
<1>1. Changes = {E(j) : j \in S}
  BY DEF Changes
<1>2. \A j \in S : E(j) \in Events
  <2> TAKE j \in S
  <2>1. j \in Stored(status) /\ j \in Jobs /\ status[j] \in Statuses
    BY DEF Stored, StoreOK, Views
  <2>2. Root(j) \in Jobs
    BY <2>1, RootIsJob
  <2> QED BY <2>1, <2>2 DEF Event, Events
<1>3. IsFiniteSet(S)
  <2>1. S \in SUBSET Jobs /\ IsFiniteSet(Jobs)
    BY WorkbenchAssumption DEF Stored
  <2> HIDE DEF S
  <2> QED BY <2>1, FS_Subset
<1>4. IsFiniteSet(Changes)
  <2> HIDE DEF E, S
  <2>1. [j \in S |-> E(j)] \in Surjection(S, Changes)
    BY <1>1 DEF Surjection
  <2> QED BY <2>1, <1>3, FS_Surjection
<1>5. Changes \subseteq Events
  <2> HIDE DEF E, S
  <2> QED BY <1>1, <1>2
<1>6. SetToSeq(Changes) \in Seq(Changes)
  BY <1>4, SequenceOfSet
<1>7. SetToSeq(Changes) \in Seq(Events)
  <2> DEFINE q == SetToSeq(Changes)
  <2>1. q \in Seq(Changes)
    BY <1>6
  <2> HIDE DEF q
  <2>2. q \in [1..Len(q) -> Changes] /\ Len(q) \in Nat
    BY <2>1
  <2>3. q \in [1..Len(q) -> Events]
    BY <2>2, <1>5
  <2>4. q \in Seq(Events)
    BY <2>2, <2>3
  <2> QED BY <2>4 DEF q
<1> QED BY <1>4, <1>5, <1>7

LEMMA OvertakenAreAnswers ==
  ASSUME PageOK PROVE Overtaken \subseteq Answers
BY DEF PageOK, Overtaken, Answers

LEMMA AskingKeepsAsks ==
  ASSUME PageOK, NEW r \in Jobs \union {All}, Asking(r)
  PROVE  asks' \in [Jobs \union {All} -> Nat]
<1>1. asks[r] \in Nat /\ asks[r] + 1 \in Nat
  BY DEF PageOK
<1>2. asks' = [asks EXCEPT ![r] = asks[r] + 1]
  BY DEF Asking
<1> QED BY <1>1, <1>2 DEF PageOK

LEMMA AnswerIsAnswer ==
  ASSUME NEW r \in Jobs \union {All}, NEW v \in Views, NEW b \in BOOLEAN
  PROVE  Answer(r, v, b) \in Answers
BY DEF Answer, Answers

LEMMA BehindThePageKeepsTypes ==
  ASSUME PageOK, NEW j, NEW s, SetBehindThePage(j, s)
  PROVE  answers' \subseteq Answers /\ clean' \in BOOLEAN
<1>1. \A v : Noticed(v, j, s) \in BOOLEAN
  BY DEF Noticed
<1>2. answers' \subseteq Answers
  BY <1>1 DEF SetBehindThePage, PageOK, Answers
<1> QED BY <1>1, <1>2 DEF SetBehindThePage, PageOK

\* The head of the wire is an event, and the rest is events.
LEMMA WireHead ==
  ASSUME StreamOK, wire # <<>>
  PROVE  Head(wire) \in Events /\ Tail(wire) \in Seq(Events)
BY DEF StreamOK

\* How a step changes the store: not at all, by a creation, the return of a
\* deleted id, a move, a clearing.
StoreChange ==
  \/ UNCHANGED storeVars
  \/ \E k \in Jobs, p \in Jobs \union {NoJob} : Creates(k, p)
  \/ \E k \in Jobs : GenerateAgain(k)
  \/ \E k \in Jobs : Move(k)
  \/ ClearElsewhere

LEMMA NextChangesStore == [Next]_vars => StoreChange
<1> SUFFICES ASSUME [Next]_vars PROVE StoreChange
  OBVIOUS
<1>1. ASSUME NEW k \in Jobs, CreateElsewhere(k) \/ CreateHere(k)
      PROVE  (\E p \in Jobs \union {NoJob} : Creates(k, p)) \/ GenerateAgain(k)
  BY <1>1, WorkbenchAssumption DEF CreateElsewhere, CreateHere, Creates
<1>2. CASE UNCHANGED vars
  BY <1>2 DEF vars, storeVars, StoreChange
<1>3. CASE Connect \/ Poll \/ Break \/ Reload \/ HandleEvent \/ ServeAny \/ ReceiveAny
  BY <1>3 DEF Connect, Poll, Break, Reload, HandleEvent, HandleUpdate, HandleCreation,
              ServeAny, Serve, ReceiveAny, Receive, storeVars, StoreChange
<1> QED BY <1>1, <1>2, <1>3 DEF Next, StoreChange

LEMMA StepKeepsStore ==
  ASSUME StoreOK, [Next]_vars
  PROVE  StoreOK'
<1>1. CASE UNCHANGED storeVars
  BY <1>1 DEF storeVars, StoreOK, SourcesStand, CanUpscale
<1>2. CASE \E k \in Jobs, p \in Jobs \union {NoJob} : Creates(k, p)
  BY <1>2, CreationKeepsStore
<1>3. CASE \E k \in Jobs : Move(k)
  BY <1>3, MoveKeepsStore
<1>4. CASE ClearElsewhere
  BY <1>4, ClearKeepsStore
<1>5. CASE \E k \in Jobs : GenerateAgain(k)
  BY <1>5, ReturnKeepsStore
<1> QED BY <1>1, <1>2, <1>3, <1>4, <1>5, NextChangesStore DEF StoreChange

LEMMA StepKeepsStream ==
  ASSUME StoreOK, StreamOK, [Next]_vars
  PROVE  StreamOK'
<1>1. CASE UNCHANGED streamVars
  BY <1>1 DEF streamVars, StreamOK
<1>2. CASE Connect
  BY <1>2 DEF Connect, StreamOK, StoreOK
<1>3. CASE Poll
  <2>1. wire' \in Seq(Events)
    BY <1>3, ChangesAreEvents DEF Poll, StreamOK
  <2> QED BY <1>3, <2>1 DEF Poll, StreamOK, StoreOK
<1>4. CASE Break
  BY <1>4 DEF Break, StreamOK, Views
<1>5. CASE Reload
  BY <1>5 DEF Reload, StreamOK
<1>6. CASE HandleEvent
  BY <1>6, WireHead DEF HandleEvent, HandleUpdate, HandleCreation, StreamOK
<1>7. CASE UNCHANGED vars
  BY <1>7, <1>1 DEF vars
<1>8. CASE \E j \in Jobs : CreateElsewhere(j) \/ CreateHere(j) \/ Move(j)
  BY <1>8, <1>1 DEF CreateElsewhere, CreateHere, Move
<1>9. CASE ClearElsewhere \/ ServeAny \/ ReceiveAny
  BY <1>9, <1>1 DEF ClearElsewhere, ServeAny, Serve, ReceiveAny, Receive
<1> QED BY <1>2, <1>3, <1>4, <1>5, <1>6, <1>7, <1>8, <1>9 DEF Next

LEMMA StepKeepsPage ==
  ASSUME StoreOK, StreamOK, PageOK, [Next]_vars
  PROVE  PageOK'
<1>1. CASE UNCHANGED pageVars
  BY <1>1 DEF pageVars, PageOK
<1>2. StoreOK'
  BY StepKeepsStore
<1>3. ASSUME NEW j \in Jobs, CreateHere(j) PROVE PageOK'
  <2>1. status' \in Views
    BY <1>2 DEF StoreOK
  <2>2. Answer(j, status', FALSE) \in Answers /\ Answer(j, status', TRUE) \in Answers
    BY <2>1, AnswerIsAnswer
  <2>4. answers' \subseteq Answers
    BY <1>3, <2>2 DEF CreateHere, PageOK
  <2>3. UNCHANGED <<shown, asks, clean>>
    BY <1>3 DEF CreateHere
  <2> QED BY <2>3, <2>4 DEF PageOK
<1>4. ASSUME NEW j \in Jobs, Move(j) \/ CreateElsewhere(j) PROVE PageOK'
  <2>1. \E s : SetBehindThePage(j, s)
    BY <1>4 DEF Move, CreateElsewhere
  <2>2. answers' \subseteq Answers /\ clean' \in BOOLEAN
    BY <2>1, BehindThePageKeepsTypes
  <2> QED BY <1>4, <2>2 DEF Move, CreateElsewhere, PageOK
<1>5. CASE Break
  BY <1>5, OvertakenAreAnswers, AskingKeepsAsks DEF Break, PageOK
<1>6. CASE Reload
  BY <1>6, AskingKeepsAsks DEF Reload, PageOK
<1>7. CASE HandleUpdate
  <2>1. shown' \in Views
    <3>1. Head(wire) \in Events
      BY <1>7, WireHead DEF HandleUpdate
    <3>2. Head(wire).status \in Statuses
      BY <3>1 DEF Events
    <3> QED BY <1>7, <3>2 DEF HandleUpdate, PageOK, Views
  <2> QED BY <1>7, <2>1, OvertakenAreAnswers DEF HandleUpdate, PageOK
<1>8. CASE HandleCreation
  <2>1. Head(wire).result \in Jobs
    BY <1>8, WireHead DEF HandleCreation, Events
  <2> QED BY <1>8, <2>1, OvertakenAreAnswers, AskingKeepsAsks DEF HandleCreation, PageOK
<1>9. ASSUME NEW r \in Jobs \union {All}, Serve(r) PROVE PageOK'
  <2>1. UNCHANGED <<shown, clean>>
    BY <1>9 DEF Serve
  <2>2. asks' \in [Jobs \union {All} -> Nat]
    <3>1. asks[r] - 1 \in Nat /\ asks[All] + 1 \in Nat
      BY <1>9 DEF Serve, PageOK
    <3>2. \/ asks' = [asks EXCEPT ![r] = asks[r] - 1]
          \/ r # All /\ asks' = [asks EXCEPT ![r] = asks[r] - 1, ![All] = asks[All] + 1]
      BY <1>9 DEF Serve
    <3> QED BY <3>1, <3>2 DEF PageOK
  <2>3. answers' \subseteq Answers
    <3>1. Answer(r, status, FALSE) \in Answers
      BY AnswerIsAnswer DEF StoreOK
    <3>2. answers' \subseteq answers \union {Answer(r, status, FALSE)}
      BY <1>9 DEF Serve
    <3> QED BY <3>1, <3>2 DEF PageOK
  <2> QED BY <2>1, <2>2, <2>3 DEF PageOK
<1>10. ASSUME NEW a \in answers, Receive(a) PROVE PageOK'
  <2>1. a.view \in Views /\ a.valid \in BOOLEAN
    BY DEF PageOK, Answers
  <2>2. Applied(a) \in Views
    BY <2>1 DEF Applied, PageOK, Views
  <2> QED BY <1>10, <2>1, <2>2 DEF Receive, PageOK
<1>11. CASE UNCHANGED vars
  BY <1>11, <1>1 DEF vars
<1>12. CASE ClearElsewhere \/ Connect \/ Poll
  BY <1>12, <1>1 DEF ClearElsewhere, Connect, Poll
<1> QED BY <1>3, <1>4, <1>5, <1>6, <1>7, <1>8, <1>9, <1>10, <1>11, <1>12
        DEF Next, HandleEvent, ServeAny, ReceiveAny

LEMMA TypesInductive == WorkbenchTypeOK /\ [Next]_vars => WorkbenchTypeOK'
BY TypeParts, TypePartsNext, StepKeepsStore, StepKeepsStream, StepKeepsPage

\* The workbench keeps its types, and for any number of jobs a source has
\* succeeded, is never cleared away, and no job is its own source's source.
THEOREM WorkbenchTypeCorrect == Spec => []WorkbenchTypeOK
<1>1. Init => WorkbenchTypeOK
  BY InitTypes
<1>2. WorkbenchTypeOK /\ [Next]_vars => WorkbenchTypeOK'
  BY TypesInductive
<1> QED BY <1>1, <1>2, PTL DEF Spec

\* Every walk up the sources of a job in the store ends, and at one job, so that
\* the guards of _root_job_id and _version_sort_key against cycles do not bite
\* and RootJob is what the walk returns.
THEOREM WalksEnd ==
  Spec => [](\A j \in Stored(status) : \E t : Tops(Stored(status), parent, j) = {t})
<1>1. WorkbenchTypeOK
        => \A j \in Stored(status) : \E t : Tops(Stored(status), parent, j) = {t}
  <2> SUFFICES ASSUME WorkbenchTypeOK, NEW j \in Stored(status)
               PROVE  \E t : Tops(Stored(status), parent, j) = {t}
    OBVIOUS
  <2>1. PICK t : t \in Tops(Stored(status), parent, j)
    BY TypeParts, StoreIsOrdered, TopExists
  <2> QED BY <2>1, TopIsUnique
<1> QED BY <1>1, WorkbenchTypeCorrect, PTL

-----------------------------------------------------------------------------
(* The results.                                                            *)

\* The statuses found in a result are a finite set of statuses, and not none.
LEMMA FoundStatuses ==
  ASSUME StoreOK, NEW r, InResult(r) # {}
  PROVE  LET found == {status[j] : j \in InResult(r)}
         IN  /\ found # {} /\ found \subseteq Statuses
             /\ IsFiniteSet(found)
             /\ Cardinality(found) \in Nat \ {0}
             /\ Cardinality(found) = 1 <=> \E s : found = {s}
<1> DEFINE found == {status[j] : j \in InResult(r)}
<1>1. InResult(r) \subseteq Stored(status)
  BY DEF InResult, Group
<1>2. found # {} /\ found \in SUBSET Statuses
  BY <1>1 DEF StoreOK, Views, Stored
<1> HIDE DEF found
<1>3. IsFiniteSet(found) /\ Cardinality(found) \in Nat /\ Cardinality(found) # 0
  BY <1>2, WorkbenchAssumption, FS_Subset, FS_CardinalityType, FS_EmptySet
<1>4. Cardinality(found) = 1 <=> \E s : found = {s}
  BY <1>3, FS_Singleton
<1> QED BY <1>2, <1>3, <1>4 DEF found

\* _aggregate_status, over any finite set of statuses found.
LEMMA AggregateIsSound ==
  ASSUME NEW found, found # {}, "completed" \notin found,
         Cardinality(found) \in Nat \ {0},
         Cardinality(found) = 1 <=> \E s : found = {s}
  PROVE  /\ AggregateStatus(found) = "completed" <=> found = {"succeeded"}
         /\ found \intersect ActiveStatuses # {}
              => AggregateStatus(found) \in {"queued", "running", "mixed"}
<1>1. CASE Cardinality(found) = 1
  <2>1. PICK s : found = {s}
    BY <1>1
  <2>2. AggregateStatus(found) = ResultStatus(s)
    BY <1>1, <2>1 DEF AggregateStatus
  <2>3. s # "completed"
    BY <2>1
  <2> QED BY <2>1, <2>2, <2>3 DEF ResultStatus, ActiveStatuses
<1>2. CASE Cardinality(found) # 1
  <2>1. Cardinality(found) > 1
    BY <1>2
  <2>2. AggregateStatus(found) \in {"running", "mixed"}
    BY <1>2, <2>1 DEF AggregateStatus
  <2>3. found # {"succeeded"}
    BY <1>2
  <2> QED BY <2>2, <2>3
<1> QED BY <1>1, <1>2

LEMMA TypesGiveSoundSummary == WorkbenchTypeOK => SummaryIsSound
<1> SUFFICES ASSUME WorkbenchTypeOK, NEW j0 \in Stored(status)
             PROVE  LET r == Root(j0)
                        found == {status[j] : j \in InResult(r)}
                    IN  /\ \A i, k \in InResult(r) : parent[k] = i =>
                             Before(Stored(status), parent, CreatedAt, i, k)
                        /\ AggregateStatus(found) = "completed" <=> found = {"succeeded"}
                        /\ found \intersect ActiveStatuses # {}
                             => AggregateStatus(found) \in {"queued", "running", "mixed"}
  BY DEF SummaryIsSound
<1> DEFINE r == Root(j0)
<1> DEFINE found == {status[j] : j \in InResult(r)}
<1>1. StoreOK
  BY TypeParts
<1>2. j0 \in InResult(r) /\ InResult(r) \subseteq Stored(status)
  BY DEF InResult, Group, Root
<1>3. ASSUME NEW i \in InResult(r), NEW k \in InResult(r), parent[k] = i
      PROVE  Before(Stored(status), parent, CreatedAt, i, k)
  <2>1. Depth(Stored(status), parent, parent[k]) < Depth(Stored(status), parent, k)
    BY <1>1, <1>2, <1>3, StoreIsOrdered, DepthGoesUp DEF Ordered
  <2> QED BY <2>1, <1>3, BeforeIsLexicographic
<1>4. /\ found # {} /\ "completed" \notin found
      /\ Cardinality(found) \in Nat \ {0}
      /\ Cardinality(found) = 1 <=> \E s : found = {s}
  BY <1>1, <1>2, FoundStatuses, WorkbenchAssumption
<1> HIDE DEF found
<1>5. /\ AggregateStatus(found) = "completed" <=> found = {"succeeded"}
      /\ found \intersect ActiveStatuses # {}
           => AggregateStatus(found) \in {"queued", "running", "mixed"}
  BY <1>4, AggregateIsSound
<1> HIDE DEF r
<1> QED BY <1>3, <1>5 DEF found, r

\* Whatever created_at says, the versions of a result are listed parent before
\* child, a result counts as completed only when all its versions are, and one
\* with an active version has no final status.
THEOREM SummariesAreSound == Spec => []SummaryIsSound
<1>1. WorkbenchTypeOK => SummaryIsSound
  BY TypesGiveSoundSummary
<1> QED BY <1>1, WorkbenchTypeCorrect, PTL

\* Nothing happens to a job that succeeded, and nothing but its clearing takes a
\* job out of the store; a job that is stored keeps its source.
LEMMA WhatStays ==
  ASSUME StoreOK, StoreChange
  PROVE  /\ \A j \in Jobs : status[j] = "succeeded" => status'[j] = "succeeded"
         /\ \A j \in Stored(status) : parent'[j] = parent[j]
         /\ \A j \in Stored(status') \ Stored(status) : \A i \in Jobs : parent[i] # j
<1>1. CASE UNCHANGED storeVars
  BY <1>1 DEF storeVars
<1>2. ASSUME NEW k \in Jobs, NEW p \in Jobs \union {NoJob}, Creates(k, p)
      PROVE  /\ \A j \in Jobs : status[j] = "succeeded" => status'[j] = "succeeded"
             /\ \A j \in Stored(status) : parent'[j] = parent[j]
             /\ \A j \in Stored(status') \ Stored(status) : \A i \in Jobs : parent[i] # j
  <2>1. parent[k] = Absent /\ status[k] = Absent
    BY <1>2 DEF Creates, NewJob, StoreOK, SourcesStand
  <2>2. status' = [status EXCEPT ![k] = "queued"] /\ parent' = [parent EXCEPT ![k] = p]
    BY <1>2 DEF Creates, NewJob
  <2>3. \A j \in Jobs : parent[j] # k
    BY <2>1, WorkbenchAssumption DEF StoreOK, SourcesStand, CanUpscale
  <2>4. \A j \in Jobs \ {k} : status'[j] = status[j] /\ parent'[j] = parent[j]
    BY <2>2 DEF StoreOK, Views
  <2>5. "succeeded" # Absent
    BY WorkbenchAssumption
  <2>6. k \notin Stored(status) /\ Stored(status') \subseteq Stored(status) \union {k}
    BY <2>1, <2>4 DEF Stored
  <2> QED BY <2>1, <2>3, <2>4, <2>5, <2>6 DEF Stored
<1>3. ASSUME NEW k \in Jobs, Move(k)
      PROVE  /\ \A j \in Jobs : status[j] = "succeeded" => status'[j] = "succeeded"
             /\ parent' = parent /\ Stored(status') = Stored(status)
  <2>1. PICK s \in Moves(status[k]) : status' = [status EXCEPT ![k] = s]
    BY <1>3 DEF Move
  <2>2. s \in Statuses /\ status[k] # "succeeded"
    BY <2>1 DEF Moves
  <2>3. s # Absent /\ status[k] # Absent /\ parent' = parent
    BY <1>3, <2>2, WorkbenchAssumption DEF Move
  <2> QED BY <2>1, <2>2, <2>3 DEF StoreOK, Views, Stored
<1>4. CASE ClearElsewhere
  BY <1>4 DEF ClearElsewhere, Cleared, Stored
<1>5. ASSUME NEW k \in Jobs, GenerateAgain(k)
      PROVE  /\ \A j \in Jobs : status[j] = "succeeded" => status'[j] = "succeeded"
             /\ parent' = parent
             /\ \A j \in Stored(status') \ Stored(status) : \A i \in Jobs : parent[i] # j
  <2>1. status' = [status EXCEPT ![k] = "queued"] /\ status[k] = Absent /\ parent' = parent
    BY <1>5 DEF GenerateAgain
  <2>2. "succeeded" # Absent
    BY WorkbenchAssumption
  <2>3. Stored(status') \subseteq Stored(status) \union {k}
    BY <2>1 DEF StoreOK, Views, Stored
  <2> QED BY <2>1, <2>2, <2>3, GoneIsNoSource DEF StoreOK, Views
<1> QED BY <1>1, <1>2, <1>3, <1>4, <1>5 DEF StoreChange

\* The jobs above a job have succeeded.
LEMMA AboveHasSucceeded ==
  ASSUME StoreOK, NEW j \in Stored(status), NEW i \in Lineage(Stored(status), parent, j)
  PROVE  i = j \/ status[i] = "succeeded"
<1> DEFINE J == Stored(status)
<1> DEFINE S == {l \in J : l = j \/ status[l] = "succeeded"}
<1>1. S \in SUBSET J /\ j \in S
  OBVIOUS
<1>2. \A l \in S : parent[l] \in J => parent[l] \in S
  BY DEF StoreOK, SourcesStand, CanUpscale, Stored
<1>3. Lineage(J, parent, j) \subseteq S
  <2> HIDE DEF S, J
  <2> QED BY <1>1, <1>2, LineageIsLeast DEF J
<1> QED BY <1>3

\* A job that stays keeps its root.
LEMMA RootStays ==
  ASSUME StoreOK, StoreChange, NEW j \in Stored(status), j \in Stored(status')
  PROVE  RootJob(Stored(status'), parent', j) = RootJob(Stored(status), parent, j)
<1> DEFINE J == Stored(status)
<1> DEFINE K == Stored(status')
<1> DEFINE L == Lineage(J, parent, j)
<1>1. J \subseteq Jobs /\ K \subseteq Jobs /\ L \subseteq J /\ Acyclic(J, parent)
  BY StoreIsOrdered, LineageIsClosed DEF Stored
<1>2. ASSUME NEW i \in L PROVE i \in K
  <2>1. i = j \/ status'[i] = "succeeded"
    BY <1>1, AboveHasSucceeded, WhatStays
  <2> QED BY <2>1, <1>1, WorkbenchAssumption DEF Stored
<1>3. ASSUME NEW i \in L PROVE parent'[i] = parent[i]
  BY <1>1, WhatStays
<1>4. ASSUME NEW i \in L PROVE parent[i] \in J <=> parent[i] \in K
  <2>1. ASSUME parent[i] \in J PROVE parent[i] \in K
    BY <2>1, <1>2, LineageIsClosed
  <2>2. ASSUME parent[i] \in K, parent[i] \notin J PROVE FALSE
    BY <2>2, <1>1, WhatStays
  <2> QED BY <2>1, <2>2
<1> HIDE DEF J, K, L
<1>5. RootJob(K, parent', j) = RootJob(J, parent, j)
  BY <1>1, <1>2, <1>3, <1>4, RootIsKept DEF J, L
<1> QED BY <1>5 DEF J, K

\* A version stays in the result it was created in, whatever is created, moved
\* or cleared away: no cleanup takes a source from under its upscales.
THEOREM VersionsKeepTheirResult == Spec => KeepsItsResult
<1>1. ASSUME WorkbenchTypeOK, [Next]_vars
      PROVE  [status' # status =>
               \A j \in Stored(status) : status'[j] = Absent \/ Root(j)' = Root(j)]_vars
  <2>1. StoreOK /\ StoreChange
    BY <1>1, TypeParts, NextChangesStore
  <2>2. ASSUME NEW j \in Stored(status), status'[j] # Absent
        PROVE  Root(j)' = Root(j)
    <3>1. j \in Stored(status')
      BY <2>2 DEF Stored
    <3> QED BY <2>1, <2>2, <3>1, RootStays DEF Root
  <2> QED BY <2>2
<1> QED BY <1>1, WorkbenchTypeCorrect, PTL DEF Spec, KeepsItsResult

\* A result with a version to play keeps one selected, when versions are queued,
\* move, fail or are cleared away.
THEOREM PlayableStays == Spec => PlayableStaysSelected
<1>1. ASSUME WorkbenchTypeOK, WorkbenchTypeOK', [Next]_vars
      PROVE  [status' # status =>
                \A r \in {Root(j) : j \in Stored(status)} :
                  status[SelectedOf(r)] = "succeeded"
                    => (InResult(r) # {} /\ status[SelectedOf(r)] = "succeeded")']_vars
  <2>1. StoreOK /\ StoreOK' /\ StoreChange
    BY <1>1, TypeParts, TypePartsNext, NextChangesStore
  <2>2. ASSUME NEW j0 \in Stored(status), NEW r, r = Root(j0),
               status[SelectedOf(r)] = "succeeded"
        PROVE  (InResult(r) # {} /\ status[SelectedOf(r)] = "succeeded")'
    <3> DEFINE j == SelectedOf(r)
    <3>1. j0 \in InResult(r) /\ InResult(r) \subseteq Stored(status)
      BY <2>2 DEF InResult, Group, Root
    <3>2. j \in InResult(r)
      BY <2>1, <3>1, StoreIsOrdered, SelectedIsDone DEF SelectedOf
    <3>3. j \in Stored(status) /\ j \in Jobs /\ Root(j) = r
      BY <3>1, <3>2 DEF InResult, Group, Root, Stored
    <3> HIDE DEF j
    <3>4. status'[j] = "succeeded" /\ j \in Stored(status')
      BY <2>1, <2>2, <3>3, WhatStays, WorkbenchAssumption DEF Stored, j
    <3>5. j \in InResult(r)'
      BY <2>1, <3>3, <3>4, RootStays DEF InResult, Group, Root
    <3>6. Ordered(Stored(status'), parent', CreatedAt)
      BY StoredIsOrdered
    <3>7. InResult(r)' \in SUBSET Stored(status')
      BY DEF InResult, Group
    <3>8. status'[SelectedOf(r)'] = "succeeded"
      BY <3>4, <3>5, <3>6, <3>7, SelectedIsDone DEF SelectedOf
    <3> QED BY <3>5, <3>8
  <2> QED BY <2>2
<1> QED BY <1>1, WorkbenchTypeCorrect, PTL DEF Spec, PlayableStaysSelected

-----------------------------------------------------------------------------
(* The page.  A view of the versions, the page's or that of an answer, is  *)
(* caught when the stream makes up for all it is behind the store; what    *)
(* the page is behind and the stream does not make up for is being         *)
(* fetched.                                                                *)


\* An event about j, or one about its creation, is on the wire w.
Told(w, j) == \E n \in DOMAIN w : w[n].job = j
ToldCreated(w, j) == \E n \in DOMAIN w : w[n].job = j /\ w[n].kind = "version_created"

Caught(view, st, kn, w, j) ==
  /\ view[j] = Absent => kn[j] = Absent \/ ToldCreated(w, j)
  /\ view[j] # Absent => view[j] = st[j] \/ kn[j] # st[j] \/ Told(w, j)

Fetching(j) ==
  \/ asks[All] > 0 \/ asks[Root(j)] > 0
  \/ \E a \in answers : a.of = All \/ (~a.appends /\ a.of = Root(j))

\* The n-th event of w is the last about its version.
LastWord(w, n) == \A m \in DOMAIN w : m > n => w[m].job # w[n].job

\* The last event about a version says what the stream saw last, and an event
\* names the result of its version, one that may be generated again too.
WireOK ==
  \A n \in DOMAIN wire :
    /\ parent[wire[n].job] # Absent
    /\ wire[n].job \in Stored(status) => wire[n].result = Root(wire[n].job)
    /\ parent[wire[n].job] = NoJob => wire[n].result = wire[n].job
    /\ LastWord(wire, n) /\ known[wire[n].job] # Absent
         => wire[n].status = known[wire[n].job]

\* The stream knows no version that was never created, and nothing is on its
\* way to a page that is not connected.
ConnOK ==
  /\ \A j \in Jobs : parent[j] = Absent => known[j] = Absent
  /\ conn = "down" => wire = <<>> /\ ~clean /\ \A a \in answers : ~a.valid

AnswersOK ==
  \A a \in answers :
    a.valid => \A j \in Stored(status) : Caught(a.view, status, known, wire, j)

ShownOK ==
  clean => \A j \in Stored(status) :
             Caught(shown, status, known, wire, j) \/ Fetching(j)

PageInv == ConnOK /\ WireOK /\ AnswersOK /\ ShownOK

\* A job that is not made from another names its result.
LEMMA RootOfGenerated ==
  ASSUME NEW J, NEW P, NEW j \in J, P[j] = NoJob, NoJob \notin J
  PROVE  RootJob(J, P, j) = j
<1>1. Tops(J, P, j) = {j}
  BY LineageOfTop DEF Tops
<1> QED BY <1>1 DEF RootJob

LEMMA GeneratedIsItsResult ==
  ASSUME NEW v, NEW P, NEW j \in Stored(v), P[j] = NoJob
  PROVE  RootJob(Stored(v), P, j) = j
<1>1. NoJob \notin Stored(v)
  BY WorkbenchAssumption DEF Stored
<1> QED BY <1>1, RootOfGenerated

\* A created job was unknown, or deleted; what was created stays known to have
\* been, and keeps its source.
LEMMA CreatedIsNew ==
  ASSUME StoreOK, StoreChange
  PROVE  /\ \A j \in Stored(status') \ Stored(status) : parent[j] \in {Absent, NoJob}
         /\ \A j \in Jobs : parent[j] # Absent => parent'[j] = parent[j]
<1>1. ASSUME NEW k \in Jobs, NEW p \in Jobs \union {NoJob}, Creates(k, p)
      PROVE  /\ \A j \in Stored(status') \ Stored(status) : parent[j] = Absent
             /\ \A j \in Jobs : parent[j] # Absent => parent'[j] = parent[j]
  <2>1. parent[k] = Absent /\ p # Absent
    BY <1>1, WorkbenchAssumption DEF Creates, NewJob
  <2>2. status' = [status EXCEPT ![k] = "queued"] /\ parent' = [parent EXCEPT ![k] = p]
    BY <1>1 DEF Creates, NewJob
  <2> QED BY <2>1, <2>2 DEF Stored, StoreOK, Views
<1>2. ASSUME NEW k \in Jobs, Move(k)
      PROVE  Stored(status') \subseteq Stored(status) /\ parent' = parent
  BY <1>2 DEF Move, Stored, StoreOK, Views
<1>3. CASE ClearElsewhere
  BY <1>3 DEF ClearElsewhere, Cleared, Stored
<1>4. CASE UNCHANGED storeVars
  BY <1>4 DEF storeVars
<1>5. ASSUME NEW k \in Jobs, GenerateAgain(k)
      PROVE  /\ \A j \in Stored(status') \ Stored(status) : parent[j] = NoJob
             /\ parent' = parent
  BY <1>5 DEF GenerateAgain, Stored, StoreOK, Views
<1> QED BY <1>1, <1>2, <1>3, <1>4, <1>5 DEF StoreChange

\* A change of the store that is noticed leaves a view caught.
LEMMA StoreChangeKeepsCaught ==
  ASSUME StoreOK, StoreChange, NEW v, NEW j \in Stored(status'),
         j \in Stored(status) => Caught(v, status, known, wire, j),
         (j \in Stored(status) /\ status'[j] = status[j]) \/ Noticed(v, j, status'[j])
  PROVE  Caught(v, status', known, wire, j)
<1>1. CASE j \in Stored(status) /\ status'[j] = status[j]
  BY <1>1 DEF Caught
<1>2. CASE j \in Stored(status) /\ Noticed(v, j, status'[j])
  BY <1>2 DEF Caught, Noticed
<1>3. CASE j \notin Stored(status) /\ Noticed(v, j, status'[j])
  <2>1. status[j] = Absent /\ status'[j] # Absent
    BY <1>3 DEF Stored
  <2> QED BY <1>3, <2>1 DEF Caught, Noticed
<1> QED BY <1>1, <1>2, <1>3

LEMMA StoreChangeKeepsWire ==
  ASSUME StoreOK, StreamOK, WireOK, StoreChange, wire' = wire, known' = known
  PROVE  WireOK'
<1>1. \A n \in DOMAIN wire : wire[n].job \in Jobs
  <2>1. \A n \in DOMAIN wire : wire[n] \in Events
    BY DEF StreamOK
  <2> QED BY <2>1 DEF Events
<1>2. ASSUME NEW n \in DOMAIN wire, NEW j, j = wire[n].job
      PROVE  /\ parent'[j] # Absent
             /\ j \in Stored(status') => wire[n].result = Root(j)'
             /\ parent'[j] = NoJob => wire[n].result = j
  <2>1. j \in Jobs /\ parent[j] # Absent
    BY <1>1, <1>2 DEF WireOK
  <2>2. parent'[j] = parent[j]
    BY <2>1, CreatedIsNew
  <2>3. parent[j] = NoJob => wire[n].result = j
    BY <1>2 DEF WireOK
  <2>4. ASSUME j \in Stored(status') PROVE wire[n].result = Root(j)'
    <3>1. CASE j \in Stored(status)
      <4>1. wire[n].result = Root(j)
        BY <3>1, <1>2 DEF WireOK
      <4>2. Root(j)' = Root(j)
        BY <2>4, <3>1, RootStays DEF Root
      <4> QED BY <4>1, <4>2
    <3>2. CASE j \notin Stored(status)
      <4>1. parent[j] = NoJob
        BY <2>1, <2>4, <3>2, CreatedIsNew
      <4>2. Root(j)' = j
        BY <2>2, <2>4, <4>1, GeneratedIsItsResult DEF Root
      <4> QED BY <2>3, <4>1, <4>2
    <3> QED BY <3>1, <3>2
  <2> QED BY <2>1, <2>2, <2>3, <2>4 DEF Root
<1> QED BY <1>2 DEF WireOK, Root

\* What is asked for, or answered, still is.
SameAnswers ==
  \A b \in answers : \E a \in answers' : a.of = b.of /\ a.appends = b.appends

LEMMA FetchingStays ==
  ASSUME StoreOK, StoreChange, NEW j \in Stored(status), j \in Stored(status'),
         asks' = asks, SameAnswers, Fetching(j)
  PROVE  Fetching(j)'
<1>1. Root(j)' = Root(j)
  BY RootStays DEF Root
<1> QED BY <1>1 DEF Fetching, SameAnswers

\* The change of the store is noticed, for a view.
NoticedBy(v) ==
  \A j \in Stored(status') :
    (j \in Stored(status) /\ status'[j] = status[j]) \/ Noticed(v, j, status'[j])

\* The answers carry the new store, or are those that were there, and valid only
\* where the change is noticed.
AnswersNotice ==
  \A a \in answers' :
    \/ a.view = status' /\ (a.valid => conn = "open")
    \/ \E b \in answers : a.view = b.view /\ (a.valid => b.valid /\ NoticedBy(b.view))

\* A change of the store that nobody overlooks: those behind the page's back
\* end its being clean.
LEMMA StoreChangeKeepsPage ==
  ASSUME StoreOK, StreamOK, PageOK, PageInv, StoreChange,
         UNCHANGED <<streamVars, shown, asks>>,
         clean' => clean /\ NoticedBy(shown),
         AnswersNotice, SameAnswers
  PROVE  PageInv'
<1>0. conn' = conn /\ known' = known /\ wire' = wire /\ shown' = shown /\ asks' = asks
  BY DEF streamVars
<1>1. ConnOK'
  <2>1. \A j \in Jobs : parent'[j] = Absent => known[j] = Absent
    BY CreatedIsNew DEF PageInv, ConnOK
  <2>2. conn = "down" => wire = <<>> /\ ~clean' /\ \A a \in answers' : ~a.valid
    BY DEF PageInv, ConnOK, AnswersNotice
  <2> QED BY <1>0, <2>1, <2>2 DEF ConnOK
<1>2. WireOK'
  BY <1>0, StoreChangeKeepsWire DEF PageInv
<1>3. ASSUME NEW a \in answers', a.valid, NEW j \in Stored(status')
      PROVE  Caught(a.view, status', known, wire, j)
  <2>1. CASE a.view = status'
    BY <2>1 DEF Caught, Stored
  <2>2. ASSUME NEW b \in answers, a.view = b.view, b.valid, NoticedBy(b.view)
        PROVE  Caught(a.view, status', known, wire, j)
    <3>1. j \in Stored(status) => Caught(b.view, status, known, wire, j)
      BY <2>2 DEF PageInv, AnswersOK
    <3>2. (j \in Stored(status) /\ status'[j] = status[j]) \/ Noticed(b.view, j, status'[j])
      BY <2>2 DEF NoticedBy
    <3> QED BY <2>2, <3>1, <3>2, StoreChangeKeepsCaught
  <2> QED BY <1>3, <2>1, <2>2 DEF AnswersNotice
<1>4. AnswersOK'
  BY <1>0, <1>3 DEF AnswersOK
<1>5. ASSUME clean', NEW j \in Stored(status')
      PROVE  Caught(shown, status', known, wire, j) \/ Fetching(j)'
  <2>1. (j \in Stored(status) /\ status'[j] = status[j]) \/ Noticed(shown, j, status'[j])
    BY <1>5 DEF NoticedBy
  <2>2. CASE j \in Stored(status) => Caught(shown, status, known, wire, j)
    BY <2>1, <2>2, StoreChangeKeepsCaught
  <2>3. CASE j \in Stored(status) /\ Fetching(j)
    BY <1>0, <1>5, <2>3, FetchingStays
  <2> QED BY <1>5, <2>2, <2>3 DEF PageInv, ShownOK
<1>6. ShownOK'
  BY <1>0, <1>5 DEF ShownOK
<1> QED BY <1>1, <1>2, <1>4, <1>6 DEF PageInv

\* A change of one job, with what it leaves the page and the answers.
LEMMA BehindThePageIsNoticed ==
  ASSUME StoreOK, PageOK, NEW k \in Jobs, NEW s,
         status' = [status EXCEPT ![k] = s], SetBehindThePage(k, s)
  PROVE  /\ clean' => clean /\ NoticedBy(shown)
         /\ AnswersNotice /\ SameAnswers
<1>1. ASSUME NEW v, Noticed(v, k, s) PROVE NoticedBy(v)
  <2> SUFFICES ASSUME NEW j \in Stored(status')
               PROVE  \/ j \in Stored(status) /\ status'[j] = status[j]
                      \/ Noticed(v, j, status'[j])
    BY DEF NoticedBy
  <2>1. j \in Jobs /\ status'[j] # Absent
    BY DEF Stored
  <2>2. CASE j = k
    BY <1>1, <2>1, <2>2 DEF StoreOK, Views
  <2>3. CASE j # k
    BY <2>1, <2>3 DEF StoreOK, Views, Stored
  <2> QED BY <2>2, <2>3
<1>2. clean' => clean /\ Noticed(shown, k, s)
  BY DEF SetBehindThePage
<1>3. \A a \in answers' : \E b \in answers :
        a.view = b.view /\ (a.valid => b.valid /\ Noticed(b.view, k, s))
  <2> TAKE a \in answers'
  <2>1. PICK b \in answers : a = [b EXCEPT !.valid = b.valid /\ Noticed(b.view, k, s)]
    BY DEF SetBehindThePage
  <2>2. b \in Answers
    BY DEF PageOK
  <2>3. a.view = b.view /\ a.valid = (b.valid /\ Noticed(b.view, k, s))
    BY <2>1, <2>2 DEF Answers
  <2> QED BY <2>3
<1>4. SameAnswers
  <2> SUFFICES ASSUME NEW b \in answers
               PROVE  \E a \in answers' : a.of = b.of /\ a.appends = b.appends
    BY DEF SameAnswers
  <2> DEFINE a == [b EXCEPT !.valid = b.valid /\ Noticed(b.view, k, s)]
  <2>1. a \in answers'
    BY DEF SetBehindThePage
  <2>2. a.of = b.of /\ a.appends = b.appends
    BY DEF PageOK, Answers
  <2> QED BY <2>1, <2>2
<1>5. AnswersNotice
  BY <1>1, <1>3 DEF AnswersNotice
<1> QED BY <1>1, <1>2, <1>4, <1>5

LEMMA CreationKeepsPage ==
  ASSUME StoreOK, StreamOK, PageOK, PageInv, NEW k \in Jobs,
         CreateElsewhere(k) \/ CreateHere(k)
  PROVE  PageInv'
<1>1. StoreChange /\ status' = [status EXCEPT ![k] = "queued"]
  <2>1. (\E p \in Jobs \union {NoJob} : Creates(k, p)) \/ GenerateAgain(k)
    BY WorkbenchAssumption DEF CreateElsewhere, CreateHere, Creates
  <2> QED BY <2>1 DEF StoreChange, Creates, NewJob, GenerateAgain
<1>2. UNCHANGED <<streamVars, shown, asks>>
  BY DEF CreateElsewhere, CreateHere
<1>3. CASE CreateElsewhere(k)
  <2>1. SetBehindThePage(k, "queued")
    BY <1>3 DEF CreateElsewhere
  <2>2. (clean' => clean /\ NoticedBy(shown)) /\ AnswersNotice /\ SameAnswers
    BY <1>1, <2>1, BehindThePageIsNoticed
  <2> QED BY <1>1, <1>2, <2>2, StoreChangeKeepsPage
<1>4. CASE CreateHere(k)
  <2>1. known[k] = Absent /\ status[k] = Absent
    BY <1>4 DEF CreateHere, NewJob, PageInv, ConnOK, StoreOK, SourcesStand
  <2>2. ASSUME NEW v PROVE NoticedBy(v)
    <3>1. Noticed(v, k, "queued")
      BY <2>1, WorkbenchAssumption DEF Noticed
    <3> SUFFICES ASSUME NEW j \in Stored(status')
                 PROVE  \/ j \in Stored(status) /\ status'[j] = status[j]
                        \/ Noticed(v, j, status'[j])
      BY DEF NoticedBy
    <3>2. j \in Jobs /\ status'[j] # Absent
      BY DEF Stored
    <3>3. CASE j = k
      BY <1>1, <3>1, <3>2, <3>3 DEF StoreOK, Views
    <3>4. CASE j # k
      BY <1>1, <3>2, <3>4 DEF StoreOK, Views, Stored
    <3> QED BY <3>3, <3>4
  <2>3. PICK b \in BOOLEAN : answers' = answers \union {Answer(k, status', b)}
    BY <1>4 DEF CreateHere
  <2> DEFINE x == Answer(k, status', b)
  <2>4. x.view = status' /\ (x.valid => conn = "open") /\ answers' = answers \union {x}
    BY <2>3 DEF Answer
  <2> HIDE DEF x
  <2>5. AnswersNotice /\ SameAnswers
    BY <2>2, <2>4 DEF AnswersNotice, SameAnswers
  <2>6. clean' = clean
    BY <1>4 DEF CreateHere
  <2> QED BY <1>1, <1>2, <2>2, <2>5, <2>6, StoreChangeKeepsPage
<1> QED BY <1>3, <1>4

LEMMA MoveKeepsPage ==
  ASSUME StoreOK, StreamOK, PageOK, PageInv, NEW k \in Jobs, Move(k)
  PROVE  PageInv'
<1>1. StoreChange /\ UNCHANGED <<streamVars, shown, asks>>
  BY DEF Move, StoreChange
<1>2. PICK s \in Moves(status[k]) :
        status' = [status EXCEPT ![k] = s] /\ SetBehindThePage(k, s)
  BY DEF Move
<1>3. (clean' => clean /\ NoticedBy(shown)) /\ AnswersNotice /\ SameAnswers
  BY <1>2, BehindThePageIsNoticed
<1> QED BY <1>1, <1>3, StoreChangeKeepsPage

LEMMA ClearKeepsPage ==
  ASSUME StoreOK, StreamOK, PageOK, PageInv, ClearElsewhere
  PROVE  PageInv'
<1>1. StoreChange /\ UNCHANGED <<streamVars, shown, asks>> /\ answers' = answers /\ clean' = clean
  BY DEF ClearElsewhere, StoreChange, pageVars
<1>2. \A j \in Stored(status') : status'[j] = status[j] /\ j \in Stored(status)
  BY DEF ClearElsewhere, Cleared, Stored
<1>3. (\A v : NoticedBy(v)) /\ SameAnswers
  BY <1>1, <1>2 DEF NoticedBy, SameAnswers
<1>4. AnswersNotice
  BY <1>1, <1>3 DEF AnswersNotice
<1> QED BY <1>1, <1>3, <1>4, StoreChangeKeepsPage

\* On a new connection nothing is known of the store but what it is.
LEMMA ConnectKeepsPage ==
  ASSUME StoreOK, PageInv, Connect
  PROVE  PageInv'
<1>1. wire = <<>> /\ ~clean /\ \A a \in answers : ~a.valid
  BY DEF Connect, PageInv, ConnOK
<1>2. wire' = wire /\ answers' = answers /\ clean' = clean /\ parent' = parent /\ status' = status
      /\ known' = status /\ conn' = "open"
  BY DEF Connect, storeVars, pageVars
<1>3. ConnOK'
  BY <1>2 DEF ConnOK, StoreOK, SourcesStand
<1>4. WireOK'
  BY <1>1, <1>2 DEF WireOK
<1>5. AnswersOK'
  BY <1>1, <1>2 DEF AnswersOK, PageInv
<1>6. ShownOK'
  BY <1>1, <1>2 DEF ShownOK
<1> QED BY <1>3, <1>4, <1>5, <1>6 DEF PageInv

\* A lost connection leaves nothing under way that is trusted.
LEMMA BreakKeepsPage ==
  ASSUME PageOK, PageInv, Break
  PROVE  PageInv'
<1>1. wire' = <<>> /\ clean' = FALSE /\ answers' = Overtaken /\ conn' = "down"
      /\ known' = [j \in Jobs |-> Absent] /\ parent' = parent /\ status' = status
  BY DEF Break, storeVars
<1>2. \A a \in Overtaken : ~a.valid
  BY DEF Overtaken, PageOK, Answers
<1>3. ConnOK'
  BY <1>1, <1>2 DEF ConnOK, PageInv
<1>4. WireOK'
  BY <1>1 DEF WireOK
<1>5. AnswersOK'
  BY <1>1, <1>2 DEF AnswersOK, PageInv
<1>6. ShownOK'
  BY <1>1 DEF ShownOK
<1> QED BY <1>3, <1>4, <1>5, <1>6 DEF PageInv

\* Another request under way, and nothing else: more is being fetched.
LEMMA MoreAsksKeepFetching ==
  ASSUME PageOK, NEW r \in Jobs \union {All}, Asking(r), NEW j \in Jobs, Fetching(j),
         status' = status, parent' = parent, Root(j) \in Jobs,
         SameAnswers
  PROVE  Fetching(j)'
<1>1. Root(j)' = Root(j)
  BY DEF Root
<1>2. \A q \in Jobs \union {All} : asks[q] > 0 => asks'[q] > 0
  <2>1. asks' = [asks EXCEPT ![r] = asks[r] + 1] /\ asks[r] \in Nat
    BY DEF Asking, PageOK
  <2>2. asks[r] + 1 > 0
    BY <2>1
  <2> QED BY <2>1, <2>2 DEF PageOK
<1> QED BY <1>1, <1>2 DEF Fetching, SameAnswers

LEMMA ReloadKeepsPage ==
  ASSUME StoreOK, PageOK, PageInv, Reload
  PROVE  PageInv'
<1>1. /\ wire' = wire /\ clean' = clean /\ answers' = answers /\ conn' = conn
      /\ known' = known /\ parent' = parent /\ status' = status /\ shown' = shown
  BY DEF Reload, storeVars
<1>2. ConnOK' /\ WireOK' /\ AnswersOK'
  BY <1>1 DEF PageInv, ConnOK, WireOK, AnswersOK, Root
<1>3. \A j \in Stored(status) : j \in Jobs /\ Root(j) \in Jobs
  BY RootIsJob DEF Stored
<1>4. \A j \in Stored(status) : Fetching(j) => Fetching(j)'
  BY <1>1, <1>3, MoreAsksKeepFetching DEF Reload, SameAnswers
<1>5. ShownOK'
  BY <1>1, <1>4 DEF PageInv, ShownOK
<1> QED BY <1>2, <1>5 DEF PageInv

\* What a poll puts on the wire: behind what is on it, an event about every
\* version that changed, with its status and its result.
LEMMA PollAppends ==
  ASSUME StoreOK, StreamOK, Poll
  PROVE  /\ \A n \in DOMAIN wire : n \in DOMAIN wire' /\ wire'[n] = wire[n]
         /\ \A n \in DOMAIN wire' \ DOMAIN wire :
              \E j \in Stored(status) : /\ wire'[n] \in Changes
                                        /\ wire'[n].job = j
                                        /\ wire'[n].status = status[j]
                                        /\ wire'[n].result = Root(j)
         /\ \A n \in DOMAIN wire, m \in DOMAIN wire' \ DOMAIN wire : m > n
         /\ \A j \in Stored(status) : known[j] # status[j] =>
              \E n \in DOMAIN wire' \ DOMAIN wire :
                /\ wire'[n].job = j
                /\ known[j] = Absent => wire'[n].kind = "version_created"
<1> DEFINE q == SetToSeq(Changes)
<1>1. /\ q \in Seq(Changes) /\ q \in Seq(Events)
      /\ \A x \in Changes : \E i \in DOMAIN q : q[i] = x
  BY ChangesAreEvents, SequenceOfSet
<1>2. wire \in Seq(Events) /\ wire' = wire \o q
  BY DEF StreamOK, Poll
<1>3. \A x \in Changes : \E j \in Stored(status) : /\ x.job = j
                                                   /\ x.status = status[j]
                                                   /\ x.result = Root(j)
  BY DEF Changes, Event
<1>4. \A j \in Stored(status) : known[j] # status[j] =>
        \E x \in Changes : /\ x.job = j
                           /\ known[j] = Absent => x.kind = "version_created"
  <2> TAKE j \in Stored(status)
  <2> HAVE known[j] # status[j]
  <2> DEFINE x == Event(IF known[j] = Absent THEN "version_created" ELSE "version_updated", j)
  <2>1. x \in Changes
    BY DEF Changes
  <2>2. x.job = j /\ (known[j] = Absent => x.kind = "version_created")
    BY DEF Event
  <2> QED BY <2>1, <2>2
<1> HIDE DEF q
<1> DEFINE w == wire
<1> DEFINE z == w \o q
<1>5. /\ DOMAIN w = 1..Len(w) /\ Len(w) \in Nat
      /\ DOMAIN q = 1..Len(q) /\ Len(q) \in Nat
      /\ DOMAIN z = 1..(Len(w) + Len(q))
      /\ \A n \in DOMAIN w : z[n] = w[n]
      /\ \A i \in DOMAIN q : z[Len(w) + i] = q[i]
  BY <1>1, <1>2
<1>6. \A n \in DOMAIN w : n \in DOMAIN z
  BY <1>5
<1>7. \A n \in DOMAIN z \ DOMAIN w : z[n] \in Changes
  <2> TAKE n \in DOMAIN z \ DOMAIN w
  <2>1. n - Len(w) \in 1..Len(q) /\ n = Len(w) + (n - Len(w))
    BY <1>5
  <2>2. z[n] = q[n - Len(w)]
    BY <2>1, <1>5
  <2>3. q[n - Len(w)] \in Changes
    BY <1>1, <1>5, <2>1
  <2> QED BY <2>2, <2>3
<1>8. \A n \in DOMAIN w, m \in DOMAIN z \ DOMAIN w : m > n
  BY <1>5
<1>9. \A x \in Changes : \E n \in DOMAIN z \ DOMAIN w : z[n] = x
  <2> TAKE x \in Changes
  <2>1. PICK i \in DOMAIN q : q[i] = x
    BY <1>1
  <2>2. Len(w) + i \in DOMAIN z \ DOMAIN w
    BY <1>5
  <2> QED BY <2>1, <2>2, <1>5
<1>10. wire' = z
  BY <1>2
<1>11. \A j \in Stored(status) : known[j] # status[j] =>
         \E n \in DOMAIN z \ DOMAIN w :
           /\ z[n].job = j
           /\ known[j] = Absent => z[n].kind = "version_created"
  <2> HIDE DEF z, w
  <2> QED BY <1>4, <1>9
<1>12. \A n \in DOMAIN z \ DOMAIN w :
         \E j \in Stored(status) : /\ z[n] \in Changes
                                   /\ z[n].job = j
                                   /\ z[n].status = status[j]
                                   /\ z[n].result = Root(j)
  <2> HIDE DEF z, w
  <2> QED BY <1>3, <1>7
<1>13. \A n \in DOMAIN w : n \in DOMAIN z /\ z[n] = w[n]
  BY <1>5, <1>6
<1> HIDE DEF z
<1> QED BY <1>8, <1>10, <1>11, <1>12, <1>13

\* A poll leaves every view caught that was.
LEMMA PollKeepsCaught ==
  ASSUME StoreOK, StreamOK, Poll, NEW v, NEW j \in Stored(status),
         Caught(v, status, known, wire, j)
  PROVE  Caught(v, status, status, wire', j)
<1>1. Told(wire, j) => Told(wire', j)
  BY PollAppends DEF Told
<1>2. ToldCreated(wire, j) => ToldCreated(wire', j)
  BY PollAppends DEF ToldCreated
<1>3. known[j] # status[j] => Told(wire', j)
  BY PollAppends DEF Told
<1>4. known[j] = Absent => ToldCreated(wire', j)
  <2>1. status[j] # Absent
    BY DEF Stored
  <2> QED BY <2>1, PollAppends DEF ToldCreated
<1> QED BY <1>1, <1>2, <1>3, <1>4 DEF Caught

LEMMA PollKeepsPage ==
  ASSUME StoreOK, StreamOK, PageInv, Poll
  PROVE  PageInv'
<1>1. /\ known' = status /\ conn = "open" /\ conn' = conn
      /\ status' = status /\ parent' = parent
      /\ shown' = shown /\ asks' = asks /\ answers' = answers /\ clean' = clean
  BY DEF Poll, storeVars, pageVars
<1>2. ConnOK'
  BY <1>1 DEF ConnOK, StoreOK, SourcesStand
<1>3. ASSUME NEW n \in DOMAIN wire'
      PROVE  /\ parent[wire'[n].job] # Absent
             /\ wire'[n].job \in Stored(status) => wire'[n].result = Root(wire'[n].job)
             /\ parent[wire'[n].job] = NoJob => wire'[n].result = wire'[n].job
             /\ LastWord(wire', n) /\ status[wire'[n].job] # Absent
                  => wire'[n].status = status[wire'[n].job]
  <2>1. CASE n \in DOMAIN wire
    <3> DEFINE j == wire[n].job
    <3>1. wire'[n] = wire[n]
      BY <2>1, PollAppends
    <3>2. /\ parent[j] # Absent /\ (j \in Stored(status) => wire[n].result = Root(j))
          /\ parent[j] = NoJob => wire[n].result = j
      BY <2>1 DEF PageInv, WireOK
    <3>3. ASSUME LastWord(wire', n), status[j] # Absent
          PROVE  wire[n].status = status[j]
      <4>1. j \in Stored(status)
        <5>1. wire[n] \in Events
          BY <2>1 DEF StreamOK
        <5> QED BY <5>1, <3>3 DEF Events, Stored
      <4>2. known[j] = status[j]
        <5>1. SUFFICES ASSUME known[j] # status[j] PROVE FALSE
          OBVIOUS
        <5>2. PICK m \in DOMAIN wire' \ DOMAIN wire : wire'[m].job = j
          BY <4>1, <5>1, PollAppends
        <5>3. m > n
          BY <2>1, PollAppends
        <5> QED BY <3>1, <3>3, <5>2, <5>3 DEF LastWord
      <4>3. LastWord(wire, n)
        BY <2>1, <3>1, <3>3, PollAppends DEF LastWord
      <4> QED BY <2>1, <3>3, <4>2, <4>3 DEF PageInv, WireOK
    <3> QED BY <3>1, <3>2, <3>3
  <2>2. CASE n \notin DOMAIN wire
    <3>1. PICK j \in Stored(status) : /\ wire'[n].job = j
                                      /\ wire'[n].status = status[j]
                                      /\ wire'[n].result = Root(j)
      BY <1>3, <2>2, PollAppends
    <3>2. parent[j] # Absent
      BY DEF StoreOK, SourcesStand, Stored
    <3>3. parent[j] = NoJob => Root(j) = j
      BY GeneratedIsItsResult DEF Root
    <3> QED BY <3>1, <3>2, <3>3
  <2> QED BY <2>1, <2>2
<1>4. WireOK'
  <2>1. \A j : Root(j)' = Root(j)
    BY <1>1 DEF Root
  <2> QED BY <1>1, <1>3, <2>1 DEF WireOK, Root
<1>5. AnswersOK'
  BY <1>1, PollKeepsCaught DEF AnswersOK, PageInv
<1>6. \A j \in Stored(status) : Fetching(j) => Fetching(j)'
  BY <1>1 DEF Fetching, Root
<1>7. ShownOK'
  BY <1>1, <1>6, PollKeepsCaught DEF ShownOK, PageInv
<1> QED BY <1>2, <1>4, <1>5, <1>7 DEF PageInv

\* The wire without its head.
LEMMA WireTail ==
  ASSUME StreamOK, wire # <<>>, wire' = Tail(wire)
  PROVE  /\ 1 \in DOMAIN wire /\ Head(wire) = wire[1] /\ wire[1] \in Events
         /\ \A n \in DOMAIN wire' : n + 1 \in DOMAIN wire /\ wire'[n] = wire[n + 1]
         /\ \A n \in DOMAIN wire : n # 1 => n - 1 \in DOMAIN wire' /\ wire'[n - 1] = wire[n]
         /\ DOMAIN wire \subseteq Nat /\ DOMAIN wire' \subseteq Nat
<1> DEFINE w == wire
<1> DEFINE z == Tail(w)
<1>1. w \in Seq(Events) /\ w # <<>>
  BY DEF StreamOK
<1>2. wire' = z
  OBVIOUS
<1> HIDE DEF w
<1>3. Len(w) \in Nat /\ Len(w) > 0 /\ DOMAIN w = 1..Len(w)
  BY <1>1
<1>4. DOMAIN z = 1..(Len(w) - 1) /\ \A n \in 1..(Len(w) - 1) : z[n] = w[n + 1]
  BY <1>1, <1>3
<1>5. w[1] \in Events /\ Head(w) = w[1]
  BY <1>1, <1>3
<1> HIDE DEF z
<1>6. /\ 1 \in DOMAIN w
      /\ \A n \in DOMAIN z : n + 1 \in DOMAIN w /\ z[n] = w[n + 1]
      /\ DOMAIN w \subseteq Nat /\ DOMAIN z \subseteq Nat
  BY <1>3, <1>4
<1>7. \A n \in DOMAIN w : n # 1 => n - 1 \in DOMAIN z /\ z[n - 1] = w[n]
  <2> TAKE n \in DOMAIN w
  <2> HAVE n # 1
  <2>1. n \in Nat /\ n - 1 \in 1..(Len(w) - 1) /\ (n - 1) + 1 = n
    BY <1>3
  <2>2. z[n - 1] = w[(n - 1) + 1]
    BY <2>1, <1>4
  <2> QED BY <2>1, <2>2, <1>4
<1> QED BY <1>2, <1>5, <1>6, <1>7 DEF w

\* Handling an event keeps the wire in order, and drops what was said of the
\* version of that event only.
LEMMA HandlingKeepsWire ==
  ASSUME StreamOK, WireOK, wire # <<>>, wire' = Tail(wire),
         UNCHANGED <<status, parent, known>>
  PROVE  /\ WireOK'
         /\ \A j : j # Head(wire).job => /\ Told(wire, j) => Told(wire', j)
                                         /\ ToldCreated(wire, j) => ToldCreated(wire', j)
         /\ \A j : Head(wire).kind # "version_created" /\ ToldCreated(wire, j)
                     => ToldCreated(wire', j)
         /\ ~Told(wire', Head(wire).job) => LastWord(wire, 1)
<1>1. \A j : Root(j)' = Root(j)
  BY DEF Root
<1>2. ASSUME NEW n \in DOMAIN wire', LastWord(wire', n)
      PROVE  LastWord(wire, n + 1)
  <2> SUFFICES ASSUME NEW m \in DOMAIN wire, m > n + 1
               PROVE  wire[m].job # wire[n + 1].job
    BY DEF LastWord
  <2>1. m \in Nat /\ n \in Nat
    BY WireTail
  <2>2. m # 1 /\ m - 1 > n
    BY <2>1
  <2>3. m - 1 \in DOMAIN wire' /\ wire'[m - 1] = wire[m]
    BY <2>2, WireTail
  <2>4. wire'[n] = wire[n + 1]
    BY WireTail
  <2> QED BY <1>2, <2>2, <2>3, <2>4 DEF LastWord
<1>3. WireOK'
  <2> SUFFICES ASSUME NEW n \in DOMAIN wire'
               PROVE  /\ parent'[wire'[n].job] # Absent
                      /\ wire'[n].job \in Stored(status')
                           => wire'[n].result = RootJob(Stored(status'), parent', wire'[n].job)
                      /\ parent'[wire'[n].job] = NoJob => wire'[n].result = wire'[n].job
                      /\ LastWord(wire', n) /\ known'[wire'[n].job] # Absent
                           => wire'[n].status = known'[wire'[n].job]
    BY DEF WireOK, Root
  <2>1. n + 1 \in DOMAIN wire /\ wire'[n] = wire[n + 1]
    BY WireTail
  <2> QED BY <1>2, <2>1 DEF WireOK, Root
<1>4. ASSUME NEW j, NEW n \in DOMAIN wire, n # 1
      PROVE  \E m \in DOMAIN wire' : wire'[m] = wire[n]
  BY <1>4, WireTail
<1>5. Head(wire) = wire[1]
  BY WireTail
<1>6. \A j : j # Head(wire).job => /\ Told(wire, j) => Told(wire', j)
                                   /\ ToldCreated(wire, j) => ToldCreated(wire', j)
  BY <1>4, <1>5 DEF Told, ToldCreated
<1>7. \A j : Head(wire).kind # "version_created" /\ ToldCreated(wire, j)
               => ToldCreated(wire', j)
  BY <1>4, <1>5 DEF ToldCreated
<1>8. ~Told(wire', Head(wire).job) => LastWord(wire, 1)
  <2> SUFFICES ASSUME ~Told(wire', Head(wire).job), NEW m \in DOMAIN wire, m > 1
               PROVE  wire[m].job # wire[1].job
    BY DEF LastWord
  <2>1. m # 1
    BY WireTail
  <2> QED BY <1>4, <1>5, <2>1 DEF Told
<1> QED BY <1>3, <1>6, <1>7, <1>8

LEMMA OvertakenKeepsAnswers ==
  ASSUME PageOK, PageInv, answers' = Overtaken
  PROVE  AnswersOK' /\ SameAnswers
<1>1. \A a \in Overtaken : ~a.valid
  BY DEF Overtaken, PageOK, Answers
<1>2. \A a \in answers : \E b \in Overtaken : b.appends = a.appends /\ b.of = a.of
  <2> TAKE a \in answers
  <2>1. [a EXCEPT !.valid = FALSE] \in Overtaken
    BY DEF Overtaken
  <2> QED BY <2>1 DEF PageOK, Answers
<1> QED BY <1>1, <1>2 DEF AnswersOK, SameAnswers

LEMMA UpdateKeepsPage ==
  ASSUME StoreOK, StreamOK, PageOK, PageInv, HandleUpdate
  PROVE  PageInv'
<1>1. /\ wire # <<>> /\ wire' = Tail(wire) /\ Head(wire).kind # "version_created"
      /\ status' = status /\ parent' = parent /\ known' = known /\ conn' = conn
      /\ asks' = asks /\ clean' = clean /\ answers' = Overtaken
      /\ shown' = [shown EXCEPT ![Head(wire).job] =
                     IF @ = Absent THEN @ ELSE Head(wire).status]
  BY DEF HandleUpdate, storeVars
<1>2. ConnOK'
  <2>1. conn # "down"
    BY <1>1 DEF PageInv, ConnOK
  <2> QED BY <1>1, <2>1 DEF PageInv, ConnOK
<1>3. WireOK'
  BY <1>1, HandlingKeepsWire DEF PageInv
<1>4. AnswersOK'
  BY <1>1, OvertakenKeepsAnswers
<1>5. ASSUME NEW j \in Stored(status), Fetching(j) PROVE Fetching(j)'
  BY <1>1, <1>5, OvertakenKeepsAnswers DEF Fetching, Root, SameAnswers
<1>6. ASSUME NEW j \in Stored(status), Caught(shown, status, known, wire, j)
      PROVE  Caught(shown', status, known, wire', j)
  <2>1. j \in Jobs /\ shown \in Views
    BY DEF Stored, PageOK
  <2>2. CASE j # Head(wire).job
    <3>1. shown'[j] = shown[j]
      BY <1>1, <2>1, <2>2 DEF Views
    <3> QED BY <1>1, <1>6, <2>2, <3>1, HandlingKeepsWire DEF Caught, PageInv
  <2>3. CASE j = Head(wire).job /\ shown[j] = Absent
    <3>1. shown'[j] = Absent
      BY <1>1, <2>1, <2>3 DEF Views
    <3> QED BY <1>1, <1>6, <2>3, <3>1, HandlingKeepsWire DEF Caught, PageInv
  <2>4. CASE j = Head(wire).job /\ shown[j] # Absent
    <3>1. Head(wire) = wire[1] /\ 1 \in DOMAIN wire /\ wire[1].status \in Statuses
      BY <1>1, WireTail DEF Events
    <3>2. shown'[j] = wire[1].status /\ shown'[j] # Absent
      BY <1>1, <2>1, <2>4, <3>1, WorkbenchAssumption DEF Views
    <3>3. ~Told(wire', j) /\ known[j] # Absent => wire[1].status = known[j]
      BY <1>1, <2>4, <3>1, HandlingKeepsWire DEF PageInv, WireOK
    <3>4. status[j] # Absent
      BY DEF Stored
    <3> QED BY <3>2, <3>3, <3>4 DEF Caught
  <2> QED BY <2>2, <2>3, <2>4
<1>7. ShownOK'
  BY <1>1, <1>5, <1>6 DEF PageInv, ShownOK
<1> QED BY <1>2, <1>3, <1>4, <1>7 DEF PageInv

LEMMA CreationEventKeepsPage ==
  ASSUME StoreOK, StreamOK, PageOK, PageInv, HandleCreation
  PROVE  PageInv'
<1>1. /\ wire # <<>> /\ wire' = Tail(wire) /\ Asking(Head(wire).result)
      /\ status' = status /\ parent' = parent /\ known' = known /\ conn' = conn
      /\ shown' = shown /\ clean' = clean /\ answers' = Overtaken
  BY DEF HandleCreation, storeVars
<1>2. ConnOK'
  <2>1. conn # "down"
    BY <1>1 DEF PageInv, ConnOK
  <2> QED BY <1>1, <2>1 DEF PageInv, ConnOK
<1>3. WireOK'
  BY <1>1, HandlingKeepsWire DEF PageInv
<1>4. AnswersOK'
  BY <1>1, OvertakenKeepsAnswers
<1>5. Head(wire) = wire[1] /\ 1 \in DOMAIN wire /\ wire[1].result \in Jobs
  BY <1>1, WireTail DEF Events
<1>6. \A j \in Stored(status) : j \in Jobs /\ Root(j) \in Jobs
  BY RootIsJob DEF Stored
<1>7. ASSUME NEW j \in Stored(status), Fetching(j) PROVE Fetching(j)'
  BY <1>1, <1>5, <1>6, <1>7, OvertakenKeepsAnswers, MoreAsksKeepFetching
<1>8. ASSUME NEW j \in Stored(status), Caught(shown, status, known, wire, j)
      PROVE  Caught(shown', status, known, wire', j) \/ Fetching(j)'
  <2>1. CASE j # Head(wire).job
    BY <1>1, <1>8, <2>1, HandlingKeepsWire DEF Caught, PageInv
  <2>2. CASE j = Head(wire).job
    <3>1. wire[1].result = Root(j) /\ Root(j)' = Root(j)
      BY <1>1, <1>5, <2>2 DEF PageInv, WireOK, Root
    <3>2. asks'[Root(j)] > 0
      <4>1. Root(j) \in Jobs \union {All} /\ asks[Root(j)] \in Nat
        BY <1>6 DEF PageOK
      <4>2. asks' = [asks EXCEPT ![Root(j)] = asks[Root(j)] + 1]
        BY <1>1, <1>5, <3>1 DEF Asking
      <4>3. asks'[Root(j)] = asks[Root(j)] + 1
        BY <4>1, <4>2 DEF PageOK
      <4> QED BY <4>1, <4>3
    <3> QED BY <3>1, <3>2 DEF Fetching
  <2> QED BY <2>1, <2>2
<1>9. ShownOK'
  BY <1>1, <1>7, <1>8 DEF PageInv, ShownOK
<1> QED BY <1>2, <1>3, <1>4, <1>9 DEF PageInv

\* What the page takes for a result has every version of it.
LEMMA RootAmongAll ==
  ASSUME StoreOK, NEW j \in Stored(status)
  PROVE  ResultOf(j) = Root(j)
<1> DEFINE J == Stored(status)
<1>1. J \subseteq Jobs /\ Acyclic(J, parent)
  BY StoreIsOrdered
<1>2. \A i \in Lineage(J, parent, j) :
        i \in Jobs /\ (parent[i] \in J <=> parent[i] \in Jobs)
  <2>1. \A i \in Jobs : parent[i] \in Jobs => parent[i] \in J
    BY WorkbenchAssumption DEF StoreOK, SourcesStand, CanUpscale, Stored
  <2>2. Lineage(J, parent, j) \subseteq J
    BY LineageIsClosed
  <2> HIDE DEF J
  <2> QED BY <1>1, <2>1, <2>2
<1> HIDE DEF J
<1>3. RootJob(Jobs, parent, j) = RootJob(J, parent, j)
  BY <1>1, <1>2, RootIsKept DEF J
<1> QED BY <1>3 DEF Root, ResultOf, J

LEMMA ServeKeepsPage ==
  ASSUME StoreOK, PageOK, PageInv, NEW r \in Jobs \union {All}, Serve(r)
  PROVE  PageInv'
<1> DEFINE x == Answer(r, status, FALSE)
<1>1. /\ status' = status /\ parent' = parent /\ known' = known /\ conn' = conn
      /\ wire' = wire /\ shown' = shown /\ clean' = clean
  BY DEF Serve, storeVars, streamVars
<1>2. \/ /\ answers' = answers \union {x}
         /\ asks' = [asks EXCEPT ![r] = asks[r] - 1]
      \/ /\ answers' = answers /\ r # All /\ InResult(r) = {}
         /\ asks' = [asks EXCEPT ![r] = asks[r] - 1, ![All] = asks[All] + 1]
  BY DEF Serve
<1>3. x.of = r /\ x.view = status /\ x.appends = FALSE /\ (x.valid <=> conn = "open")
  BY DEF Answer
<1>4. answers \subseteq answers' /\ answers' \subseteq answers \union {x}
  BY <1>2
<1> HIDE DEF x
<1>5. ConnOK'
  BY <1>1, <1>3, <1>4 DEF PageInv, ConnOK
<1>6. WireOK'
  BY <1>1 DEF PageInv, WireOK, Root
<1>7. AnswersOK'
  <2>1. \A j \in Stored(status) : Caught(status, status, known, wire, j)
    BY DEF Caught, Stored
  <2> QED BY <1>1, <1>3, <1>4, <2>1 DEF PageInv, AnswersOK
<1>8. asks \in [Jobs \union {All} -> Nat] /\ asks[r] - 1 \in Int /\ asks[All] + 1 > 0
  BY DEF PageOK
<1>9. \A q \in Jobs \union {All} : q # r /\ asks[q] > 0 => asks'[q] > 0
  <2> TAKE q \in Jobs \union {All}
  <2> HAVE q # r /\ asks[q] > 0
  <2>1. CASE asks' = [asks EXCEPT ![r] = asks[r] - 1]
    BY <2>1, <1>8
  <2>2. CASE asks' = [asks EXCEPT ![r] = asks[r] - 1, ![All] = asks[All] + 1]
    BY <2>2, <1>8
  <2> QED BY <1>2, <2>1, <2>2
<1>10. ASSUME NEW j \in Stored(status), Fetching(j) PROVE Fetching(j)'
  <2>1. Root(j)' = Root(j) /\ Root(j) \in Jobs /\ j \in Jobs
    BY <1>1, RootIsJob DEF Root, Stored
  <2>2. CASE \E a \in answers : a.of = All \/ (~a.appends /\ a.of = Root(j))
    BY <2>1, <2>2, <1>4 DEF Fetching
  <2>3. CASE \E q \in {All, Root(j)} : q # r /\ asks[q] > 0
    BY <2>1, <2>3, <1>9 DEF Fetching
  <2>4. CASE r \in {All, Root(j)}
    <3>1. CASE answers' = answers \union {x}
      BY <2>1, <2>4, <3>1, <1>3 DEF Fetching
    <3>2. CASE InResult(r) = {} /\ r # All
      <4>1. j \in InResult(Root(j))
        BY DEF InResult, Group, Root
      <4> QED BY <2>4, <3>2, <4>1
    <3> QED BY <1>2, <3>1, <3>2
  <2> QED BY <1>10, <2>2, <2>3, <2>4 DEF Fetching
<1>11. ShownOK'
  BY <1>1, <1>10 DEF PageInv, ShownOK
<1> QED BY <1>5, <1>6, <1>7, <1>11 DEF PageInv

\* A page that stays clean took over a view that is caught, and every version
\* that the answer was fetched for.
LEMMA ReceiveKeepsPage ==
  ASSUME StoreOK, PageOK, PageInv, NEW a \in answers, Receive(a)
  PROVE  PageInv'
<1>1. /\ status' = status /\ parent' = parent /\ known' = known /\ conn' = conn
      /\ wire' = wire /\ asks' = asks /\ answers' = answers \ {a}
      /\ shown' = Applied(a) /\ (clean' => a.valid /\ (clean \/ a.of = All))
  BY DEF Receive, storeVars, streamVars
<1>2. ConnOK'
  BY <1>1 DEF PageInv, ConnOK
<1>3. WireOK'
  BY <1>1 DEF PageInv, WireOK, Root
<1>4. AnswersOK'
  BY <1>1 DEF PageInv, AnswersOK
<1>5. ASSUME clean', NEW j \in Stored(status)
      PROVE  Caught(shown', status, known, wire, j) \/ Fetching(j)'
  <2>1. Caught(a.view, status, known, wire, j) /\ j \in Jobs
    BY <1>1, <1>5 DEF PageInv, AnswersOK, Stored
  <2>2. \/ shown'[j] = a.view[j]
        \/ /\ shown'[j] = shown[j] /\ a.of # All
           /\ a.appends \/ a.of # Root(j)
    <3>1. shown'[j] = IF Sets(a, j) THEN a.view[j] ELSE shown[j]
      BY <1>1, <2>1 DEF Applied
    <3> QED BY <3>1, RootAmongAll DEF Sets
  <2>3. CASE shown'[j] = a.view[j]
    BY <2>1, <2>3 DEF Caught
  <2>4. CASE /\ shown'[j] = shown[j] /\ a.of # All
             /\ a.appends \/ a.of # Root(j)
    <3>1. clean
      BY <1>1, <1>5, <2>4
    <3>2. CASE Caught(shown, status, known, wire, j)
      BY <2>4, <3>2 DEF Caught
    <3>3. CASE Fetching(j)
      BY <1>1, <2>4, <3>3 DEF Fetching, Root
    <3> QED BY <3>1, <3>2, <3>3 DEF PageInv, ShownOK
  <2> QED BY <2>2, <2>3, <2>4
<1>6. ShownOK'
  BY <1>1, <1>5 DEF ShownOK
<1> QED BY <1>2, <1>3, <1>4, <1>6 DEF PageInv

LEMMA InitPage == Init => PageInv
<1> SUFFICES ASSUME Init PROVE PageInv
  OBVIOUS
<1>1. ConnOK
  BY DEF Init, ConnOK
<1>2. WireOK /\ AnswersOK /\ ShownOK
  BY DEF Init, WireOK, AnswersOK, ShownOK
<1> QED BY <1>1, <1>2 DEF PageInv

LEMMA PageInductive == WorkbenchTypeOK /\ PageInv /\ [Next]_vars => PageInv'
<1> SUFFICES ASSUME WorkbenchTypeOK, PageInv, [Next]_vars PROVE PageInv'
  OBVIOUS
<1>0. StoreOK /\ StreamOK /\ PageOK
  BY TypeParts
<1>1. CASE UNCHANGED vars
  BY <1>1 DEF vars, storeVars, streamVars, pageVars, PageInv, ConnOK, WireOK, AnswersOK,
              ShownOK, Fetching, Root
<1>2. ASSUME NEW j \in Jobs, CreateElsewhere(j) \/ CreateHere(j) PROVE PageInv'
  BY <1>0, <1>2, CreationKeepsPage
<1>3. ASSUME NEW j \in Jobs, Move(j) PROVE PageInv'
  BY <1>0, <1>3, MoveKeepsPage
<1>4. CASE ClearElsewhere
  BY <1>0, <1>4, ClearKeepsPage
<1>5. CASE Connect
  BY <1>0, <1>5, ConnectKeepsPage
<1>6. CASE Poll
  BY <1>0, <1>6, PollKeepsPage
<1>7. CASE Break
  BY <1>0, <1>7, BreakKeepsPage
<1>8. CASE Reload
  BY <1>0, <1>8, ReloadKeepsPage
<1>9. CASE HandleEvent
  BY <1>0, <1>9, UpdateKeepsPage, CreationEventKeepsPage DEF HandleEvent
<1>10. CASE ServeAny
  BY <1>0, <1>10, ServeKeepsPage DEF ServeAny
<1>11. CASE ReceiveAny
  BY <1>0, <1>11, ReceiveKeepsPage DEF ReceiveAny
<1> QED BY <1>1, <1>2, <1>3, <1>4, <1>5, <1>6, <1>7, <1>8, <1>9, <1>10, <1>11 DEF Next

\* However requests, answers, events, polls and changes of the store interleave,
\* a clean page with nothing on its way to it shows the status of every version.
THEOREM CleanPageIsRight == Spec => []QuietPageAgrees
<1>1. Init => PageInv
  BY InitPage
<1>2. WorkbenchTypeOK /\ PageInv /\ [Next]_vars => PageInv'
  BY PageInductive
<1>3. WorkbenchTypeOK /\ PageInv => QuietPageAgrees
  <2> SUFFICES ASSUME WorkbenchTypeOK, PageInv, clean, Quiet, NEW j \in Stored(status)
               PROVE  shown[j] = status[j]
    BY DEF QuietPageAgrees, Agrees
  <2>1. StoreOK /\ PageOK
    BY TypeParts
  <2>2. ~Fetching(j)
    <3>1. Root(j) \in Jobs \union {All} /\ All \in Jobs \union {All}
      BY <2>1, RootIsJob
    <3>2. asks[Root(j)] = 0 /\ asks[All] = 0 /\ answers = {}
      BY <2>1, <3>1 DEF Quiet, PageOK
    <3> QED BY <3>2 DEF Fetching
  <2>3. Caught(shown, status, known, wire, j)
    BY <2>2 DEF PageInv, ShownOK
  <2>4. ~Told(wire, j) /\ ~ToldCreated(wire, j) /\ known[j] = status[j] /\ status[j] # Absent
    BY DEF Quiet, Told, ToldCreated, Stored
  <2> QED BY <2>3, <2>4 DEF Caught
<1> QED BY <1>1, <1>2, <1>3, WorkbenchTypeCorrect, PTL DEF Spec
==============================================================================
