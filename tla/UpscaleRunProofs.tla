--------------------------- MODULE UpscaleRunProofs ---------------------------
(***************************************************************************)
(* Theorems about UpscaleRun, for any number of jobs, sources, payloads    *)
(* and workers and any bounds: the types, and that a run which was alone   *)
(* and whose process wrote its file ends with that file.                   *)
(*                                                                         *)
(* The invariant follows the file of a run through the directory.  What    *)
(* threatens it is another process that opens the same name, a search that *)
(* takes another's file, and a move onto a name that is in use; a run that *)
(* was alone meets none of them (OwnFile, FoundIsOwn), and a final name is *)
(* in the directory only when its job is over (DirectoryOK).               *)
(***************************************************************************)
EXTENDS UpscaleRun, SequenceTheorems, TLAPS

\* The models the API accepts, and the one it renames a queued job to.
Models == Backends \union {"seedvr2"}

Parameters ==
  [source : Sources, model : Models, scale : Nat, width : Arguments, height : Arguments]

FileNames ==
  [kind : {"video", "final", "output.mp4", "out", "seedvr2"},
   of : Sources \union Jobs \union {None}]

Entries ==
  [name : FileNames, source : Sources, by : Jobs \union {None}, whole : BOOLEAN]

DistinctNames(dir) ==
  \A i, k \in DOMAIN dir : dir[i].name = dir[k].name => i = k

\* Where the run looks after its process or searches for the output.
Watching == {"polling", "waiting", "collecting", "replacing"}

ParametersOK ==
  /\ record \in [Jobs -> Parameters \union {None}]
  /\ used \in [Jobs -> Parameters \union {None}]
  /\ renaming \in [Jobs -> BOOLEAN]
  /\ crowded \in [Jobs -> BOOLEAN]
  /\ \A j \in Jobs :
       /\ pc[j] # "absent" => record[j] \in Parameters
       /\ renaming[j] => pc[j] # "absent"
       /\ pc[j] = "checking" \/ proc[j] # "none" => used[j] \in Parameters
       /\ proc[j] # "none" => used[j].model \in Backends

\* The place of a run and the state of its process.
ProcessOK ==
  \A j \in Jobs :
    /\ pc[j] \in {"absent", "queued", "checking"} => proc[j] = "none"
    /\ pc[j] \in Watching => proc[j] # "none"
    /\ pc[j] \in {"collecting", "replacing"} => proc[j] = "exited"
    /\ proc[j] = "none" => wrote[j] = "nothing"
    /\ proc[j] = "exited" => wrote[j] # "part"
    /\ pc[j] # "ended" => outcome[j] = None

\* A job has at most one file, and its final name only when it is over.
DirectoryOK ==
  /\ directory \in Seq(Entries)
  /\ DistinctNames(directory)
  /\ \A j \in Jobs : Final(j) \in Names(directory) => pc[j] = "ended"
  /\ \A e, f \in Range(directory) : e.by = f.by /\ e.by \in Jobs => e = f
  /\ \A e \in Range(directory) : e.by \in Jobs => wrote[e.by] # "nothing"

Alone(j) == pc[j] \in Watching /\ ~crowded[j]

NobodyElse == \A i, j \in Jobs : Alone(j) /\ i \in Active => i = j

\* What the process of a run that is alone wrote is where it wrote it.
OwnFile ==
  \A j \in Jobs : Alone(j) /\ wrote[j] # "nothing" =>
     Entry(Writes(j), used[j].source, j, wrote[j] = "all") \in Range(directory)

FoundIsOwn ==
  /\ found = [j \in Jobs |-> found[j]]
  /\ \A j \in Jobs :
       /\ pc[j] = "replacing" /\ ~crowded[j]
       /\ wrote[j] = "all" /\ used[j].model # "seedvr2-3b"
       => found[j] = Writes(j)

UpscaleInv ==
  /\ UpscaleTypeOK
  /\ ParametersOK /\ ProcessOK /\ DirectoryOK
  /\ NobodyElse /\ OwnFile /\ FoundIsOwn

-----------------------------------------------------------------------------
(* Directories.                                                            *)

\* A name is one file's.
LEMMA OneOfAName ==
  ASSUME NEW D, DistinctNames(D), NEW e \in Range(D), NEW f \in Range(D),
         e.name = f.name
  PROVE  e = f
BY DEF DistinctNames, Range

\* A directory without its i-th file.
LEMMA RemoveAtProperties ==
  ASSUME NEW D \in Seq(Entries), DistinctNames(D), NEW i \in DOMAIN D
  PROVE  /\ RemoveAt(D, i) \in Seq(Entries)
         /\ DistinctNames(RemoveAt(D, i))
         /\ Range(RemoveAt(D, i)) = Range(D) \ {D[i]}
<1> DEFINE L == SubSeq(D, 1, i - 1)
           R == SubSeq(D, i + 1, Len(D))
           C == RemoveAt(D, i)
<1>1. /\ Len(D) \in Nat /\ DOMAIN D = 1..Len(D) /\ i \in 1..Len(D)
      /\ \A k \in 1..Len(D) : D[k] \in Entries
  OBVIOUS
<1>2. /\ L \in Seq(Entries) /\ Len(L) = i - 1
      /\ \A k \in 1..(i - 1) : L[k] = D[k]
  <2>1. \A k \in 1..(i - 1) : D[k] \in Entries
    BY <1>1
  <2>2. /\ L \in Seq(Entries) /\ Len(L) = IF 1 <= i - 1 THEN i - 1 - 1 + 1 ELSE 0
        /\ \A k \in 1..(i - 1 - 1 + 1) : L[k] = D[1 + k - 1]
    BY <1>1, <2>1, SubSeqProperties
  <2> HIDE DEF L
  <2>3. Len(L) = i - 1
    BY <1>1, <2>2
  <2>4. ASSUME NEW k \in 1..(i - 1) PROVE L[k] = D[k]
    <3>1. k \in 1..(i - 1 - 1 + 1) /\ 1 + k - 1 = k
      BY <1>1
    <3> QED BY <2>2, <3>1
  <2> QED BY <2>2, <2>3, <2>4
<1>3. /\ R \in Seq(Entries) /\ Len(R) = Len(D) - i
      /\ \A k \in 1..(Len(D) - i) : R[k] = D[i + k]
  <2>1. \A k \in (i + 1)..Len(D) : D[k] \in Entries
    BY <1>1
  <2>2. /\ R \in Seq(Entries)
        /\ Len(R) = IF i + 1 <= Len(D) THEN Len(D) - (i + 1) + 1 ELSE 0
        /\ \A k \in 1..(Len(D) - (i + 1) + 1) : R[k] = D[(i + 1) + k - 1]
    BY <1>1, <2>1, SubSeqProperties
  <2> HIDE DEF R
  <2>3. Len(R) = Len(D) - i
    BY <1>1, <2>2
  <2>4. ASSUME NEW k \in 1..(Len(D) - i) PROVE R[k] = D[i + k]
    <3>1. k \in 1..(Len(D) - (i + 1) + 1) /\ (i + 1) + k - 1 = i + k
      BY <1>1
    <3> QED BY <2>2, <3>1
  <2> QED BY <2>2, <2>3, <2>4
<1>4. /\ C \in Seq(Entries) /\ Len(C) = Len(L) + Len(R)
      /\ \A k \in 1..(Len(L) + Len(R)) :
            C[k] = IF k <= Len(L) THEN L[k] ELSE R[k - Len(L)]
  BY <1>2, <1>3, ConcatProperties DEF RemoveAt
<1>5. /\ DOMAIN C = 1..(Len(D) - 1)
      /\ \A k \in 1..(Len(D) - 1) : C[k] = IF k < i THEN D[k] ELSE D[k + 1]
  <2> HIDE DEF L, R, C
  <2>1. Len(C) = Len(D) - 1
    BY <1>1, <1>2, <1>3, <1>4
  <2>2. ASSUME NEW k \in 1..(Len(D) - 1)
        PROVE  C[k] = IF k < i THEN D[k] ELSE D[k + 1]
    <3>1. CASE k < i
      BY <3>1, <1>1, <1>2, <1>3, <1>4
    <3>2. CASE k >= i
      <4>1. C[k] = R[k - Len(L)] /\ k - Len(L) \in 1..(Len(D) - i)
        BY <3>2, <1>1, <1>2, <1>3, <1>4
      <4>2. R[k - Len(L)] = D[i + (k - Len(L))]
        BY <4>1, <1>3
      <4>3. i + (k - Len(L)) = k + 1
        BY <1>1, <1>2
      <4> QED BY <3>2, <4>1, <4>2, <4>3, <1>1
    <3> QED BY <3>1, <3>2, <1>1
  <2> QED BY <2>1, <2>2, <1>4
<1> HIDE DEF L, R, C
<1>6. DistinctNames(C)
  BY <1>1, <1>5 DEF DistinctNames
<1>7. Range(C) = Range(D) \ {D[i]}
  <2>1. \A k \in DOMAIN C : C[k] \in Range(D) /\ C[k] # D[i]
    BY <1>1, <1>5 DEF DistinctNames, Range
  <2>2. ASSUME NEW k \in DOMAIN D, k # i PROVE D[k] \in Range(C)
    <3>1. CASE k < i
      BY <3>1, <1>1, <1>5 DEF Range
    <3>2. CASE k > i
      <4>1. k - 1 \in DOMAIN C /\ C[k - 1] = D[k]
        BY <3>2, <1>1, <1>5
      <4> QED BY <4>1 DEF Range
    <3> QED BY <2>2, <3>1, <3>2, <1>1
  <2> QED BY <2>1, <2>2 DEF Range
<1> QED BY <1>4, <1>6, <1>7 DEF C

\* A directory with a new file.
LEMMA AppendedProperties ==
  ASSUME NEW D \in Seq(Entries), DistinctNames(D),
         NEW e \in Entries, e.name \notin Names(D)
  PROVE  /\ Append(D, e) \in Seq(Entries)
         /\ DistinctNames(Append(D, e))
         /\ Range(Append(D, e)) = Range(D) \union {e}
<1> DEFINE A == Append(D, e)
<1>1. /\ A \in Seq(Entries) /\ Len(A) = Len(D) + 1
      /\ \A i \in 1..Len(D) : A[i] = D[i]
      /\ A[Len(D) + 1] = e
  BY AppendProperties
<1>2. Len(D) \in Nat /\ DOMAIN D = 1..Len(D) /\ DOMAIN A = 1..(Len(D) + 1)
  BY <1>1
<1>3. \A i \in 1..Len(D) : D[i].name # e.name
  BY <1>2 DEF Names, Range
<1> HIDE DEF A
<1>4. DistinctNames(A)
  BY <1>1, <1>2, <1>3 DEF DistinctNames
<1>5. Range(A) = Range(D) \union {e}
  <2>1. \A i \in DOMAIN A : A[i] \in Range(D) \union {e}
    BY <1>1, <1>2 DEF Range
  <2>2. Range(D) \subseteq Range(A) /\ e \in Range(A)
    BY <1>1, <1>2 DEF Range
  <2> QED BY <2>1, <2>2 DEF Range
<1> QED BY <1>1, <1>4, <1>5 DEF A

\* A directory in which a name is free.
LEMMA WithoutProperties ==
  ASSUME NEW D \in Seq(Entries), DistinctNames(D), NEW n
  PROVE  /\ Without(D, n) \in Seq(Entries)
         /\ DistinctNames(Without(D, n))
         /\ Range(Without(D, n)) = {e \in Range(D) : e.name # n}
<1>1. CASE n \in Names(D)
  <2> DEFINE i == CHOOSE i \in DOMAIN D : D[i].name = n
  <2>1. i \in DOMAIN D /\ D[i].name = n
    BY <1>1 DEF Names, Range
  <2>2. Without(D, n) = RemoveAt(D, i)
    BY <1>1 DEF Without
  <2> HIDE DEF i
  <2>3. Range(D) \ {D[i]} = {e \in Range(D) : e.name # n}
    <3>1. D[i] \in Range(D)
      BY <2>1 DEF Range
    <3> QED BY <2>1, <3>1, OneOfAName
  <2> QED BY <2>1, <2>2, <2>3, RemoveAtProperties
<1>2. CASE n \notin Names(D)
  BY <1>2 DEF Without, Names
<1> QED BY <1>1, <1>2

\* The file e after the move.
Moved(e, from, to) == IF e.name = from THEN [e EXCEPT !.name = to] ELSE e

\* A directory in which a file was moved to a free name.
LEMMA RenamedProperties ==
  ASSUME NEW D \in Seq(Entries), DistinctNames(D),
         NEW from, NEW to \in FileNames, to \notin Names(D)
  PROVE  /\ Renamed(D, from, to) \in Seq(Entries)
         /\ DistinctNames(Renamed(D, from, to))
         /\ Range(Renamed(D, from, to)) = {Moved(e, from, to) : e \in Range(D)}
<1> DEFINE A == Renamed(D, from, to)
<1>1. Len(D) \in Nat /\ DOMAIN D = 1..Len(D) /\ \A i \in 1..Len(D) : D[i] \in Entries
  OBVIOUS
<1>2. DOMAIN A = DOMAIN D /\ \A i \in DOMAIN D : A[i] = Moved(D[i], from, to)
  BY DEF Renamed, Moved
<1>3. ASSUME NEW i \in DOMAIN D
      PROVE  A[i] \in Entries /\ A[i].name = IF D[i].name = from THEN to ELSE D[i].name
  <2>1. D[i] \in Entries
    BY <1>1
  <2> QED BY <1>2, <2>1 DEF Moved, Entries
<1>4. A \in Seq(Entries)
  <2>1. A = [i \in 1..Len(D) |-> A[i]]
    BY <1>1 DEF Renamed
  <2> HIDE DEF A
  <2> QED BY <1>1, <1>3, <2>1
<1>5. \A i \in DOMAIN D : D[i].name # to
  BY DEF Names, Range
<1> HIDE DEF A
<1>6. DistinctNames(A)
  BY <1>2, <1>3, <1>5 DEF DistinctNames
<1>7. Range(A) = {Moved(e, from, to) : e \in Range(D)}
  BY <1>2 DEF Range
<1> QED BY <1>4, <1>6, <1>7 DEF A

-----------------------------------------------------------------------------
(* Types.                                                                  *)

\* What the API stores of an accepted request.
LEMMA ResolvedParameters ==
  ASSUME NEW p \in Payloads, Accepts(p)
  PROVE  Resolved(p) \in Parameters /\ Resolved(p).source = p.source
<1> DEFINE b == RuntimeModel(p)
           size == Size[p.source]
           n == ResolvedScale(p, b, size)
<1>1. /\ p.source \in Sources
      /\ p.scale \in Arguments /\ p.width \in Arguments /\ p.height \in Arguments
      /\ size.width \in Nat \ {0} /\ size.height \in Nat \ {0}
  BY UpscaleAssumption
<1>2. b \in Models
  BY DEF Accepts, Models
<1>3. n \in Nat
  <2>1. \A a, c \in Nat : c # 0 => a \div c \in Nat
    OBVIOUS
  <2> QED BY <1>1, <2>1 DEF ResolvedScale, Default, Given, Arguments
<1> HIDE DEF b, n, size
<1>4. size.width * n \in Nat /\ size.height * n \in Nat
  BY <1>1, <1>3
<1> QED BY <1>1, <1>2, <1>3, <1>4 DEF Resolved, Parameters, Arguments, b, n, size

LEMMA InitUpscaleInv == Init => UpscaleInv
<1> SUFFICES ASSUME Init PROVE UpscaleInv
  OBVIOUS
<1>1. directory = <<>> /\ Range(directory) = {} /\ Names(directory) = {}
  BY DEF Init, Range, Names
<1>2. UpscaleTypeOK
  BY <1>1, UpscaleAssumption DEF Init, UpscaleTypeOK
<1>3. ParametersOK
  BY DEF Init, ParametersOK
<1>4. ProcessOK
  BY DEF Init, ProcessOK, Watching
<1>5. DirectoryOK
  BY <1>1 DEF DirectoryOK, DistinctNames
<1>6. NobodyElse /\ OwnFile /\ FoundIsOwn
  BY DEF Init, NobodyElse, OwnFile, FoundIsOwn, Alone, Watching
<1> QED BY <1>2, <1>3, <1>4, <1>5, <1>6 DEF UpscaleInv

\* The types of what a step does to a run, its process and its place.
RunTypes ==
  /\ pc \in [Jobs -> {"absent", "queued", "ended"} \union Running]
  /\ outcome \in [Jobs -> Outcomes \union {None}]
  /\ proc \in [Jobs -> {"none", "running", "killed", "exited", "error"}]
  /\ wrote \in [Jobs -> {"nothing", "part", "all"}]
  /\ \A j \in Jobs : proc[j] = "running" =>
       pc[j] \in {"polling", "waiting"} \/ outcome[j] = "probe_error"
  /\ faults \in 0..MaxFaults

LEMMA RunTypesStay == UpscaleInv /\ [Next]_vars => RunTypes'
<1> SUFFICES ASSUME UpscaleInv, [Next]_vars PROVE RunTypes'
  OBVIOUS
<1>1. RunTypes /\ ProcessOK /\ MaxFaults \in Nat
  BY UpscaleAssumption DEF UpscaleInv, UpscaleTypeOK, RunTypes
<1> USE DEF RunTypes, ProcessOK, Running, Outcomes, Watching
<1>2. CASE \E s \in Sources : Generate(s)
  BY <1>1, <1>2 DEF Generate, requestVars, runVars, procVars
<1>3. ASSUME NEW j \in Jobs, NEW p \in Payloads, RequestUpscale(j, p)
      PROVE  RunTypes'
  BY <1>1, <1>3 DEF RequestUpscale, procVars
<1>4. ASSUME NEW j \in Jobs, RenameModel(j) \/ AskStop(j) PROVE RunTypes'
  BY <1>1, <1>4 DEF RenameModel, AskStop, requestVars, runVars, procVars
<1>5. ASSUME NEW j \in Jobs, StartRun(j) \/ Launch(j) PROVE RunTypes'
  BY <1>1, <1>5 DEF StartRun, Launch, requestVars, procVars
<1>6. ASSUME NEW j \in Jobs, Refuse(j) \/ Stop(j) \/ TimeOut(j) \/ ProbeRaises(j)
      PROVE  RunTypes'
  BY <1>1, <1>6 DEF Refuse, Stop, TimeOut, ProbeRaises, Ends, Killed, requestVars
<1>7. ASSUME NEW j \in Jobs, Wait(j) \/ Communicate(j) PROVE RunTypes'
  BY <1>1, <1>7 DEF Wait, Communicate, Ends, Goes, requestVars
<1>8. ASSUME NEW j \in Jobs, Collect(j) \/ Replace(j) PROVE RunTypes'
  BY <1>1, <1>8 DEF Collect, Replace, Ends, requestVars
<1>9. ASSUME NEW j \in Jobs, ProcOpens(j) \/ ProcCloses(j) \/ ProcExits(j) \/ ProcFails(j)
      PROVE  RunTypes'
  <2>1. CASE ProcOpens(j) \/ ProcCloses(j) \/ ProcExits(j)
    BY <1>1, <2>1 DEF ProcOpens, ProcCloses, ProcExits, runVars
  <2>2. CASE ProcFails(j)
    BY <1>1, <2>2 DEF ProcFails, runVars
  <2> QED BY <1>9, <2>1, <2>2
<1>10. CASE UNCHANGED vars
  BY <1>1, <1>10 DEF vars, requestVars, runVars, procVars
<1> QED
  BY <1>2, <1>3, <1>4, <1>5, <1>6, <1>7, <1>8, <1>9, <1>10 DEF Next, RunStep

\* The record of a job whose model was renamed.
LEMMA RenamedParameters ==
  ASSUME NEW u \in Parameters
  PROVE  [u EXCEPT !.model = "seedvr2"] \in Parameters
BY DEF Parameters, Models

\* A run that goes on or ends keeps its parameters.
LEMMA RunMovesOn ==
  ASSUME ParametersOK, ProcessOK, RunTypes, NEW j \in Jobs,
         pc[j] \in {"checking"} \union Watching,
         UNCHANGED <<record, renaming, used>>,
         \E step \in {"ended"} \union Watching : pc' = [pc EXCEPT ![j] = step],
         crowded' = [crowded EXCEPT ![j] = FALSE] \/ crowded' = crowded,
         \A i \in Jobs : proc'[i] # "none" => proc[i] # "none"
  PROVE  ParametersOK'
<1>1. crowded' \in [Jobs -> BOOLEAN]
  BY DEF ParametersOK
<1>2. PICK step \in {"ended"} \union Watching : pc' = [pc EXCEPT ![j] = step]
  OBVIOUS
<1>3. step \notin {"absent", "checking"} /\ pc[j] # "absent"
  BY DEF Watching
<1>4. \A i \in Jobs : /\ i # j => pc'[i] = pc[i]
                      /\ pc'[j] = step
  BY <1>2 DEF RunTypes
<1> QED
  BY <1>1, <1>3, <1>4 DEF ParametersOK

LEMMA ParametersStay == UpscaleInv /\ [Next]_vars => ParametersOK'
<1> SUFFICES ASSUME UpscaleInv, [Next]_vars PROVE ParametersOK'
  OBVIOUS
<1>1. ParametersOK /\ ProcessOK /\ RunTypes
  BY DEF UpscaleInv, UpscaleTypeOK, RunTypes
<1> USE DEF ParametersOK, ProcessOK, RunTypes, Watching
<1>2. CASE \E s \in Sources : Generate(s)
  BY <1>1, <1>2 DEF Generate, requestVars, runVars, procVars
<1>3. ASSUME NEW j \in Jobs, NEW p \in Payloads, RequestUpscale(j, p)
      PROVE  ParametersOK'
  <2>1. Resolved(p) \in Parameters
    BY <1>3, ResolvedParameters DEF RequestUpscale
  <2> QED BY <1>1, <1>3, <2>1 DEF RequestUpscale, procVars
<1>4. ASSUME NEW j \in Jobs, RenameModel(j) PROVE ParametersOK'
  <2>1. record[j] \in Parameters
    BY <1>1, <1>4 DEF RenameModel
  <2>2. [record[j] EXCEPT !.model = "seedvr2"] \in Parameters
    BY <2>1, RenamedParameters
  <2>3. record' = [record EXCEPT ![j] = [record[j] EXCEPT !.model = "seedvr2"]]
    BY <1>4 DEF RenameModel
  <2> QED BY <1>1, <1>4, <2>2, <2>3 DEF RenameModel, runVars, procVars
<1>5. ASSUME NEW j \in Jobs, AskStop(j) PROVE ParametersOK'
  BY <1>1, <1>5 DEF AskStop, requestVars, runVars, procVars
<1>6. ASSUME NEW j \in Jobs, StartRun(j) PROVE ParametersOK'
  <2>1. record[j] \in Parameters
    BY <1>1, <1>6 DEF StartRun
  <2> QED BY <1>1, <1>6, <2>1 DEF StartRun, requestVars, procVars
<1>7. ASSUME NEW j \in Jobs, Launch(j) PROVE ParametersOK'
  BY <1>1, <1>7 DEF Launch, Executable, requestVars
<1>8. ASSUME NEW j \in Jobs,
             \/ Refuse(j) \/ Stop(j) \/ TimeOut(j) \/ ProbeRaises(j)
             \/ Wait(j) \/ Communicate(j) \/ Collect(j) \/ Replace(j)
      PROVE  ParametersOK'
  <2>1. /\ pc[j] \in {"checking"} \union Watching
        /\ UNCHANGED <<record, renaming, used>>
        /\ \E step \in {"ended"} \union Watching : pc' = [pc EXCEPT ![j] = step]
        /\ crowded' = [crowded EXCEPT ![j] = FALSE] \/ crowded' = crowded
    BY <1>8 DEF Refuse, Stop, TimeOut, ProbeRaises, Wait, Communicate, Collect, Replace,
                Ends, Goes, requestVars
  <2>2. proc' = proc \/ proc' = Killed(j)
    BY <1>8 DEF Refuse, Stop, TimeOut, ProbeRaises, Wait, Communicate, Collect, Replace
  <2>3. \A i \in Jobs : proc'[i] # "none" => proc[i] # "none"
    BY <1>1, <2>2 DEF Killed
  <2> QED BY <1>1, <2>1, <2>3, RunMovesOn
<1>9. ASSUME NEW j \in Jobs, ProcOpens(j) \/ ProcCloses(j) \/ ProcExits(j) \/ ProcFails(j)
       PROVE  ParametersOK'
  BY <1>1, <1>9 DEF ProcOpens, ProcCloses, ProcExits, ProcFails, requestVars, runVars
<1>10. CASE UNCHANGED vars
  BY <1>1, <1>10 DEF vars, requestVars, runVars, procVars
<1> QED
  BY <1>2, <1>3, <1>4, <1>5, <1>6, <1>7, <1>8, <1>9, <1>10 DEF Next, RunStep

LEMMA ProcessStays == UpscaleInv /\ [Next]_vars => ProcessOK'
<1> SUFFICES ASSUME UpscaleInv, [Next]_vars PROVE ProcessOK'
  OBVIOUS
<1>1. ProcessOK /\ RunTypes
  BY DEF UpscaleInv, UpscaleTypeOK, RunTypes
<1> USE DEF ProcessOK, RunTypes, Watching
<1>2. CASE \E s \in Sources : Generate(s)
  BY <1>1, <1>2 DEF Generate, requestVars, runVars, procVars
<1>3. ASSUME NEW j \in Jobs, NEW p \in Payloads, RequestUpscale(j, p)
      PROVE  ProcessOK'
  BY <1>1, <1>3 DEF RequestUpscale, procVars
<1>4. ASSUME NEW j \in Jobs, RenameModel(j) \/ AskStop(j) PROVE ProcessOK'
  BY <1>1, <1>4 DEF RenameModel, AskStop, requestVars, runVars, procVars
<1>5. ASSUME NEW j \in Jobs, StartRun(j) \/ Launch(j) PROVE ProcessOK'
  BY <1>1, <1>5 DEF StartRun, Launch, requestVars, procVars
<1>6. ASSUME NEW j \in Jobs, Refuse(j) \/ Stop(j) \/ TimeOut(j) \/ ProbeRaises(j)
      PROVE  ProcessOK'
  BY <1>1, <1>6 DEF Refuse, Stop, TimeOut, ProbeRaises, Ends, Killed, requestVars
<1>7. ASSUME NEW j \in Jobs, Wait(j) \/ Communicate(j) PROVE ProcessOK'
  BY <1>1, <1>7 DEF Wait, Communicate, Ends, Goes, requestVars
<1>8. ASSUME NEW j \in Jobs, Collect(j) \/ Replace(j) PROVE ProcessOK'
  BY <1>1, <1>8 DEF Collect, Replace, Ends, requestVars
<1>9. ASSUME NEW j \in Jobs, ProcOpens(j) \/ ProcCloses(j) \/ ProcExits(j) \/ ProcFails(j)
      PROVE  ProcessOK'
  BY <1>1, <1>9 DEF ProcOpens, ProcCloses, ProcExits, ProcFails, requestVars, runVars
<1>10. CASE UNCHANGED vars
  BY <1>1, <1>10 DEF vars, requestVars, runVars, procVars
<1> QED
  BY <1>2, <1>3, <1>4, <1>5, <1>6, <1>7, <1>8, <1>9, <1>10 DEF Next, RunStep

-----------------------------------------------------------------------------
(* The directory.                                                          *)

\* A run that is over stays over, and what was written is not taken back.
LEMMA RunsGoOn ==
  UpscaleInv /\ [Next]_vars =>
    \A j \in Jobs : /\ pc[j] = "ended" => pc'[j] = "ended"
                    /\ wrote[j] # "nothing" => wrote'[j] # "nothing"
<1> DEFINE GoesOn == \A j \in Jobs : /\ pc[j] = "ended" => pc'[j] = "ended"
                                     /\ wrote[j] # "nothing" => wrote'[j] # "nothing"
<1> SUFFICES ASSUME UpscaleInv, [Next]_vars PROVE GoesOn
  OBVIOUS
<1>1. RunTypes
  BY DEF UpscaleInv, UpscaleTypeOK, RunTypes
<1> USE DEF RunTypes
<1>2. CASE \E s \in Sources : Generate(s)
  BY <1>2 DEF Generate, runVars, procVars
<1>3. ASSUME NEW j \in Jobs, NEW p \in Payloads, RequestUpscale(j, p)
      PROVE  GoesOn
  BY <1>1, <1>3 DEF RequestUpscale, procVars
<1>4. ASSUME NEW j \in Jobs, RenameModel(j) \/ AskStop(j) PROVE GoesOn
  BY <1>4 DEF RenameModel, AskStop, runVars, procVars
<1>5. ASSUME NEW j \in Jobs, StartRun(j) \/ Launch(j) PROVE GoesOn
  BY <1>1, <1>5 DEF StartRun, Launch, procVars
<1>6. ASSUME NEW j \in Jobs, Refuse(j) \/ Stop(j) \/ TimeOut(j) \/ ProbeRaises(j)
      PROVE  GoesOn
  BY <1>1, <1>6 DEF Refuse, Stop, TimeOut, ProbeRaises, Ends
<1>7. ASSUME NEW j \in Jobs, Wait(j) \/ Communicate(j) PROVE GoesOn
  BY <1>1, <1>7 DEF Wait, Communicate, Ends, Goes
<1>8. ASSUME NEW j \in Jobs, Collect(j) \/ Replace(j) PROVE GoesOn
  BY <1>1, <1>8 DEF Collect, Replace, Ends
<1>9. ASSUME NEW j \in Jobs, ProcOpens(j) \/ ProcCloses(j) \/ ProcExits(j) \/ ProcFails(j)
      PROVE  GoesOn
  BY <1>1, <1>9 DEF ProcOpens, ProcCloses, ProcExits, ProcFails, runVars
<1>10. CASE UNCHANGED vars
  BY <1>10 DEF vars, runVars, procVars
<1> QED
  BY <1>2, <1>3, <1>4, <1>5, <1>6, <1>7, <1>8, <1>9, <1>10 DEF Next, RunStep

\* Who changes the directory.
LEMMA DirectoryWriters ==
  [Next]_vars => \/ directory' = directory
                 \/ \E s \in Sources : Generate(s)
                 \/ \E j \in Jobs : Replace(j) \/ ProcOpens(j) \/ ProcCloses(j)
<1> SUFFICES ASSUME [Next]_vars, ~\E s \in Sources : Generate(s),
                    ~\E j \in Jobs : Replace(j) \/ ProcOpens(j) \/ ProcCloses(j)
             PROVE  directory' = directory
  OBVIOUS
<1>1. ASSUME NEW j \in Jobs, NEW p \in Payloads, RequestUpscale(j, p)
      PROVE  directory' = directory
  BY <1>1 DEF RequestUpscale
<1>2. ASSUME NEW j \in Jobs, RenameModel(j) \/ AskStop(j) \/ TimeOut(j) \/ ProbeRaises(j)
      PROVE  directory' = directory
  BY <1>2 DEF RenameModel, AskStop, TimeOut, ProbeRaises
<1>3. ASSUME NEW j \in Jobs, RunStep(j), ~Replace(j) PROVE directory' = directory
  BY <1>3 DEF RunStep, StartRun, Refuse, Launch, Stop, Wait, Communicate, Collect
<1>4. ASSUME NEW j \in Jobs, ProcExits(j) \/ ProcFails(j) PROVE directory' = directory
  BY <1>4 DEF ProcExits, ProcFails
<1> QED
  BY <1>1, <1>2, <1>3, <1>4 DEF Next, vars

\* The names files come by.
LEMMA NamesOfFiles ==
  ASSUME ParametersOK, ProcessOK, NEW j \in Jobs
  PROVE  /\ \A s \in Sources : Video(s) \in FileNames
         /\ Final(j) \in FileNames
         /\ \A i \in Jobs, s \in Sources : Final(i) # Video(s)
         /\ \A i \in Jobs : Final(i) = Final(j) => i = j
         /\ proc[j] # "none" => Writes(j) \in FileNames /\ used[j].source \in Sources
         /\ \A i \in Jobs : Final(i) # Writes(j)
         /\ \A s \in Sources : Video(s) # Writes(j)
<1>1. proc[j] # "none" => used[j].source \in Sources
  BY DEF ParametersOK, Parameters
<1> QED
  BY <1>1 DEF Video, Final, Writes, File, FileNames

LEMMA DirectoryStays == UpscaleInv /\ [Next]_vars => DirectoryOK'
<1> SUFFICES ASSUME UpscaleInv, [Next]_vars PROVE DirectoryOK'
  OBVIOUS
<1> DEFINE D == directory
           D2 == directory'
<1>1. /\ D \in Seq(Entries) /\ DistinctNames(D)
      /\ \A j \in Jobs : Final(j) \in Names(D) => pc[j] = "ended"
      /\ \A e, f \in Range(D) : e.by = f.by /\ e.by \in Jobs => e = f
      /\ \A e \in Range(D) : e.by \in Jobs => wrote[e.by] # "nothing"
      /\ \A e \in Range(D) : e \in Entries
  BY DEF UpscaleInv, DirectoryOK, Range
<1>2. ParametersOK /\ ProcessOK /\ RunTypes /\ None \notin Jobs
  BY UpscaleAssumption DEF UpscaleInv, UpscaleTypeOK, RunTypes
<1>3. \A j \in Jobs : /\ pc[j] = "ended" => pc'[j] = "ended"
                      /\ wrote[j] # "nothing" => wrote'[j] # "nothing"
  BY RunsGoOn
<1>4. CASE directory' = directory
  BY <1>1, <1>3, <1>4 DEF DirectoryOK, Names
<1>5. ASSUME NEW s \in Sources, Generate(s) PROVE DirectoryOK'
  <2> DEFINE v == Entry(Video(s), s, None, TRUE)
  <2>1. v \in Entries /\ v.name = Video(s) /\ v.by = None
    BY <1>2 DEF Entry, Entries, Video, File, FileNames
  <2>2. v.name \notin Names(D) /\ D2 = Append(D, v)
    BY <1>5, <2>1 DEF Generate, Names
  <2> HIDE DEF v
  <2>3. D2 \in Seq(Entries) /\ DistinctNames(D2) /\ Range(D2) = Range(D) \union {v}
    BY <1>1, <2>1, <2>2, AppendedProperties
  <2>4. \A j \in Jobs : Final(j) # v.name
    BY <2>1 DEF Final, Video, File
  <2> QED BY <1>1, <1>2, <1>3, <2>1, <2>3, <2>4 DEF DirectoryOK, Names
<1>6. ASSUME NEW j \in Jobs, Replace(j), directory' # directory PROVE DirectoryOK'
  <2>1. /\ pc[j] = "replacing" /\ pc' = [pc EXCEPT ![j] = "ended"]
        /\ D2 = Renamed(D, found[j], Final(j))
    BY <1>6 DEF Replace, Ends
  <2>2. Final(j) \in FileNames /\ Final(j) \notin Names(D)
    BY <1>1, <1>2, <2>1, NamesOfFiles
  <2> DEFINE to(e) == Moved(e, found[j], Final(j))
  <2>3. D2 \in Seq(Entries) /\ DistinctNames(D2) /\ Range(D2) = {to(e) : e \in Range(D)}
    BY <1>1, <2>1, <2>2, RenamedProperties
  <2>4. \A e \in Range(D) : /\ to(e).by = e.by
                            /\ to(e).name \in {e.name, Final(j)}
    BY <1>1 DEF Moved, Entries
  <2> HIDE DEF to
  <2>5. \A i \in Jobs : Final(i) \in Names(D2) => pc'[i] = "ended"
    <3>1. \A i \in Jobs : Final(i) \in Names(D2) => Final(i) \in Names(D) \/ Final(i) = Final(j)
      BY <2>3, <2>4 DEF Names
    <3>2. pc'[j] = "ended"
      BY <1>2, <2>1 DEF RunTypes
    <3> QED BY <1>1, <1>2, <1>3, <3>1, <3>2, NamesOfFiles
  <2>6. \A e, f \in Range(D2) : e.by = f.by /\ e.by \in Jobs => e = f
    BY <1>1, <2>3, <2>4
  <2>7. \A e \in Range(D2) : e.by \in Jobs => wrote'[e.by] # "nothing"
    BY <1>1, <1>3, <2>3, <2>4
  <2> QED BY <2>3, <2>5, <2>6, <2>7 DEF DirectoryOK
<1>7. ASSUME NEW j \in Jobs, ProcOpens(j) PROVE DirectoryOK'
  <2> DEFINE W == Without(D, Writes(j))
             e0 == Entry(Writes(j), used[j].source, j, FALSE)
  <2>1. /\ proc[j] = "running" /\ wrote[j] = "nothing"
        /\ wrote'[j] = "part" /\ D2 = Append(W, e0)
    BY <1>2, <1>7 DEF ProcOpens, RunTypes
  <2>2. Writes(j) \in FileNames /\ used[j].source \in Sources
    BY <1>2, <2>1, NamesOfFiles
  <2>3. e0 \in Entries /\ e0.name = Writes(j) /\ e0.by = j
    BY <2>2 DEF Entry, Entries
  <2>4. W \in Seq(Entries) /\ DistinctNames(W)
        /\ Range(W) = {e \in Range(D) : e.name # Writes(j)}
    BY <1>1, WithoutProperties
  <2> HIDE DEF W, e0
  <2>5. e0.name \notin Names(W)
    BY <2>3, <2>4 DEF Names
  <2>6. D2 \in Seq(Entries) /\ DistinctNames(D2) /\ Range(D2) = Range(W) \union {e0}
    BY <2>1, <2>3, <2>4, <2>5, AppendedProperties
  <2>7. \A i \in Jobs : Final(i) # e0.name
    BY <1>2, <2>3, NamesOfFiles
  <2>8. \A i \in Jobs : Final(i) \in Names(D2) => pc'[i] = "ended"
    BY <1>1, <1>3, <2>4, <2>6, <2>7 DEF Names
  <2>9. \A e, f \in Range(D2) : e.by = f.by /\ e.by \in Jobs => e = f
    BY <1>1, <2>1, <2>3, <2>4, <2>6
  <2>10. \A e \in Range(D2) : e.by \in Jobs => wrote'[e.by] # "nothing"
    BY <1>1, <1>3, <2>1, <2>3, <2>4, <2>6
  <2> QED BY <2>6, <2>8, <2>9, <2>10 DEF DirectoryOK
<1>8. ASSUME NEW j \in Jobs, ProcCloses(j), directory' # directory PROVE DirectoryOK'
  <2>1. PICK i \in DOMAIN D :
          D[i].by = j /\ D2 = Append(RemoveAt(D, i), [D[i] EXCEPT !.whole = TRUE])
    BY <1>8 DEF ProcCloses
  <2> DEFINE W == RemoveAt(D, i)
             e0 == [D[i] EXCEPT !.whole = TRUE]
  <2>2. D[i] \in Range(D) /\ D[i] \in Entries
    BY <1>1 DEF Range
  <2>3. e0 \in Entries /\ e0.name = D[i].name /\ e0.by = j
    BY <2>1, <2>2 DEF Entries
  <2>4. W \in Seq(Entries) /\ DistinctNames(W) /\ Range(W) = Range(D) \ {D[i]}
    BY <1>1, RemoveAtProperties
  <2>5. D2 = Append(W, e0)
    BY <2>1
  <2> HIDE DEF W, e0
  <2>6. e0.name \notin Names(W)
    BY <1>1, <2>2, <2>3, <2>4, OneOfAName DEF Names
  <2>7. D2 \in Seq(Entries) /\ DistinctNames(D2) /\ Range(D2) = Range(W) \union {e0}
    BY <2>3, <2>4, <2>5, <2>6, AppendedProperties
  <2>8. \A k \in Jobs : Final(k) \in Names(D2) => pc'[k] = "ended"
    BY <1>1, <1>3, <2>2, <2>3, <2>4, <2>7 DEF Names
  <2>9. \A e, f \in Range(D2) : e.by = f.by /\ e.by \in Jobs => e = f
    BY <1>1, <2>1, <2>2, <2>3, <2>4, <2>7
  <2>10. \A e \in Range(D2) : e.by \in Jobs => wrote'[e.by] # "nothing"
    BY <1>1, <1>3, <2>1, <2>2, <2>3, <2>4, <2>7
  <2> QED BY <2>7, <2>8, <2>9, <2>10 DEF DirectoryOK
<1> QED
  BY <1>4, <1>5, <1>6, <1>7, <1>8, DirectoryWriters

-----------------------------------------------------------------------------
(* Runs that are alone.                                                    *)

\* Only a launch adds to the active runs, and nothing makes a run alone but
\* its launch.
LEMMA AloneGoesOn ==
  UpscaleInv /\ [Next]_vars =>
    \/ \E k \in Jobs : Launch(k)
    \/ Active' \subseteq Active /\ \A j \in Jobs : Alone(j)' => Alone(j)
<1> DEFINE GoesOn == Active' \subseteq Active /\ \A j \in Jobs : Alone(j)' => Alone(j)
<1> SUFFICES ASSUME UpscaleInv, [Next]_vars, ~\E k \in Jobs : Launch(k) PROVE GoesOn
  OBVIOUS
<1>1. RunTypes /\ crowded \in [Jobs -> BOOLEAN]
  BY DEF UpscaleInv, UpscaleTypeOK, RunTypes, ParametersOK
<1> USE DEF RunTypes, Active, Alone, Watching
<1>2. CASE \E s \in Sources : Generate(s)
  BY <1>2 DEF Generate, runVars, procVars
<1>3. ASSUME NEW j \in Jobs, NEW p \in Payloads, RequestUpscale(j, p)
      PROVE  GoesOn
  BY <1>1, <1>3 DEF RequestUpscale, procVars
<1>4. ASSUME NEW j \in Jobs, RenameModel(j) \/ AskStop(j) PROVE GoesOn
  BY <1>4 DEF RenameModel, AskStop, runVars, procVars
<1>5. ASSUME NEW j \in Jobs, StartRun(j) PROVE GoesOn
  BY <1>1, <1>5 DEF StartRun, procVars
<1>6. ASSUME NEW j \in Jobs, Refuse(j) \/ ProbeRaises(j) PROVE GoesOn
  BY <1>1, <1>6 DEF Refuse, ProbeRaises, Ends
<1>7. ASSUME NEW j \in Jobs, Stop(j) \/ TimeOut(j) PROVE GoesOn
  <2>1. /\ pc' = [pc EXCEPT ![j] = "ended"]
        /\ crowded' = [crowded EXCEPT ![j] = FALSE]
    BY <1>7 DEF Stop, TimeOut, Ends
  <2>2. \A i \in Jobs : proc'[i] = "running" => proc[i] = "running"
    BY <1>1, <1>7 DEF Stop, TimeOut, Killed
  <2> QED BY <1>1, <2>1, <2>2
<1>8. ASSUME NEW j \in Jobs, Wait(j) \/ Communicate(j) PROVE GoesOn
  BY <1>1, <1>8 DEF Wait, Communicate, Ends, Goes
<1>9. ASSUME NEW j \in Jobs, Collect(j) \/ Replace(j) PROVE GoesOn
  BY <1>1, <1>9 DEF Collect, Replace, Ends
<1>10. ASSUME NEW j \in Jobs, ProcOpens(j) \/ ProcCloses(j) PROVE GoesOn
  BY <1>10 DEF ProcOpens, ProcCloses, runVars
<1>11. ASSUME NEW j \in Jobs, ProcExits(j) \/ ProcFails(j) PROVE GoesOn
  BY <1>1, <1>11 DEF ProcExits, ProcFails, runVars
<1>12. CASE UNCHANGED vars
  BY <1>12 DEF vars, runVars, procVars
<1> QED
  BY <1>2, <1>3, <1>4, <1>5, <1>6, <1>7, <1>8, <1>9, <1>10, <1>11, <1>12
     DEF Next, RunStep

\* A launch is told of every active run, and they of it.
LEMMA LaunchEffect ==
  ASSUME UpscaleInv, NEW k \in Jobs, Launch(k)
  PROVE  /\ Active' = Active \union {k}
         /\ k \notin Active
         /\ \A j \in Jobs : Alone(j)' => \/ j # k /\ Alone(j) /\ j \notin Active
                                         \/ j = k /\ Active = {}
         /\ wrote[k] = "nothing" /\ UNCHANGED <<wrote, used, directory, found>>
<1>1. RunTypes /\ ProcessOK /\ crowded \in [Jobs -> BOOLEAN]
  BY DEF UpscaleInv, UpscaleTypeOK, RunTypes, ParametersOK
<1>2. /\ pc[k] = "checking" /\ pc' = [pc EXCEPT ![k] = "polling"]
      /\ proc' = [proc EXCEPT ![k] = "running"]
      /\ crowded' = [i \in Jobs |-> crowded[i] \/ i \in Active \/ (i = k /\ Active # {})]
      /\ UNCHANGED <<wrote, used, directory, found>>
  BY DEF Launch
<1>3. proc[k] = "none" /\ wrote[k] = "nothing" /\ k \notin Active
  BY <1>1, <1>2 DEF ProcessOK, Active
<1>4. Active' = Active \union {k}
  BY <1>1, <1>2 DEF Active, RunTypes
<1>5. ASSUME NEW j \in Jobs, Alone(j)'
      PROVE  \/ j # k /\ Alone(j) /\ j \notin Active
             \/ j = k /\ Active = {}
  <2>1. ~crowded'[j] /\ pc'[j] \in Watching
    BY <1>5 DEF Alone
  <2>2. ~crowded[j] /\ j \notin Active /\ (j = k => Active = {})
    BY <1>2, <2>1
  <2>3. j # k => pc'[j] = pc[j]
    BY <1>1, <1>2 DEF RunTypes
  <2> QED BY <2>1, <2>2, <2>3 DEF Alone
<1> QED
  BY <1>2, <1>3, <1>4, <1>5

LEMMA NobodyElseStays == UpscaleInv /\ [Next]_vars => NobodyElse'
<1> SUFFICES ASSUME UpscaleInv, [Next]_vars, NEW i \in Jobs, NEW j \in Jobs,
                    Alone(j)', i \in Active'
             PROVE  i = j
  BY DEF NobodyElse
<1>1. CASE \E k \in Jobs : Launch(k)
  <2>1. PICK k \in Jobs : Launch(k)
    BY <1>1
  <2>2. j = k /\ Active = {}
    <3>1. Alone(j) => j \in Active
      BY DEF Alone, Active, Watching
    <3> QED BY <2>1, <3>1, LaunchEffect
  <2> QED BY <2>1, <2>2, LaunchEffect
<1>2. CASE Active' \subseteq Active /\ \A k \in Jobs : Alone(k)' => Alone(k)
  BY <1>2 DEF UpscaleInv, NobodyElse
<1> QED BY <1>1, <1>2, AloneGoesOn

\* What a run that is alone uses does not change, and only its own process
\* writes for it.
LEMMA AloneIsQuiet ==
  ASSUME UpscaleInv, [Next]_vars, NEW j \in Jobs, Alone(j)
  PROVE  /\ used'[j] = used[j]
         /\ wrote'[j] = wrote[j] \/ ProcOpens(j) \/ ProcCloses(j)
<1> DEFINE Quiet == /\ used'[j] = used[j]
                    /\ wrote'[j] = wrote[j] \/ ProcOpens(j) \/ ProcCloses(j)
<1>1. RunTypes /\ pc[j] \in Watching /\ used \in [Jobs -> Parameters \union {None}]
  BY DEF UpscaleInv, UpscaleTypeOK, RunTypes, ParametersOK, Alone
<1>2. CASE \E s \in Sources : Generate(s)
  BY <1>2 DEF Generate, runVars, procVars
<1>3. ASSUME NEW i \in Jobs, NEW p \in Payloads, RequestUpscale(i, p)
      PROVE  Quiet
  BY <1>3 DEF RequestUpscale, procVars
<1>4. ASSUME NEW i \in Jobs, RenameModel(i) \/ AskStop(i) PROVE Quiet
  BY <1>4 DEF RenameModel, AskStop, runVars, procVars
<1>5. ASSUME NEW i \in Jobs, StartRun(i) PROVE Quiet
  <2>1. i # j
    BY <1>1, <1>5 DEF StartRun, Watching
  <2> QED BY <1>1, <1>5, <2>1 DEF StartRun, procVars
<1>6. ASSUME NEW i \in Jobs,
             Refuse(i) \/ Launch(i) \/ Stop(i) \/ TimeOut(i) \/ ProbeRaises(i)
      PROVE  Quiet
  BY <1>6 DEF Refuse, Launch, Stop, TimeOut, ProbeRaises
<1>7. ASSUME NEW i \in Jobs, Wait(i) \/ Communicate(i) \/ Collect(i) \/ Replace(i)
      PROVE  Quiet
  BY <1>7 DEF Wait, Communicate, Collect, Replace
<1>8. ASSUME NEW i \in Jobs, ProcOpens(i) \/ ProcCloses(i) PROVE Quiet
  <2>1. i # j => wrote'[j] = wrote[j]
    BY <1>1, <1>8 DEF ProcOpens, ProcCloses, RunTypes
  <2> QED BY <1>8, <2>1 DEF ProcOpens, ProcCloses, runVars
<1>9. ASSUME NEW i \in Jobs, ProcExits(i) \/ ProcFails(i) PROVE Quiet
  BY <1>9 DEF ProcExits, ProcFails, runVars
<1>10. CASE UNCHANGED vars
  BY <1>10 DEF vars, runVars, procVars
<1> QED
  BY <1>2, <1>3, <1>4, <1>5, <1>6, <1>7, <1>8, <1>9, <1>10 DEF Next, RunStep

\* A file under another name.
LEMMA RenamedEntry ==
  ASSUME NEW e \in Entries, NEW to \in FileNames, e.whole = TRUE
  PROVE  Moved(e, e.name, to) = Entry(to, e.source, e.by, TRUE)
<1> DEFINE f == [e EXCEPT !.name = to]
           g == Entry(to, e.source, e.by, TRUE)
<1>1. /\ f \in Entries /\ f.name = to /\ f.source = e.source
      /\ f.by = e.by /\ f.whole = TRUE
  BY DEF Entries
<1>2. /\ g \in Entries /\ g.name = to /\ g.source = e.source
      /\ g.by = e.by /\ g.whole = TRUE
  BY DEF Entries, Entry
<1> HIDE DEF f, g
<1>3. f = g
  BY <1>1, <1>2 DEF Entries
<1> QED BY <1>3 DEF f, g, Moved

\* The file of a process that is done.
LEMMA CompletedEntry ==
  ASSUME NEW e \in Entries
  PROVE  [e EXCEPT !.whole = TRUE] = Entry(e.name, e.source, e.by, TRUE)
<1> DEFINE f == [e EXCEPT !.whole = TRUE]
           g == Entry(e.name, e.source, e.by, TRUE)
<1>1. /\ f \in Entries /\ f.name = e.name /\ f.source = e.source
      /\ f.by = e.by /\ f.whole = TRUE
  BY DEF Entries
<1>2. /\ g \in Entries /\ g.name = e.name /\ g.source = e.source
      /\ g.by = e.by /\ g.whole = TRUE
  BY DEF Entries, Entry
<1> HIDE DEF f, g
<1>3. f = g
  BY <1>1, <1>2 DEF Entries
<1> QED BY <1>3 DEF f, g

LEMMA OwnFileStays == UpscaleInv /\ [Next]_vars => OwnFile'
<1> SUFFICES ASSUME UpscaleInv, [Next]_vars, NEW j \in Jobs,
                    Alone(j)', wrote'[j] # "nothing"
             PROVE  (Entry(Writes(j), used[j].source, j, wrote[j] = "all")
                       \in Range(directory))'
  BY DEF OwnFile
<1> DEFINE Mine(dir, whole) == Entry(Writes(j), used[j].source, j, whole) \in Range(dir)
<1>1. /\ RunTypes /\ ProcessOK /\ ParametersOK /\ DirectoryOK
      /\ \A e \in Range(directory) : e \in Entries
      /\ \A i \in Jobs : Alone(j) /\ i \in Active => i = j
      /\ Alone(j) /\ wrote[j] # "nothing" => Mine(directory, wrote[j] = "all")
  BY DEF UpscaleInv, UpscaleTypeOK, RunTypes, NobodyElse, OwnFile, DirectoryOK, Range
<1>2. CASE \E k \in Jobs : Launch(k)
  <2>1. PICK k \in Jobs : Launch(k)
    BY <1>2
  <2>2. Alone(j) /\ wrote[j] # "nothing" /\ UNCHANGED <<wrote, used, directory>>
    BY <2>1, LaunchEffect
  <2> QED BY <1>1, <2>2 DEF Writes, Entry, Range
<1>3. CASE ~\E k \in Jobs : Launch(k)
  <2>1. Alone(j)
    BY <1>3, AloneGoesOn
  <2>2. used'[j] = used[j] /\ (wrote'[j] = wrote[j] \/ ProcOpens(j) \/ ProcCloses(j))
    BY <2>1, AloneIsQuiet
  <2>3. SUFFICES Mine(directory', wrote'[j] = "all")
    BY <2>2 DEF Writes, Entry, Range
  <2>4. CASE directory' = directory /\ wrote'[j] = wrote[j]
    BY <1>1, <2>1, <2>4
  <2>5. ASSUME NEW s \in Sources, Generate(s) PROVE Mine(directory', wrote'[j] = "all")
    <3> DEFINE v == Entry(Video(s), s, None, TRUE)
    <3>1. /\ directory' = Append(directory, v) /\ v \in Entries
          /\ v.name = Video(s) /\ v.name \notin Names(directory)
          /\ wrote' = wrote
      BY <2>5 DEF Generate, procVars, Entry, Entries, Video, File, FileNames, Names
    <3> HIDE DEF v
    <3>2. Range(directory') = Range(directory) \union {v}
      BY <1>1, <3>1, AppendedProperties DEF DirectoryOK
    <3> QED BY <1>1, <2>1, <3>1, <3>2
  <2>6. ASSUME NEW i \in Jobs, Replace(i) PROVE FALSE
    <3>1. i \in Active
      BY <2>6 DEF Replace, Active
    <3>2. i = j
      BY <1>1, <2>1, <3>1
    <3>3. pc'[j] = "ended"
      BY <1>1, <2>6, <3>2 DEF Replace, Ends, RunTypes
    <3> QED BY <3>3 DEF Alone, Watching
  <2>7. ASSUME NEW i \in Jobs, ProcOpens(i) PROVE Mine(directory', wrote'[j] = "all")
    <3>1. i = j
      <4>1. i \in Active
        BY <2>7 DEF ProcOpens, Active
      <4> QED BY <1>1, <2>1, <4>1
    <3> DEFINE W == Without(directory, Writes(j))
               e0 == Entry(Writes(j), used[j].source, j, FALSE)
    <3>2. wrote'[j] = "part" /\ proc[j] # "none" /\ directory' = Append(W, e0)
      BY <1>1, <2>7, <3>1 DEF ProcOpens, RunTypes
    <3>3. Writes(j) \in FileNames /\ used[j].source \in Sources
      BY <1>1, <3>2, NamesOfFiles
    <3>4. e0 \in Entries /\ e0.name = Writes(j)
      BY <3>3 DEF Entry, Entries
    <3>5. /\ W \in Seq(Entries) /\ DistinctNames(W)
          /\ Range(W) = {e \in Range(directory) : e.name # Writes(j)}
      BY <1>1, WithoutProperties DEF DirectoryOK
    <3>6. e0 \in Range(directory')
      <4> HIDE DEF W, e0
      <4>1. e0.name \notin Names(W)
        BY <3>4, <3>5 DEF Names
      <4> QED BY <3>2, <3>4, <3>5, <4>1, AppendedProperties
    <3> QED BY <3>2, <3>6
  <2>8. ASSUME NEW i \in Jobs, ProcCloses(i) PROVE Mine(directory', wrote'[j] = "all")
    <3>1. i = j
      <4>1. i \in Active
        BY <2>8 DEF ProcCloses, Active
      <4> QED BY <1>1, <2>1, <4>1
    <3> DEFINE old == Entry(Writes(j), used[j].source, j, FALSE)
    <3>2. wrote[j] = "part" /\ wrote'[j] = "all" /\ old \in Range(directory)
      BY <1>1, <2>1, <2>8, <3>1 DEF ProcCloses, RunTypes
    <3>3. \E k \in DOMAIN directory : directory[k].by = j
      BY <3>2 DEF Range, Entry
    <3>4. PICK k \in DOMAIN directory :
            /\ directory[k].by = j
            /\ directory' = Append(RemoveAt(directory, k),
                                   [directory[k] EXCEPT !.whole = TRUE])
      BY <2>8, <3>1, <3>3 DEF ProcCloses
    <3>5. directory[k] = old
      <4>1. directory[k] \in Range(directory)
        BY DEF Range
      <4>2. old.by = j
        BY DEF Entry
      <4> QED BY <1>1, <3>2, <3>4, <4>1, <4>2 DEF DirectoryOK
    <3> DEFINE W == RemoveAt(directory, k)
               e0 == Entry(Writes(j), used[j].source, j, TRUE)
    <3>6. [directory[k] EXCEPT !.whole = TRUE] = e0
      <4>1. [old EXCEPT !.whole = TRUE] = e0
        <5>1. /\ old \in Entries /\ old.name = Writes(j)
              /\ old.source = used[j].source /\ old.by = j
          BY <1>1, <3>2 DEF Entry
        <5> QED BY <5>1, CompletedEntry
      <4> QED BY <3>5, <4>1
    <3>7. old \in Entries /\ old.name = e0.name
      BY <1>1, <3>2 DEF Entry
    <3>8. e0 \in Entries
      BY <3>7 DEF Entry, Entries
    <3>9. /\ W \in Seq(Entries) /\ DistinctNames(W)
          /\ Range(W) = Range(directory) \ {old}
      BY <1>1, <3>5, RemoveAtProperties DEF DirectoryOK
    <3>10. e0 \in Range(directory')
      <4> HIDE DEF W, e0, old
      <4>1. e0.name \notin Names(W)
        BY <1>1, <3>2, <3>7, <3>9, OneOfAName DEF Names, DirectoryOK
      <4>2. directory' = Append(W, e0)
        BY <3>4, <3>6 DEF W
      <4> QED BY <3>8, <3>9, <4>1, <4>2, AppendedProperties
    <3> QED BY <3>2, <3>10
  <2> QED BY <2>2, <2>4, <2>5, <2>6, <2>7, <2>8, DirectoryWriters
<1> QED BY <1>2, <1>3

-----------------------------------------------------------------------------
(* The output a run that was alone finds.                                  *)

\* Who comes to its move, and what it has found.
LEMMA FoundEffect ==
  ASSUME UpscaleInv, [Next]_vars
  PROVE  /\ found' = [j \in Jobs |-> found'[j]]
         /\ \A j \in Jobs :
              pc'[j] = "replacing" =>
                \/ pc[j] = "replacing" /\ found'[j] = found[j] /\ (Alone(j)' => Alone(j))
                \/ Collect(j) /\ Discover(j) # None /\ found'[j] = Discover(j)
                   /\ (Alone(j)' => Alone(j))
<1> DEFINE FoundOK == found' = [j \in Jobs |-> found'[j]]
           Comes(j) ==
             pc'[j] = "replacing" =>
                \/ pc[j] = "replacing" /\ found'[j] = found[j] /\ (Alone(j)' => Alone(j))
                \/ Collect(j) /\ Discover(j) # None /\ found'[j] = Discover(j)
                   /\ (Alone(j)' => Alone(j))
           Good == FoundOK /\ \A j \in Jobs : Comes(j)
<1>1. RunTypes /\ crowded \in [Jobs -> BOOLEAN] /\ found = [j \in Jobs |-> found[j]]
  BY DEF UpscaleInv, UpscaleTypeOK, RunTypes, ParametersOK, FoundIsOwn
<1> USE DEF RunTypes, Alone, Watching
<1>2. CASE \E s \in Sources : Generate(s)
  BY <1>1, <1>2 DEF Generate, runVars, procVars
<1>3. ASSUME NEW i \in Jobs, NEW p \in Payloads, RequestUpscale(i, p) PROVE Good
  BY <1>1, <1>3 DEF RequestUpscale, procVars
<1>4. ASSUME NEW i \in Jobs, RenameModel(i) \/ AskStop(i) PROVE Good
  BY <1>1, <1>4 DEF RenameModel, AskStop, runVars, procVars
<1>5. ASSUME NEW i \in Jobs, StartRun(i) PROVE Good
  BY <1>1, <1>5 DEF StartRun, procVars
<1>6. ASSUME NEW i \in Jobs, Launch(i) PROVE Good
  <2>1. \A j \in Jobs : pc'[j] = "replacing" => pc[j] = "replacing" /\ j # i
    BY <1>1, <1>6 DEF Launch
  <2>2. \A j \in Jobs : pc[j] = "replacing" => j \in Active
    BY DEF Active
  <2>3. \A j \in Jobs : pc'[j] = "replacing" => crowded'[j] = TRUE
    BY <1>6, <2>1, <2>2 DEF Launch
  <2> QED BY <1>1, <1>6, <2>1, <2>3 DEF Launch
<1>7. ASSUME NEW i \in Jobs, Refuse(i) \/ Stop(i) \/ TimeOut(i) \/ ProbeRaises(i)
      PROVE  Good
  BY <1>1, <1>7 DEF Refuse, Stop, TimeOut, ProbeRaises, Ends
<1>8. ASSUME NEW i \in Jobs, Wait(i) \/ Communicate(i) PROVE Good
  BY <1>1, <1>8 DEF Wait, Communicate, Ends, Goes
<1>9. ASSUME NEW i \in Jobs, Collect(i) PROVE Good
  BY <1>1, <1>9 DEF Collect, Ends
<1>10. ASSUME NEW i \in Jobs, Replace(i) PROVE Good
  BY <1>1, <1>10 DEF Replace, Ends
<1>11. ASSUME NEW i \in Jobs, ProcOpens(i) \/ ProcCloses(i) \/ ProcExits(i) \/ ProcFails(i)
       PROVE  Good
  BY <1>1, <1>11 DEF ProcOpens, ProcCloses, ProcExits, ProcFails, runVars
<1>12. CASE UNCHANGED vars
  BY <1>1, <1>12 DEF vars, runVars, procVars
<1> QED
  BY <1>2, <1>3, <1>4, <1>5, <1>6, <1>7, <1>8, <1>9, <1>10, <1>11, <1>12
     DEF Next, RunStep

\* With a backend whose file is known by name, a run that is alone finds the
\* file it is to find.
LEMMA FoundIsOwnStays == UpscaleInv /\ [Next]_vars => FoundIsOwn'
<1> SUFFICES ASSUME UpscaleInv, [Next]_vars PROVE FoundIsOwn'
  OBVIOUS
<1>1. /\ ProcessOK /\ ParametersOK /\ OwnFile /\ FoundIsOwn /\ RunTypes
      /\ \A e \in Range(directory) : e \in Entries
  BY DEF UpscaleInv, UpscaleTypeOK, RunTypes, DirectoryOK, Range
<1>2. found' = [j \in Jobs |-> found'[j]]
  BY FoundEffect
<1>3. ASSUME NEW j \in Jobs, pc'[j] = "replacing", ~crowded'[j],
             wrote'[j] = "all", used'[j].model # "seedvr2-3b"
      PROVE  found'[j] = Writes(j)
  <2>1. \/ pc[j] = "replacing" /\ found'[j] = found[j]
        \/ Collect(j) /\ found'[j] = Discover(j)
    BY <1>3, FoundEffect
  <2>2. Alone(j)
    <3>1. Alone(j)'
      BY <1>3 DEF Alone, Watching
    <3> QED BY <1>3, <3>1, FoundEffect
  <2>3. /\ used'[j] = used[j] /\ proc[j] = "exited"
        /\ wrote'[j] = wrote[j] \/ ProcOpens(j) \/ ProcCloses(j)
    <3>1. pc[j] \in {"collecting", "replacing"}
      BY <2>1 DEF Collect
    <3> QED BY <1>1, <2>2, <3>1, AloneIsQuiet DEF ProcessOK
  <2>4. wrote[j] = "all" /\ used[j].model # "seedvr2-3b"
    BY <1>3, <2>3 DEF ProcOpens, ProcCloses
  <2>5. CASE pc[j] = "replacing" /\ found'[j] = found[j]
    BY <1>1, <2>2, <2>4, <2>5 DEF FoundIsOwn, Alone
  <2>6. CASE Collect(j) /\ found'[j] = Discover(j)
    <3>1. Entry(Writes(j), used[j].source, j, TRUE) \in Range(directory)
      BY <1>1, <2>2, <2>4 DEF OwnFile
    <3>2. Writes(j) \in Names(directory)
      BY <3>1 DEF Names, Entry
    <3>3. Discover(j) = Writes(j)
      BY <2>4, <3>2 DEF Discover
    <3> QED BY <2>6, <3>3
  <2> QED BY <2>1, <2>5, <2>6
<1>4. ASSUME NEW j \in Jobs, pc'[j] = "replacing", ~crowded'[j] PROVE used'[j] = used[j]
  <2>1. Alone(j)'
    BY <1>4 DEF Alone, Watching
  <2> QED BY <1>4, <2>1, FoundEffect, AloneIsQuiet
<1> QED
  BY <1>2, <1>3, <1>4 DEF FoundIsOwn, Writes

LEMMA UpscaleInvInductive == UpscaleInv /\ [Next]_vars => UpscaleInv'
<1> SUFFICES ASSUME UpscaleInv, [Next]_vars PROVE UpscaleInv'
  OBVIOUS
<1>1. DirectoryOK' /\ RunTypes'
  BY DirectoryStays, RunTypesStay
<1>2. UpscaleTypeOK'
  BY <1>1 DEF UpscaleTypeOK, RunTypes, DirectoryOK, DistinctNames
<1> QED
  BY <1>1, <1>2, ParametersStay, ProcessStays, NobodyElseStays, OwnFileStays,
     FoundIsOwnStays
     DEF UpscaleInv

LEMMA UpscaleInvHolds == Spec => []UpscaleInv
BY InitUpscaleInv, UpscaleInvInductive, PTL DEF Spec

\* Every variable keeps its type, no two files of the output directory have one
\* name, and a process is alive only while its run watches it or after the
\* probe of the run raised.
THEOREM UpscaleTypeCorrect == Spec => []UpscaleTypeOK
<1>1. UpscaleInv => UpscaleTypeOK
  BY DEF UpscaleInv
<1> QED BY <1>1, UpscaleInvHolds, PTL

\* Only the move of its output makes a run succeed.
LEMMA SuccessIsReplace ==
  ASSUME UpscaleInv, [Next]_vars, NEW j \in Jobs,
         pc[j] = "replacing", outcome'[j] = "succeeded"
  PROVE  directory' = Renamed(directory, found[j], Final(j)) /\ used' = used
<1> DEFINE Succeeds == directory' = Renamed(directory, found[j], Final(j)) /\ used' = used
<1>1. RunTypes /\ outcome[j] # "succeeded"
  BY UpscaleAssumption DEF UpscaleInv, UpscaleTypeOK, RunTypes, ProcessOK, Outcomes
<1> USE DEF RunTypes
<1>2. CASE \E s \in Sources : Generate(s)
  BY <1>1, <1>2 DEF Generate, runVars
<1>3. ASSUME NEW i \in Jobs, NEW p \in Payloads, RequestUpscale(i, p) PROVE Succeeds
  BY <1>1, <1>3 DEF RequestUpscale
<1>4. ASSUME NEW i \in Jobs, RenameModel(i) \/ AskStop(i) \/ StartRun(i) \/ Launch(i)
      PROVE  Succeeds
  BY <1>1, <1>4 DEF RenameModel, AskStop, StartRun, Launch, runVars
<1>5. ASSUME NEW i \in Jobs, Refuse(i) \/ Stop(i) \/ TimeOut(i) \/ ProbeRaises(i)
      PROVE  Succeeds
  BY <1>1, <1>5 DEF Refuse, Stop, TimeOut, ProbeRaises, Ends
<1>6. ASSUME NEW i \in Jobs, Wait(i) \/ Communicate(i) \/ Collect(i) PROVE Succeeds
  BY <1>1, <1>6 DEF Wait, Communicate, Collect, Ends, Goes
<1>7. ASSUME NEW i \in Jobs, Replace(i) PROVE Succeeds
  <2>1. i = j
    BY <1>1, <1>7 DEF Replace, Ends
  <2> QED BY <1>1, <1>7, <2>1 DEF Replace, Ends
<1>8. ASSUME NEW i \in Jobs, ProcOpens(i) \/ ProcCloses(i) \/ ProcExits(i) \/ ProcFails(i)
      PROVE  Succeeds
  BY <1>1, <1>8 DEF ProcOpens, ProcCloses, ProcExits, ProcFails, runVars
<1>9. CASE UNCHANGED vars
  BY <1>1, <1>9 DEF vars, runVars
<1> QED
  BY <1>2, <1>3, <1>4, <1>5, <1>6, <1>7, <1>8, <1>9 DEF Next, RunStep

\* A run that was alone, used a backend whose file is known by name and whose
\* process wrote its file succeeds only with the whole upscale of its own
\* source, whatever failed runs and other jobs left in the directory.
THEOREM AloneFindsItsOwn == Spec => OwnWhenAlone
<1> DEFINE Own == \A j \in Jobs :
       /\ pc[j] = "replacing" /\ outcome'[j] = "succeeded"
       /\ ~crowded[j] /\ wrote[j] = "all" /\ used[j].model # "seedvr2-3b"
       => EntryOf(directory', Final(j))
            = Entry(Final(j), used[j].source, j, TRUE)
<1>1. ASSUME UpscaleInv, [Next]_vars PROVE Own
  <2> SUFFICES ASSUME NEW j \in Jobs,
                      pc[j] = "replacing", outcome'[j] = "succeeded", ~crowded[j],
                      wrote[j] = "all", used[j].model # "seedvr2-3b"
               PROVE  EntryOf(directory', Final(j))
                        = Entry(Final(j), used[j].source, j, TRUE)
    OBVIOUS
  <2> DEFINE e0 == Entry(Writes(j), used[j].source, j, TRUE)
             e1 == Entry(Final(j), used[j].source, j, TRUE)
  <2>1. found[j] = Writes(j) /\ e0 \in Range(directory) /\ e0.name = Writes(j)
    BY <1>1 DEF UpscaleInv, FoundIsOwn, OwnFile, Alone, Watching, Entry
  <2>2. directory' = Renamed(directory, Writes(j), Final(j))
    BY <1>1, <2>1, SuccessIsReplace
  <2>3. /\ directory \in Seq(Entries) /\ DistinctNames(directory)
        /\ Final(j) \in FileNames /\ Final(j) \notin Names(directory)
        /\ e0 \in Entries
    <3>1. ParametersOK /\ ProcessOK /\ DirectoryOK
      BY <1>1 DEF UpscaleInv
    <3>2. Final(j) \in FileNames
      BY <3>1, NamesOfFiles
    <3>3. \A e \in Range(directory) : e \in Entries
      BY <3>1 DEF DirectoryOK, Range
    <3> QED BY <2>1, <3>1, <3>2, <3>3 DEF DirectoryOK
  <2>4. Moved(e0, Writes(j), Final(j)) = e1
    <3>1. e0.source = used[j].source /\ e0.by = j /\ e0.whole = TRUE
      BY DEF Entry
    <3> HIDE DEF e0
    <3> QED BY <2>1, <2>3, <3>1, RenamedEntry
  <2>5. /\ DistinctNames(directory')
        /\ Range(directory') = {Moved(e, Writes(j), Final(j)) : e \in Range(directory)}
    BY <2>2, <2>3, RenamedProperties
  <2>6. e1 \in Range(directory') /\ e1.name = Final(j)
    BY <2>1, <2>4, <2>5 DEF Entry
  <2>7. \A e \in Range(directory') : e.name = Final(j) => e = e1
    BY <2>5, <2>6, OneOfAName
  <2> QED BY <2>6, <2>7 DEF EntryOf
<1>2. UpscaleInv /\ [Next]_vars => [Own]_vars
  BY <1>1
<1> QED BY <1>2, UpscaleInvHolds, PTL DEF Spec, OwnWhenAlone
==============================================================================
