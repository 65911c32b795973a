------------------------- MODULE BackendInstallProofs -------------------------
(***************************************************************************)
(* Theorems about BackendInstall, for any files, revisions and versions    *)
(* and any number of interruptions and checkouts.                          *)
(*                                                                         *)
(* The stamp is the last thing an installation writes, so outside a        *)
(* removal it speaks for the files.  InstallInv says so of the revision    *)
(* that is stamped, not of the one declared, which a checkout may change   *)
(* at any time the command does not run.                                   *)
(***************************************************************************)
EXTENDS BackendInstall, TLAPS

UpstreamIs(v) == \A f \in TreeFiles : vendor[f] = v
InputsAre(v) == \A f \in NamedFiles : vendor[f] = v

\* The stamp names what is on disk, unless a removal was broken off.
StampIsTrue ==
  stamp # Absent /\ ~unfinished =>
    UpstreamIs(stamp) /\ \E v \in SourceVersions : InputsAre(v)

\* An installation fills an unstamped directory, in order.
FilledInOrder ==
  /\ pc \in {"copying", "overlaying", "stamping"} => stamp = Absent /\ ~unfinished
  /\ pc \in {"overlaying", "stamping"} => UpstreamIs(declared)
  /\ pc = "stamping" => InputsAre(sources)

\* A file is in its directory, and what ensure_backend left is what the command
\* goes on with: nothing is checked out while it runs.
EnsuredStays ==
  /\ \A f \in TreeFiles : vendor[f] # Absent => tree
  /\ EnsureDelivers

InstallInv ==
  /\ InstallTypeOK
  /\ StampIsTrue
  /\ FilledInOrder
  /\ EnsuredStays

\* A directory without files and stamp satisfies the invariant.
LEMMA InitInstallInv == Init => InstallInv
<1> SUFFICES ASSUME Init PROVE InstallInv
  OBVIOUS
<1>1. tree \in BOOLEAN /\ unfinished \in BOOLEAN /\ engine \in BOOLEAN
  BY DEF Init
<1>2. InstallTypeOK
  BY <1>1, InstallAssumption DEF Init, InstallTypeOK, Versions, Places
<1>3. StampIsTrue /\ FilledInOrder /\ EnsuredStays
  BY DEF Init, StampIsTrue, FilledInOrder, EnsuredStays, EnsureDelivers, Files
<1> QED BY <1>2, <1>3 DEF InstallInv

\* The steps of a removal, which end in an empty and unstamped directory.
LEMMA RemovalKeepsInv ==
  ASSUME InstallInv,
         RemoveTree \/ RemoveStamp \/ EndRemoval \/ \E f \in Files : RemoveFile(f)
  PROVE  InstallInv'
<1> USE DEF InstallInv, InstallTypeOK, StampIsTrue, FilledInOrder, EnsuredStays,
            EnsureDelivers, BackendVerified, UpstreamIs, InputsAre, Versions,
            Places, repoVars, vendorVars, modelVars, bounds
<1>1. ASSUME NEW f \in Files, RemoveFile(f) PROVE InstallInv'
  BY <1>1 DEF RemoveFile
<1>2. CASE RemoveTree
  BY <1>2 DEF RemoveTree
<1>3. CASE RemoveStamp
  BY <1>3 DEF RemoveStamp
<1>4. CASE EndRemoval
  BY <1>4 DEF EndRemoval, Goes
<1> QED BY <1>1, <1>2, <1>3, <1>4

\* The steps that fill the directory.  Inputs and upstream files have different
\* names, so that copying the inputs leaves the upstream files alone.
LEMMA FillingKeepsInv ==
  ASSUME InstallInv,
         \/ \E f \in TreeFiles : CopyUpstream(f)
         \/ \E f \in NamedFiles : CopyInput(f)
         \/ EndUpstream \/ EndInputs \/ WriteRevision
  PROVE  InstallInv'
<1> USE InstallAssumption
    DEF InstallInv, InstallTypeOK, StampIsTrue, FilledInOrder, EnsuredStays,
        EnsureDelivers, BackendVerified, UpstreamIs,
        InputsAre, Versions, Places, Files, repoVars, vendorVars, modelVars, bounds
<1>1. ASSUME NEW f \in TreeFiles, CopyUpstream(f) PROVE InstallInv'
  <2>1. CASE BeginCopy(f, "copying")
    <3>1. tree' \in BOOLEAN
      BY <2>1 DEF BeginCopy
    <3> QED BY <2>1, <3>1 DEF BeginCopy
  <2>2. CASE EndCopy(f, "copying", declared)
    <3>1. EnsuredStays'
      BY <2>2 DEF EndCopy
    <3>2. (InstallTypeOK /\ StampIsTrue /\ FilledInOrder)'
      BY <2>2 DEF EndCopy
    <3> QED BY <3>1, <3>2
  <2> QED BY <1>1, <2>1, <2>2 DEF CopyUpstream
<1>2. ASSUME NEW f \in NamedFiles, CopyInput(f) PROVE InstallInv'
  BY <1>2 DEF CopyInput, BeginCopy, EndCopy
<1>3. CASE EndUpstream
  BY <1>3 DEF EndUpstream, Goes
<1>4. CASE EndInputs
  BY <1>4 DEF EndInputs, Goes
<1>5. CASE WriteRevision
  BY <1>5 DEF WriteRevision, Goes
<1> QED BY <1>1, <1>2, <1>3, <1>4, <1>5

\* The model assets have no part in what the stamp says; the hashed file takes
\* its final name only when the hash is right.
LEMMA AssetsKeepInv ==
  ASSUME InstallInv,
         \/ HubPresent \/ (\E f \in HubFiles : HubDownload(f)) \/ EngineCheck
         \/ WeightsPresent \/ Download \/ TakePart \/ RefusePart
  PROVE  InstallInv'
<1> USE InstallAssumption
    DEF InstallInv, InstallTypeOK, StampIsTrue, FilledInOrder, EnsuredStays,
        EnsureDelivers, BackendVerified, UpstreamIs,
        InputsAre, Places, Goes, repoVars, vendorVars, modelVars, bounds
<1>1. CASE HubPresent \/ EngineCheck \/ WeightsPresent
  BY <1>1 DEF HubPresent, EngineCheck, WeightsPresent
<1>2. ASSUME NEW f \in HubFiles, HubDownload(f) PROVE InstallInv'
  BY <1>2 DEF HubDownload
<1>3. CASE Download
  BY <1>3 DEF Download
<1>4. CASE TakePart \/ RefusePart
  BY <1>4 DEF TakePart, RefusePart, HashOk
<1> QED BY <1>1, <1>2, <1>3, <1>4

\* InstallInv is inductive: a kill leaves everything on disk but the .part
\* file as it is, and a checkout does not touch what is installed.
LEMMA InstallInvInductive == InstallInv /\ [Next]_vars => InstallInv'
<1> SUFFICES ASSUME InstallInv, [Next]_vars PROVE InstallInv'
  OBVIOUS
<1>1. CASE Proceed
  <2>1. CASE Acquire
    BY <2>1 DEF Acquire, Goes, InstallInv, InstallTypeOK, StampIsTrue, FilledInOrder,
                EnsuredStays, EnsureDelivers,
                UpstreamIs, InputsAre, Places, repoVars, vendorVars, modelVars, bounds
  <2> QED BY <1>1, <2>1, RemovalKeepsInv, FillingKeepsInv, AssetsKeepInv DEF Proceed
<1> USE InstallAssumption
    DEF InstallInv, InstallTypeOK, StampIsTrue, FilledInOrder, EnsuredStays,
        EnsureDelivers, BackendVerified, UpstreamIs,
        InputsAre, Places, repoVars, vendorVars, modelVars, bounds
<1>2. CASE Install \/ Rebuild
  BY <1>2 DEF Install, Rebuild, NeedsRebuild, AfterCheck, Goes
<1>3. CASE Interrupt
  BY <1>3 DEF Interrupt
<1>4. CASE Checkout
  BY <1>4 DEF Checkout
<1>5. CASE UNCHANGED vars
  BY <1>5 DEF vars
<1> QED BY <1>1, <1>2, <1>3, <1>4, <1>5 DEF Next

\* The invariant holds throughout.
LEMMA InstallInvHolds == Spec => []InstallInv
BY InitInstallInv, InstallInvInductive, PTL DEF Spec

-----------------------------------------------------------------------------
(* Theorems.                                                               *)

\* What is on disk keeps its types; in particular nothing but a file with the
\* right hash is ever under the final name of the weights.
THEOREM InstallTypeCorrect == Spec => []InstallTypeOK
<1>1. InstallInv => InstallTypeOK
  BY DEF InstallInv
<1> QED BY <1>1, InstallInvHolds, PTL

\* verify_backend accepts only a complete bundle of the declared revision,
\* except after a removal that was broken off with the stamp in place.
THEOREM VerificationIsSound == Spec => []VerifiedIsWhole
<1>1. InstallInv => VerifiedIsWhole
  BY InstallAssumption
     DEF InstallInv, InstallTypeOK, StampIsTrue, UpstreamIs, InputsAre,
         VerifiedIsWhole, BackendVerified, Whole
<1> QED BY <1>1, InstallInvHolds, PTL

\* An installation that got past ensure_backend has a backend that verifies,
\* although nothing verifies it again.
THEOREM EnsureDoesDeliver == Spec => []EnsureDelivers
<1>1. InstallInv => EnsureDelivers
  BY DEF InstallInv, EnsuredStays
<1> QED BY <1>1, InstallInvHolds, PTL
==============================================================================
