---------------------------- MODULE BackendInstall ----------------------------
(***************************************************************************)
(* python -m app.backends install / rebuild: ensure_backend of             *)
(* app/backends/verify.py with acquire and materialize, then the model     *)
(* assets of app/backends/model_manager.py.                                *)
(*                                                                         *)
(* The vendor directory of a backend is removed file by file, filled again *)
(* from an upstream checkout and from the sources/ of the repository, and  *)
(* stamped with the declared revision last.  Verification looks at the     *)
(* stamp and at the existence of a few names, one of which may be a whole  *)
(* directory.  The process may be killed, or a call may raise, at any      *)
(* step; what is on disk then is what the next run starts from.            *)
(*                                                                         *)
(* Three model assets stand for the list of model_specs.py, in its order:  *)
(* a repository of the Hugging Face hub without hashes, an artifact that   *)
(* is only checked, and a hashed file fetched over HTTP.                   *)
(***************************************************************************)
EXTENDS Naturals, FiniteSets

CONSTANTS
  TreeFiles,     \* upstream files under the directory the spec expects by name
  NamedFiles,    \* files expected by name, copied from sources/
  Revisions,     \* revisions backend.toml may declare
  SourceVersions, \* versions of the repository's sources/
  Absent,        \* no such file, no stamp
  Cut,           \* a copy that was begun and not finished
  HubFiles,      \* files of the hub repository
  HubListed,     \* those the model spec lists
  MaxChanges,    \* bound: checkouts of the repository
  MaxFaults      \* bound: kills and raising calls

ASSUME InstallAssumption ==
  /\ TreeFiles \intersect NamedFiles = {}
  /\ NamedFiles # {}
  /\ Revisions \intersect SourceVersions = {}
  /\ Absent # Cut
  /\ {Absent, Cut} \intersect (Revisions \union SourceVersions) = {}
  /\ HubListed \subseteq HubFiles
  /\ MaxChanges \in Nat /\ MaxFaults \in Nat

VARIABLES
  declared,    \* the revision backend.toml declares
  sources,     \* the version of the files under sources/
  vendor,      \* the version a file of the vendor directory was copied from
  tree,        \* whether the expected directory exists
  stamp,       \* the content of .revision
  unfinished,  \* ghost: a removal of the vendor directory began and has not ended
  hub, engine, weights, part,   \* the model assets
  pc,
  changes, faults

repoVars == <<declared, sources>>
vendorVars == <<vendor, tree, stamp, unfinished>>
modelVars == <<hub, engine, weights, part>>
bounds == <<changes, faults>>
vars == <<repoVars, vendorVars, modelVars, pc, bounds>>

Files == TreeFiles \union NamedFiles
Versions == Revisions \union SourceVersions \union {Absent, Cut}
Places == {"idle", "acquiring", "removing", "copying", "overlaying", "stamping",
           "hub", "engine", "weights", "hashing"}

Init ==
  /\ declared \in Revisions /\ sources \in SourceVersions
  /\ vendor = [f \in Files |-> Absent] /\ tree = FALSE
  /\ stamp = Absent /\ unfinished = FALSE
  /\ hub = {} /\ engine \in BOOLEAN
  /\ weights = "absent" /\ part = "absent"
  /\ pc = "idle" /\ changes = 0 /\ faults = 0

Goes(from, to) == pc = from /\ pc' = to

-----------------------------------------------------------------------------
\* verify_backend answers "ok".
BackendVerified_AnyRevision ==
  /\ stamp # Absent
  /\ TreeFiles # {} => tree
  /\ \A f \in NamedFiles : vendor[f] # Absent

BackendVerified ==
  /\ stamp = declared
  /\ TreeFiles # {} => tree
  /\ \A f \in NamedFiles : vendor[f] # Absent

NeedsRebuild_OnlyMissing ==
  \/ stamp = Absent
  \/ \E f \in NamedFiles : vendor[f] = Absent

NeedsRebuild == ~BackendVerified

\* A backend whose sources/ are authoritative needs no checkout.
AfterCheck == IF TreeFiles = {} THEN "removing" ELSE "acquiring"

Install ==
  /\ Goes("idle", IF NeedsRebuild THEN AfterCheck ELSE "hub")
  /\ UNCHANGED <<repoVars, vendorVars, modelVars, bounds>>

Rebuild ==
  /\ Goes("idle", AfterCheck)
  /\ UNCHANGED <<repoVars, vendorVars, modelVars, bounds>>

\* git clone and checkout into a temporary directory.
Acquire ==
  /\ Goes("acquiring", "removing")
  /\ UNCHANGED <<repoVars, vendorVars, modelVars, bounds>>

-----------------------------------------------------------------------------
(* shutil.rmtree takes the entries in the order of the directory: the      *)
(* stamp may be the first or the last.                                     *)
RemoveFile(f) ==
  /\ pc = "removing"
  /\ vendor[f] # Absent
  /\ vendor' = [vendor EXCEPT ![f] = Absent]
  /\ unfinished' = TRUE
  /\ UNCHANGED <<repoVars, tree, stamp, modelVars, pc, bounds>>

RemoveTree ==
  /\ pc = "removing"
  /\ tree /\ \A f \in TreeFiles : vendor[f] = Absent
  /\ tree' = FALSE /\ unfinished' = TRUE
  /\ UNCHANGED <<repoVars, vendor, stamp, modelVars, pc, bounds>>

RemoveStamp ==
  /\ pc = "removing"
  /\ stamp # Absent
  /\ stamp' = Absent /\ unfinished' = TRUE
  /\ UNCHANGED <<repoVars, vendor, tree, modelVars, pc, bounds>>

EndRemoval ==
  /\ Goes("removing", "copying")
  /\ \A f \in Files : vendor[f] = Absent
  /\ ~tree /\ stamp = Absent
  /\ unfinished' = FALSE
  /\ UNCHANGED <<repoVars, vendor, tree, stamp, modelVars, bounds>>

\* _copy_file makes the directory and opens the target ...
BeginCopy(f, place) ==
  /\ pc = place
  /\ vendor[f] = Absent
  /\ \A g \in Files : vendor[g] # Cut
  /\ vendor' = [vendor EXCEPT ![f] = Cut]
  /\ tree' = (tree \/ f \in TreeFiles)
  /\ UNCHANGED <<repoVars, stamp, unfinished, modelVars, pc, bounds>>

\* ... and then the content is there.
EndCopy(f, place, version) ==
  /\ pc = place
  /\ vendor[f] = Cut
  /\ vendor' = [vendor EXCEPT ![f] = version]
  /\ UNCHANGED <<repoVars, tree, stamp, unfinished, modelVars, pc, bounds>>

\* The filtered files of the checkout come first, then the runtime inputs.
CopyUpstream(f) ==
  BeginCopy(f, "copying") \/ EndCopy(f, "copying", declared)

EndUpstream ==
  /\ Goes("copying", "overlaying")
  /\ \A f \in TreeFiles : vendor[f] = declared
  /\ UNCHANGED <<repoVars, vendorVars, modelVars, bounds>>

CopyInput(f) ==
  BeginCopy(f, "overlaying") \/ EndCopy(f, "overlaying", sources)

EndInputs ==
  /\ Goes("overlaying", "stamping")
  /\ \A f \in NamedFiles : vendor[f] = sources
  /\ UNCHANGED <<repoVars, vendorVars, modelVars, bounds>>

WriteRevision ==
  /\ Goes("stamping", "hub")
  /\ stamp' = declared
  /\ UNCHANGED <<repoVars, vendor, tree, unfinished, modelVars, bounds>>

-----------------------------------------------------------------------------
(* ModelManager.ensure takes the specs in order and stops at the first     *)
(* that raises.                                                            *)
HubPresent ==
  /\ Goes("hub", "engine")
  /\ HubListed \subseteq hub
  /\ UNCHANGED <<repoVars, vendorVars, modelVars, bounds>>

\* snapshot_download moves one file after the other into target_dir.
HubDownload(f) ==
  /\ pc = "hub"
  /\ f \notin hub
  /\ hub' = hub \union {f}
  /\ UNCHANGED <<repoVars, vendorVars, engine, weights, part, pc, bounds>>

EngineCheck ==
  /\ \/ engine /\ Goes("engine", "weights")
     \/ ~engine /\ Goes("engine", "idle")
  /\ UNCHANGED <<repoVars, vendorVars, modelVars, bounds>>

WeightsPresent ==
  /\ Goes("weights", "idle")
  /\ weights = "good"
  /\ UNCHANGED <<repoVars, vendorVars, modelVars, bounds>>

\* The body is written to the .part file, complete, or short when the
\* connection was closed early.
Download ==
  /\ Goes("weights", "hashing")
  /\ weights # "good"
  /\ \/ part' = "good" /\ UNCHANGED faults
     \/ part' = "bad" /\ faults < MaxFaults /\ faults' = faults + 1
  /\ UNCHANGED <<repoVars, vendorVars, hub, engine, weights, changes>>

HashOk_Unchecked == TRUE
HashOk == part = "good"

TakePart ==
  /\ Goes("hashing", "idle")
  /\ HashOk
  /\ weights' = part /\ part' = "absent"
  /\ UNCHANGED <<repoVars, vendorVars, hub, engine, bounds>>

RefusePart ==
  /\ Goes("hashing", "idle")
  /\ ~HashOk
  /\ part' = "absent"
  /\ UNCHANGED <<repoVars, vendorVars, hub, engine, weights, bounds>>

-----------------------------------------------------------------------------
\* A call raises or the process is killed.  An exception while the .part file
\* is written removes it, a kill does not.
Interrupt ==
  /\ pc # "idle"
  /\ faults < MaxFaults
  /\ faults' = faults + 1
  /\ pc' = "idle"
  /\ part' \in {part, "absent"} \union (IF pc = "weights" THEN {"bad"} ELSE {})
  /\ UNCHANGED <<repoVars, vendorVars, hub, engine, weights, changes>>

\* The user checks out another commit.
Checkout ==
  /\ pc = "idle"
  /\ changes < MaxChanges
  /\ changes' = changes + 1
  /\ declared' \in Revisions
  /\ sources' \in SourceVersions
  /\ UNCHANGED <<vendorVars, modelVars, pc, faults>>

-----------------------------------------------------------------------------
Proceed ==
  \/ Acquire
  \/ \E f \in Files : RemoveFile(f)
  \/ RemoveTree \/ RemoveStamp \/ EndRemoval
  \/ \E f \in TreeFiles : CopyUpstream(f)
  \/ EndUpstream
  \/ \E f \in NamedFiles : CopyInput(f)
  \/ EndInputs \/ WriteRevision
  \/ HubPresent \/ (\E f \in HubFiles : HubDownload(f)) \/ EngineCheck
  \/ WeightsPresent \/ Download \/ TakePart \/ RefusePart

Next == Install \/ Rebuild \/ Proceed \/ Interrupt \/ Checkout

Spec == Init /\ [][Next]_vars

\* The command runs to its end, and somebody runs it again.
Fairness == WF_vars(Proceed) /\ WF_vars(Install)
FairSpec == Spec /\ Fairness

-----------------------------------------------------------------------------
InstallTypeOK ==
  /\ declared \in Revisions /\ sources \in SourceVersions
  /\ vendor \in [Files -> Versions] /\ tree \in BOOLEAN
  /\ stamp \in Revisions \union {Absent} /\ unfinished \in BOOLEAN
  /\ hub \subseteq HubFiles /\ engine \in BOOLEAN
  /\ weights \in {"absent", "good"} /\ part \in {"absent", "good", "bad"}
  /\ pc \in Places
  /\ changes \in 0..MaxChanges /\ faults \in 0..MaxFaults

\* Every file of the declared revision is there in full, and the runtime inputs
\* are of one version of sources/.
Whole ==
  /\ \A f \in TreeFiles : vendor[f] = declared
  /\ \E v \in SourceVersions : \A f \in NamedFiles : vendor[f] = v

\* verify_backend never accepts a bundle that is incomplete, cut off or of
\* another revision, whatever was interrupted and checked out before, unless a
\* removal was interrupted while the stamp was still in place.
VerifiedIsWhole == BackendVerified => Whole \/ unfinished

\* ensure_backend does not look at what it has built, and whatever it found on
\* disk, it returns with a backend that verifies: the model assets are never put
\* beside a stale one (verify.py:91-118, materialize.py:29-63).
EnsureDelivers == pc \in {"hub", "engine", "weights", "hashing"} => BackendVerified

\* An installation that is repeated ends with a verified backend and, where
\* the artifacts before it are there, with the weights, which reach their final
\* name only with the right hash: whatever state of the disk interruptions,
\* other revisions and a .part file left behind.
InstallConverges ==
  []<>(BackendVerified /\ HubListed \subseteq hub /\ (engine => weights = "good"))
==============================================================================
