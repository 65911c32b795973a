------------------------------ MODULE UpscaleRun ------------------------------
(***************************************************************************)
(* An upscale job from the request to its output file: the parameters the  *)
(* API resolves and checks (app/api.py), the rename of the model by the    *)
(* version API, the subprocess and the loop that watches it                *)
(* (app/process_runner.py), and the search for the file it wrote           *)
(* (app/upscaler.py).                                                      *)
(*                                                                         *)
(* All jobs, the generated videos included, share one output directory     *)
(* (settings.output_dir and settings.upscale_output_dir are one path).     *)
(* It is the sequence of its files from the oldest to the newest.  The     *)
(* subprocess is external: it reads its source, writes one file, ends with *)
(* or without an error, with or without a file, or hangs.                  *)
(***************************************************************************)
EXTENDS Naturals, Sequences, FiniteSets, SequencesExt

CONSTANTS
  Jobs,          \* upscale jobs
  Sources,       \* generated videos
  Payloads,      \* requests a client may send
  Size,          \* [Sources -> width and height in the source job's params]
  None,          \* an argument that is not given, a file that is not found
  MaxParallel,   \* upscale workers
  MaxFaults      \* bound: stop requests, raising probes, processes ending badly

Backends == {"realesrgan-animevideov3", "realbasicvsr", "seedvr2-3b"}
Arguments == Nat \union {None}

\* How a run ends.
Outcomes == {"refused", "cancelled", "timeout", "probe_error", "process_error",
             "no_output", "succeeded"}

ASSUME UpscaleAssumption ==
  /\ \A p \in Payloads : /\ p.api \in {"upscale", "version"}
                         /\ {p.scale, p.width, p.height} \subseteq Arguments
                         /\ p.source \in Sources
  /\ \A s \in Sources : Size[s].width \in Nat \ {0} /\ Size[s].height \in Nat \ {0}
  /\ None \notin Nat /\ None \notin Jobs \union Sources \union Outcomes
  /\ MaxParallel \in Nat \ {0} /\ MaxFaults \in Nat

VARIABLES
  record,      \* upscale_params and source of the stored job
  renaming,    \* the request still has to rename the model of the job
  used,        \* the parameters the worker runs the job with
  pc,          \* where the job is
  outcome,     \* how the run ended
  before,      \* pre_existing_files
  found,       \* the file discovered as output
  proc,        \* the subprocess
  wrote,       \* how much of its file the subprocess wrote
  asked,       \* the probe answers that the run must stop
  directory,   \* the files of the output directory, the oldest first
  crowded,     \* ghost: another run was active during the run
  faults

requestVars == <<record, renaming>>
runVars == <<used, pc, outcome, before, found>>
procVars == <<proc, wrote, crowded>>
vars == <<requestVars, runVars, procVars, asked, directory, faults>>

-----------------------------------------------------------------------------
(* Parameters.                                                             *)

Default(b) == IF b = "realbasicvsr" THEN 4 ELSE 2

Given(a) == a # None
Multiple32(a) == Given(a) => a % 32 = 0

\* validate_params answers without an error.
Valid(b, scale, w, h) ==
  CASE b = "realesrgan-animevideov3" -> ~Given(w) /\ ~Given(h) /\ scale <= 4
    [] b = "realbasicvsr" -> scale = 4
    [] OTHER -> scale <= 4 /\ Multiple32(w) /\ Multiple32(h)

\* A scale of zero counts as not given; one that is not given is computed
\* from the target, and is the default when the quotient is zero.
ResolvedScale(p, b, size) ==
  LET quotient == IF Given(p.width)  THEN p.width \div size.width
                  ELSE IF Given(p.height) THEN p.height \div size.height
                  ELSE 0
  IN  IF p.scale \notin {None, 0} THEN p.scale
      ELSE IF quotient = 0 THEN Default(b) ELSE quotient

RuntimeModel(p) ==
  IF p.api = "version" /\ p.model = "seedvr2" THEN "seedvr2-3b" ELSE p.model

Accepts(p) ==
  LET b == RuntimeModel(p)
  IN  b \in Backends /\ Valid(b, ResolvedScale(p, b, Size[p.source]), p.width, p.height)

\* The target of SeedVR2 is filled in after the check.
Resolved(p) ==
  LET b == RuntimeModel(p)
      n == ResolvedScale(p, b, Size[p.source])
      fill == b = "seedvr2-3b" /\ ~Given(p.width) /\ ~Given(p.height)
  IN  [source |-> p.source, model |-> b, scale |-> n,
       width  |-> IF fill THEN Size[p.source].width * n ELSE p.width,
       height |-> IF fill THEN Size[p.source].height * n ELSE p.height]

-----------------------------------------------------------------------------
(* The output directory.                                                   *)

File(kind, of) == [kind |-> kind, of |-> of]
Video(s) == File("video", s)
Final(j) == File("final", j)

\* The name the backend writes to in the output directory.
Writes(j) ==
  CASE used[j].model = "realbasicvsr" -> File("output.mp4", None)
    [] used[j].model = "realesrgan-animevideov3" -> File("out", used[j].source)
    [] OTHER -> File("seedvr2", used[j].source)

Entry(name, s, j, whole) == [name |-> name, source |-> s, by |-> j, whole |-> whole]

Names(dir) == {e.name : e \in Range(dir)}
EntryOf(dir, name) == CHOOSE e \in Range(dir) : e.name = name
Renamed(dir, from, to) ==
  [i \in DOMAIN dir |-> IF dir[i].name = from THEN [dir[i] EXCEPT !.name = to]
                        ELSE dir[i]]

\* A file that is opened anew is no longer where it was.
Without(dir, name) ==
  IF name \in Names(dir)
  THEN RemoveAt(dir, CHOOSE i \in DOMAIN dir : dir[i].name = name)
  ELSE dir

Init ==
  /\ record = [j \in Jobs |-> None] /\ renaming = [j \in Jobs |-> FALSE]
  /\ used = [j \in Jobs |-> None] /\ pc = [j \in Jobs |-> "absent"]
  /\ outcome = [j \in Jobs |-> None] /\ before = [j \in Jobs |-> {}]
  /\ found = [j \in Jobs |-> None]
  /\ proc = [j \in Jobs |-> "none"] /\ wrote = [j \in Jobs |-> "nothing"]
  /\ crowded = [j \in Jobs |-> FALSE]
  /\ asked = [j \in Jobs |-> FALSE]
  /\ directory = <<>> /\ faults = 0

\* A generate job of another worker leaves its video.
Generate(s) ==
  /\ Video(s) \notin {e.name : e \in Range(directory)}
  /\ \A e \in Range(directory) : e.source # s
  /\ directory' = Append(directory, Entry(Video(s), s, None, TRUE))
  /\ UNCHANGED <<requestVars, runVars, procVars, asked, faults>>

-----------------------------------------------------------------------------
(* Requests.                                                               *)

RequestUpscale(j, p) ==
  /\ pc[j] = "absent"
  /\ Video(p.source) \in Names(directory)
  /\ Accepts(p)
  /\ record' = [record EXCEPT ![j] = Resolved(p)]
  /\ renaming' = [renaming EXCEPT ![j] = p.api = "version" /\ p.model = "seedvr2"]
  /\ pc' = [pc EXCEPT ![j] = "queued"]
  /\ UNCHANGED <<used, outcome, before, found, procVars, asked,
                 directory, faults>>

\* update_job after the job was queued, whatever has become of it.
RenameModel(j) ==
  /\ renaming[j]
  /\ renaming' = [renaming EXCEPT ![j] = FALSE]
  /\ record' = [record EXCEPT ![j].model = "seedvr2"]
  /\ UNCHANGED <<runVars, procVars, asked, directory, faults>>

AskStop(j) ==
  /\ pc[j] \in {"polling", "waiting"} /\ ~asked[j]
  /\ faults < MaxFaults
  /\ faults' = faults + 1
  /\ asked' = [asked EXCEPT ![j] = TRUE]
  /\ UNCHANGED <<requestVars, runVars, procVars, directory>>

-----------------------------------------------------------------------------
(* The run.                                                                *)

Running == {"checking", "polling", "waiting", "collecting", "replacing"}

\* The record mark_running returns is what the engine gets.
StartRun(j) ==
  /\ pc[j] = "queued"
  /\ Cardinality({i \in Jobs : pc[i] \in Running}) < MaxParallel
  /\ pc' = [pc EXCEPT ![j] = "checking"]
  /\ used' = [used EXCEPT ![j] = record[j]]
  /\ UNCHANGED <<requestVars, outcome, before, found, procVars, asked,
                 directory, faults>>

\* The variables of the call are gone with it.
Ends(j, how) ==
  /\ pc' = [pc EXCEPT ![j] = "ended"]
  /\ outcome' = [outcome EXCEPT ![j] = how]
  /\ before' = [before EXCEPT ![j] = {}]
  /\ found' = [found EXCEPT ![j] = None]
  /\ crowded' = [crowded EXCEPT ![j] = FALSE]
  /\ asked' = [asked EXCEPT ![j] = FALSE]

Goes(j, place) ==
  /\ pc' = [pc EXCEPT ![j] = place]
  /\ UNCHANGED <<outcome, before, found, crowded, asked>>

Executable(u) == u.model \in Backends /\ Valid(u.model, u.scale, u.width, u.height)

Refuse(j) ==
  /\ pc[j] = "checking" /\ ~Executable(used[j])
  /\ Ends(j, "refused")
  /\ UNCHANGED <<requestVars, used, proc, wrote, directory, faults>>

\* Runs whose process or whose search for the output is under way.
Active == {i \in Jobs : \/ proc[i] = "running"
                        \/ pc[i] \in {"polling", "waiting", "collecting", "replacing"}}

Launch(j) ==
  /\ pc[j] = "checking" /\ Executable(used[j])
  /\ pc' = [pc EXCEPT ![j] = "polling"]
  /\ before' = [before EXCEPT ![j] = Names(directory)]
  /\ proc' = [proc EXCEPT ![j] = "running"]
  /\ crowded' = [i \in Jobs |-> crowded[i] \/ i \in Active \/ (i = j /\ Active # {})]
  /\ UNCHANGED <<requestVars, used, outcome, found, wrote, asked,
                 directory, faults>>

Killed_LeftRunning(j) == proc

\* The process group is killed, also when its leader is gone already.
Killed(j) == [proc EXCEPT ![j] = IF @ = "running" THEN "killed" ELSE @]

\* A turn of the loop: should_cancel comes first ...
Stop(j) ==
  /\ pc[j] = "polling" /\ asked[j]
  /\ Ends(j, "cancelled") /\ proc' = Killed(j)
  /\ UNCHANGED <<requestVars, used, wrote, directory, faults>>

TimeOut_OnlyIdle(j) ==
  /\ pc[j] = "polling" /\ ~asked[j] /\ proc[j] # "running"
  /\ Ends(j, "timeout") /\ proc' = Killed(j)
  /\ UNCHANGED <<requestVars, used, wrote, directory, faults>>

\* ... then the deadline, which may have passed in any turn ...
TimeOut(j) ==
  /\ pc[j] = "polling" /\ ~asked[j]
  /\ Ends(j, "timeout") /\ proc' = Killed(j)
  /\ UNCHANGED <<requestVars, used, wrote, directory, faults>>

\* ... then at most a quarter of a second of communicate.
Wait(j) ==
  /\ pc[j] = "polling" /\ ~asked[j]
  /\ Goes(j, "waiting")
  /\ UNCHANGED <<requestVars, used, proc, wrote, directory, faults>>

\* The probe reads the job store and may raise: nobody ends the process.
ProbeRaises(j) ==
  /\ pc[j] = "polling" /\ faults < MaxFaults
  /\ faults' = faults + 1
  /\ Ends(j, "probe_error")
  /\ UNCHANGED <<requestVars, used, proc, wrote, directory>>

Communicate(j) ==
  /\ pc[j] = "waiting"
  /\ CASE proc[j] = "error" -> Ends(j, "process_error")
       [] proc[j] = "exited" -> Goes(j, "collecting")
       [] OTHER -> Goes(j, "polling")
  /\ UNCHANGED <<requestVars, used, proc, wrote, directory, faults>>

\* _discover_output_path: the newest new file, or the only video there is.
Discover_Newest(j) ==
  LET new == SelectSeq(directory, LAMBDA e : e.name \notin before[j])
  IN  CASE new # <<>> -> Last(new).name
        [] new = <<>> /\ Len(directory) = 1 -> directory[1].name
        [] OTHER -> None

\* Two of the backends have a file they are known to write.
Discover(j) ==
  LET expected == used[j].model # "seedvr2-3b" /\ Writes(j) \in Names(directory)
      new == SelectSeq(directory, LAMBDA e : e.name \notin before[j])
  IN  CASE expected -> Writes(j)
        [] ~expected /\ new # <<>> -> Last(new).name
        [] ~expected /\ new = <<>> /\ Len(directory) = 1 -> directory[1].name
        [] OTHER -> None

Collect(j) ==
  /\ pc[j] = "collecting"
  /\ \/ Discover(j) = None /\ Ends(j, "no_output")
     \/ /\ Discover(j) # None
        /\ pc' = [pc EXCEPT ![j] = "replacing"]
        /\ found' = [found EXCEPT ![j] = Discover(j)]
        /\ UNCHANGED <<outcome, before, crowded, asked>>
  /\ UNCHANGED <<requestVars, used, proc, wrote, directory, faults>>

\* os.replace to the path of the job; another run may have been faster.
Replace(j) ==
  /\ pc[j] = "replacing"
  /\ \/ /\ found[j] \in Names(directory)
        /\ directory' = Renamed(directory, found[j], Final(j))
        /\ Ends(j, "succeeded")
     \/ /\ found[j] \notin Names(directory)
        /\ Ends(j, "no_output") /\ UNCHANGED directory
  /\ UNCHANGED <<requestVars, used, proc, wrote, faults>>

-----------------------------------------------------------------------------
(* The subprocess.                                                         *)

ProcOpens(j) ==
  /\ proc[j] = "running" /\ wrote[j] = "nothing"
  /\ Video(used[j].source) \in Names(directory)
  /\ wrote' = [wrote EXCEPT ![j] = "part"]
  /\ directory' = Append(Without(directory, Writes(j)),
                         Entry(Writes(j), used[j].source, j, FALSE))
  /\ UNCHANGED <<requestVars, runVars, proc, crowded, asked, faults>>

\* What it wrote is whole, wherever the file has been moved meanwhile, and the
\* newest; nothing is left of it if another process opened the same name.
ProcCloses(j) ==
  LET mine == {i \in DOMAIN directory : directory[i].by = j}
  IN  /\ proc[j] = "running" /\ wrote[j] = "part"
      /\ wrote' = [wrote EXCEPT ![j] = "all"]
      /\ \/ \E i \in mine :
              directory' = Append(RemoveAt(directory, i),
                                  [directory[i] EXCEPT !.whole = TRUE])
         \/ mine = {} /\ UNCHANGED directory
      /\ UNCHANGED <<requestVars, runVars, proc, crowded, asked, faults>>

ProcExits(j) ==
  /\ proc[j] = "running" /\ wrote[j] = "all"
  /\ proc' = [proc EXCEPT ![j] = "exited"]
  /\ UNCHANGED <<requestVars, runVars, wrote, crowded, asked, directory,
                 faults>>

\* It fails at any point, or ends without an error and without a file.
ProcFails(j) ==
  /\ proc[j] = "running" /\ faults < MaxFaults
  /\ faults' = faults + 1
  /\ \/ proc' = [proc EXCEPT ![j] = "error"]
     \/ wrote[j] = "nothing" /\ proc' = [proc EXCEPT ![j] = "exited"]
  /\ UNCHANGED <<requestVars, runVars, wrote, crowded, asked, directory>>

-----------------------------------------------------------------------------
RunStep(j) ==
  \/ StartRun(j) \/ Refuse(j) \/ Launch(j) \/ Stop(j) \/ Wait(j)
  \/ Communicate(j) \/ Collect(j) \/ Replace(j)

Next ==
  \/ \E s \in Sources : Generate(s)
  \/ \E j \in Jobs :
       \/ \E p \in Payloads : RequestUpscale(j, p)
       \/ RenameModel(j) \/ AskStop(j)
       \/ RunStep(j) \/ TimeOut(j) \/ ProbeRaises(j)
       \/ ProcOpens(j) \/ ProcCloses(j) \/ ProcExits(j) \/ ProcFails(j)

Spec == Init /\ [][Next]_vars

\* A worker goes on with its run and the deadline passes; the process may hang.
Fairness == \A j \in Jobs : WF_vars(RunStep(j)) /\ SF_vars(TimeOut(j))
FairSpec == Spec /\ Fairness

-----------------------------------------------------------------------------
\* Every variable has its type, no two files have one name, and a process is
\* alive only while its run watches it or after the probe of the run raised.
UpscaleTypeOK ==
  /\ pc \in [Jobs -> {"absent", "queued", "ended"} \union Running]
  /\ outcome \in [Jobs -> Outcomes \union {None}]
  /\ proc \in [Jobs -> {"none", "running", "killed", "exited", "error"}]
  /\ wrote \in [Jobs -> {"nothing", "part", "all"}]
  /\ \A i, k \in DOMAIN directory :
       directory[i].name = directory[k].name => i = k
  /\ \A j \in Jobs : proc[j] = "running" =>
       pc[j] \in {"polling", "waiting"} \/ outcome[j] = "probe_error"
  /\ faults \in 0..MaxFaults

\* A run that succeeds while no other run was active, with a backend whose
\* file is known by name and whose process wrote it, has the whole upscale of
\* its own source, although failed runs and other jobs left their files in the
\* directory (upscaler.py:395-433).
OwnWhenAlone ==
  [][\A j \in Jobs :
       /\ pc[j] = "replacing" /\ outcome'[j] = "succeeded"
       /\ ~crowded[j] /\ wrote[j] = "all" /\ used[j].model # "seedvr2-3b"
       => EntryOf(directory', Final(j))
            = Entry(Final(j), used[j].source, j, TRUE)]_vars

\* A run that was launched ends, also when its process hangs: the stop signal
\* and the timeout are looked at in every turn of the loop
\* (process_runner.py:94-109).
RunEnds == \A j \in Jobs : pc[j] = "polling" ~> pc[j] = "ended"

\* app/api.py:493-497 "... persisted versions keep the spec field name while
\* queued jobs remain executable by the current worker."
QueuedStaysExecutable == \A j \in Jobs : outcome[j] # "refused"
==============================================================================
