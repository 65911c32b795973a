------------------------------ MODULE Workbench ------------------------------
(***************************************************************************)
(* The result workbench: the jobs as results and versions, the stream      *)
(* /api/events of app/api.py, and the React page of frontend/src/App.tsx   *)
(* with its requests.                                                      *)
(*                                                                         *)
(* The stream polls: once a second it compares the status of every version *)
(* with the one it saw last.  The page loads the list and connects at the  *)
(* same time; an update event patches a status, a creation event makes the *)
(* page fetch the result, an error and the user's actions make it fetch    *)
(* everything.  Requests are served and answered in any order, and an      *)
(* answer is applied when it arrives, whatever has happened since it was   *)
(* served.                                                                 *)
(***************************************************************************)
EXTENDS ResultViews, SequencesExt

CONSTANTS
  Jobs,         \* job ids, numbers because ids are compared
  CreatedAt,    \* [Jobs -> rank of created_at], in no relation to the order of
                \* creation: timestamps may be backfilled, clocks differ
  Statuses,     \* the statuses told apart
  Absent,       \* no such job; a version the page does not show
  All,          \* a request for every result
  MaxWrites,    \* bound: changes of the store
  MaxRequests,  \* bound: requests and answers on their way
  MaxLoads      \* bound: lost connections and reloads by the user

ASSUME WorkbenchAssumption ==
  /\ Jobs \subseteq Nat /\ IsFiniteSet(Jobs) /\ CreatedAt \in [Jobs -> Nat]
  /\ NoJob \notin Jobs /\ All \notin Jobs
  /\ Absent \notin Jobs /\ Absent \notin Statuses /\ Absent # NoJob
  /\ {"queued", "succeeded"} \subseteq Statuses /\ IsFiniteSet(Statuses)
  /\ "completed" \notin Statuses      \* of old files, rewritten when they are read
  /\ MaxWrites \in Nat /\ MaxRequests \in Nat \ {0} /\ MaxLoads \in Nat

VARIABLES
  status, parent,   \* the job store; the source of a job stays known when it goes
  conn,      \* the page's event stream
  known,     \* known_versions of the stream
  wire,      \* events on their way to the page
  shown,     \* the status the page shows of a version
  asks,      \* how many requests for a result, or for all, are not served yet
  answers,   \* answers on their way to the page
  clean,     \* ghost: no change was overlooked, and no event handled, behind the
             \* back of the answers the page has applied
  writes, loads

storeVars == <<status, parent, writes>>
streamVars == <<conn, known, wire, loads>>
pageVars == <<shown, asks, answers, clean>>
vars == <<storeVars, streamVars, pageVars>>

Views == [Jobs -> Statuses \union {Absent}]

\* One or several moves of the job store, a restart and a retry included.
Moves(s) == Statuses \intersect
  (CASE s = "queued"     -> {"claimed", "running", "cancelling",
                             "succeeded", "failed", "cancelled"}
     [] s = "claimed"    -> {"running", "cancelling",
                             "succeeded", "failed", "cancelled"}
     [] s = "running"    -> {"cancelling", "succeeded", "failed", "cancelled"}
     [] s = "cancelling" -> {"succeeded", "failed", "cancelled"}
     [] s = "failed"     -> {"cancelling", "cancelled"}
     [] OTHER            -> {})

Stored(view) == {j \in Jobs : view[j] # Absent}
Root(j) == RootJob(Stored(status), parent, j)

\* Also of a version that is gone from the store, which a page may still show.
ResultOf(j) == RootJob(Jobs, parent, j)
InResult(r) == Group(Stored(status), parent, r)

CanUpscale_Any(p) == status[p] # Absent

\* Only the output of a succeeded job is upscaled, and such a job stays
\* (SucceededIsFinal of JobStore), so the check and the creation are one step.
CanUpscale(p) == status[p] = "succeeded"

\* The page is opened on a store that has a history: the jobs of a set, each
\* generated or made from an older one, in any status.
Init ==
  /\ status \in Views
  /\ parent \in [Jobs -> Jobs \union {NoJob, Absent}]
  /\ \A j \in Jobs :
       /\ parent[j] \in Jobs => parent[j] < j /\ CanUpscale(parent[j])
       /\ parent[j] = Absent <=> status[j] = Absent
       /\ parent[j] = Absent => \A i \in Jobs : i > j => parent[i] = Absent
  /\ writes = 0
  /\ conn = "down" /\ wire = <<>> /\ loads = 0
  /\ shown = [j \in Jobs |-> Absent] /\ known = shown /\ clean = FALSE
  /\ asks = [r \in Jobs \union {All} |-> IF r = All THEN 1 ELSE 0]
  /\ answers = {}

-----------------------------------------------------------------------------
(* The store.                                                              *)

Writes == writes < MaxWrites /\ writes' = writes + 1

\* create_result_api and /generate, or an upscale of p.
NewJob(j, p) ==
  /\ Writes
  /\ parent[j] = Absent
  /\ status' = [status EXCEPT ![j] = "queued"]
  /\ parent' = [parent EXCEPT ![j] = p]

\* /generate takes the id its client chooses, and create_job refuses only the id
\* of a record: that of a deleted job is free again (not of an upscale: the
\* service makes those up).
GenerateAgain(j) ==
  /\ Writes
  /\ parent[j] = NoJob /\ status[j] = Absent
  /\ status' = [status EXCEPT ![j] = "queued"]
  /\ UNCHANGED parent

\* The events make up for a change of j to s behind a view: they will, if the
\* stream saw another status last, and need not, if the view has this one.  To a
\* view without j only the creation of j is told.
Noticed(view, j, s) ==
  IF view[j] = Absent THEN status[j] # Absent \/ known[j] = Absent
                      ELSE view[j] = s \/ known[j] # s

\* A status that is back at what the stream saw last, or a job that is back
\* before the stream saw it go, is no change to the stream.
SetBehindThePage(j, s) ==
  /\ clean' = (clean /\ Noticed(shown, j, s))
  /\ answers' = {[a EXCEPT !.valid = @ /\ Noticed(a.view, j, s)] : a \in answers}

\* A client other than the page, the legacy page for one.
CreateElsewhere(j) ==
  /\ \/ NewJob(j, NoJob)
     \/ \E p \in Jobs : CanUpscale(p) /\ NewJob(j, p)
     \/ GenerateAgain(j)
  /\ SetBehindThePage(j, "queued")
  /\ UNCHANGED <<streamVars, shown, asks>>

Overtaken == {[a EXCEPT !.valid = FALSE] : a \in answers}

Move(j) ==
  /\ Writes
  /\ status[j] # Absent
  /\ \E s \in Moves(status[j]) :
       /\ status' = [status EXCEPT ![j] = s]
       /\ SetBehindThePage(j, s)
  /\ UNCHANGED <<parent, streamVars, shown, asks>>

Cleared_Terminal(view) ==
  [j \in Jobs |-> IF view[j] \in {"succeeded", "failed", "cancelled"}
                    THEN Absent ELSE view[j]]

\* What delete_failed_jobs removes; the parent stays known to the ghosts only.
Cleared(view) ==
  [j \in Jobs |-> IF view[j] \in {"failed", "cancelled"} THEN Absent ELSE view[j]]

ClearElsewhere ==
  /\ Writes
  /\ Cleared(status) # status
  /\ status' = Cleared(status)
  /\ UNCHANGED <<parent, streamVars, pageVars>>

-----------------------------------------------------------------------------
(* The stream.                                                             *)

Connect ==
  /\ conn = "down"
  /\ conn' = "open" /\ known' = status
  /\ UNCHANGED <<storeVars, wire, loads, pageVars>>

Event(kind, j) ==
  [kind |-> kind, result |-> Root(j), job |-> j, status |-> status[j]]

Changes_OnlyKnown ==
  {Event("version_updated", j) : j \in
     {i \in Stored(status) : known[i] \notin {Absent, status[i]}}}

Changes_OnlyNew ==
  {Event("version_created", j) : j \in {i \in Stored(status) : known[i] = Absent}}

\* _collect_result_store_events: nothing is said of a version that is gone.
Changes ==
  {Event(IF known[j] = Absent THEN "version_created" ELSE "version_updated", j) :
     j \in {i \in Stored(status) : known[i] # status[i]}}

Poll ==
  /\ conn = "open" /\ known # status
  /\ known' = status
  /\ wire' = wire \o SetToSeq(Changes)
  /\ UNCHANGED <<storeVars, conn, loads, pageVars>>

InFlight == Cardinality(answers)
              + FoldFunction(LAMBDA n, m : n + m, 0, asks)

Asking(r) ==
  /\ InFlight < MaxRequests
  /\ asks' = [asks EXCEPT ![r] = @ + 1]

\* source.onerror: what was on the way is lost, and with the stream what it knew;
\* the page loads everything, and the browser connects again.
Break ==
  /\ conn = "open" /\ loads < MaxLoads /\ loads' = loads + 1
  /\ conn' = "down" /\ wire' = <<>>
  /\ Asking(All)
  /\ known' = [j \in Jobs |-> Absent]
  /\ clean' = FALSE
  /\ answers' = Overtaken
  /\ UNCHANGED <<storeVars, shown>>

-----------------------------------------------------------------------------
(* The page.                                                               *)

HandleUpdate ==
  /\ wire # <<>> /\ Head(wire).kind = "version_updated"
  /\ wire' = Tail(wire)
  /\ shown' = [shown EXCEPT ![Head(wire).job] =
                 IF @ = Absent THEN @ ELSE Head(wire).status]
  /\ answers' = Overtaken
  /\ UNCHANGED <<storeVars, conn, known, loads, asks, clean>>

HandleCreation ==
  /\ wire # <<>> /\ Head(wire).kind = "version_created"
  /\ wire' = Tail(wire)
  /\ Asking(Head(wire).result)
  /\ answers' = Overtaken
  /\ UNCHANGED <<storeVars, conn, known, loads, shown, clean>>

\* An answer is the list, a result, or one version that is appended.
Answer(of, view, appends) ==
  [of |-> of, view |-> view, appends |-> appends, valid |-> conn = "open"]

\* The API answers a request from one reading of the store.
Serve(r) ==
  /\ asks[r] > 0
  /\ \/ /\ r = All \/ InResult(r) # {}
        /\ asks' = [asks EXCEPT ![r] = @ - 1]
        /\ answers' = answers \union {Answer(r, status, FALSE)}
     \/ /\ r # All /\ InResult(r) = {}
        /\ asks' = [asks EXCEPT ![r] = @ - 1, ![All] = @ + 1]
        /\ UNCHANGED answers
  /\ UNCHANGED <<storeVars, streamVars, shown, clean>>

\* The versions an answer sets: of a result all that the page may have by now,
\* those that were made after the answer too (upsertResult); a new version is
\* appended only to a result that the page shows.
Sets(a, j) ==
  \/ a.of = All
  \/ ~a.appends /\ ResultOf(j) = a.of
  \/ /\ a.appends /\ j = a.of
     /\ \E i \in Jobs : shown[i] # Absent /\ ResultOf(i) = ResultOf(j)

Applied(a) == [j \in Jobs |-> IF Sets(a, j) THEN a.view[j] ELSE shown[j]]

Receive(a) ==
  /\ a \in answers
  /\ answers' = answers \ {a}
  /\ shown' = Applied(a)
  /\ clean' = (a.valid /\ (clean \/ a.of = All))
  /\ UNCHANGED <<storeVars, streamVars, asks>>

\* The user creates a result, or a version of a result: the answer carries it.
CreateHere(j) ==
  /\ InFlight < MaxRequests
  /\ \/ /\ NewJob(j, NoJob)
        /\ answers' = answers \union {Answer(j, status', FALSE)}
     \/ \E p \in Jobs :
          /\ shown[p] # Absent /\ CanUpscale(p) /\ NewJob(j, p)
          /\ answers' = answers \union {Answer(j, status', TRUE)}
  /\ UNCHANGED <<streamVars, shown, asks, clean>>

\* The user cancels a job, or clears the failed ones, and the page reloads.
Reload ==
  /\ loads < MaxLoads /\ loads' = loads + 1
  /\ Asking(All)
  /\ UNCHANGED <<storeVars, conn, known, wire, shown, answers, clean>>

-----------------------------------------------------------------------------
HandleEvent == HandleUpdate \/ HandleCreation
ServeAny == \E r \in Jobs \union {All} : Serve(r)
ReceiveAny == \E a \in answers : Receive(a)

Next ==
  \/ \E j \in Jobs : CreateElsewhere(j) \/ CreateHere(j) \/ Move(j)
  \/ ClearElsewhere
  \/ Connect \/ Poll \/ Break \/ Reload
  \/ HandleEvent \/ ServeAny \/ ReceiveAny

Spec == Init /\ [][Next]_vars

\* The browser connects, the stream polls and requests are answered; nobody has
\* to act, and the connection need not break.
Fairness ==
  /\ WF_vars(Connect) /\ WF_vars(Poll)
  /\ WF_vars(HandleEvent) /\ WF_vars(ServeAny) /\ WF_vars(ReceiveAny)
FairSpec == Spec /\ Fairness

-----------------------------------------------------------------------------
Events == [kind : {"version_created", "version_updated"}, result : Jobs,
           job : Jobs, status : Statuses]
Answers == [of : Jobs \union {All}, view : Views, appends : BOOLEAN, valid : BOOLEAN]

\* A source has succeeded and is never cleared away, and sources make no cycle.
SourcesStand ==
  /\ \A j \in Jobs : /\ parent[j] = Absent => status[j] = Absent
                     /\ parent[j] \in Jobs => CanUpscale(parent[j])
  /\ \A S \in SUBSET Jobs : S # {} => \E i \in S : parent[i] \notin S

\* Every variable has its type, and an event names a result of a job; the walks
\* up the sources (result_views.py:47-53) end, since the sources stand.
WorkbenchTypeOK ==
  /\ {status, known, shown} \subseteq Views
  /\ parent \in [Jobs -> Jobs \union {NoJob, Absent}]
  /\ SourcesStand
  /\ conn \in {"down", "open"} /\ clean \in BOOLEAN
  /\ wire \in Seq(Events)
  /\ asks \in [Jobs \union {All} -> Nat]
  /\ answers \subseteq Answers
  /\ writes \in Nat /\ loads \in Nat

\* Whatever the clocks wrote as created_at, the versions of a result come
\* parent before child, a result counts as completed only when all its versions
\* are, and one with an active version never has a final status
\* (result_views.py:135-186).
SummaryIsSound ==
  \A r \in {Root(j) : j \in Stored(status)} :
    LET found == {status[j] : j \in InResult(r)}
    IN  /\ \A i, k \in InResult(r) : parent[k] = i =>
             Before(Stored(status), parent, CreatedAt, i, k)
        /\ AggregateStatus(found) = "completed" <=> found = {"succeeded"}
        /\ found \intersect ActiveStatuses # {}
             => AggregateStatus(found) \in {"queued", "running", "mixed"}

\* A version stays in the result it was created in: no cleanup takes a source
\* from under its upscales (result_views.py:44-53).
KeepsItsResult ==
  [][status' # status =>
       \A j \in Stored(status) : status'[j] = Absent \/ Root(j)' = Root(j)]_vars

SelectedOf(r) ==
  Selected(Stored(status), parent, CreatedAt, status, InResult(r))

\* A result that has something to play keeps something to play selected, when
\* versions are queued, fail or are deleted (result_views.py:164-168).
PlayableStaysSelected ==
  [][status' # status =>
       \A r \in {Root(j) : j \in Stored(status)} :
         status[SelectedOf(r)] = "succeeded"
           => (InResult(r) # {} /\ status[SelectedOf(r)] = "succeeded")']_vars

Agrees == \A j \in Stored(status) : shown[j] = status[j]

\* The stream has seen the store, and nothing is on its way to the page.
Quiet ==
  /\ conn = "open" /\ known = status /\ wire = <<>>
  /\ answers = {} /\ \A r \in DOMAIN asks : asks[r] = 0

\* A page that loaded everything while it was connected, and applied no answer
\* that an event overtook, has missed nothing when nothing is on its way to it:
\* the events make up for changes behind the answers, and a creation makes the
\* page fetch what no event carries.  A status that changed and changed back, or
\* a version that went away and came back, misleads only a page that was served
\* in between (api.py:272-296, App.tsx:112-147).
QuietPageAgrees == clean /\ Quiet => Agrees

\* Once the store is quiet such a page does show the status of every version
\* (api.py:601-615, App.tsx:112-147).
PageCatchesUp == <>[](clean => Agrees)
==============================================================================
