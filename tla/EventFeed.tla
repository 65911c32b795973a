------------------------------ MODULE EventFeed ------------------------------
(***************************************************************************)
(* The job event feed: the broadcast bus of app/sse.py, the requests that  *)
(* publish on it, and the /jobs/events streams of app/api.py that serve    *)
(* it to browsers.                                                         *)
(*                                                                         *)
(* A request thread of the API changes the store and later, outside the    *)
(* store's lock, broadcasts what it wrote; workers and the healing reads   *)
(* change the store and broadcast nothing.  A stream subscribes a queue,   *)
(* reads the store, and from then on relays the events of its queue; when  *)
(* the queue stays empty for a second it compares the store with what it   *)
(* believes its client knows and sends the difference.                     *)
(*                                                                         *)
(* A record is abstracted to the number of the write that produced it, so  *)
(* two records of a job differ and the later one has the higher number.    *)
(***************************************************************************)
EXTENDS Naturals, Sequences, FiniteSets, SequencesExt

CONSTANTS
  Jobs,          \* job ids
  Requests,      \* request threads of the API
  Streams,       \* requests to /jobs/events; a page that reconnects is another
  NoJob,         \* no job waits to be read again
  MaxWrites      \* bound: changes of the store

ASSUME FeedConstants ==
  NoJob \notin Jobs /\ IsFiniteSet(Jobs) /\ MaxWrites \in Nat \ {0}

VARIABLES
  store,         \* the job store: the write that produced a record, 0 if none
  writes,        \* number of the last write
  reread,        \* the job a request reads again before it broadcasts
  outbox,        \* events a request still has to broadcast
  targets,       \* queues the broadcast under way still has to be put in
  subscribers,   \* SSEBus._subscribers
  queue,         \* the queue of a stream
  pc,            \* where the generator of a stream is
  known,         \* known_jobs of a stream
  pending,       \* events the generator is yielding
  sent           \* what a client shows that took the stream's first reading
                 \* of the store and applied every event it was sent

requestVars == <<reread, outbox, targets>>
streamVars == <<subscribers, queue, pc, known, pending, sent>>
vars == <<store, writes, requestVars, streamVars>>

Versions == 0..MaxWrites
Records == [Jobs -> Versions]

\* job_created and job_updated carry the whole record and have one effect.
Updated(j, n) == [kind |-> "job_updated", job |-> j, version |-> n]
Deleted(j) == [kind |-> "job_deleted", job |-> j, version |-> 0]

Events == {Updated(j, n) : j \in Jobs, n \in 1..MaxWrites}
            \union {Deleted(j) : j \in Jobs}

Serving == {"waiting", "polling", "yielding"}

Exists(j) == store[j] # 0

\* A view of the store after the events es, at most one of each job.
Applied(view, es) ==
  [j \in Jobs |-> IF \E e \in es : e.job = j
                    THEN (CHOOSE e \in es : e.job = j).version
                    ELSE view[j]]

Init ==
  /\ store \in [Jobs -> {0, 1}]
  /\ writes = 1
  /\ reread = [r \in Requests |-> NoJob]
  /\ outbox = [r \in Requests |-> <<>>]
  /\ targets = [r \in Requests |-> {}]
  /\ subscribers = {}
  /\ queue = [s \in Streams |-> <<>>]
  /\ pc = [s \in Streams |-> "new"]
  /\ known = [s \in Streams |-> [j \in Jobs |-> 0]]
  /\ pending = [s \in Streams |-> {}]
  /\ sent = [s \in Streams |-> [j \in Jobs |-> 0]]

-----------------------------------------------------------------------------
(* Writers.                                                                *)

Idle(r) == outbox[r] = <<>> /\ reread[r] = NoJob

\* One critical section that writes the records of D.
WriteRecords(D) ==
  /\ writes < MaxWrites
  /\ writes' = writes + 1
  /\ store' = [j \in Jobs |-> IF j \in D THEN writes + 1 ELSE store[j]]

\* A submission, a cancellation, an escalation or a retry: the record that
\* was written is broadcast next.
RequestWrites(r, j) ==
  /\ Idle(r)
  /\ WriteRecords({j})
  /\ outbox' = [outbox EXCEPT ![r] = <<Updated(j, writes + 1)>>]
  /\ UNCHANGED <<reread, targets, streamVars>>

\* cancel_queued_job tells only whether it wrote: the request reads the
\* record again, and answers 404 without an event when it is gone.
CancelQueuedWrites(r, j) ==
  /\ Idle(r)
  /\ Exists(j)
  /\ WriteRecords({j})
  /\ reread' = [reread EXCEPT ![r] = j]
  /\ UNCHANGED <<outbox, targets, streamVars>>

Reread(r) ==
  /\ reread[r] # NoJob
  /\ reread' = [reread EXCEPT ![r] = NoJob]
  /\ outbox' = [outbox EXCEPT ![r] = IF Exists(reread[r])
                                       THEN <<Updated(reread[r], store[reread[r]])>>
                                       ELSE <<>>]
  /\ UNCHANGED <<store, writes, targets, streamVars>>

\* delete_failed_jobs_endpoint: one critical section, then an event per job.
DeletesJobs(r, D) ==
  /\ Idle(r)
  /\ D # {} /\ \A j \in D : Exists(j)
  /\ writes < MaxWrites
  /\ writes' = writes + 1
  /\ store' = [j \in Jobs |-> IF j \in D THEN 0 ELSE store[j]]
  /\ outbox' = [outbox EXCEPT ![r] = SetToSeq({Deleted(j) : j \in D})]
  /\ UNCHANGED <<reread, targets, streamVars>>

\* Workers, the restore of a starting API and GET /jobs write silently.
SilentWrite(j) ==
  /\ Exists(j)
  /\ WriteRecords({j})
  /\ UNCHANGED <<requestVars, streamVars>>

-----------------------------------------------------------------------------
(* SSEBus.broadcast: copy the list of subscribers under the lock, then put *)
(* the event into one queue after the other.                               *)

StartBroadcast(r) ==
  /\ outbox[r] # <<>> /\ targets[r] = {}
  /\ targets' = [targets EXCEPT ![r] = subscribers]
  /\ outbox' = IF subscribers = {}
                 THEN [outbox EXCEPT ![r] = Tail(@)]
                 ELSE outbox
  /\ UNCHANGED <<store, writes, reread, streamVars>>

\* What is put into the queue of an unsubscribed stream nobody reads.
Put(r, s) ==
  /\ s \in targets[r]
  /\ targets' = [targets EXCEPT ![r] = @ \ {s}]
  /\ outbox' = IF targets[r] = {s}
                 THEN [outbox EXCEPT ![r] = Tail(@)]
                 ELSE outbox
  /\ queue' = IF s \in subscribers
                THEN [queue EXCEPT ![s] = Append(@, Head(outbox[r]))]
                ELSE queue
  /\ UNCHANGED <<store, writes, reread, subscribers, pc, known, pending, sent>>

-----------------------------------------------------------------------------
(* The generator of a stream.                                              *)

Subscribe(s) ==
  /\ pc[s] = "new"
  /\ pc' = [pc EXCEPT ![s] = "reading"]
  /\ subscribers' = subscribers \union {s}
  /\ UNCHANGED <<store, writes, requestVars, queue, known, pending, sent>>

FirstReading(s) ==
  /\ pc[s] = "reading"
  /\ pc' = [pc EXCEPT ![s] = "waiting"]
  /\ known' = [known EXCEPT ![s] = store]
  /\ sent' = [sent EXCEPT ![s] = store]
  /\ UNCHANGED <<store, writes, requestVars, subscribers, queue, pending>>

\* list_jobs raises before the try block: the queue stays on the bus.
FirstReadingFails(s) ==
  /\ pc[s] = "reading"
  /\ pc' = [pc EXCEPT ![s] = "closed"]
  /\ UNCHANGED <<store, writes, requestVars, subscribers, queue, known,
                 pending, sent>>

\* An event leaves the queue; known_jobs follows it before it is yielded.
Dequeue_KnownUntouched(s) ==
  /\ pc[s] = "waiting" /\ queue[s] # <<>>
  /\ pc' = [pc EXCEPT ![s] = "yielding"]
  /\ pending' = [pending EXCEPT ![s] = {Head(queue[s])}]
  /\ queue' = [queue EXCEPT ![s] = Tail(@)]
  /\ UNCHANGED <<store, writes, requestVars, subscribers, known, sent>>

Dequeue(s) ==
  /\ pc[s] = "waiting" /\ queue[s] # <<>>
  /\ pc' = [pc EXCEPT ![s] = "yielding"]
  /\ pending' = [pending EXCEPT ![s] = {Head(queue[s])}]
  /\ known' = [known EXCEPT ![s] = Applied(@, {Head(queue[s])})]
  /\ queue' = [queue EXCEPT ![s] = Tail(@)]
  /\ UNCHANGED <<store, writes, requestVars, subscribers, sent>>

\* A second without an event: overdue cancellations are written first.
Timeout(s) ==
  /\ pc[s] = "waiting" /\ queue[s] = <<>>
  /\ pc' = [pc EXCEPT ![s] = "polling"]
  /\ \/ UNCHANGED <<store, writes>>
     \/ \E D \in SUBSET {j \in Jobs : Exists(j)} \ {{}} : WriteRecords(D)
  /\ UNCHANGED <<requestVars, subscribers, queue, known, pending, sent>>

Difference_OnlyPresent(view) ==
  {Updated(j, store[j]) : j \in {i \in Jobs : Exists(i) /\ view[i] # store[i]}}

\* _collect_job_store_events: new and changed jobs, then the deleted ones.
Difference(view) ==
  {Updated(j, store[j]) : j \in {i \in Jobs : Exists(i) /\ view[i] # store[i]}}
    \union {Deleted(j) : j \in {i \in Jobs : ~Exists(i) /\ view[i] # 0}}

Collect(s) ==
  /\ pc[s] = "polling"
  /\ pending' = [pending EXCEPT ![s] = Difference(known[s])]
  /\ known' = [known EXCEPT ![s] = store]
  /\ pc' = [pc EXCEPT ![s] = "yielding"]
  /\ UNCHANGED <<store, writes, requestVars, subscribers, queue, sent>>

Yield(s, e) ==
  /\ pc[s] = "yielding" /\ e \in pending[s]
  /\ pending' = [pending EXCEPT ![s] = @ \ {e}]
  /\ sent' = [sent EXCEPT ![s] = Applied(@, {e})]
  /\ UNCHANGED <<store, writes, requestVars, subscribers, queue, pc, known>>

LoopAgain(s) ==
  /\ pc[s] = "yielding" /\ pending[s] = {}
  /\ pc' = [pc EXCEPT ![s] = "waiting"]
  /\ UNCHANGED <<store, writes, requestVars, subscribers, queue, known,
                 pending, sent>>

\* The client went away, or reading the store raised inside the try block.
Unsubscribe(s) ==
  /\ pc[s] \in Serving
  /\ pc' = [pc EXCEPT ![s] = "closed"]
  /\ subscribers' = subscribers \ {s}
  /\ queue' = [queue EXCEPT ![s] = <<>>]
  /\ pending' = [pending EXCEPT ![s] = {}]
  /\ UNCHANGED <<store, writes, requestVars, known, sent>>

-----------------------------------------------------------------------------
RequestStep(r) ==
  \/ Reread(r)
  \/ StartBroadcast(r)
  \/ \E s \in Streams : Put(r, s)

StreamStep(s) ==
  \/ FirstReading(s)
  \/ Dequeue(s)
  \/ Timeout(s)
  \/ Collect(s)
  \/ \E e \in pending[s] : Yield(s, e)
  \/ LoopAgain(s)

Next ==
  \/ \E j \in Jobs : SilentWrite(j)
  \/ \E r \in Requests :
       \/ \E j \in Jobs : RequestWrites(r, j) \/ CancelQueuedWrites(r, j)
       \/ \E D \in SUBSET Jobs : DeletesJobs(r, D)
       \/ RequestStep(r)
  \/ \E s \in Streams :
       \/ Subscribe(s) \/ FirstReadingFails(s) \/ Unsubscribe(s)
       \/ StreamStep(s)

(* A request thread runs to its end and the event loop keeps resuming the  *)
(* generators; nobody has to write, to connect or to leave.                *)
Fairness ==
  /\ \A r \in Requests : WF_vars(RequestStep(r))
  /\ \A s \in Streams : WF_vars(StreamStep(s))

Spec == Init /\ [][Next]_vars /\ Fairness

-----------------------------------------------------------------------------
\* Every variable has its type; an event of an existing record names it, and
\* only a thread with an event to broadcast has queues to put it in.
FeedTypeOK ==
  /\ writes \in Versions
  /\ store \in Records
  /\ reread \in [Requests -> Jobs \union {NoJob}]
  /\ \A r \in Requests : /\ outbox[r] \in Seq(Events)
                         /\ targets[r] \subseteq Streams
                         /\ targets[r] # {} => outbox[r] # <<>>
  /\ subscribers \subseteq Streams
  /\ \A s \in Streams : /\ queue[s] \in Seq(Events)
                        /\ pending[s] \subseteq Events
  /\ pc \in [Streams -> {"new", "reading", "closed"} \union Serving]
  /\ known \in [Streams -> Records]
  /\ sent \in [Streams -> Records]

\* known_jobs is what the client has been sent once the events under way
\* are out: whatever mixture of relayed and polled events, of stale and of
\* fresh ones, a poll compares the store with what the client really shows
\* (api.py:555-575).
ServerKnowsWhatItSent ==
  \A s \in Streams :
    pc[s] \in Serving => Applied(sent[s], pending[s]) = known[s]

\* Every poll sends its client just what it lacks of the store, whatever broadcasts
\* it had missed, got late or got twice by then (api.py:246-269).
PollClosesTheGap ==
  [][\A s \in Streams : pc[s] = "polling" /\ pc'[s] = "yielding"
       => Applied(sent[s], pending'[s]) = store]_vars

\* Once the store is quiet an open stream brings its client to the store and
\* leaves it there: late, overtaken and missing broadcasts, also of deleted
\* jobs, are made up for (api.py:246-269 and 570-575).
StreamCatchesUp ==
  <>[](\A s \in Streams : pc[s] \in Serving => sent[s] = store)
==============================================================================
