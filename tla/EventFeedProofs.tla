--------------------------- MODULE EventFeedProofs ---------------------------
(***************************************************************************)
(* Theorems about EventFeed, for any number of jobs, request threads and   *)
(* streams and any bound on the writes.                                    *)
(*                                                                         *)
(* A stream claims that known_jobs is what its client has been sent once   *)
(* the events under way are out.  That survives a step only because the    *)
(* events under way name different jobs, so that their order is            *)
(* immaterial, and because a generator that is not yielding owes nothing.  *)
(***************************************************************************)
EXTENDS EventFeed, SequenceTheorems, FiniteSetTheorems, TLAPS

RequestTypeOK ==
  /\ writes \in Versions
  /\ store \in Records
  /\ reread \in [Requests -> Jobs \union {NoJob}]
  /\ outbox \in [Requests -> Seq(Events)]
  /\ targets \in [Requests -> SUBSET Streams]
  /\ \A r \in Requests : targets[r] # {} => outbox[r] # <<>>

\* A request that reads its job again has no event left from before, so that
\* giving up does not cut off a broadcast under way.
RereadsAlone ==
  \A r \in Requests : reread[r] # NoJob => outbox[r] = <<>>

StreamTypeOK ==
  /\ subscribers \in SUBSET Streams
  /\ queue \in [Streams -> Seq(Events)]
  /\ pending \in [Streams -> SUBSET Events]
  /\ pc \in [Streams -> {"new", "reading", "closed"} \union Serving]
  /\ known \in [Streams -> Records]
  /\ sent \in [Streams -> Records]

OnePerJob(es) == \A e, f \in es : e.job = f.job => e = f

\* The events a generator yields name different jobs, and it has none unless
\* it is yielding.
PendingIsOrderly ==
  \A s \in Streams :
    /\ OnePerJob(pending[s])
    /\ pc[s] # "yielding" => pending[s] = {}

FeedInv ==
  /\ RequestTypeOK /\ RereadsAlone
  /\ StreamTypeOK
  /\ PendingIsOrderly
  /\ ServerKnowsWhatItSent

-----------------------------------------------------------------------------
(* The operators of the model.                                             *)

\* An event has a job and a version.
LEMMA EventFields ==
  /\ \A e \in Events : e.job \in Jobs /\ e.version \in Versions
  /\ \A j \in Jobs, n \in 1..MaxWrites : Updated(j, n) \in Events
  /\ \A j \in Jobs : Deleted(j) \in Events
<1>1. \A j \in Jobs, n \in 1..MaxWrites : Updated(j, n) \in Events
  BY DEF Events
<1>2. \A j \in Jobs : Deleted(j) \in Events
  BY DEF Events
<1>3. \A j \in Jobs, n \in 1..MaxWrites :
        Updated(j, n).job = j /\ Updated(j, n).version \in Versions
  BY FeedConstants DEF Updated, Versions
<1>4. \A j \in Jobs : Deleted(j).job = j /\ Deleted(j).version \in Versions
  BY FeedConstants DEF Deleted, Versions
<1>5. \A e \in Events : e.job \in Jobs /\ e.version \in Versions
  BY <1>3, <1>4 DEF Events
<1> QED BY <1>1, <1>2, <1>5

\* A view after events that name different jobs: the version an event gives to
\* its job, and what was there for a job that no event names.
LEMMA AppliedTo ==
  ASSUME NEW view \in Records, NEW es \in SUBSET Events, OnePerJob(es)
  PROVE  /\ Applied(view, es) \in Records
         /\ \A e \in es : Applied(view, es)[e.job] = e.version
         /\ \A j \in Jobs : (\A e \in es : e.job # j) => Applied(view, es)[j] = view[j]
<1>1. ASSUME NEW e \in es PROVE (CHOOSE f \in es : f.job = e.job) = e
  BY <1>1 DEF OnePerJob
<1>2. \A e \in es : e.job \in Jobs /\ e.version \in Versions
  BY EventFields
<1>3. \A e \in es : Applied(view, es)[e.job] = e.version
  BY <1>1, <1>2 DEF Applied
<1>4. \A j \in Jobs : (\A e \in es : e.job # j) => Applied(view, es)[j] = view[j]
  BY DEF Applied
<1>5. \A j \in Jobs : Applied(view, es)[j] \in Versions
  BY <1>2, <1>3, <1>4 DEF Records
<1> QED BY <1>3, <1>4, <1>5 DEF Applied, Records

\* Without events a view stays what it is.
LEMMA AppliedNothing ==
  ASSUME NEW view \in Records
  PROVE  Applied(view, {}) = view
BY DEF Applied, Records

\* Two views that agree on every job are the same view.
LEMMA SameView ==
  ASSUME NEW f \in Records, NEW g \in Records, \A j \in Jobs : f[j] = g[j]
  PROVE  f = g
BY DEF Records

\* An event under way may be sent before the others.
LEMMA AppliedOneByOne ==
  ASSUME NEW view \in Records, NEW es \in SUBSET Events, OnePerJob(es), NEW e \in es
  PROVE  /\ Applied(view, {e}) \in Records
         /\ Applied(Applied(view, {e}), es \ {e}) = Applied(view, es)
<1>1. OnePerJob({e}) /\ OnePerJob(es \ {e})
  BY DEF OnePerJob
<1>2. /\ Applied(view, {e}) \in Records /\ Applied(view, {e})[e.job] = e.version
      /\ \A j \in Jobs : e.job # j => Applied(view, {e})[j] = view[j]
  <2>1. {e} \in SUBSET Events /\ e.job \in Jobs
    BY EventFields
  <2>2. /\ Applied(view, {e}) \in Records
        /\ \A f \in {e} : Applied(view, {e})[f.job] = f.version
        /\ \A j \in Jobs : (\A f \in {e} : f.job # j) => Applied(view, {e})[j] = view[j]
    BY <1>1, <2>1, AppliedTo
  <2> QED BY <2>1, <2>2
<1> DEFINE mid == Applied(view, {e})
           rest == Applied(mid, es \ {e})
<1>3. /\ rest \in Records
      /\ \A f \in es \ {e} : rest[f.job] = f.version
      /\ \A j \in Jobs : (\A f \in es \ {e} : f.job # j) => rest[j] = mid[j]
  <2> HIDE DEF mid
  <2>1. mid \in Records
    BY <1>2 DEF mid
  <2>2. es \ {e} \in SUBSET Events
    OBVIOUS
  <2> QED BY <1>1, <2>1, <2>2, AppliedTo
<1>4. /\ Applied(view, es) \in Records
      /\ \A f \in es : Applied(view, es)[f.job] = f.version
      /\ \A j \in Jobs : (\A f \in es : f.job # j) => Applied(view, es)[j] = view[j]
  BY AppliedTo
<1> HIDE DEF mid, rest
<1>5. mid \in Records /\ mid[e.job] = e.version
      /\ \A j \in Jobs : e.job # j => mid[j] = view[j]
  BY <1>2 DEF mid
<1>6. ASSUME NEW j \in Jobs PROVE rest[j] = Applied(view, es)[j]
  <2>1. CASE \E f \in es \ {e} : f.job = j
    BY <1>3, <1>4, <2>1
  <2>2. CASE e.job = j
    <3>1. \A f \in es \ {e} : f.job # j
      BY <2>2 DEF OnePerJob
    <3> QED BY <1>3, <1>4, <1>5, <2>2, <3>1
  <2>3. CASE \A f \in es : f.job # j
    BY <1>3, <1>4, <1>5, <2>3
  <2> QED BY <2>1, <2>2, <2>3
<1>7. rest = Applied(view, es)
  BY <1>3, <1>4, <1>6, SameView
<1> QED BY <1>5, <1>7 DEF mid, rest

\* A poll makes one event of each job that differs, and they bring a client
\* from what it shows to the store.
LEMMA DifferenceBridges ==
  ASSUME store \in Records, NEW view \in Records
  PROVE  /\ Difference(view) \in SUBSET Events
         /\ OnePerJob(Difference(view))
         /\ Applied(view, Difference(view)) = store
<1> DEFINE es == Difference(view)
<1>1. \A j \in Jobs : Exists(j) => store[j] \in 1..MaxWrites
  BY FeedConstants DEF Records, Versions, Exists
<1>2. es \in SUBSET Events
  BY <1>1, EventFields DEF Difference
<1>3. \A e \in es : e.job \in Jobs /\ e.version = store[e.job] /\ view[e.job] # store[e.job]
  BY DEF Difference, Updated, Deleted, Exists
<1>4. \A j \in Jobs : view[j] # store[j] => \E e \in es : e.job = j
  <2> SUFFICES ASSUME NEW j \in Jobs, view[j] # store[j]
               PROVE  \E e \in es : e.job = j
    OBVIOUS
  <2>1. CASE Exists(j)
    <3>1. Updated(j, store[j]) \in es /\ Updated(j, store[j]).job = j
      BY <2>1 DEF Difference, Updated
    <3> QED BY <3>1
  <2>2. CASE ~Exists(j)
    <3>1. Deleted(j) \in es /\ Deleted(j).job = j
      BY <2>2 DEF Difference, Deleted, Exists
    <3> QED BY <3>1
  <2> QED BY <2>1, <2>2
<1>5. OnePerJob(es)
  <2>1. \A e \in es : e = IF Exists(e.job) THEN Updated(e.job, store[e.job])
                                         ELSE Deleted(e.job)
    BY DEF Difference, Updated, Deleted
  <2> QED BY <2>1 DEF OnePerJob
<1> HIDE DEF es
<1>6. /\ Applied(view, es) \in Records
      /\ \A e \in es : Applied(view, es)[e.job] = e.version
      /\ \A j \in Jobs : (\A e \in es : e.job # j) => Applied(view, es)[j] = view[j]
  BY <1>2, <1>5, AppliedTo
<1>7. ASSUME NEW j \in Jobs PROVE Applied(view, es)[j] = store[j]
  BY <1>3, <1>4, <1>6
<1>8. Applied(view, es) = store
  BY <1>6, <1>7, SameView
<1> QED BY <1>2, <1>5, <1>8 DEF es

\* The events of a deletion can be put in a sequence: a request deletes finitely
\* many jobs.
LEMMA DeletionsInSequence ==
  ASSUME NEW D \in SUBSET Jobs
  PROVE  SetToSeq({Deleted(j) : j \in D}) \in Seq(Events)
<1> DEFINE S == {Deleted(j) : j \in D}
           f == [j \in D |-> Deleted(j)]
<1>1. IsFiniteSet(D)
  BY FeedConstants, FS_Subset
<1>2. f \in Surjection(D, S)
  BY DEF Surjection
<1>3. S \subseteq Events
  BY EventFields
<1> HIDE DEF S, f
<1>4. IsFiniteSet(S)
  BY <1>1, <1>2, FS_Surjection
<1>5. Cardinality(S) \in Nat /\ ExistsBijection(1..Cardinality(S), S)
  BY <1>4, FS_CardinalityType
<1>6. \E g \in [1..Cardinality(S) -> S] : IsInjective(g)
  BY <1>5 DEF ExistsBijection, Bijection, Injection
<1>7. SetToSeq(S) \in [1..Cardinality(S) -> S]
  BY <1>6 DEF SetToSeq
<1>8. SetToSeq(S) \in Seq(S)
  BY <1>5, <1>7, SeqDef
<1>9. SetToSeq(S) \in Seq(Events)
  BY <1>3, <1>8, SeqMonotonic
<1> QED BY <1>9 DEF S

-----------------------------------------------------------------------------
(* The invariant.                                                          *)

\* A feed nobody listens to.
LEMMA InitFeedInv == Init => FeedInv
<1> SUFFICES ASSUME Init PROVE FeedInv
  OBVIOUS
<1>1. RequestTypeOK /\ RereadsAlone
  BY FeedConstants, EmptySeq DEF Init, RequestTypeOK, RereadsAlone, Versions, Records
<1>2. StreamTypeOK
  BY FeedConstants, EmptySeq DEF Init, StreamTypeOK, Versions, Records
<1>3. PendingIsOrderly
  BY DEF Init, PendingIsOrderly, OnePerJob
<1>4. ServerKnowsWhatItSent
  BY DEF Init, ServerKnowsWhatItSent, Serving
<1> QED BY <1>1, <1>2, <1>3, <1>4 DEF FeedInv

\* A section that writes records leaves the store well-typed and not empty of
\* what it wrote.
LEMMA WritingKeepsTypes ==
  ASSUME RequestTypeOK, NEW D \in SUBSET Jobs, WriteRecords(D)
  PROVE  /\ writes' \in Versions /\ store' \in Records
         /\ writes + 1 \in 1..MaxWrites
BY FeedConstants DEF RequestTypeOK, WriteRecords, Versions, Records

\* The steps of the writers and of a broadcast keep the types of the requests.
LEMMA WritersKeepTypes ==
  ASSUME RequestTypeOK, RereadsAlone,
         \/ \E j \in Jobs : SilentWrite(j)
         \/ \E r \in Requests, j \in Jobs : RequestWrites(r, j) \/ CancelQueuedWrites(r, j)
         \/ \E r \in Requests, D \in SUBSET Jobs : DeletesJobs(r, D)
         \/ \E r \in Requests : Reread(r)
  PROVE  RequestTypeOK' /\ RereadsAlone' /\ UNCHANGED streamVars
<1>1. ASSUME NEW j \in Jobs, SilentWrite(j) PROVE RequestTypeOK' /\ RereadsAlone' /\ UNCHANGED streamVars
  BY <1>1, WritingKeepsTypes DEF SilentWrite, RequestTypeOK, RereadsAlone, requestVars
<1>2. ASSUME NEW r \in Requests, NEW j \in Jobs, RequestWrites(r, j)
      PROVE  RequestTypeOK' /\ RereadsAlone' /\ UNCHANGED streamVars
  <2>1. /\ writes' \in Versions /\ store' \in Records
        /\ Updated(j, writes + 1) \in Events
    BY <1>2, WritingKeepsTypes, EventFields DEF RequestWrites
  <2> DEFINE box == <<Updated(j, writes + 1)>>
  <2>2. box \in Seq(Events) /\ box # <<>>
    BY <2>1
  <2> HIDE DEF box
  <2>3. /\ outbox' = [outbox EXCEPT ![r] = box] /\ UNCHANGED <<reread, targets, streamVars>>
        /\ reread[r] = NoJob
    BY <1>2 DEF RequestWrites, Idle, box
  <2> QED BY <2>1, <2>2, <2>3 DEF RequestTypeOK, RereadsAlone
<1>3. ASSUME NEW r \in Requests, NEW j \in Jobs, CancelQueuedWrites(r, j)
      PROVE  RequestTypeOK' /\ RereadsAlone' /\ UNCHANGED streamVars
  BY <1>3, WritingKeepsTypes DEF CancelQueuedWrites, Idle, RequestTypeOK, RereadsAlone
<1>4. ASSUME NEW r \in Requests, NEW D \in SUBSET Jobs, DeletesJobs(r, D)
      PROVE  RequestTypeOK' /\ RereadsAlone' /\ UNCHANGED streamVars
  <2>1. writes' \in Versions /\ store' \in Records
    BY <1>4, FeedConstants DEF DeletesJobs, RequestTypeOK, Versions, Records
  <2> DEFINE box == SetToSeq({Deleted(j) : j \in D})
  <2>2. box \in Seq(Events)
    BY DeletionsInSequence
  <2> HIDE DEF box
  <2>3. /\ outbox' = [outbox EXCEPT ![r] = box] /\ UNCHANGED <<reread, targets, streamVars>>
        /\ outbox[r] = <<>> /\ reread[r] = NoJob
    BY <1>4 DEF DeletesJobs, Idle, box
  <2>4. targets[r] = {}
    BY <2>3 DEF RequestTypeOK, RereadsAlone
  <2> QED BY <2>1, <2>2, <2>3, <2>4 DEF RequestTypeOK, RereadsAlone
<1>5. ASSUME NEW r \in Requests, Reread(r)
      PROVE  RequestTypeOK' /\ RereadsAlone' /\ UNCHANGED streamVars
  <2>1. reread[r] \in Jobs
    BY <1>5 DEF Reread, RequestTypeOK
  <2> DEFINE j == reread[r]
             box == IF Exists(j) THEN <<Updated(j, store[j])>> ELSE <<>>
  <2>2. box \in Seq(Events)
    <3>1. CASE Exists(j)
      <4>1. store[j] \in 1..MaxWrites
        BY <2>1, <3>1, FeedConstants DEF Exists, RequestTypeOK, Records, Versions
      <4>2. Updated(j, store[j]) \in Events
        BY <2>1, <4>1, EventFields
      <4> QED BY <3>1, <4>2
    <3>2. CASE ~Exists(j)
      BY <3>2, EmptySeq
    <3> QED BY <3>1, <3>2
  <2>3. /\ outbox' = [outbox EXCEPT ![r] = box] /\ UNCHANGED <<store, writes, targets, streamVars>>
        /\ reread' = [reread EXCEPT ![r] = NoJob]
        /\ targets[r] = {}
    BY <1>5 DEF Reread, RereadsAlone, RequestTypeOK
  <2> HIDE DEF box
  <2> QED BY <2>1, <2>2, <2>3 DEF RequestTypeOK, RereadsAlone
<1> QED BY <1>1, <1>2, <1>3, <1>4, <1>5

\* What a stream knows and has to send is its own affair.
LEMMA StreamsUntouched ==
  ASSUME PendingIsOrderly, ServerKnowsWhatItSent,
         UNCHANGED <<pc, known, pending, sent>>
  PROVE  PendingIsOrderly' /\ ServerKnowsWhatItSent'
BY DEF PendingIsOrderly, ServerKnowsWhatItSent, Applied

\* A broadcast takes the subscribers it found and fills one queue after another.
LEMMA BroadcastKeepsInv ==
  ASSUME FeedInv, NEW r \in Requests,
         StartBroadcast(r) \/ \E s \in Streams : Put(r, s)
  PROVE  FeedInv'
<1> USE DEF FeedInv, RequestTypeOK, RereadsAlone, StreamTypeOK
<1>1. outbox[r] # <<>> /\ Head(outbox[r]) \in Events /\ Tail(outbox[r]) \in Seq(Events)
  <2>1. outbox[r] # <<>>
    BY DEF StartBroadcast, Put
  <2>2. outbox[r] \in Seq(Events)
    OBVIOUS
  <2> QED BY <2>1, <2>2, HeadTailProperties
<1>2. reread[r] = NoJob
  BY <1>1
<1>3. CASE StartBroadcast(r)
  <2>1. /\ targets' = [targets EXCEPT ![r] = subscribers]
        /\ outbox' = (IF subscribers = {} THEN [outbox EXCEPT ![r] = Tail(outbox[r])] ELSE outbox)
        /\ UNCHANGED <<store, writes, reread, streamVars>>
    BY <1>3 DEF StartBroadcast
  <2>2. RequestTypeOK' /\ RereadsAlone'
    BY <1>1, <1>2, <2>1
  <2>3. StreamTypeOK' /\ UNCHANGED <<pc, known, pending, sent>>
    BY <2>1 DEF streamVars
  <2> QED BY <2>2, <2>3, StreamsUntouched
<1>4. ASSUME NEW s \in Streams, Put(r, s) PROVE FeedInv'
  <2>1. /\ s \in targets[r]
        /\ targets' = [targets EXCEPT ![r] = targets[r] \ {s}]
        /\ outbox' = (IF targets[r] = {s} THEN [outbox EXCEPT ![r] = Tail(outbox[r])] ELSE outbox)
        /\ queue' = (IF s \in subscribers THEN [queue EXCEPT ![s] = Append(queue[s], Head(outbox[r]))]
                                         ELSE queue)
        /\ UNCHANGED <<store, writes, reread, subscribers, pc, known, pending, sent>>
    BY <1>4 DEF Put
  <2>2. RequestTypeOK' /\ RereadsAlone'
    BY <1>1, <1>2, <2>1
  <2>3. Append(queue[s], Head(outbox[r])) \in Seq(Events)
    BY <1>1
  <2>4. StreamTypeOK'
    BY <2>1, <2>3
  <2>5. UNCHANGED <<pc, known, pending, sent>>
    BY <2>1
  <2> QED BY <2>2, <2>4, <2>5, StreamsUntouched
<1> QED BY <1>3, <1>4

\* One stream may change its place, its events, what it knows and what its client
\* was sent, as long as the three agree when it serves.
LEMMA OneStreamMoves ==
  ASSUME FeedInv, NEW s \in Streams,
         NEW p \in {"reading", "closed"} \union Serving, NEW k \in Records,
         NEW es \in SUBSET Events, NEW c \in Records,
         OnePerJob(es), p # "yielding" => es = {},
         p \in Serving => Applied(c, es) = k,
         pc' = [pc EXCEPT ![s] = p], known' = [known EXCEPT ![s] = k],
         pending' = [pending EXCEPT ![s] = es], sent' = [sent EXCEPT ![s] = c],
         subscribers' \in SUBSET Streams, queue' \in [Streams -> Seq(Events)],
         RequestTypeOK', RereadsAlone'
  PROVE  FeedInv'
<1>1. StreamTypeOK'
  BY DEF FeedInv, StreamTypeOK
<1>2. PendingIsOrderly'
  BY DEF FeedInv, StreamTypeOK, PendingIsOrderly
<1>3. ASSUME NEW t \in Streams, pc'[t] \in Serving
      PROVE  Applied(sent'[t], pending'[t]) = known'[t]
  <2>1. CASE t = s
    BY <1>3, <2>1 DEF FeedInv, StreamTypeOK
  <2>2. CASE t # s
    BY <1>3, <2>2 DEF FeedInv, StreamTypeOK, ServerKnowsWhatItSent
  <2> QED BY <2>1, <2>2
<1>4. ServerKnowsWhatItSent'
  BY <1>3 DEF ServerKnowsWhatItSent, Applied
<1> QED BY <1>1, <1>2, <1>4 DEF FeedInv

\* A generator that owes nothing may change its place and nothing else.
LEMMA IdleStreamMoves ==
  ASSUME FeedInv, NEW s \in Streams, NEW p \in {"reading", "waiting", "polling", "closed"},
         pending[s] = {}, p \in Serving => sent[s] = known[s],
         pc' = [pc EXCEPT ![s] = p], UNCHANGED <<queue, known, pending, sent>>,
         subscribers' \in SUBSET Streams,
         RequestTypeOK', RereadsAlone'
  PROVE  FeedInv'
<1>1. StreamTypeOK'
  BY DEF FeedInv, StreamTypeOK, Serving
<1>2. PendingIsOrderly'
  BY DEF FeedInv, StreamTypeOK, PendingIsOrderly
<1>3. ASSUME NEW t \in Streams, pc'[t] \in Serving
      PROVE  Applied(sent[t], pending[t]) = known[t]
  <2>1. CASE t = s
    BY <1>3, <2>1, AppliedNothing DEF FeedInv, StreamTypeOK
  <2>2. CASE t # s
    BY <1>3, <2>2 DEF FeedInv, StreamTypeOK, ServerKnowsWhatItSent
  <2> QED BY <2>1, <2>2
<1>4. ServerKnowsWhatItSent'
  BY <1>3 DEF ServerKnowsWhatItSent, Applied
<1> QED BY <1>1, <1>2, <1>4 DEF FeedInv

\* Opening and closing a stream.
LEMMA ConnectionsKeepInv ==
  ASSUME FeedInv, NEW s \in Streams,
         Subscribe(s) \/ FirstReading(s) \/ FirstReadingFails(s) \/ Unsubscribe(s)
  PROVE  FeedInv'
<1> USE DEF FeedInv, StreamTypeOK, Serving
<1>0. /\ pending[s] \in SUBSET Events /\ known[s] \in Records /\ sent[s] \in Records
      /\ pending = [pending EXCEPT ![s] = pending[s]]
      /\ known = [known EXCEPT ![s] = known[s]] /\ sent = [sent EXCEPT ![s] = sent[s]]
      /\ store \in Records
      /\ pc[s] # "yielding" => pending[s] = {}
  BY DEF RequestTypeOK, PendingIsOrderly
<1>1. OnePerJob({})
  BY DEF OnePerJob
<1>2. UNCHANGED <<store, writes, requestVars>> => RequestTypeOK' /\ RereadsAlone'
  BY DEF requestVars, RequestTypeOK, RereadsAlone
<1>3. CASE Subscribe(s)
  <2>1. /\ pending[s] = {} /\ pc' = [pc EXCEPT ![s] = "reading"]
        /\ subscribers' \in SUBSET Streams
        /\ UNCHANGED <<store, writes, requestVars, queue, known, pending, sent>>
    BY <1>0, <1>3 DEF Subscribe
  <2> QED BY <1>2, <2>1, IdleStreamMoves
<1>4. CASE FirstReading(s)
  <2>1. /\ pending[s] = {} /\ pc' = [pc EXCEPT ![s] = "waiting"]
        /\ known' = [known EXCEPT ![s] = store] /\ sent' = [sent EXCEPT ![s] = store]
        /\ UNCHANGED <<store, writes, requestVars, subscribers, queue, pending>>
    BY <1>0, <1>4 DEF FirstReading
  <2>2. {} \in SUBSET Events /\ pending' = [pending EXCEPT ![s] = {}]
        /\ queue' \in [Streams -> Seq(Events)] /\ subscribers' \in SUBSET Streams
        /\ Applied(store, {}) = store
    BY <1>0, <2>1, AppliedNothing
  <2> QED BY <1>0, <1>1, <1>2, <2>1, <2>2, OneStreamMoves
<1>5. CASE FirstReadingFails(s)
  <2>1. /\ pending[s] = {} /\ pc' = [pc EXCEPT ![s] = "closed"]
        /\ subscribers' \in SUBSET Streams
        /\ UNCHANGED <<store, writes, requestVars, queue, known, pending, sent>>
    BY <1>0, <1>5 DEF FirstReadingFails
  <2> QED BY <1>2, <2>1, IdleStreamMoves
<1>6. CASE Unsubscribe(s)
  <2>1. /\ pc' = [pc EXCEPT ![s] = "closed"] /\ pending' = [pending EXCEPT ![s] = {}]
        /\ subscribers' \in SUBSET Streams /\ queue' \in [Streams -> Seq(Events)]
        /\ UNCHANGED <<store, writes, requestVars, known, sent>>
    BY <1>6, EmptySeq DEF Unsubscribe
  <2> QED BY <1>0, <1>1, <1>2, <2>1, OneStreamMoves
<1> QED BY <1>3, <1>4, <1>5, <1>6

\* The rounds of a generator: what it relays, what it finds by polling, and what
\* it yields.
LEMMA RoundsKeepInv ==
  ASSUME FeedInv, NEW s \in Streams, StreamStep(s), ~FirstReading(s)
  PROVE  FeedInv'
<1> USE DEF FeedInv, StreamTypeOK, Serving
<1>0. /\ pending[s] \in SUBSET Events /\ known[s] \in Records /\ sent[s] \in Records
      /\ pending = [pending EXCEPT ![s] = pending[s]]
      /\ known = [known EXCEPT ![s] = known[s]] /\ sent = [sent EXCEPT ![s] = sent[s]]
      /\ store \in Records
      /\ OnePerJob(pending[s]) /\ (pc[s] # "yielding" => pending[s] = {})
      /\ pc[s] \in Serving => Applied(sent[s], pending[s]) = known[s]
  BY DEF RequestTypeOK, PendingIsOrderly, ServerKnowsWhatItSent
<1>1. OnePerJob({}) /\ \A e : OnePerJob({e})
  BY DEF OnePerJob
<1>2. UNCHANGED <<store, writes, requestVars>> => RequestTypeOK' /\ RereadsAlone'
  BY DEF requestVars, RequestTypeOK, RereadsAlone
<1>3. pc[s] \in {"waiting", "polling"} => sent[s] = known[s] /\ pending[s] = {}
  BY <1>0, AppliedNothing
<1>4. CASE Dequeue(s)
  <2>1. Head(queue[s]) \in Events /\ Tail(queue[s]) \in Seq(Events)
    BY <1>4, HeadTailProperties DEF Dequeue
  <2> DEFINE es == {Head(queue[s])}
             k == Applied(known[s], es)
  <2>2. es \in SUBSET Events /\ OnePerJob(es) /\ k \in Records
    BY <1>0, <1>1, <2>1, AppliedTo
  <2>3. k = Applied(sent[s], es)
    BY <1>3, <1>4 DEF Dequeue
  <2>4. /\ pc' = [pc EXCEPT ![s] = "yielding"] /\ pending' = [pending EXCEPT ![s] = es]
        /\ known' = [known EXCEPT ![s] = k] /\ queue' \in [Streams -> Seq(Events)]
        /\ UNCHANGED <<store, writes, requestVars, subscribers, sent>>
    BY <1>4, <2>1 DEF Dequeue
  <2> HIDE DEF es, k
  <2> QED BY <1>0, <1>2, <2>2, <2>3, <2>4, OneStreamMoves
<1>5. CASE Timeout(s)
  <2>1. /\ pc' = [pc EXCEPT ![s] = "polling"]
        /\ subscribers' \in SUBSET Streams
        /\ UNCHANGED <<requestVars, queue, known, pending, sent>>
        /\ pending[s] = {} /\ sent[s] = known[s]
    BY <1>3, <1>5 DEF Timeout
  <2>2. writes' \in Versions /\ store' \in Records
    BY <1>5, WritingKeepsTypes DEF Timeout, RequestTypeOK
  <2>3. RequestTypeOK' /\ RereadsAlone'
    BY <2>1, <2>2 DEF requestVars, RequestTypeOK, RereadsAlone
  <2> QED BY <2>1, <2>3, IdleStreamMoves
<1>6. CASE Collect(s)
  <2> DEFINE es == Difference(known[s])
  <2>1. es \in SUBSET Events /\ OnePerJob(es) /\ Applied(known[s], es) = store
    BY <1>0, DifferenceBridges
  <2>2. /\ pc' = [pc EXCEPT ![s] = "yielding"] /\ pending' = [pending EXCEPT ![s] = es]
        /\ known' = [known EXCEPT ![s] = store]
        /\ UNCHANGED <<store, writes, requestVars, subscribers, queue, sent>>
        /\ sent[s] = known[s]
    BY <1>3, <1>6 DEF Collect
  <2> HIDE DEF es
  <2> QED BY <1>0, <1>2, <2>1, <2>2, OneStreamMoves
<1>7. ASSUME NEW e \in pending[s], Yield(s, e) PROVE FeedInv'
  <2> DEFINE es == pending[s] \ {e}
             c == Applied(sent[s], {e})
  <2>1. es \in SUBSET Events /\ OnePerJob(es)
    BY <1>0 DEF OnePerJob
  <2>2. c \in Records /\ Applied(c, es) = Applied(sent[s], pending[s])
    BY <1>0, AppliedOneByOne
  <2>3. /\ pc = [pc EXCEPT ![s] = "yielding"] /\ pending' = [pending EXCEPT ![s] = es]
        /\ sent' = [sent EXCEPT ![s] = c]
        /\ UNCHANGED <<store, writes, requestVars, subscribers, queue, pc, known>>
        /\ Applied(sent[s], pending[s]) = known[s]
    BY <1>0, <1>7 DEF Yield
  <2> HIDE DEF es, c
  <2> QED BY <1>0, <1>2, <2>1, <2>2, <2>3, OneStreamMoves
<1>8. CASE LoopAgain(s)
  <2>1. /\ pc' = [pc EXCEPT ![s] = "waiting"] /\ pending[s] = {}
        /\ subscribers' \in SUBSET Streams
        /\ UNCHANGED <<store, writes, requestVars, queue, known, pending, sent>>
        /\ sent[s] = known[s]
    BY <1>0, <1>8, AppliedNothing DEF LoopAgain
  <2> QED BY <1>2, <2>1, IdleStreamMoves
<1> QED BY <1>4, <1>5, <1>6, <1>7, <1>8 DEF StreamStep

\* The invariant is inductive and holds throughout.
LEMMA FeedInvInductive == FeedInv /\ [Next]_vars => FeedInv'
<1> SUFFICES ASSUME FeedInv, [Next]_vars PROVE FeedInv'
  OBVIOUS
<1>1. ASSUME RequestTypeOK', RereadsAlone', UNCHANGED streamVars PROVE FeedInv'
  BY <1>1 DEF FeedInv, streamVars, StreamTypeOK, PendingIsOrderly,
              ServerKnowsWhatItSent, Applied
<1>2. CASE \E j \in Jobs : SilentWrite(j)
  BY <1>1, <1>2, WritersKeepTypes DEF FeedInv
<1>3. ASSUME NEW r \in Requests,
             \/ \E j \in Jobs : RequestWrites(r, j) \/ CancelQueuedWrites(r, j)
             \/ \E D \in SUBSET Jobs : DeletesJobs(r, D)
             \/ RequestStep(r)
      PROVE  FeedInv'
  BY <1>1, <1>3, WritersKeepTypes, BroadcastKeepsInv DEF FeedInv, RequestStep
<1>4. ASSUME NEW s \in Streams,
             Subscribe(s) \/ FirstReadingFails(s) \/ Unsubscribe(s) \/ StreamStep(s)
      PROVE  FeedInv'
  BY <1>4, ConnectionsKeepInv, RoundsKeepInv
<1>5. CASE UNCHANGED vars
  BY <1>1, <1>5 DEF vars, requestVars, FeedInv, RequestTypeOK, RereadsAlone
<1> QED BY <1>2, <1>3, <1>4, <1>5 DEF Next

\* What the feed starts with and every step keeps, it always has.
LEMMA FeedInvHolds == Spec => []FeedInv
BY InitFeedInv, FeedInvInductive, PTL DEF Spec

-----------------------------------------------------------------------------
(* Theorems.                                                               *)

\* The feed keeps its types: a broadcast always has the event it is putting into
\* queues, and every event names an existing job or a deletion.
THEOREM FeedTypeCorrect == Spec => []FeedTypeOK
<1>1. FeedInv => FeedTypeOK
  BY DEF FeedInv, RequestTypeOK, StreamTypeOK, FeedTypeOK
<1> QED BY <1>1, FeedInvHolds, PTL

\* What the server thinks a client knows is what the client has been sent, up to
\* the events under way, for any number of clients, writers and broadcasts.
THEOREM ServerIsRight == Spec => []ServerKnowsWhatItSent
<1>1. FeedInv => ServerKnowsWhatItSent
  BY DEF FeedInv
<1> QED BY <1>1, FeedInvHolds, PTL

\* Only its own collection takes a stream from polling to yielding.
LEMMA OnlyCollectEndsAPoll ==
  ASSUME FeedInv, [Next]_vars, NEW s \in Streams, pc[s] = "polling", pc'[s] = "yielding"
  PROVE  Collect(s)
<1>1. pc \in [Streams -> {"new", "reading", "closed"} \union Serving]
  BY DEF FeedInv, StreamTypeOK
<1>2. pc' # pc
  OBVIOUS
<1>3. PICK t \in Streams : \/ Subscribe(t) \/ FirstReadingFails(t) \/ Unsubscribe(t)
                           \/ StreamStep(t)
  BY <1>2 DEF Next, vars, streamVars, SilentWrite, RequestWrites, CancelQueuedWrites,
              DeletesJobs, RequestStep, Reread, StartBroadcast, Put
<1>4. t = s
  <2>1. \E x : pc' = [pc EXCEPT ![t] = x]
    <3>1. pc' = pc \/ \E x : pc' = [pc EXCEPT ![t] = x]
      BY <1>3 DEF Subscribe, FirstReadingFails, Unsubscribe, StreamStep, FirstReading,
                  Dequeue, Timeout, Collect, Yield, LoopAgain
    <3> QED BY <1>2, <3>1
  <2> QED BY <1>1, <2>1
<1>5. CASE Subscribe(s) \/ FirstReadingFails(s) \/ Unsubscribe(s)
  BY <1>1, <1>5 DEF Subscribe, FirstReadingFails, Unsubscribe
<1>6. CASE StreamStep(s)
  BY <1>1, <1>6 DEF StreamStep, FirstReading, Dequeue, Timeout, Yield, LoopAgain
<1> QED BY <1>3, <1>4, <1>5, <1>6

\* Every poll sends its client just what it lacks of the store, whatever the
\* broadcasts did by then and for any number of clients, writers and jobs.
THEOREM PollsCloseTheGap == Spec => PollClosesTheGap
<1>1. ASSUME FeedInv, FeedInv', [Next]_vars
      PROVE  [\A s \in Streams : pc[s] = "polling" /\ pc'[s] = "yielding"
                => Applied(sent[s], pending'[s]) = store]_vars
  <2> SUFFICES ASSUME NEW s \in Streams, pc[s] = "polling", pc'[s] = "yielding"
               PROVE  Applied(sent[s], pending'[s]) = store
    OBVIOUS
  <2>1. Collect(s)
    BY <1>1, OnlyCollectEndsAPoll
  <2>2. known'[s] = store /\ sent' = sent
    BY <1>1, <2>1 DEF Collect, FeedInv, StreamTypeOK
  <2>3. Applied(sent'[s], pending'[s]) = known'[s]
    BY <1>1 DEF FeedInv, ServerKnowsWhatItSent, Applied, Serving
  <2> QED BY <2>2, <2>3
<1> QED BY <1>1, FeedInvHolds, PTL DEF Spec, PollClosesTheGap
==============================================================================
