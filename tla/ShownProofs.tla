---------------------------- MODULE ShownProofs -----------------------------
(***************************************************************************)
(* The Firestore client implements ShownDocuments: its streams make        *)
(* documents appear and never change one that is shown, for any number of  *)
(* cells, values, listeners and outstanding mutations.                     *)
(***************************************************************************)
EXTENDS FirestoreSyncProofs

-----------------------------------------------------------------------------
(* What the watch stream has covered is in the cache *)

LEMMA SeenInit == Init => SeenIsThere
<1> SUFFICES ASSUME Init, NEW c \in Cells, NEW i \in 1 .. seen[c] PROVE FALSE
  BY DEF SeenIsThere
<1>1. seen[c] = 0
  BY DEF Init
<1> QED
  BY <1>1

LEMMA SeenUnchanged ==
    ASSUME SeenIsThere, UNCHANGED <<cache, queue, seen>>
    PROVE  SeenIsThere'
BY DEF SeenIsThere

LEMMA SeenResend ==
    ASSUME Resend
    PROVE  SeenIsThere'
<1> SUFFICES ASSUME NEW c \in Cells, NEW i \in 1 .. seen'[c] PROVE FALSE
  BY DEF SeenIsThere
<1>1. seen'[c] = 0
  BY DEF Resend
<1> QED
  BY <1>1

LEMMA SeenWorkerWrite ==
    ASSUME TypeOK, SeenIsThere, WorkerWrite
    PROVE  SeenIsThere'
<1> SUFFICES ASSUME NEW c \in Cells, NEW i \in 1 .. seen[c], queue'[i].cell = c
             PROVE  cache[c] \in Vals
  BY DEF SeenIsThere, WorkerWrite, stream
<1>1. i \in 1 .. Len(queue)
  BY LenProperties DEF TypeOK
<1>2. queue'[i] = queue[i]
  BY <1>1, WorkerWriteEffect, AppendProperties DEF TypeOK
<1> QED
  BY <1>2 DEF SeenIsThere

LEMMA SeenAcknowledge ==
    ASSUME TypeOK, SeenIsThere, Acknowledge
    PROVE  SeenIsThere'
<1> SUFFICES ASSUME NEW c \in Cells, NEW i \in 1 .. seen'[c], queue'[i].cell = c
             PROVE  cache'[c] \in Vals
  BY DEF SeenIsThere
<1>1. seen[c] \in Nat /\ seen[c] <= committed /\ committed \in Nat /\ committed <= Len(queue)
  BY LenProperties DEF TypeOK
<1>2. seen[c] > 0 /\ i + 1 \in 1 .. seen[c] /\ i \in 1 .. Len(queue) - 1
  BY <1>1, LenProperties DEF Acknowledge, TypeOK
<1>3. queue'[i] = queue[i + 1]
  BY <1>2, QueueTail, AcknowledgeEffect DEF Acknowledge
<1>4. cache[c] \in Vals
  BY <1>2, <1>3 DEF SeenIsThere
<1>5. cache'[c] = cache[c]
  BY <1>2 DEF Acknowledge, TypeOK
<1> QED
  BY <1>4, <1>5

LEMMA SeenWatchSync ==
    ASSUME TypeOK, SyncInv, SeenIsThere, NEW d \in Cells, WatchSync(d)
    PROVE  SeenIsThere'
<1> SUFFICES ASSUME NEW c \in Cells, NEW i \in 1 .. seen'[c], queue[i].cell = c
             PROVE  cache'[c] \in Vals
  BY DEF SeenIsThere, WatchSync
<1>1. CASE c = d
  <2>1. seen'[c] = committed /\ cache'[c] = server[c]
    BY <1>1 DEF WatchSync, TypeOK
  <2> QED
    BY <2>1 DEF SyncInv, CommitsAreStored
<1>2. CASE c # d
  <2>1. seen'[c] = seen[c] /\ cache'[c] = cache[c]
    BY <1>2 DEF WatchSync, TypeOK
  <2> QED
    BY <2>1 DEF SeenIsThere
<1> QED
  BY <1>1, <1>2

LEMMA SeenNext == TypeOK /\ SyncInv /\ SeenIsThere /\ [Next]_vars => SeenIsThere'
<1> SUFFICES ASSUME TypeOK, SyncInv, SeenIsThere, [Next]_vars PROVE SeenIsThere'
  OBVIOUS
<1>1. CASE WorkerStep
  <2>1. CASE WorkerGet
    BY <2>1, SeenUnchanged DEF WorkerGet, disk, stream
  <2> QED
    BY <1>1, <2>1, SeenWorkerWrite DEF WorkerStep
<1>2. CASE NetworkStep
  <2>1. CASE Acknowledge
    BY <2>1, SeenAcknowledge
  <2>2. CASE Reject
    <3> SUFFICES ASSUME NEW c \in Cells, NEW i \in 1 .. seen[c] PROVE FALSE
      BY <2>2 DEF SeenIsThere, Reject, stream
    <3>1. seen[c] \in 0 .. 0
      BY <2>2 DEF Reject, TypeOK
    <3> QED
      BY <3>1
  <2>3. CASE \E d \in Cells : WatchSync(d)
    BY <2>3, SeenWatchSync
  <2>4. CASE WriteStreamBreak \/ RestartNetwork
    BY <2>4, SeenResend DEF WriteStreamBreak, RestartNetwork
  <2>5. CASE ServerCommit \/ WatchMessage \/ WatchFailure \/ OnlineTimeout \/ WatchIdle
    BY <2>5, SeenUnchanged DEF ServerCommit, WatchMessage, WatchFailure, OnlineTimeout,
                               BecomeOffline, WatchIdle, disk, stream
  <2> QED
    BY <1>2, <2>1, <2>2, <2>3, <2>4, <2>5 DEF NetworkStep
<1>3. CASE Kill
  BY <1>3, SeenResend DEF Kill, Exit
<1>4. ASSUME NEW req, CallWrite(req) PROVE SeenIsThere'
  BY <1>4, SeenUnchanged DEF CallWrite, disk, stream
<1>5. ASSUME NEW c, CallGet(c) PROVE SeenIsThere'
  BY <1>5, SeenUnchanged DEF CallGet, disk, stream
<1>6. CASE TakeGot \/ Start(<<>>) \/ UNCHANGED vars
  BY <1>6, SeenUnchanged DEF TakeGot, Start, vars, disk, stream
<1> QED
  BY <1>1, <1>2, <1>3, <1>4, <1>5, <1>6 DEF Next

THEOREM SeenStays == Spec => []SeenIsThere
<1> QED
  BY SeenInit, SeenNext, TypeCorrect, StreamsAreSound, PTL DEF Spec

-----------------------------------------------------------------------------
(* The network does not change what is shown *)

\* Effective in the view of the cache, and after the front of the queue is dropped,
\* if that was no setData of the cell.
LEMMA EffectiveTail ==
    ASSUME TypeOK, queue # <<>>, queue' = Tail(queue), NEW c \in Cells,
           Effective(cache, queue, c),
           cache[c] \in Vals \/ (queue[1].cell = c /\ queue[1].op = "set") => cache'[c] \in Vals
    PROVE  Effective(cache', queue', c)
<1>1. CASE cache[c] \in Vals \/ (queue[1].cell = c /\ queue[1].op = "set")
  BY <1>1 DEF Effective
<1>2. CASE cache[c] \notin Vals /\ ~(queue[1].cell = c /\ queue[1].op = "set")
  <2>1. PICK i \in Pending(queue, c) : queue[i].op = "set"
    BY <1>2 DEF Effective
  <2>2. i # 1 /\ i \in 1 .. Len(queue) /\ Len(queue) \in Nat
    BY <1>2, <2>1, LenProperties DEF Pending, TypeOK
  <2>3. i - 1 \in Pending(queue', c) /\ i - 1 \in 1 .. Len(queue) - 1 /\ (i - 1) + 1 = i
    BY <2>1, <2>2, PendingTail
  <2>4. queue'[i - 1] = queue[i]
    BY <2>2, <2>3, QueueTail
  <2> QED
    BY <2>1, <2>3, <2>4 DEF Effective
<1> QED
  BY <1>1, <1>2

\* What an answer leaves in the cache.
LEMMA EffectiveAcknowledge ==
    ASSUME TypeOK, SeenIsThere, Acknowledge, NEW c \in Cells, Effective(cache, queue, c)
    PROVE  Effective(cache', queue', c)
<1> DEFINE m == queue[1]
<1>1. /\ queue # <<>> /\ queue' = Tail(queue) /\ Head(queue) = m /\ m \in Mutations
      /\ seen[c] \in Nat
  <2>1. queue # <<>>
    BY AcknowledgeEffect
  <2>2. seen[c] \in Nat
    BY LenProperties DEF TypeOK
  <2> QED
    BY <2>1, <2>2, QueueTail DEF Acknowledge
<1>2. cache'[c] = IF m.cell # c \/ seen[c] > 0 THEN cache[c]
                  ELSE IF Applies(m, cache) THEN m.val ELSE Unknown
  BY <1>1 DEF Acknowledge, TypeOK
<1>3. ASSUME cache[c] \in Vals \/ (m.cell = c /\ m.op = "set")
      PROVE  cache'[c] \in Vals
  <2>1. CASE m.cell = c /\ seen[c] = 0
    BY <1>1, <1>2, <1>3, <2>1 DEF Applies, Mutations
  <2>2. CASE m.cell # c
    BY <1>2, <1>3, <2>2
  <2>3. CASE m.cell = c /\ seen[c] > 0
    <3>1. 1 \in 1 .. seen[c]
      BY <1>1, <2>3
    <3>2. cache[c] \in Vals
      BY <2>3, <3>1 DEF SeenIsThere
    <3> QED
      BY <1>2, <2>3, <3>2
  <2> QED
    BY <1>1, <2>1, <2>2, <2>3
<1> QED
  BY <1>1, <1>3, EffectiveTail

LEMMA EffectiveReject ==
    ASSUME TypeOK, SyncInv, Reject, NEW c \in Cells, Effective(cache, queue, c)
    PROVE  Effective(cache', queue', c)
<1>1. queue # <<>> /\ queue' = Tail(queue) /\ queue[1].op # "set" /\ cache' = cache
  <2>1. queue # <<>> /\ queue' = Tail(queue) /\ cache' = cache
    BY DEF Reject
  <2>2. Head(queue).op # "set"
    BY DEF Reject, Applies
  <2> QED
    BY <2>1, <2>2, QueueTail
<1> QED
  BY <1>1, EffectiveTail

LEMMA EffectiveWatchSync ==
    ASSUME TypeOK, SyncInv, NEW d \in Cells, WatchSync(d), NEW c \in Cells,
           Effective(cache, queue, c)
    PROVE  Effective(cache', queue', c)
<1>1. queue' = queue /\ cache'[c] = IF c = d THEN server[c] ELSE cache[c]
  BY DEF WatchSync, TypeOK
<1>2. cache[c] \in Vals => cache'[c] \in Vals
  BY <1>1 DEF SyncInv, CacheFollowsServer
<1> QED
  BY <1>1, <1>2 DEF Effective

LEMMA EffectiveNetwork ==
    ASSUME TypeOK, SyncInv, SeenIsThere, NetworkStep, NEW c \in Cells,
           Effective(cache, queue, c)
    PROVE  Effective(cache', queue', c)
<1>1. CASE UNCHANGED disk
  BY <1>1 DEF Effective, Pending, disk
<1>2. CASE ServerCommit \/ WriteStreamBreak \/ WatchMessage \/ WatchFailure
           \/ OnlineTimeout \/ WatchIdle \/ RestartNetwork
  <2>1. UNCHANGED disk
    BY <1>2 DEF ServerCommit, WriteStreamBreak, WatchMessage, WatchFailure, OnlineTimeout,
                BecomeOffline, WatchIdle, RestartNetwork
  <2> QED
    BY <1>1, <2>1
<1> QED
  BY <1>2, EffectiveAcknowledge, EffectiveReject, EffectiveWatchSync DEF NetworkStep

LEMMA LocalPresent ==
    ASSUME TypeOK, NEW c \in Cells
    PROVE  Effective(cache, queue, c) <=> LocalView(c) \in Vals
BY PresentIfEffective DEF TypeOK, LocalView

\* A value that is shown is the one that lasts, before and after.
LEMMA LocalNetwork ==
    ASSUME TypeOK, SyncInv, SeenIsThere, NetworkStep, NEW c \in Cells, LocalView(c) \in Vals
    PROVE  LocalView(c)' = LocalView(c)
<1>1. TypeOK' /\ SyncInv'
  BY TypeNext, SyncNext DEF Next
<1>2. Effective(cache', queue', c)
  BY LocalPresent, EffectiveNetwork
<1>3. LocalView(c)' \in Vals
  <2>1. cache' \in [Cells -> Results] /\ queue' \in Seq(Mutations)
    BY <1>1 DEF TypeOK
  <2>2. View(cache', queue', c) \in Vals
    BY <1>2, <2>1, PresentIfEffective
  <2> QED
    BY <2>2 DEF LocalView
<1>4. LocalView(c) = DurableView(c)
  BY LocalFromSync DEF LocalIsDurable
<1>5. LocalIsDurable'
  BY <1>1, LocalFromSync, PTL
<1>6. LocalView(c)' = DurableView(c)'
  BY <1>3, <1>5 DEF LocalIsDurable
<1> QED
  BY <1>4, <1>6, DurableNetwork

-----------------------------------------------------------------------------
(* The refinement *)

LEMMA ShownType == shown \in [Cells -> Vals \cup {Unknown}]
BY DEF shown

LEMMA ShownPresent ==
    ASSUME NEW c \in Cells
    PROVE  shown[c] \in Vals <=> LocalView(c) \in Vals
BY SyncAssumption DEF shown

\* A step of a stream is an arrival, of no document perhaps.
LEMMA ShownNetwork ==
    ASSUME TypeOK, SyncInv, SeenIsThere, NetworkStep
    PROVE  [Shows!Next]_<<shown, worker>>
<1> DEFINE arrived == {c \in Cells : shown[c] \notin Vals /\ shown'[c] \in Vals}
           news == [c \in arrived |-> shown'[c]]
<1>1. \A c \in Cells : shown'[c] = IF c \in DOMAIN news THEN news[c] ELSE shown[c]
  <2> TAKE c \in Cells
  <2>1. CASE shown[c] \in Vals
    <3>1. LocalView(c)' = LocalView(c) /\ LocalView(c) \in Vals
      BY <2>1, ShownPresent, LocalNetwork
    <3>2. shown'[c] = shown[c]
      BY <3>1 DEF shown
    <3> QED
      BY <2>1, <3>2
  <2>2. CASE shown[c] \notin Vals
    <3>1. shown[c] = Unknown /\ (shown'[c] \in Vals \/ shown'[c] = Unknown)
      BY <2>2 DEF shown
    <3> QED
      BY <2>2, <3>1
  <2> QED
    BY <2>1, <2>2
<1>2. shown' = [c \in Cells |-> IF c \in DOMAIN news THEN news[c] ELSE shown[c]]
  BY <1>1 DEF shown
<1>3. Shows!Arrive(news)
  BY <1>2, NetworkLeavesCalls DEF Shows!Arrive
<1> QED
  BY <1>3 DEF Shows!Next, Shows!ArriveSome

\* The worker takes up the call in front, with the effect the listeners expect.
LEMMA ShownWorker ==
    ASSUME TypeOK, WorkerStep
    PROVE  Shows!Take
<1> DEFINE m == Head(worker)
<1>1. CASE WorkerGet
  <2>1. m.op = "get" /\ worker # <<>> /\ worker' = Tail(worker) /\ UNCHANGED <<cache, queue>>
    BY <1>1 DEF WorkerGet, disk
  <2>2. shown' = shown
    BY <2>1 DEF shown, LocalView
  <2>3. ~Shows!Writes(m)
    BY <2>1 DEF Shows!Writes
  <2> QED
    BY <2>1, <2>2, <2>3 DEF Shows!Take
<1>2. CASE WorkerWrite
  <2>1. m \in Mutations /\ m.op \in {"set", "update"} /\ m.cell \in Cells /\ m.val \in Vals
    BY <1>2, WorkerWriteEffect DEF Mutations
  <2>2. Shows!Writes(m) <=> Effective(cache, queue, m.cell) \/ m.op = "set"
    BY <2>1, LocalPresent, ShownPresent DEF Shows!Writes
  <2>3. ASSUME NEW c \in Cells
        PROVE  LocalView(c)' = IF c = m.cell /\ Shows!Writes(m) THEN m.val ELSE LocalView(c)
    <3>1. LocalView(c)' = View(cache, Append(queue, m), c)
      BY <1>2 DEF LocalView, WorkerWrite
    <3>2. View(cache, Append(queue, m), c) =
              IF c = m.cell /\ (Effective(cache, queue, c) \/ m.op = "set")
              THEN m.val ELSE View(cache, queue, c)
      BY <2>1, ViewAppend DEF TypeOK
    <3> QED
      BY <2>2, <3>1, <3>2 DEF LocalView
  <2>4. shown' = IF Shows!Writes(m) THEN [shown EXCEPT ![m.cell] = m.val] ELSE shown
    <3>1. \A c \in Cells : shown'[c] =
              IF c = m.cell /\ Shows!Writes(m) THEN m.val ELSE shown[c]
      BY <2>1, <2>3 DEF shown
    <3>2. shown' = [c \in Cells |-> shown'[c]] /\ shown = [c \in Cells |-> shown[c]]
      BY DEF shown
    <3>3. CASE Shows!Writes(m)
      <4>1. \A c \in Cells : shown'[c] = [shown EXCEPT ![m.cell] = m.val][c]
        BY <3>1, <3>3, ShownType
      <4> QED
        BY <3>2, <3>3, <4>1
    <3>4. CASE ~Shows!Writes(m)
      BY <3>1, <3>2, <3>4
    <3> QED
      BY <3>3, <3>4
  <2> QED
    BY <1>2, <2>4 DEF WorkerWrite, Shows!Take
<1> QED
  BY <1>1, <1>2 DEF WorkerStep

LEMMA ShownIssue ==
    ASSUME TypeOK, NEW reqs \in Seq(Mutations \cup GetReqs), Enqueue(reqs),
           UNCHANGED <<cache, queue>>
    PROVE  Shows!Next
<1>1. UNCHANGED shown
  BY DEF shown, LocalView
<1>2. Shows!IsPrefix(worker, worker') /\ worker' \in Seq(Mutations \cup GetReqs)
  BY CallsAreBehind DEF Shows!IsPrefix, Enqueue
<1> QED
  BY <1>1, <1>2 DEF Shows!Next, Shows!Issue

LEMMA ShownNext ==
    TypeOK /\ SyncInv /\ SeenIsThere /\ [Next]_vars => [Shows!Next]_<<shown, worker>>
<1> SUFFICES ASSUME TypeOK, SyncInv, SeenIsThere, [Next]_vars
             PROVE  [Shows!Next]_<<shown, worker>>
  OBVIOUS
<1>1. ASSUME UNCHANGED <<cache, queue>> PROVE UNCHANGED shown
  BY <1>1 DEF shown, LocalView
<1>2. ASSUME NEW req \in Mutations \cup GetReqs, Enqueue(<<req>>), UNCHANGED <<cache, queue>>
      PROVE  Shows!Next
  BY <1>2, RequestType, ShownIssue
<1>3. ASSUME NEW req \in Mutations, CallWrite(req) PROVE Shows!Next
  BY <1>2, <1>3 DEF CallWrite, disk
<1>4. ASSUME NEW c \in Fetched, CallGet(c) PROVE Shows!Next
  BY <1>2, <1>4, CallTypes, SyncAssumption DEF CallGet, disk
<1>5. CASE WorkerStep
  BY <1>5, ShownWorker DEF Shows!Next
<1>6. CASE NetworkStep
  BY <1>6, ShownNetwork
<1>7. CASE Kill
  BY <1>1, <1>7 DEF Kill, Exit, disk, Shows!Next, Shows!Forget
<1>8. CASE Start(<<>>)
  <2>1. worker' = worker
    BY <1>8, ConcatEmptySeq DEF TypeOK, Start, Enqueue
  <2> QED
    BY <1>1, <1>8, <2>1 DEF Start, disk
<1>9. CASE TakeGot \/ UNCHANGED vars
  BY <1>1, <1>9 DEF TakeGot, vars, disk
<1> QED
  BY <1>3, <1>4, <1>5, <1>6, <1>7, <1>8, <1>9, CallTypes DEF Next

LEMMA ShownInit == Init => Shows!Init
<1> SUFFICES ASSUME Init PROVE shown = [c \in Cells |-> Unknown] /\ worker = <<>>
  BY DEF Shows!Init
<1>1. \A c \in Cells : LocalView(c) = Unknown
  <2> TAKE c \in Cells
  <2>1. queue = <<>> /\ cache[c] = Unknown
    BY DEF Init
  <2>2. Pending(queue, c) = {}
    BY <2>1 DEF Pending
  <2> QED
    BY <2>1, <2>2 DEF LocalView, View
<1> QED
  BY <1>1 DEF Init, shown

\* Nothing the streams do takes a document back or changes one that is shown: a
\* listener hears of arrivals and of the calls of its own application.
THEOREM ShownRefinement == Spec => ShowsDocuments
<1> QED
  BY ShownInit, ShownNext, TypeCorrect, StreamsAreSound, SeenStays, PTL
  DEF Spec, ShowsDocuments, Shows!Spec
=============================================================================
