------------------------ MODULE FirestoreSyncProofs -------------------------
(***************************************************************************)
(* Theorems about the Firestore client, for any number of cells, values    *)
(* and outstanding mutations: its type invariant, the invariant SyncInv    *)
(* of the two streams, that the application only sees values that last,    *)
(* and that client and server together implement DurableStore.             *)
(***************************************************************************)
EXTENDS FirestoreSync, FiniteSetTheorems, SequenceTheorems, WellFoundedInduction, TLAPS

-----------------------------------------------------------------------------
(* The last mutation of a cell *)

Less == {ss \in Nat \X Nat : ss[1] < ss[2]}

LEMMA LessIsWellFounded == IsWellFoundedOn(Less, Nat)
BY NatLessThanWellFounded, Zenon DEF OpToRel, Less

\* A set of indices that is not empty has a maximum, and Max picks it.
LEMMA MaxOfIndices ==
    ASSUME NEW n \in Nat, NEW S \in SUBSET (1 .. n), S # {}
    PROVE  Max(S) \in S /\ \A j \in S : j <= Max(S)
<1> DEFINE T == {n - i : i \in S}
<1>1. T \subseteq Nat /\ T # {}
  <2>1. \A i \in S : i \in Nat /\ i <= n
    OBVIOUS
  <2>2. \A i \in S : n - i \in Nat
    BY <2>1
  <2> QED
    BY <2>2
<1>2. PICK k \in T : \A l \in T : <<l, k>> \notin Less
  <2> HIDE DEF T
  <2> QED
    BY <1>1, WFMin, LessIsWellFounded
<1>3. PICK i \in S : k = n - i
  OBVIOUS
<1>4. \A j \in S : i >= j
  <2> TAKE j \in S
  <2>1. n - j \in T /\ n - j \in Nat /\ k \in Nat
    BY <1>1
  <2>2. ~(n - j < k)
    BY <1>2, <2>1 DEF Less
  <2> QED
    BY <1>3, <2>2
<1> QED
  BY <1>4 DEF Max

\* The view of a cell, by its last pending mutation i.
LEMMA ViewByLast ==
    ASSUME NEW q \in Seq(Mutations), NEW base, NEW c, NEW i \in Pending(q, c),
           \A j \in Pending(q, c) : j <= i
    PROVE  View(base, q, c) = IF Effective(base, q, c) THEN q[i].val ELSE base[c]
<1>1. Pending(q, c) \in SUBSET (1 .. Len(q)) /\ Len(q) \in Nat
  BY LenProperties DEF Pending
<1>2. /\ Max(Pending(q, c)) \in Pending(q, c)
      /\ \A j \in Pending(q, c) : j <= Max(Pending(q, c))
  BY <1>1, MaxOfIndices
<1>3. Max(Pending(q, c)) = i
  BY <1>1, <1>2
<1> QED
  BY <1>3 DEF View

LEMMA LastExists ==
    ASSUME NEW q \in Seq(Mutations), NEW c, Pending(q, c) # {}
    PROVE  \E i \in Pending(q, c) : \A j \in Pending(q, c) : j <= i
<1>1. Pending(q, c) \in SUBSET (1 .. Len(q)) /\ Len(q) \in Nat
  BY LenProperties DEF Pending
<1> QED
  BY <1>1, MaxOfIndices

LEMMA ViewType ==
    ASSUME NEW V, Vals \subseteq V, NEW base \in [Cells -> V],
           NEW q \in Seq(Mutations), NEW c \in Cells
    PROVE  View(base, q, c) \in V
<1>1. CASE Pending(q, c) = {}
  BY <1>1 DEF View
<1>2. CASE Pending(q, c) # {}
  <2>1. PICK i \in Pending(q, c) : \A j \in Pending(q, c) : j <= i
    BY <1>2, LastExists
  <2>2. i \in 1 .. Len(q)
    BY LenProperties DEF Pending
  <2>3. q[i] \in Mutations
    BY <2>2, ElementOfSeq
  <2>4. q[i].val \in Vals
    BY <2>3 DEF Mutations
  <2> QED
    BY <2>1, <2>4, ViewByLast
<1> QED
  BY <1>1, <1>2
-----------------------------------------------------------------------------
(* Type correctness *)

LEMMA TypeInit == Init => TypeOK
<1> SUFFICES ASSUME Init PROVE TypeOK
  OBVIOUS
<1>1. /\ queue \in Seq(Mutations) /\ Len(queue) = 0
      /\ worker \in Seq(Mutations \cup GetReqs)
      /\ mainQueue \in Seq(GotTasks \cup OtherTasks)
  <2>1. queue = <<>> /\ worker = <<>> /\ mainQueue = <<>>
    BY DEF Init
  <2> QED
    BY <2>1, EmptySeq
<1>2. committed \in 0 .. Len(queue) /\ seen \in [Cells -> 0 .. committed]
  BY <1>1 DEF Init
<1>3. /\ server \in [Cells -> Vals \cup {Missing}]
      /\ cache \in [Cells -> Results]
      /\ gets \subseteq Cells
  BY SyncAssumption DEF Init, Results
<1> QED
  BY <1>1, <1>2, <1>3 DEF Init, TypeOK

\* The worker moves the mutation in front of its queue to the mutation queue.
LEMMA WorkerWriteEffect ==
    ASSUME TypeOK, WorkerWrite
    PROVE  /\ Head(worker) \in Mutations
           /\ queue' = Append(queue, Head(worker))
           /\ worker' \in Seq(Mutations \cup GetReqs)
<1>1. Head(worker) \in Mutations \cup GetReqs /\ Tail(worker) \in Seq(Mutations \cup GetReqs)
  BY HeadTailProperties DEF TypeOK, WorkerWrite
<1> QED
  BY <1>1 DEF WorkerWrite, Mutations, GetReqs

LEMMA GotType ==
    ASSUME NEW c \in Cells, NEW v \in Results, NEW synced \in BOOLEAN
    PROVE  Got(c, GetResult(v, synced)) \in GotTasks
BY DEF Got, GetResult, GotTasks, Results

\* Views of the cache are results, and of the server values or Missing.
LEMMA LocalViewType ==
    ASSUME TypeOK, NEW c \in Cells
    PROVE  LocalView(c) \in Results
BY ViewType DEF TypeOK, LocalView, Results

LEMMA TypeWorker ==
    ASSUME TypeOK, WorkerStep
    PROVE  TypeOK'
<1>1. CASE WorkerWrite
  <2>1. queue' \in Seq(Mutations) /\ Len(queue') = Len(queue) + 1
    <3>1. queue \in Seq(Mutations) /\ Head(worker) \in Mutations
      BY <1>1, WorkerWriteEffect DEF TypeOK
    <3>2. queue' = Append(queue, Head(worker))
      BY <1>1 DEF WorkerWrite
    <3> QED
      BY <3>1, <3>2, AppendProperties
  <2>2. committed \in 0 .. Len(queue')
    BY <2>1, LenProperties DEF TypeOK
  <2> QED
    BY <1>1, <2>1, <2>2, WorkerWriteEffect DEF WorkerWrite, TypeOK, stream
<1>2. CASE WorkerGet
  <2> DEFINE c == Head(worker).cell
  <2>1. c \in Cells /\ Tail(worker) \in Seq(Mutations \cup GetReqs)
    <3>1. Head(worker) \in Mutations \cup GetReqs
      BY <1>2, HeadTailProperties DEF TypeOK, WorkerGet
    <3> QED
      BY <1>2, <3>1, HeadTailProperties DEF TypeOK, WorkerGet, Mutations, GetReqs
  <2>2. Got(c, GetResult(LocalView(c), FALSE)) \in GotTasks \cup OtherTasks
    BY <2>1, LocalViewType, GotType
  <2>3. mainQueue' \in Seq(GotTasks \cup OtherTasks)
    <3>1. Append(mainQueue, Got(c, GetResult(LocalView(c), FALSE)))
            \in Seq(GotTasks \cup OtherTasks)
      BY <2>2, AppendProperties DEF TypeOK
    <3> QED
      BY <1>2, <3>1 DEF WorkerGet, TypeOK
  <2>4. gets' \subseteq Cells
    BY <1>2, <2>1 DEF WorkerGet, TypeOK
  <2> QED
    BY <1>2, <2>1, <2>3, <2>4 DEF WorkerGet, TypeOK, disk, stream
<1> QED
  BY <1>1, <1>2 DEF WorkerStep

\* Dropping the mutation in front of the queue, as both answers of the server do.
LEMMA QueueTail ==
    ASSUME TypeOK, queue # <<>>
    PROVE  /\ Len(queue) \in Nat \ {0}
           /\ Head(queue) = queue[1] /\ queue[1] \in Mutations
           /\ Tail(queue) \in Seq(Mutations)
           /\ Len(Tail(queue)) = Len(queue) - 1
           /\ \A i \in 1 .. Len(queue) - 1 : Tail(queue)[i] = queue[i + 1]
<1>1. Len(queue) \in Nat \ {0}
  BY EmptySeq DEF TypeOK
<1>2. queue[1] \in Mutations
  BY <1>1, ElementOfSeq DEF TypeOK
<1> QED
  BY <1>1, <1>2, HeadTailProperties DEF TypeOK

LEMMA CommittedQueue ==
    ASSUME TypeOK, committed > 0
    PROVE  queue # <<>>
BY EmptySeq DEF TypeOK

LEMMA ServerCommitEffect ==
    ASSUME TypeOK, ServerCommit
    PROVE  /\ committed \in Nat /\ committed + 1 \in 1 .. Len(queue)
           /\ queue[committed + 1] \in Mutations
           /\ server' = [server EXCEPT ![queue[committed + 1].cell] = queue[committed + 1].val]
           /\ server' \in [Cells -> Vals \cup {Missing}]
<1>1. committed \in Nat /\ committed + 1 \in 1 .. Len(queue)
  BY LenProperties DEF TypeOK, ServerCommit
<1>2. queue[committed + 1] \in Mutations
  BY <1>1, ElementOfSeq DEF TypeOK
<1>3. server' = [server EXCEPT ![queue[committed + 1].cell] = queue[committed + 1].val]
  BY DEF ServerCommit, ApplyTo
<1> QED
  BY <1>1, <1>2, <1>3 DEF TypeOK, Mutations

\* The answers that going offline gives, as a sequence: one to each get at most.
LEMMA OfflineAnswers ==
    ASSUME TypeOK, BecomeOffline
    PROVE  \E answers \in Seq(GotTasks) :
              /\ mainQueue' = mainQueue \o answers
              /\ \A i \in 1 .. Len(answers) :
                    \E c \in gets : answers[i] = Got(c, GetResult(LocalView(c), FALSE))
              /\ \A i, j \in 1 .. Len(answers) : answers[i].cell = answers[j].cell => i = j
<1>1. PICK order \in SetToSeqs(gets) :
          mainQueue' = mainQueue \o
              [i \in DOMAIN order |-> Got(order[i], GetResult(LocalView(order[i]), FALSE))]
  BY DEF BecomeOffline
<1> DEFINE answers ==
              [i \in DOMAIN order |-> Got(order[i], GetResult(LocalView(order[i]), FALSE))]
           n == Cardinality(gets)
<1>2. n \in Nat
  <2>1. IsFiniteSet(gets)
    BY SyncAssumption, FS_Subset DEF TypeOK
  <2> QED
    BY <2>1, FS_CardinalityType
<1>3. order \in [1 .. n -> gets] /\ \A i, j \in 1 .. n : i # j => order[i] # order[j]
  BY DEF SetToSeqs
<1>4. \A i \in 1 .. n : Got(order[i], GetResult(LocalView(order[i]), FALSE)) \in GotTasks
  <2> TAKE i \in 1 .. n
  <2>1. order[i] \in Cells
    BY <1>3 DEF TypeOK
  <2> QED
    BY <2>1, LocalViewType, GotType
<1>5. answers \in [1 .. n -> GotTasks]
  BY <1>3, <1>4
<1>6. \A i \in 1 .. n :
          /\ \E c \in gets : answers[i] = Got(c, GetResult(LocalView(c), FALSE))
          /\ answers[i].cell = order[i]
  BY <1>3 DEF Got
<1> HIDE DEF answers, n
<1>7. answers \in Seq(GotTasks)
  BY <1>2, <1>5, SeqDef
<1>8. Len(answers) = n
  BY <1>2, <1>5, <1>7, LenProperties
<1>9. mainQueue' = mainQueue \o answers
  BY <1>1 DEF answers
<1>10. ASSUME NEW i \in 1 .. Len(answers), NEW j \in 1 .. Len(answers),
              answers[i].cell = answers[j].cell
       PROVE  i = j
  <2>1. /\ answers[i].cell = order[i] /\ answers[j].cell = order[j]
        /\ i \in 1 .. n /\ j \in 1 .. n
    BY <1>6, <1>8
  <2> QED
    BY <1>3, <1>10, <2>1
<1>11. \A i \in 1 .. Len(answers) :
          \E c \in gets : answers[i] = Got(c, GetResult(LocalView(c), FALSE))
  BY <1>6, <1>8
<1> QED
  BY <1>7, <1>9, <1>10, <1>11

LEMMA BecomeOfflineType ==
    ASSUME TypeOK, BecomeOffline
    PROVE  mainQueue' \in Seq(GotTasks \cup OtherTasks)
<1>1. PICK answers \in Seq(GotTasks) : mainQueue' = mainQueue \o answers
  BY OfflineAnswers
<1>2. answers \in Seq(GotTasks \cup OtherTasks)
  BY SeqDef
<1> QED
  BY <1>1, <1>2, ConcatProperties DEF TypeOK

LEMMA ResendType ==
    ASSUME TypeOK, Resend
    PROVE  committed' \in 0 .. Len(queue) /\ seen' \in [Cells -> 0 .. committed']
BY LenProperties DEF TypeOK, Resend
\* After an answer to a mutation, what the cached values reflect moves down by one.
LEMMA AcknowledgeEffect ==
    ASSUME TypeOK, Acknowledge
    PROVE  /\ queue # <<>>
           /\ committed' \in 0 .. Len(queue) - 1
           /\ seen' \in [Cells -> 0 .. committed']
           /\ cache' \in [Cells -> Results]
<1>1. committed \in Nat \ {0} /\ committed <= Len(queue) /\ queue # <<>>
  BY CommittedQueue, LenProperties DEF TypeOK, Acknowledge
<1>2. committed' = committed - 1 /\ committed' \in 0 .. Len(queue) - 1
  BY <1>1, QueueTail DEF Acknowledge
<1>3. \A c \in Cells : (IF seen[c] > 0 THEN seen[c] - 1 ELSE 0) \in 0 .. committed'
  BY <1>1, <1>2 DEF TypeOK
<1>4. Head(queue).val \in Results /\ Unknown \in Results
  BY <1>1, QueueTail DEF Mutations, Results
<1>5. cache' \in [Cells -> Results]
  BY <1>4 DEF TypeOK, Acknowledge
<1> QED
  BY <1>1, <1>2, <1>3, <1>5 DEF Acknowledge

LEMMA WatchSyncType ==
    ASSUME TypeOK, NEW c \in Cells, WatchSync(c)
    PROVE  TypeOK'
<1>1. cache' \in [Cells -> Results]
  BY DEF TypeOK, WatchSync, Results
<1>2. View(cache', queue, c) \in Results
  BY <1>1, ViewType DEF TypeOK, Results
<1>3. Got(c, GetResult(View(cache', queue, c), TRUE)) \in GotTasks \cup OtherTasks
  BY <1>2, GotType
<1>4. mainQueue' \in Seq(GotTasks \cup OtherTasks)
  <2>1. Append(mainQueue, Got(c, GetResult(View(cache', queue, c), TRUE)))
          \in Seq(GotTasks \cup OtherTasks)
    BY <1>3, AppendProperties DEF TypeOK
  <2> QED
    BY <2>1 DEF WatchSync, TypeOK
<1>5. seen' \in [Cells -> 0 .. committed]
  BY LenProperties DEF TypeOK, WatchSync
<1> QED
  BY <1>1, <1>4, <1>5 DEF TypeOK, WatchSync

LEMMA TypeNetwork ==
    ASSUME TypeOK, NetworkStep
    PROVE  TypeOK'
<1>1. CASE ServerCommit
  <2>1. committed' \in 0 .. Len(queue) /\ seen \in [Cells -> 0 .. committed']
    <3>1. committed' = committed + 1 /\ committed \in Nat /\ committed + 1 \in 1 .. Len(queue)
      BY <1>1, ServerCommitEffect DEF ServerCommit
    <3> QED
      BY <3>1 DEF TypeOK
  <2> QED
    BY <1>1, <2>1, ServerCommitEffect DEF ServerCommit, TypeOK, disk, session
<1>2. CASE Acknowledge
  BY <1>2, AcknowledgeEffect, QueueTail DEF Acknowledge, TypeOK, session
<1>3. CASE Reject
  <2>1. queue' \in Seq(Mutations) /\ committed \in 0 .. Len(queue')
    <3>1. Len(queue') \in Nat /\ queue' \in Seq(Mutations) /\ committed = 0
      BY <1>3, QueueTail DEF Reject
    <3> QED
      BY <3>1
  <2> QED
    BY <1>3, <2>1 DEF Reject, TypeOK, stream, session
<1>4. CASE WriteStreamBreak
  BY <1>4, ResendType DEF WriteStreamBreak, TypeOK, disk, session
<1>5. CASE \E c \in Cells : WatchSync(c)
  BY <1>5, WatchSyncType
<1>6. CASE WatchMessage \/ WatchIdle
  BY <1>6 DEF WatchMessage, WatchIdle, TypeOK, disk, stream
<1>7. ASSUME BecomeOffline, UNCHANGED <<server, disk, stream, worker, up>>
      PROVE  TypeOK'
  <2>1. online' = "Offline" /\ gets' = {}
    BY <1>7 DEF BecomeOffline
  <2> QED
    BY <1>7, <2>1, BecomeOfflineType DEF TypeOK, disk, stream
<1>8. CASE WatchFailure
  <2>1. CASE online = "Online"
    BY <1>8, <2>1 DEF WatchFailure, BecomeOffline, TypeOK, disk, stream
  <2>2. CASE online # "Online"
    <3>1. BecomeOffline /\ UNCHANGED <<server, disk, stream, worker, up>>
      BY <1>8, <2>2 DEF WatchFailure, BecomeOffline
    <3> QED
      BY <3>1, <1>7
  <2> QED
    BY <2>1, <2>2
<1>9. CASE OnlineTimeout
  <2>1. BecomeOffline /\ UNCHANGED <<server, disk, stream, worker, up>>
    BY <1>9 DEF OnlineTimeout, BecomeOffline
  <2> QED
    BY <2>1, <1>7
<1>10. CASE RestartNetwork
  BY <1>10, ResendType DEF RestartNetwork, TypeOK, disk
<1> QED
  BY <1>1, <1>2, <1>3, <1>4, <1>5, <1>6, <1>8, <1>9, <1>10 DEF NetworkStep

\* The requests of the application keep the queues well formed.
LEMMA EnqueueType ==
    ASSUME TypeOK, NEW reqs \in Seq(Mutations \cup GetReqs), Enqueue(reqs)
    PROVE  worker' \in Seq(Mutations \cup GetReqs)
BY ConcatProperties DEF TypeOK, Enqueue

LEMMA RequestType ==
    ASSUME NEW req \in Mutations \cup GetReqs
    PROVE  <<req>> \in Seq(Mutations \cup GetReqs)
OBVIOUS

LEMMA CallTypes ==
    /\ \A c \in Cells, v \in Vals : SetData(c, v) \in Mutations /\ UpdateData(c, v) \in Mutations
    /\ \A c \in Cells : GetDocument(c) \in GetReqs
BY DEF SetData, UpdateData, GetDocument, Mutations, GetReqs

LEMMA ExitType ==
    ASSUME TypeOK, Exit
    PROVE  TypeOK'
<1>1. worker' = <<>> /\ mainQueue' = <<>> /\ gets' = {} /\ online' = "Unknown" /\ up' = FALSE
  BY DEF Exit
<1>2. /\ worker' \in Seq(Mutations \cup GetReqs)
      /\ mainQueue' \in Seq(GotTasks \cup OtherTasks)
  BY <1>1, EmptySeq
<1>3. committed' \in 0 .. Len(queue) /\ seen' \in [Cells -> 0 .. committed']
  BY ResendType DEF Exit
<1> QED
  BY <1>1, <1>2, <1>3 DEF Exit, TypeOK, disk

LEMMA StartType ==
    ASSUME TypeOK, NEW reqs \in Seq(Mutations \cup GetReqs), Start(reqs)
    PROVE  TypeOK'
<1>1. worker' \in Seq(Mutations \cup GetReqs)
  BY EnqueueType DEF Start
<1> QED
  BY <1>1 DEF Start, TypeOK, disk, stream

LEMMA TakeGotType ==
    ASSUME TypeOK, TakeGot
    PROVE  TypeOK'
<1>1. mainQueue' \in Seq(GotTasks \cup OtherTasks)
  BY HeadTailProperties DEF TypeOK, TakeGot
<1> QED
  BY <1>1 DEF TypeOK, TakeGot, disk, stream

LEMMA TypeNext == TypeOK /\ [Next]_vars => TypeOK'
<1> SUFFICES ASSUME TypeOK, [Next]_vars PROVE TypeOK'
  OBVIOUS
<1>1. ASSUME NEW req \in Mutations, CallWrite(req) PROVE TypeOK'
  <2>1. worker' \in Seq(Mutations \cup GetReqs)
    BY <1>1, RequestType, EnqueueType DEF CallWrite
  <2> QED
    BY <1>1, <2>1 DEF CallWrite, TypeOK, disk, stream
<1>2. ASSUME NEW c \in Fetched, CallGet(c) PROVE TypeOK'
  <2>1. GetDocument(c) \in Mutations \cup GetReqs
    BY CallTypes, SyncAssumption
  <2>2. worker' \in Seq(Mutations \cup GetReqs)
    BY <1>2, <2>1, RequestType, EnqueueType DEF CallGet
  <2> QED
    BY <1>2, <2>2 DEF CallGet, TypeOK, disk, stream
<1>3. CASE TakeGot
  BY <1>3, TakeGotType
<1>4. CASE WorkerStep
  BY <1>4, TypeWorker
<1>5. CASE NetworkStep
  BY <1>5, TypeNetwork
<1>6. CASE Kill
  BY <1>6, ExitType DEF Kill
<1>7. CASE Start(<<>>)
  BY <1>7, StartType, EmptySeq
<1>8. CASE UNCHANGED vars
  BY <1>8 DEF vars, TypeOK
<1> QED
  BY <1>1, <1>2, <1>3, <1>4, <1>5, <1>6, <1>7, <1>8, CallTypes DEF Next

\* Every state of the client and the server has its type, the bookkeeping of the
\* streams included: no more mutations are committed than queued, no cached value
\* reflects more than were committed.
THEOREM TypeCorrect == Spec => []TypeOK
<1>1. Init => TypeOK
  BY TypeInit
<1>2. TypeOK /\ [Next]_vars => TypeOK'
  BY TypeNext
<1> QED
  BY <1>1, <1>2, PTL DEF Spec
-----------------------------------------------------------------------------
(* The bookkeeping of the streams *)

LEMMA SyncInit == Init => SyncInv
<1> SUFFICES ASSUME Init PROVE SyncInv
  OBVIOUS
<1>1. /\ committed = 0
      /\ \A c \in Cells : cache[c] \notin Vals /\ seen[c] = 0
  BY SyncAssumption DEF Init
<1> QED
  BY <1>1 DEF SyncInv, CommitsAreStored, CacheFollowsServer, SettledIsCurrent, SeenIsCached

\* Most steps leave alone what the invariant is about.
LEMMA SyncUnchanged ==
    ASSUME SyncInv, UNCHANGED <<server, disk, stream>>
    PROVE  SyncInv'
BY DEF SyncInv, CommitsAreStored, CacheFollowsServer, SettledIsCurrent, SeenIsCached, disk, stream

\* A new stream knows of no commit.
LEMMA SyncResend ==
    ASSUME SyncInv, Resend, UNCHANGED <<server, disk>>
    PROVE  SyncInv'
<1>1. committed' = 0 /\ \A c \in Cells : seen'[c] = 0
  BY DEF Resend
<1>2. CommitsAreStored' /\ SeenIsCached'
  BY <1>1 DEF CommitsAreStored, SeenIsCached
<1>3. CacheFollowsServer' /\ SettledIsCurrent'
  BY DEF SyncInv, CacheFollowsServer, SettledIsCurrent, disk
<1> QED
  BY <1>2, <1>3 DEF SyncInv

\* A mutation that enters the queue is behind those that are committed.
LEMMA SyncWorkerWrite ==
    ASSUME TypeOK, SyncInv, WorkerWrite
    PROVE  SyncInv'
<1>1. /\ queue \in Seq(Mutations) /\ Head(worker) \in Mutations
      /\ queue' = Append(queue, Head(worker))
      /\ UNCHANGED <<server, cache, committed, seen>>
  BY WorkerWriteEffect DEF TypeOK, WorkerWrite, stream
<1>2. /\ Len(queue) \in Nat /\ DOMAIN queue = 1 .. Len(queue)
      /\ DOMAIN queue' = 1 .. Len(queue) + 1
      /\ \A i \in 1 .. Len(queue) : queue'[i] = queue[i]
  <2>1. queue' \in Seq(Mutations) /\ Len(queue') = Len(queue) + 1
    BY <1>1, AppendProperties
  <2> QED
    BY <1>1, <2>1, AppendProperties, LenProperties
<1>3. \A i \in 1 .. committed : queue'[i] = queue[i]
  BY <1>2 DEF TypeOK
<1>4. CommitsAreStored'
  <2> SUFFICES ASSUME NEW i \in 1 .. committed
               PROVE  /\ server[queue'[i].cell] \in Vals
                      /\ \/ server[queue'[i].cell] = queue'[i].val
                         \/ \E j \in i + 1 .. committed : queue'[j].cell = queue'[i].cell
    BY <1>1 DEF CommitsAreStored
  <2>1. CASE server[queue[i].cell] = queue[i].val
    BY <2>1, <1>3 DEF SyncInv, CommitsAreStored
  <2>2. CASE \E j \in i + 1 .. committed : queue[j].cell = queue[i].cell
    <3>1. PICK j \in i + 1 .. committed : queue[j].cell = queue[i].cell
      BY <2>2
    <3>2. j \in 1 .. committed
      BY <3>1 DEF TypeOK
    <3> QED
      BY <3>1, <3>2, <1>3 DEF SyncInv, CommitsAreStored
  <2> QED
    BY <2>1, <2>2 DEF SyncInv, CommitsAreStored
<1>5. CacheFollowsServer'
  BY <1>1 DEF SyncInv, CacheFollowsServer
<1>6. SettledIsCurrent'
  BY <1>1, <1>2 DEF SyncInv, SettledIsCurrent
<1>7. SeenIsCached'
  <2> SUFFICES ASSUME NEW c \in Cells, seen[c] > 0,
                      \A i \in seen[c] + 1 .. committed : queue'[i].cell # c
               PROVE  cache[c] = server[c]
    BY <1>1 DEF SeenIsCached
  <2>1. \A i \in seen[c] + 1 .. committed : i \in 1 .. committed
    BY DEF TypeOK
  <2>2. \A i \in seen[c] + 1 .. committed : queue[i].cell # c
    BY <2>1, <1>3
  <2> QED
    BY <2>2 DEF SyncInv, SeenIsCached
<1> QED
  BY <1>4, <1>5, <1>6, <1>7 DEF SyncInv

\* The mutation that is committed next waits for an answer in any case, and no
\* snapshot seen so far covers it.
LEMMA SyncServerCommit ==
    ASSUME TypeOK, SyncInv, ServerCommit
    PROVE  SyncInv'
<1> DEFINE k == committed + 1
           m == queue[k]
<1>1. /\ committed \in Nat /\ k \in 1 .. Len(queue) /\ m \in Mutations
      /\ m.cell \in Cells /\ m.val \in Vals
      /\ server' = [server EXCEPT ![m.cell] = m.val]
      /\ committed' = k
      /\ UNCHANGED <<cache, queue, seen>>
  <2>1. m \in Mutations
    BY ServerCommitEffect
  <2>2. m.cell \in Cells /\ m.val \in Vals
    BY <2>1 DEF Mutations
  <2> QED
    BY <2>1, <2>2, ServerCommitEffect DEF ServerCommit, disk
<1>2. \A c \in Cells : server'[c] = IF c = m.cell THEN m.val ELSE server[c]
  BY <1>1 DEF TypeOK
<1>3. k \in DOMAIN queue
  BY <1>1, LenProperties DEF TypeOK
<1>4. CommitsAreStored'
  <2> SUFFICES ASSUME NEW i \in 1 .. k
               PROVE  /\ server'[queue[i].cell] \in Vals
                      /\ \/ server'[queue[i].cell] = queue[i].val
                         \/ \E j \in i + 1 .. k : queue[j].cell = queue[i].cell
    BY <1>1 DEF CommitsAreStored
  <2>1. CASE queue[i].cell = m.cell
    <3>1. i = k \/ k \in i + 1 .. k
      BY <1>1
    <3> QED
      BY <1>1, <1>2, <2>1, <3>1
  <2>2. CASE queue[i].cell # m.cell
    <3>1. i \in 1 .. committed /\ i \in 1 .. Len(queue)
      BY <1>1, <2>2
    <3>2. queue[i].cell \in Cells
      <4>1. queue[i] \in Mutations
        BY <3>1, ElementOfSeq DEF TypeOK
      <4> QED
        BY <4>1 DEF Mutations
    <3>3. server'[queue[i].cell] = server[queue[i].cell]
      BY <1>2, <2>2, <3>2
    <3>4. CASE server[queue[i].cell] = queue[i].val
      BY <3>1, <3>3, <3>4 DEF SyncInv, CommitsAreStored
    <3>5. CASE \E j \in i + 1 .. committed : queue[j].cell = queue[i].cell
      <4>1. \A j \in i + 1 .. committed : j \in i + 1 .. k
        BY <1>1
      <4> QED
        BY <3>1, <3>3, <3>5, <4>1 DEF SyncInv, CommitsAreStored
    <3> QED
      BY <3>1, <3>4, <3>5 DEF SyncInv, CommitsAreStored
  <2> QED
    BY <2>1, <2>2
<1>5. CacheFollowsServer'
  BY <1>1, <1>2 DEF SyncInv, CacheFollowsServer
<1>6. SettledIsCurrent'
  BY <1>1, <1>2, <1>3 DEF SyncInv, SettledIsCurrent
<1>7. SeenIsCached'
  <2> SUFFICES ASSUME NEW c \in Cells, seen[c] > 0,
                      \A i \in seen[c] + 1 .. k : queue[i].cell # c
               PROVE  cache[c] = server'[c]
    BY <1>1 DEF SeenIsCached
  <2>1. seen[c] \in 0 .. committed
    BY DEF TypeOK
  <2>2. k \in seen[c] + 1 .. k /\ \A i \in seen[c] + 1 .. committed : i \in seen[c] + 1 .. k
    BY <1>1, <2>1
  <2>3. m.cell # c
    BY <2>2
  <2>4. cache[c] = server[c]
    BY <2>2 DEF SyncInv, SeenIsCached
  <2> QED
    BY <1>2, <2>3, <2>4
<1> QED
  BY <1>4, <1>5, <1>6, <1>7 DEF SyncInv
\* The answer to the mutation in front: the rest moves up by one, and the document
\* is cached with it if no later mutation waits.
LEMMA SyncAcknowledge ==
    ASSUME TypeOK, SyncInv, Acknowledge
    PROVE  SyncInv'
<1> DEFINE m == Head(queue)
           n == Len(queue)
<1>1. /\ n \in Nat \ {0} /\ committed \in 1 .. n /\ committed' = committed - 1
      /\ m = queue[1] /\ m.cell \in Cells /\ m.val \in Vals
      /\ DOMAIN queue = 1 .. n /\ DOMAIN queue' = 1 .. n - 1
      /\ \A i \in 1 .. n - 1 : queue'[i] = queue[i + 1]
      /\ server' = server
  <2>1. queue # <<>> /\ queue' = Tail(queue)
    BY CommittedQueue DEF Acknowledge
  <2>2. n \in Nat \ {0} /\ m = queue[1] /\ m \in Mutations
    BY <2>1, QueueTail
  <2>3. DOMAIN queue = 1 .. n /\ DOMAIN queue' = 1 .. n - 1
    BY <2>1, QueueTail, LenProperties DEF TypeOK
  <2>4. \A i \in 1 .. n - 1 : queue'[i] = queue[i + 1]
    BY <2>1, QueueTail
  <2>5. committed \in 1 .. n /\ committed' = committed - 1 /\ server' = server
    BY <2>2 DEF TypeOK, Acknowledge
  <2> QED
    BY <2>2, <2>3, <2>4, <2>5 DEF Mutations
<1>2. \A i \in 1 .. committed' : i + 1 \in 1 .. committed /\ queue'[i] = queue[i + 1]
  BY <1>1
<1>3. server[m.cell] \in Vals
  BY <1>1 DEF SyncInv, CommitsAreStored
<1>4. \A c \in Cells :
          \/ cache'[c] = cache[c]
          \/ c = m.cell /\ seen[c] = 0 /\ cache'[c] \in {m.val, Unknown}
  <2> TAKE c \in Cells
  <2>1. CASE seen[m.cell] > 0
    BY <2>1 DEF Acknowledge
  <2>2. CASE ~(seen[m.cell] > 0)
    <3>1. seen[m.cell] = 0
      BY <1>1, <2>2 DEF TypeOK
    <3>2. cache' = [cache EXCEPT ![m.cell] = IF Applies(m, cache) THEN m.val ELSE Unknown]
      BY <2>2 DEF Acknowledge
    <3> QED
      BY <1>1, <3>1, <3>2 DEF TypeOK
  <2> QED
    BY <2>1, <2>2
<1>5. CommitsAreStored'
  <2> SUFFICES ASSUME NEW i \in 1 .. committed'
               PROVE  /\ server[queue'[i].cell] \in Vals
                      /\ \/ server[queue'[i].cell] = queue'[i].val
                         \/ \E j \in i + 1 .. committed' : queue'[j].cell = queue'[i].cell
    BY <1>1 DEF CommitsAreStored
  <2>1. /\ server[queue[i + 1].cell] \in Vals
        /\ \/ server[queue[i + 1].cell] = queue[i + 1].val
           \/ \E j \in i + 2 .. committed : queue[j].cell = queue[i + 1].cell
    <3>1. i + 1 \in 1 .. committed /\ (i + 1) + 1 = i + 2
      BY <1>2
    <3> QED
      BY <3>1 DEF SyncInv, CommitsAreStored
  <2>2. ASSUME NEW j \in i + 2 .. committed, queue[j].cell = queue[i + 1].cell
        PROVE  \E l \in i + 1 .. committed' : queue'[l].cell = queue'[i].cell
    <3>1. j - 1 \in i + 1 .. committed' /\ j - 1 \in 1 .. committed' /\ (j - 1) + 1 = j
      BY <1>1, <2>2
    <3> QED
      BY <1>2, <2>2, <3>1
  <2> QED
    BY <1>2, <2>1, <2>2
<1>6. CacheFollowsServer'
  BY <1>1, <1>3, <1>4, SyncAssumption DEF SyncInv, CacheFollowsServer
<1>7. \A c \in Cells, a \in 0 .. committed' :
          (\A i \in a + 1 .. committed' : queue'[i].cell # c)
          => \A i \in a + 2 .. committed : queue[i].cell # c
  <2> SUFFICES ASSUME NEW c \in Cells, NEW a \in 0 .. committed',
                      \A i \in a + 1 .. committed' : queue'[i].cell # c,
                      NEW i \in a + 2 .. committed
               PROVE  queue[i].cell # c
    OBVIOUS
  <2>1. i - 1 \in a + 1 .. committed' /\ i - 1 \in 1 .. committed' /\ (i - 1) + 1 = i
    BY <1>1
  <2> QED
    BY <2>1, <1>2
<1>8. SettledIsCurrent'
  <2> SUFFICES ASSUME NEW c \in Cells, cache'[c] \in Vals,
                      \A i \in DOMAIN queue' : queue'[i].cell # c
               PROVE  cache'[c] = server[c]
    BY <1>1 DEF SettledIsCurrent
  <2>1. \A i \in 2 .. n : queue[i].cell # c
    <3> TAKE i \in 2 .. n
    <3>1. i - 1 \in 1 .. n - 1 /\ (i - 1) + 1 = i
      BY <1>1
    <3> QED
      BY <1>1, <3>1, ZenonT(30)
  <2>2. CASE c # m.cell
    <3>1. \A i \in DOMAIN queue : i = 1 \/ i \in 2 .. n
      BY <1>1
    <3> QED
      BY <1>1, <1>4, <2>1, <2>2, <3>1 DEF SyncInv, SettledIsCurrent
  <2>3. CASE c = m.cell
    <3>1. server[c] = m.val
      <4>1. 1 \in 1 .. committed /\ \A j \in 2 .. committed : j \in 2 .. n
        BY <1>1
      <4> QED
        BY <1>1, <2>1, <2>3, <4>1 DEF SyncInv, CommitsAreStored
    <3>2. CASE seen[c] = 0
      <4>1. cache'[c] = IF Applies(m, cache) THEN m.val ELSE Unknown
        BY <1>1, <2>3, <3>2 DEF TypeOK, Acknowledge
      <4> QED
        BY <3>1, <4>1, SyncAssumption
    <3>3. CASE seen[c] # 0
      <4>1. seen[c] \in Nat /\ seen[c] > 0
        BY <1>1, <3>3 DEF TypeOK
      <4>2. \A i \in seen[c] + 1 .. committed : i \in 2 .. n
        BY <1>1, <4>1
      <4> QED
        BY <1>4, <2>1, <4>1, <4>2 DEF SyncInv, SeenIsCached
    <3> QED
      BY <3>2, <3>3
  <2> QED
    BY <2>2, <2>3
<1>9. SeenIsCached'
  <2> SUFFICES ASSUME NEW c \in Cells, seen'[c] > 0,
                      \A i \in seen'[c] + 1 .. committed' : queue'[i].cell # c
               PROVE  cache'[c] = server[c]
    BY <1>1 DEF SeenIsCached
  <2>1. seen[c] \in Nat /\ seen'[c] = IF seen[c] > 0 THEN seen[c] - 1 ELSE 0
    BY <1>1 DEF TypeOK, Acknowledge
  <2>2. seen[c] > 0 /\ seen'[c] + 2 = seen[c] + 1
    BY <2>1
  <2>3. seen'[c] \in 0 .. committed'
    BY AcknowledgeEffect
  <2>4. \A i \in seen[c] + 1 .. committed : queue[i].cell # c
    BY <1>7, <2>2, <2>3
  <2>5. cache'[c] = cache[c]
    BY <1>4, <2>2
  <2> QED
    BY <2>2, <2>4, <2>5 DEF SyncInv, SeenIsCached
<1> QED
  BY <1>5, <1>6, <1>8, <1>9 DEF SyncInv

\* The server refuses only what would change nothing: the document does not exist.
LEMMA SyncReject ==
    ASSUME TypeOK, SyncInv, Reject
    PROVE  SyncInv'
<1> DEFINE n == Len(queue)
<1>1. /\ n \in Nat \ {0} /\ Head(queue) = queue[1]
      /\ DOMAIN queue = 1 .. n /\ DOMAIN queue' = 1 .. n - 1
      /\ \A i \in 1 .. n - 1 : queue'[i] = queue[i + 1]
      /\ committed = 0 /\ server[queue[1].cell] \notin Vals
      /\ UNCHANGED <<server, cache, committed, seen>>
  <2>1. queue # <<>> /\ queue' = Tail(queue)
    BY DEF Reject
  <2>2. DOMAIN queue = 1 .. n /\ DOMAIN queue' = 1 .. n - 1
    BY <2>1, QueueTail, LenProperties DEF TypeOK
  <2> QED
    BY <2>1, <2>2, QueueTail DEF Reject, Applies, stream
<1>2. CommitsAreStored'
  BY <1>1 DEF CommitsAreStored
<1>3. CacheFollowsServer'
  BY <1>1 DEF SyncInv, CacheFollowsServer
<1>4. SettledIsCurrent'
  <2> SUFFICES ASSUME NEW c \in Cells, cache[c] \in Vals,
                      \A i \in DOMAIN queue' : queue'[i].cell # c
               PROVE  cache[c] = server[c]
    BY <1>1 DEF SettledIsCurrent
  <2>1. queue[1].cell # c
    BY <1>1 DEF SyncInv, CacheFollowsServer
  <2>2. \A i \in DOMAIN queue : queue[i].cell # c
    <3> TAKE i \in DOMAIN queue
    <3>1. i = 1 \/ (i - 1 \in 1 .. n - 1 /\ (i - 1) + 1 = i)
      BY <1>1
    <3> QED
      BY <1>1, <2>1, <3>1
  <2> QED
    BY <2>2 DEF SyncInv, SettledIsCurrent
<1>5. SeenIsCached'
  BY <1>1 DEF TypeOK, SeenIsCached
<1> QED
  BY <1>2, <1>3, <1>4, <1>5 DEF SyncInv

LEMMA SyncWatchSync ==
    ASSUME TypeOK, SyncInv, NEW c \in Cells, WatchSync(c)
    PROVE  SyncInv'
<1>1. /\ UNCHANGED <<server, queue, committed>>
      /\ \A d \in Cells : d # c => cache'[d] = cache[d] /\ seen'[d] = seen[d]
      /\ cache'[c] = server[c]
  BY DEF TypeOK, WatchSync
<1>2. CommitsAreStored'
  BY <1>1 DEF SyncInv, CommitsAreStored
<1>3. CacheFollowsServer'
  BY <1>1 DEF SyncInv, CacheFollowsServer
<1>4. SettledIsCurrent'
  BY <1>1 DEF SyncInv, SettledIsCurrent
<1>5. SeenIsCached'
  <2> SUFFICES ASSUME NEW d \in Cells, seen'[d] > 0,
                      \A i \in seen'[d] + 1 .. committed : queue[i].cell # d
               PROVE  cache'[d] = server[d]
    BY <1>1 DEF SeenIsCached
  <2>1. CASE d = c
    BY <1>1, <2>1
  <2>2. CASE d # c
    BY <1>1, <2>2 DEF SyncInv, SeenIsCached
  <2> QED
    BY <2>1, <2>2
<1> QED
  BY <1>2, <1>3, <1>4, <1>5 DEF SyncInv

LEMMA SyncStep ==
    ASSUME TypeOK, SyncInv, WorkerStep \/ NetworkStep
    PROVE  SyncInv'
<1>1. CASE WorkerWrite
  BY <1>1, SyncWorkerWrite
<1>2. CASE ServerCommit
  BY <1>2, SyncServerCommit
<1>3. CASE Acknowledge
  BY <1>3, SyncAcknowledge
<1>4. CASE Reject
  BY <1>4, SyncReject
<1>5. CASE \E c \in Cells : WatchSync(c)
  BY <1>5, SyncWatchSync
<1>6. CASE WriteStreamBreak \/ RestartNetwork
  BY <1>6, SyncResend DEF WriteStreamBreak, RestartNetwork, session
<1>7. CASE WorkerGet \/ WatchMessage \/ WatchIdle \/ WatchFailure \/ OnlineTimeout
  <2>1. UNCHANGED <<server, disk, stream>>
    BY <1>7 DEF WorkerGet, WatchMessage, WatchIdle, WatchFailure, OnlineTimeout, BecomeOffline
  <2> QED
    BY <2>1, SyncUnchanged
<1> QED
  BY <1>1, <1>2, <1>3, <1>4, <1>5, <1>6, <1>7 DEF WorkerStep, NetworkStep

LEMMA SyncNext == TypeOK /\ SyncInv /\ [Next]_vars => SyncInv'
<1> SUFFICES ASSUME TypeOK, SyncInv, [Next]_vars PROVE SyncInv'
  OBVIOUS
<1>1. CASE WorkerStep \/ NetworkStep
  BY <1>1, SyncStep
<1>2. CASE Kill
  BY <1>2, SyncResend DEF Kill, Exit
<1>3. CASE UNCHANGED <<server, disk, stream>>
  BY <1>3, SyncUnchanged
<1> QED
  BY <1>1, <1>2, <1>3 DEF Next, CallWrite, CallGet, TakeGot, Start, vars, disk, stream

\* What the streams have recorded is true of the server and of the cache, however
\* commits, answers, refusals, snapshots, failures and restarts interleave.
THEOREM StreamsAreSound == Spec => []SyncInv
<1>1. Init => SyncInv
  BY SyncInit
<1>2. TypeOK /\ SyncInv /\ [Next]_vars => SyncInv'
  BY SyncNext
<1> QED
  BY <1>1, <1>2, TypeCorrect, PTL DEF Spec
-----------------------------------------------------------------------------
(* What is read lasts *)

LEMMA LocalFromSync == TypeOK /\ SyncInv => LocalIsDurable
<1> SUFFICES ASSUME TypeOK, SyncInv, NEW c \in Cells, LocalView(c) \in Vals
             PROVE  LocalView(c) = DurableView(c)
  BY DEF LocalIsDurable
<1>1. CASE Pending(queue, c) = {}
  <2>1. LocalView(c) = cache[c] /\ DurableView(c) = server[c]
    BY <1>1 DEF LocalView, DurableView, View
  <2>2. \A i \in DOMAIN queue : queue[i].cell # c
    BY <1>1 DEF Pending
  <2> QED
    BY <2>1, <2>2 DEF SyncInv, SettledIsCurrent
<1>2. CASE Pending(queue, c) # {}
  <2>1. PICK i \in Pending(queue, c) : \A j \in Pending(queue, c) : j <= i
    BY <1>2, LastExists DEF TypeOK
  <2>2. /\ LocalView(c) = IF Effective(cache, queue, c) THEN queue[i].val ELSE cache[c]
        /\ DurableView(c) = IF Effective(server, queue, c) THEN queue[i].val ELSE server[c]
    BY <2>1, ViewByLast DEF TypeOK, LocalView, DurableView
  <2>3. Effective(cache, queue, c)
    BY <2>2 DEF Effective
  <2>4. Effective(server, queue, c)
    BY <2>3 DEF Effective, SyncInv, CacheFollowsServer
  <2> QED
    BY <2>2, <2>3, <2>4
<1> QED
  BY <1>1, <1>2

\* The value the application sees of a document is the one that lasts.
THEOREM ReadsAreDurable == Spec => []LocalIsDurable
BY LocalFromSync, TypeCorrect, StreamsAreSound, PTL

-----------------------------------------------------------------------------
(* The client implements the durable store *)

\* A mutation that enters the queue is the last one of its cell.
LEMMA ViewAppend ==
    ASSUME NEW q \in Seq(Mutations), NEW m \in Mutations, NEW base, NEW c
    PROVE  View(base, Append(q, m), c) =
               IF c = m.cell /\ (Effective(base, q, c) \/ m.op = "set")
               THEN m.val ELSE View(base, q, c)
<1> DEFINE r == Append(q, m)
           n == Len(q)
<1>1. /\ r \in Seq(Mutations) /\ n \in Nat
      /\ DOMAIN q = 1 .. n /\ DOMAIN r = 1 .. n + 1
      /\ \A i \in 1 .. n : r[i] = q[i]
      /\ r[n + 1] = m
  <2>1. r \in Seq(Mutations) /\ Len(r) = n + 1
    BY AppendProperties
  <2> QED
    BY <2>1, AppendProperties, LenProperties
<1> HIDE DEF r
<1>3. CASE c = m.cell
  <2>1. n + 1 \in Pending(r, c) /\ \A j \in Pending(r, c) : j <= n + 1
    BY <1>1, <1>3 DEF Pending
  <2>2. Effective(base, r, c) <=> Effective(base, q, c) \/ m.op = "set"
    BY <1>1, <1>3 DEF Effective, Pending
  <2>3. View(base, r, c) = IF Effective(base, r, c) THEN m.val ELSE base[c]
    BY <1>1, <2>1, ViewByLast, ZenonT(30)
  <2>4. ~Effective(base, q, c) => View(base, q, c) = base[c]
    BY DEF View
  <2> QED
    BY <1>3, <2>2, <2>3, <2>4 DEF r
<1>4. CASE c # m.cell
  <2>1. Pending(r, c) = Pending(q, c)
    BY <1>1, <1>4 DEF Pending
  <2>2. Effective(base, r, c) <=> Effective(base, q, c)
    BY <1>1, <2>1 DEF Effective, Pending
  <2>3. CASE Pending(q, c) = {}
    BY <1>4, <2>1, <2>3 DEF View, r
  <2>4. CASE Pending(q, c) # {}
    <3>1. PICK i \in Pending(q, c) : \A j \in Pending(q, c) : j <= i
      BY <2>4, LastExists
    <3>2. View(base, q, c) = IF Effective(base, q, c) THEN q[i].val ELSE base[c]
      BY <3>1, ViewByLast
    <3>3. View(base, r, c) = IF Effective(base, r, c) THEN r[i].val ELSE base[c]
      BY <1>1, <2>1, <3>1, ViewByLast, ZenonT(30)
    <3>4. r[i] = q[i]
      BY <1>1, <3>1 DEF Pending
    <3> QED
      BY <1>4, <2>2, <3>2, <3>3, <3>4 DEF r
  <2> QED
    BY <2>3, <2>4
<1> QED
  BY <1>3, <1>4

LEMMA DurableWorkerWrite ==
    ASSUME TypeOK, WorkerWrite, NEW c \in Cells
    PROVE  DurableView(c)' =
               IF c = Head(worker).cell
                  /\ (Effective(server, queue, c) \/ Head(worker).op = "set")
               THEN Head(worker).val ELSE DurableView(c)
<1>1. queue \in Seq(Mutations) /\ Head(worker) \in Mutations
  BY WorkerWriteEffect DEF TypeOK
<1>2. DurableView(c)' = View(server, Append(queue, Head(worker)), c)
  BY DEF DurableView, WorkerWrite
<1> QED
  BY <1>1, <1>2, ViewAppend DEF DurableView

\* A commit changes a document to which the mutation was applied in every view.
LEMMA DurableServerCommit ==
    ASSUME TypeOK, ServerCommit, NEW c \in Cells
    PROVE  DurableView(c)' = DurableView(c)
<1> DEFINE k == committed + 1
           m == queue[k]
<1>1. /\ queue \in Seq(Mutations) /\ queue' = queue /\ k \in DOMAIN queue
      /\ m \in Mutations /\ Applies(m, server)
      /\ server'[c] = IF c = m.cell THEN m.val ELSE server[c]
  <2>1. k \in DOMAIN queue
    BY ServerCommitEffect, LenProperties DEF TypeOK
  <2>2. m \in Mutations /\ server'[c] = IF c = m.cell THEN m.val ELSE server[c]
    BY ServerCommitEffect DEF TypeOK
  <2> QED
    BY <2>1, <2>2 DEF TypeOK, ServerCommit, disk
<1>2. DurableView(c)' = View(server', queue, c)
  BY <1>1 DEF DurableView
<1>3. CASE c # m.cell
  BY <1>1, <1>2, <1>3 DEF DurableView, View, Effective
<1>4. CASE c = m.cell
  <2>1. k \in Pending(queue, c)
    BY <1>1, <1>4 DEF Pending
  <2>2. Effective(server, queue, c)
    BY <1>1, <1>4, <2>1 DEF Effective, Applies
  <2>3. Effective(server', queue, c)
    BY <1>1, <1>4 DEF Effective, Mutations
  <2> QED
    BY <1>2, <2>1, <2>2, <2>3 DEF DurableView, View
<1> QED
  BY <1>3, <1>4

\* The queue without its front: later mutations keep their order.
LEMMA PendingTail ==
    ASSUME TypeOK, queue # <<>>, queue' = Tail(queue), NEW c
    PROVE  /\ \A i \in Pending(queue', c) : i + 1 \in Pending(queue, c)
           /\ \A i \in Pending(queue, c) : i = 1 \/ i - 1 \in Pending(queue', c)
<1> DEFINE n == Len(queue)
<1>1. /\ n \in Nat /\ DOMAIN queue = 1 .. n /\ DOMAIN queue' = 1 .. n - 1
      /\ \A i \in 1 .. n - 1 : queue'[i] = queue[i + 1]
  <2>1. DOMAIN queue = 1 .. n /\ DOMAIN queue' = 1 .. n - 1
    BY QueueTail, LenProperties DEF TypeOK
  <2> QED
    BY <2>1, QueueTail
<1>2. ASSUME NEW i \in Pending(queue', c) PROVE i + 1 \in Pending(queue, c)
  BY <1>1, <1>2 DEF Pending
<1>3. ASSUME NEW i \in Pending(queue, c), i # 1 PROVE i - 1 \in Pending(queue', c)
  <2>1. i \in 1 .. n /\ queue[i].cell = c
    BY <1>1, <1>3 DEF Pending
  <2>2. i - 1 \in 1 .. n - 1 /\ (i - 1) + 1 = i
    BY <1>1, <1>3, <2>1
  <2> QED
    BY <1>1, <2>1, <2>2 DEF Pending
<1> QED
  BY <1>2, <1>3

\* If a later mutation of the cell is in effect before and after the front is
\* dropped, the view stays.
LEMMA ViewTail ==
    ASSUME TypeOK, queue # <<>>, queue' = Tail(queue), NEW c \in Cells,
           Pending(queue', c) # {},
           Effective(server, queue', c) <=> Effective(server, queue, c)
    PROVE  View(server, queue', c) = View(server, queue, c)
<1>1. queue \in Seq(Mutations) /\ queue' \in Seq(Mutations)
  BY QueueTail DEF TypeOK
<1>2. PICK i \in Pending(queue', c) : \A j \in Pending(queue', c) : j <= i
  BY <1>1, LastExists
<1>3. i \in 1 .. Len(queue) - 1 /\ Len(queue) \in Nat
  BY <1>1, QueueTail, LenProperties DEF Pending
<1>4. i + 1 \in Pending(queue, c) /\ queue'[i] = queue[i + 1]
  BY <1>3, PendingTail, QueueTail
<1>5. \A j \in Pending(queue, c) : j <= i + 1
  <2> TAKE j \in Pending(queue, c)
  <2>1. j \in Nat
    BY <1>1, LenProperties DEF Pending
  <2>2. j = 1 \/ j - 1 <= i
    BY <1>2, PendingTail
  <2> QED
    BY <1>3, <2>1, <2>2
<1>6. View(server, queue', c) = IF Effective(server, queue', c) THEN queue'[i].val ELSE server[c]
  BY <1>1, <1>2, ViewByLast
<1>7. View(server, queue, c) = IF Effective(server, queue, c) THEN queue[i + 1].val ELSE server[c]
  BY <1>1, <1>4, <1>5, ViewByLast
<1> QED
  BY <1>4, <1>6, <1>7
\* An answered mutation is on the server: the last one of its cell in the document,
\* an earlier one behind a later one.
LEMMA DurableAcknowledge ==
    ASSUME TypeOK, SyncInv, Acknowledge, NEW c \in Cells
    PROVE  DurableView(c)' = DurableView(c)
<1>1. /\ queue # <<>> /\ queue' = Tail(queue) /\ server' = server
      /\ committed \in 1 .. Len(queue) /\ Len(queue) \in Nat
      /\ 1 \in DOMAIN queue /\ queue \in Seq(Mutations)
  <2>1. queue # <<>>
    BY CommittedQueue DEF Acknowledge
  <2>2. Len(queue) \in Nat \ {0} /\ DOMAIN queue = 1 .. Len(queue)
    BY <2>1, QueueTail, LenProperties DEF TypeOK
  <2> QED
    BY <2>1, <2>2 DEF Acknowledge, TypeOK
<1>2. DurableView(c)' = View(server, queue', c)
  BY <1>1 DEF DurableView
<1>3. 1 \in 1 .. committed /\ server[queue[1].cell] \in Vals
  BY <1>1 DEF SyncInv, CommitsAreStored
<1>4. Effective(server, queue', c) <=> Effective(server, queue, c)
  <2>1. CASE c = queue[1].cell
    BY <1>3, <2>1 DEF Effective
  <2>2. CASE c # queue[1].cell
    <3>1. ASSUME NEW i \in Pending(queue', c), queue'[i].op = "set"
          PROVE  \E j \in Pending(queue, c) : queue[j].op = "set"
      <4>1. i + 1 \in Pending(queue, c)
        BY <1>1, PendingTail
      <4>2. queue'[i] = queue[i + 1]
        <5>1. queue' \in Seq(Mutations) /\ i \in 1 .. Len(queue) - 1
          BY <1>1, QueueTail, LenProperties DEF Pending
        <5> QED
          BY <1>1, <5>1, QueueTail
      <4> QED
        BY <3>1, <4>1, <4>2
    <3>2. ASSUME NEW i \in Pending(queue, c), queue[i].op = "set"
          PROVE  \E j \in Pending(queue', c) : queue'[j].op = "set"
      <4>1. i # 1 /\ i \in 1 .. Len(queue)
        BY <1>1, <2>2, LenProperties DEF Pending
      <4>2. i - 1 \in Pending(queue', c) /\ i - 1 \in 1 .. Len(queue) - 1 /\ (i - 1) + 1 = i
        BY <1>1, <4>1, PendingTail
      <4>3. queue'[i - 1] = queue[i]
        BY <1>1, <4>2, QueueTail
      <4> QED
        BY <3>2, <4>2, <4>3
    <3> QED
      BY <3>1, <3>2 DEF Effective
  <2> QED
    BY <2>1, <2>2
<1>5. CASE Pending(queue', c) # {}
  BY <1>1, <1>2, <1>4, <1>5, ViewTail DEF DurableView
<1>6. CASE Pending(queue', c) = {}
  <2>1. DurableView(c)' = server[c]
    BY <1>2, <1>6 DEF View
  <2>2. \A i \in Pending(queue, c) : i = 1
    BY <1>1, <1>6, PendingTail
  <2>3. CASE Pending(queue, c) = {}
    BY <2>1, <2>3 DEF DurableView, View
  <2>4. CASE 1 \in Pending(queue, c)
    <3>1. queue[1].cell = c
      BY <2>4 DEF Pending
    <3>2. \A j \in 2 .. committed : queue[j].cell # c
      <4> TAKE j \in 2 .. committed
      <4>1. j \in DOMAIN queue /\ j # 1
        BY <1>1, LenProperties
      <4> QED
        BY <2>2, <4>1 DEF Pending
    <3>3. server[c] = queue[1].val
      BY <1>3, <3>1, <3>2 DEF SyncInv, CommitsAreStored
    <3>4. DurableView(c) = IF Effective(server, queue, c) THEN queue[1].val ELSE server[c]
      <4>1. \A j \in Pending(queue, c) : j <= 1
        BY <2>2
      <4> QED
        BY <1>1, <2>4, <4>1, ViewByLast DEF DurableView
    <3> QED
      BY <2>1, <3>3, <3>4
  <2> QED
    BY <2>2, <2>3, <2>4
<1> QED
  BY <1>5, <1>6

\* A refused mutation had no effect in the view, and the mutations behind it have
\* the effect they had.
LEMMA DurableReject ==
    ASSUME TypeOK, Reject, NEW c \in Cells
    PROVE  DurableView(c)' = DurableView(c)
<1>1. /\ queue # <<>> /\ queue' = Tail(queue) /\ server' = server
      /\ queue[1].op # "set" /\ server[queue[1].cell] \notin Vals
      /\ queue \in Seq(Mutations) /\ queue' \in Seq(Mutations)
      /\ DOMAIN queue = 1 .. Len(queue) /\ DOMAIN queue' = 1 .. Len(queue) - 1
      /\ Len(queue) \in Nat
      /\ \A i \in 1 .. Len(queue) - 1 : queue'[i] = queue[i + 1]
  <2>1. queue # <<>> /\ queue' = Tail(queue)
    BY DEF Reject
  <2>2. DOMAIN queue = 1 .. Len(queue) /\ DOMAIN queue' = 1 .. Len(queue) - 1
    BY <2>1, QueueTail, LenProperties DEF TypeOK
  <2> QED
    BY <2>1, <2>2, QueueTail DEF Reject, Applies, TypeOK
<1>2. DurableView(c)' = View(server, queue', c)
  BY <1>1 DEF DurableView
<1>3. Effective(server, queue', c) <=> Effective(server, queue, c)
  <2>1. ASSUME NEW i \in Pending(queue', c), queue'[i].op = "set"
        PROVE  \E j \in Pending(queue, c) : queue[j].op = "set"
    <3>1. i + 1 \in Pending(queue, c)
      BY <1>1, PendingTail
    <3>2. queue'[i] = queue[i + 1]
      BY <1>1 DEF Pending
    <3> QED
      BY <2>1, <3>1, <3>2
  <2>2. ASSUME NEW i \in Pending(queue, c), queue[i].op = "set"
        PROVE  \E j \in Pending(queue', c) : queue'[j].op = "set"
    <3>1. i # 1 /\ i \in 1 .. Len(queue)
      BY <1>1, <2>2 DEF Pending
    <3>2. i - 1 \in Pending(queue', c) /\ i - 1 \in 1 .. Len(queue) - 1 /\ (i - 1) + 1 = i
      BY <1>1, <3>1, PendingTail
    <3> QED
      BY <1>1, <2>2, <3>2
  <2> QED
    BY <2>1, <2>2 DEF Effective
<1>4. CASE Pending(queue', c) # {}
  BY <1>1, <1>2, <1>3, <1>4, ViewTail DEF DurableView
<1>5. CASE Pending(queue', c) = {}
  <2>1. DurableView(c)' = server[c]
    BY <1>2, <1>5 DEF View
  <2>2. \A i \in Pending(queue, c) : i = 1
    BY <1>1, <1>5, PendingTail
  <2>3. Pending(queue, c) = {} \/ ~Effective(server, queue, c)
    BY <1>1, <2>2 DEF Effective, Pending
  <2> QED
    BY <2>1, <2>3 DEF DurableView, View
<1> QED
  BY <1>4, <1>5

\* Nothing the network does changes what lasts.
LEMMA DurableNetwork ==
    ASSUME TypeOK, SyncInv, NetworkStep, NEW c \in Cells
    PROVE  DurableView(c)' = DurableView(c)
<1>1. CASE ServerCommit
  BY <1>1, DurableServerCommit
<1>2. CASE Acknowledge
  BY <1>2, DurableAcknowledge
<1>3. CASE Reject
  BY <1>3, DurableReject
<1>4. CASE \/ WriteStreamBreak \/ RestartNetwork \/ WatchMessage \/ WatchIdle
           \/ WatchFailure \/ OnlineTimeout \/ \E d \in Cells : WatchSync(d)
  <2>1. UNCHANGED <<server, queue>>
    BY <1>4 DEF WriteStreamBreak, RestartNetwork, WatchMessage, WatchIdle, WatchFailure,
                OnlineTimeout, BecomeOffline, WatchSync, disk
  <2> QED
    BY <2>1 DEF DurableView
<1> QED
  BY <1>1, <1>2, <1>3, <1>4 DEF NetworkStep

\* A document is there, as far as the application is concerned, exactly if the
\* mutations of its cell are in effect.
LEMMA PresentIfEffective ==
    ASSUME NEW base \in [Cells -> Results], NEW q \in Seq(Mutations), NEW c \in Cells
    PROVE  Effective(base, q, c) <=> View(base, q, c) \in Vals
<1>2. CASE Pending(q, c) = {}
  BY <1>2 DEF View, Effective
<1>3. CASE Pending(q, c) # {}
  <2>1. PICK i \in Pending(q, c) : \A j \in Pending(q, c) : j <= i
    BY <1>3, LastExists
  <2>2. View(base, q, c) = IF Effective(base, q, c) THEN q[i].val ELSE base[c]
    BY <2>1, ViewByLast
  <2>3. q[i].val \in Vals
    <3>1. i \in 1 .. Len(q)
      BY LenProperties DEF Pending
    <3>2. q[i] \in Mutations
      BY <3>1, ElementOfSeq
    <3> QED
      BY <3>2 DEF Mutations
  <2> QED
    BY <2>2, <2>3 DEF Effective
<1> QED
  BY <1>2, <1>3

LEMMA EffectiveIsPresent ==
    ASSUME TypeOK, NEW c \in Cells
    PROVE  Effective(server, queue, c) <=> DurableView(c) \in Vals
<1>1. server \in [Cells -> Results] /\ queue \in Seq(Mutations)
  BY DEF TypeOK, Results
<1> QED
  BY <1>1, PresentIfEffective DEF DurableView

\* The worker takes up the call in front, with the effect the store promises.
LEMMA DurableWorker ==
    ASSUME TypeOK, WorkerStep
    PROVE  Durable!Take
<1> DEFINE m == Head(worker)
<1>1. CASE WorkerGet
  <2>1. m.op = "get" /\ worker # <<>> /\ worker' = Tail(worker) /\ UNCHANGED <<server, queue>>
    BY <1>1 DEF WorkerGet, disk
  <2>2. durable' = durable
    BY <2>1 DEF durable, DurableView
  <2>3. ~Durable!Writes(m)
    BY <2>1 DEF Durable!Writes
  <2> QED
    BY <2>1, <2>2, <2>3 DEF Durable!Take
<1>2. CASE WorkerWrite
  <2>1. m.op \in {"set", "update"} /\ m.cell \in Cells /\ m.val \in Vals
    BY <1>2, WorkerWriteEffect DEF Mutations
  <2>2. Durable!Writes(m) <=> Effective(server, queue, m.cell) \/ m.op = "set"
    BY <2>1, EffectiveIsPresent DEF Durable!Writes, durable
  <2>3. \A c \in Cells : DurableView(c)' =
            IF c = m.cell /\ Durable!Writes(m) THEN m.val ELSE DurableView(c)
    BY <1>2, <2>2, DurableWorkerWrite
  <2>4. durable' = IF Durable!Writes(m) THEN [durable EXCEPT ![m.cell] = m.val] ELSE durable
    <3>1. CASE Durable!Writes(m)
      <4>1. \A c \in Cells : DurableView(c)' = IF c = m.cell THEN m.val ELSE DurableView(c)
        BY <2>3, <3>1
      <4>2. durable' = [durable EXCEPT ![m.cell] = m.val]
        BY <2>1, <4>1 DEF durable
      <4> QED
        BY <3>1, <4>2
    <3>2. CASE ~Durable!Writes(m)
      <4>1. \A c \in Cells : DurableView(c)' = DurableView(c)
        BY <2>3, <3>2
      <4>2. durable' = durable
        BY <4>1 DEF durable
      <4> QED
        BY <3>2, <4>2
    <3> QED
      BY <3>1, <3>2
  <2> QED
    BY <1>2, <2>4 DEF WorkerWrite, Durable!Take
<1> QED
  BY <1>1, <1>2 DEF WorkerStep

LEMMA NetworkLeavesCalls ==
    ASSUME NetworkStep
    PROVE  UNCHANGED <<worker, up>>
<1>1. CASE ServerCommit \/ Acknowledge \/ Reject \/ WriteStreamBreak
  BY <1>1 DEF ServerCommit, Acknowledge, Reject, WriteStreamBreak, session
<1>2. CASE \E c \in Cells : WatchSync(c)
  BY <1>2 DEF WatchSync
<1>3. CASE WatchMessage \/ WatchIdle \/ WatchFailure \/ OnlineTimeout \/ RestartNetwork
  BY <1>3 DEF WatchMessage, WatchIdle, WatchFailure, OnlineTimeout, RestartNetwork, BecomeOffline
<1> QED
  BY <1>1, <1>2, <1>3 DEF NetworkStep

\* The calls of a callback come behind those that wait.
LEMMA CallsAreBehind ==
    ASSUME TypeOK, NEW reqs \in Seq(Mutations \cup GetReqs), worker' = worker \o reqs
    PROVE  /\ worker' \in Seq(Mutations \cup GetReqs)
           /\ Len(worker) <= Len(worker')
           /\ SubSeq(worker, 1, Len(worker)) = SubSeq(worker', 1, Len(worker))
<1>1. /\ worker' \in Seq(Mutations \cup GetReqs)
      /\ Len(worker) \in Nat /\ Len(reqs) \in Nat /\ Len(worker') = Len(worker) + Len(reqs)
  BY ConcatProperties, LenProperties DEF TypeOK
<1>2. CASE Len(worker) = 0
  BY <1>1, <1>2, SubSeqEmpty
<1>3. CASE Len(worker) # 0
  <2>1. 1 \in 1 .. Len(worker) /\ Len(worker) \in 1 .. Len(worker)
    BY <1>1, <1>3
  <2>2. SubSeq(worker', 1, Len(worker)) = SubSeq(worker, 1, Len(worker))
    BY <2>1, SubSeqOfConcat1 DEF TypeOK
  <2> QED
    BY <1>1, <2>2
<1> QED
  BY <1>2, <1>3

LEMMA DurableIssue ==
    ASSUME TypeOK, NEW reqs \in Seq(Mutations \cup GetReqs), Enqueue(reqs),
           UNCHANGED <<server, queue>>
    PROVE  Durable!Next
<1>1. UNCHANGED durable
  BY DEF durable, DurableView
<1>2. Durable!IsPrefix(worker, worker') /\ worker' \in Seq(Mutations \cup GetReqs)
  BY CallsAreBehind DEF Durable!IsPrefix, Enqueue
<1> QED
  BY <1>1, <1>2 DEF Durable!Next, Durable!Issue

\* Every step makes a call, takes one up or forgets the calls: no other step changes
\* what lasts.
LEMMA DurableNext ==
    TypeOK /\ SyncInv /\ [Next]_vars => [Durable!Next]_<<durable, worker>>
<1> SUFFICES ASSUME TypeOK, SyncInv, [Next]_vars
             PROVE  [Durable!Next]_<<durable, worker>>
  OBVIOUS
<1>1. ASSUME UNCHANGED <<server, queue>> PROVE UNCHANGED durable
  BY <1>1 DEF durable, DurableView
<1>2. ASSUME NEW req \in Mutations \cup GetReqs, Enqueue(<<req>>), UNCHANGED <<server, queue>>
      PROVE  Durable!Next
  BY <1>2, RequestType, DurableIssue
<1>3. ASSUME NEW req \in Mutations, CallWrite(req) PROVE Durable!Next
  BY <1>2, <1>3 DEF CallWrite, disk
<1>4. ASSUME NEW c \in Fetched, CallGet(c) PROVE Durable!Next
  BY <1>2, <1>4, CallTypes, SyncAssumption DEF CallGet, disk
<1>5. CASE WorkerStep
  BY <1>5, DurableWorker DEF Durable!Next
<1>6. CASE NetworkStep
  <2>1. UNCHANGED durable
    BY <1>6, DurableNetwork DEF durable
  <2> QED
    BY <1>6, <2>1, NetworkLeavesCalls
<1>7. CASE Kill
  BY <1>1, <1>7 DEF Kill, Exit, disk, Durable!Next, Durable!Forget
<1>8. CASE Start(<<>>)
  <2>1. worker' = worker
    BY <1>8, ConcatEmptySeq DEF TypeOK, Start, Enqueue
  <2> QED
    BY <1>1, <1>8, <2>1 DEF Start, disk
<1>9. CASE TakeGot \/ UNCHANGED vars
  BY <1>1, <1>9 DEF TakeGot, vars, disk
<1> QED
  BY <1>3, <1>4, <1>5, <1>6, <1>7, <1>8, <1>9, CallTypes DEF Next

LEMMA DurableInit == Init => Durable!Init
<1> SUFFICES ASSUME Init PROVE durable = Seed /\ worker = <<>>
  BY DEF Durable!Init
<1>1. \A c \in Cells : DurableView(c) = Seed[c]
  <2> TAKE c \in Cells
  <2>1. queue = <<>> /\ server = Seed
    BY DEF Init
  <2>2. Pending(queue, c) = {}
    BY <2>1 DEF Pending
  <2> QED
    BY <2>1, <2>2 DEF DurableView, View
<1> QED
  BY <1>1, SyncAssumption DEF Init, durable

\* Client and server together are the durable store: no lost answer, refusal,
\* failure, retransmission or restart changes a cell, and each call that the worker
\* takes up has its effect once.
THEOREM DurableRefinement == Spec => ImplementsDurableStore
<1>1. Init => Durable!Init
  BY DurableInit
<1>2. TypeOK /\ SyncInv /\ [Next]_vars => [Durable!Next]_<<durable, worker>>
  BY DurableNext
<1> QED
  BY <1>1, <1>2, TypeCorrect, StreamsAreSound, PTL
  DEF Spec, ImplementsDurableStore, Durable!Spec
=============================================================================
