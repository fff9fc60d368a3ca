--------------------------- MODULE FirestoreSync ----------------------------
(***************************************************************************)
(* The document store of the application: the vendored Firestore client    *)
(* (Pods/FirebaseFirestore), as far as the calls of the application reach  *)
(* it, and the server behind it.                                           *)
(*                                                                         *)
(* A call returns at once and leaves a request on the worker queue of the  *)
(* client; the worker makes a write durable in the mutation queue; the     *)
(* write stream sends the mutations in order, drops the one in front when  *)
(* the server answers it, and starts over after a failure; the watch       *)
(* stream refreshes the cache.  What the application reads is the cache    *)
(* with the mutations that are still queued on top.                        *)
(*                                                                         *)
(* A cell is a field of a document.  The mutation queue is a sequence:     *)
(* batch ids serve only to order the mutations.                            *)
(***************************************************************************)
EXTENDS Naturals, FiniteSets, Sequences, SequencesExt

CONSTANTS Cells,       \* the fields that the application reads or writes
          Vals,        \* their values
          Missing,     \* the value of a field of a document that does not exist
          Unknown,     \* nothing is cached of the document; also a get that failed
          Seed,        \* what the server holds at the start
          Listened,    \* the cells under a snapshot listener while the app runs
          Fetched,     \* the cells read by getDocument
          OtherTasks,  \* tasks of the main queue that are not Firestore's
          MaxPending   \* bound: requests and mutations outstanding at a call

ASSUME SyncAssumption ==
    /\ IsFiniteSet(Cells)
    /\ Missing \notin Vals /\ Unknown \notin Vals /\ Missing # Unknown
    /\ Seed \in [Cells -> Vals \cup {Missing}]
    /\ Listened \subseteq Cells /\ Fetched \subseteq Cells
    /\ OtherTasks \cap [task : {"got"}, cell : Cells, val : Vals \cup {Missing, Unknown}] = {}
    /\ MaxPending \in Nat

VARIABLES server,     \* the documents on the server
          cache,      \* remote document cache of the client, on disk
          queue,      \* mutation queue of the client, on disk
          committed,  \* so many mutations in front the server has applied already
          seen,       \* so many of them the cached value of a cell reflects
          worker,     \* requests on the worker queue, oldest first
          gets,       \* cells read by getDocument, not answered yet
          online,     \* OnlineState of the client
          mainQueue,  \* the main dispatch queue
          up          \* the process runs

disk    == <<cache, queue>>
stream  == <<committed, seen>>
session == <<worker, gets, online, mainQueue, up>>
vars    == <<server, cache, queue, committed, seen, worker, gets, online, mainQueue, up>>

Results   == Vals \cup {Missing, Unknown}
Mutations == [op : {"set", "update"}, cell : Cells, val : Vals]
GetReqs   == [op : {"get"}, cell : Cells]
GotTasks  == [task : {"got"}, cell : Cells, val : Results]

\* The calls of the application, as requests to the worker.
SetData(c, v)    == [op |-> "set", cell |-> c, val |-> v]
UpdateData(c, v) == [op |-> "update", cell |-> c, val |-> v]
GetDocument(c)   == [op |-> "get", cell |-> c]

-----------------------------------------------------------------------------
(* Mutations over documents *)

\* setData has no precondition, updateData needs the document to exist.
Applies(m, base) == m.op = "set" \/ base[m.cell] \in Vals

ApplyTo(m, base) == IF Applies(m, base) THEN [base EXCEPT ![m.cell] = m.val] ELSE base

\* The mutations of q on cell c that have an effect when q is applied to base:
\* all of them if the document exists, else those that follow a setData.
Pending(q, c) == {i \in DOMAIN q : q[i].cell = c}

Effective(base, q, c) ==
    base[c] \in Vals \/ \E i \in Pending(q, c) : q[i].op = "set"

\* The value of cell c once the mutations of q are applied, one by one, to base (the
\* closed form of that fold: lemma ReplayIsView of ReplayProofs).
View(base, q, c) ==
    IF Pending(q, c) # {} /\ Effective(base, q, c)
    THEN q[Max(Pending(q, c))].val
    ELSE base[c]

\* What the application is shown, and what remains if the process dies now.
LocalView(c)   == View(cache, queue, c)
DurableView(c) == View(server, queue, c)

durable == [c \in Cells |-> DurableView(c)]

\* What listeners are shown; documents not cached and those known to be missing alike.
shown == [c \in Cells |-> IF LocalView(c) \in Vals THEN LocalView(c) ELSE Unknown]

\* The outcome of a get: Unknown stands for the error "the client is offline".
GetResult(v, synced) == IF v \in Vals THEN v ELSE IF synced THEN Missing ELSE Unknown

Got(c, v) == [task |-> "got", cell |-> c, val |-> v]

-----------------------------------------------------------------------------
Init ==
    /\ server = Seed
    /\ cache = [c \in Cells |-> Unknown]
    /\ queue = <<>>
    /\ committed = 0
    /\ seen = [c \in Cells |-> 0]
    /\ worker = <<>>
    /\ gets = {}
    /\ online = "Unknown"
    /\ mainQueue = <<>>
    /\ up = FALSE

(* Calls of the application (on its main thread) *)

\* The application hands requests to the worker queue; nothing is on disk yet.
Enqueue(reqs) == worker' = worker \o reqs

InFlight(c) ==
    \/ c \in gets
    \/ \E i \in DOMAIN worker : worker[i] = GetDocument(c)
    \/ \E i \in DOMAIN mainQueue : mainQueue[i] \in GotTasks /\ mainQueue[i].cell = c

CallWrite(req) ==
    /\ up /\ Len(worker) + Len(queue) < MaxPending
    /\ Enqueue(<<req>>)
    /\ UNCHANGED <<server, disk, stream, gets, online, mainQueue, up>>

CallGet(c) ==
    /\ up /\ Len(worker) + Len(queue) < MaxPending
    /\ ~InFlight(c)
    /\ Enqueue(<<GetDocument(c)>>)
    /\ UNCHANGED <<server, disk, stream, gets, online, mainQueue, up>>

\* The main thread takes up the answer to a get.
TakeGot ==
    /\ mainQueue # <<>> /\ Head(mainQueue) \in GotTasks
    /\ mainQueue' = Tail(mainQueue)
    /\ UNCHANGED <<server, disk, stream, worker, gets, online, up>>

(* The worker queue *)

\* One request: the mutation enters the queue on disk in one transaction.
WorkerWrite ==
    /\ worker # <<>> /\ Head(worker).op # "get"
    /\ queue' = Append(queue, Head(worker))
    /\ worker' = Tail(worker)
    /\ UNCHANGED <<server, cache, stream, gets, online, mainQueue, up>>

\* A get listens and waits for the server, unless the client knows it is offline.
WorkerGet ==
    /\ worker # <<>> /\ Head(worker).op = "get"
    /\ LET c == Head(worker).cell
       IN IF online = "Offline"
          THEN /\ mainQueue' = Append(mainQueue, Got(c, GetResult(LocalView(c), FALSE)))
               /\ UNCHANGED gets
          ELSE /\ gets' = gets \cup {c}
               /\ UNCHANGED mainQueue
    /\ worker' = Tail(worker)
    /\ UNCHANGED <<server, disk, stream, online, up>>

(* The write stream *)

\* The server applies the next mutation of the pipeline.  It stops at one whose
\* precondition fails.
ServerCommit ==
    /\ up /\ committed < Len(queue)
    /\ Applies(queue[committed + 1], server)
    /\ server' = ApplyTo(queue[committed + 1], server)
    /\ committed' = committed + 1
    /\ UNCHANGED <<disk, seen, session>>

\* Mutants: the answer leaves the cache as it is; it overwrites what a newer snapshot
\* brought; it forgets that what the snapshots cover moved up.
AcknowledgeStale ==
    /\ up /\ committed > 0
    /\ queue' = Tail(queue)
    /\ committed' = committed - 1
    /\ seen' = [c \in Cells |-> IF seen[c] > 0 THEN seen[c] - 1 ELSE 0]
    /\ UNCHANGED <<server, cache, session>>

AcknowledgeOverwrites ==
    /\ up /\ committed > 0
    /\ cache' = [cache EXCEPT ![Head(queue).cell] = Head(queue).val]
    /\ queue' = Tail(queue)
    /\ committed' = committed - 1
    /\ seen' = [c \in Cells |-> IF seen[c] > 0 THEN seen[c] - 1 ELSE 0]
    /\ UNCHANGED <<server, session>>

AcknowledgeKeepsSeen ==
    /\ up /\ committed > 0
    /\ cache' = ApplyTo(Head(queue), cache)
    /\ queue' = Tail(queue)
    /\ committed' = committed - 1
    /\ UNCHANGED <<server, seen, session>>

\* The server's answer to the mutation in front arrives.  The cached document is
\* brought up to date with it, unless the watch stream has done so already.
Acknowledge ==
    /\ up /\ committed > 0
    /\ LET m == Head(queue)
       IN cache' = IF seen[m.cell] > 0 THEN cache
                   ELSE [cache EXCEPT ![m.cell] = IF Applies(m, cache) THEN m.val ELSE Unknown]
    /\ queue' = Tail(queue)
    /\ committed' = committed - 1
    /\ seen' = [c \in Cells |-> IF seen[c] > 0 THEN seen[c] - 1 ELSE 0]
    /\ UNCHANGED <<server, session>>

\* Mutants: a refusal is taken for a failure of the stream, and the mutation sent
\* again; the whole pipeline is dropped with it; any error is taken for a refusal.
RejectRetries ==
    /\ up /\ queue # <<>> /\ committed = 0
    /\ ~Applies(Head(queue), server)
    /\ UNCHANGED vars

RejectDropsAll ==
    /\ up /\ queue # <<>> /\ committed = 0
    /\ ~Applies(Head(queue), server)
    /\ queue' = <<>>
    /\ UNCHANGED <<server, cache, stream, session>>

RejectAnyError ==
    /\ up /\ queue # <<>> /\ committed = 0
    /\ queue' = Tail(queue)
    /\ UNCHANGED <<server, cache, stream, session>>

\* The server refuses the mutation in front for good, as its precondition fails: it is
\* dropped, the rest stays.
Reject ==
    /\ up /\ queue # <<>> /\ committed = 0
    /\ ~Applies(Head(queue), server)
    /\ queue' = Tail(queue)
    /\ UNCHANGED <<server, cache, stream, session>>

\* The stream fails: answers on their way are lost and the next stream sends
\* every mutation of the pipeline again.
Resend == committed' = 0 /\ seen' = [c \in Cells |-> 0]

WriteStreamBreak ==
    /\ up /\ committed > 0
    /\ Resend
    /\ UNCHANGED <<server, disk, session>>

(* The watch stream *)

\* Mutant: a get is answered with the snapshot alone, without what is still queued.
WatchSyncRaw(c) ==
    /\ up /\ online = "Online" /\ c \in gets \cup Listened
    /\ cache' = [cache EXCEPT ![c] = server[c]]
    /\ seen' = [seen EXCEPT ![c] = committed]
    /\ gets' = gets \ {c}
    /\ mainQueue' = IF c \in gets
                    THEN Append(mainQueue, Got(c, GetResult(server[c], TRUE)))
                    ELSE mainQueue
    /\ UNCHANGED <<server, queue, committed, worker, online, up>>

\* The current snapshot of a target that is listened to.  It answers a pending get.
WatchSync(c) ==
    /\ up /\ online = "Online" /\ c \in gets \cup Listened
    /\ cache' = [cache EXCEPT ![c] = server[c]]
    /\ seen' = [seen EXCEPT ![c] = committed]
    /\ gets' = gets \ {c}
    /\ mainQueue' = IF c \in gets
                    THEN Append(mainQueue, Got(c, GetResult(View(cache', queue, c), TRUE)))
                    ELSE mainQueue
    /\ UNCHANGED <<server, queue, committed, worker, online, up>>

\* There is something to listen to.  Otherwise the stream is not started, though one
\* that is open already may still speak after the client has taken itself for offline.
Watching == gets \cup Listened # {}

\* Any message of the stream tells that the server is there.
WatchMessage ==
    /\ up /\ online # "Online"
    /\ Watching \/ online = "Offline"
    /\ online' = "Online"
    /\ UNCHANGED <<server, disk, stream, worker, gets, mainQueue, up>>

\* Mutants: a get answered from the cache goes on listening, and is answered again;
\* pending gets wait for a connection.
BecomeOfflineKeepsListening ==
    /\ online' = "Offline"
    /\ UNCHANGED gets
    /\ \E order \in SetToSeqs(gets) :
          mainQueue' = mainQueue \o
              [i \in DOMAIN order |-> Got(order[i], GetResult(LocalView(order[i]), FALSE))]
    /\ UNCHANGED <<server, disk, stream, worker, up>>

BecomeOfflineSilently ==
    /\ online' = "Offline"
    /\ UNCHANGED <<server, disk, stream, worker, gets, mainQueue, up>>

\* Offline: every pending get is answered from the cache, in some order.
BecomeOffline ==
    /\ online' = "Offline"
    /\ gets' = {}
    /\ \E order \in SetToSeqs(gets) :
          mainQueue' = mainQueue \o
              [i \in DOMAIN order |-> Got(order[i], GetResult(LocalView(order[i]), FALSE))]
    /\ UNCHANGED <<server, disk, stream, worker, up>>

\* The first failure only makes the client doubt, the next one decides.
WatchFailure ==
    /\ up /\ Watching
    /\ \/ /\ online = "Online"
          /\ online' = "Unknown"
          /\ UNCHANGED <<server, disk, stream, worker, gets, mainQueue, up>>
       \/ /\ online = "Unknown"
          /\ BecomeOffline

\* Ten seconds without an answer decide as well.
OnlineTimeout ==
    /\ up /\ Watching /\ online = "Unknown"
    /\ BecomeOffline

\* With nothing to listen to the stream ends, and with it what it knew.
WatchIdle ==
    /\ up /\ ~Watching /\ online # "Unknown"
    /\ online' = "Unknown"
    /\ UNCHANGED <<server, disk, stream, worker, gets, mainQueue, up>>

\* Connectivity changed: both streams are torn down and started again.
RestartNetwork ==
    /\ up
    /\ online' = "Unknown"
    /\ Resend
    /\ UNCHANGED <<server, disk, worker, gets, mainQueue, up>>

(* The process *)

\* The process ends, by the user, the system or a crash: the disk remains.
Exit ==
    /\ up' = FALSE
    /\ worker' = <<>>
    /\ gets' = {}
    /\ mainQueue' = <<>>
    /\ online' = "Unknown"
    /\ Resend
    /\ UNCHANGED <<server, disk>>

Kill == up /\ Exit

\* It starts again with the requests its first view issues.
Start(reqs) ==
    /\ ~up
    /\ up' = TRUE
    /\ Enqueue(reqs)
    /\ UNCHANGED <<server, disk, stream, gets, online, mainQueue>>

-----------------------------------------------------------------------------
\* The steps the client takes by itself, in any application.
WorkerStep == WorkerWrite \/ WorkerGet

NetworkStep ==
    \/ ServerCommit \/ Acknowledge \/ Reject \/ WriteStreamBreak
    \/ \E c \in Cells : WatchSync(c)
    \/ WatchMessage \/ WatchFailure \/ OnlineTimeout \/ WatchIdle \/ RestartNetwork

Next ==
    \/ \E c \in Cells, v \in Vals : CallWrite(SetData(c, v)) \/ CallWrite(UpdateData(c, v))
    \/ \E c \in Fetched : CallGet(c)
    \/ TakeGot
    \/ WorkerStep
    \/ NetworkStep
    \/ Kill
    \/ Start(<<>>)

\* The worker is served.  The timer of ten seconds fires: the network is not
\* restarted for ever within ten seconds of the last time.  Some session, and some
\* connection, lasts long enough for an answer of the server to arrive: the streams
\* reconnect, with a growing delay, for as long as there is something to ask.
ClientFairness ==
    /\ WF_vars(WorkerStep)
    /\ WF_vars(OnlineTimeout)
    /\ SF_vars(ServerCommit) /\ SF_vars(Acknowledge) /\ SF_vars(Reject)
    /\ \A c \in Fetched : SF_vars(WatchSync(c))

Spec     == Init /\ [][Next]_vars
FairSpec == Spec /\ ClientFairness /\ WF_vars(TakeGot) /\ WF_vars(Start(<<>>))

-----------------------------------------------------------------------------
(* Properties *)

TypeOK ==
    /\ server \in [Cells -> Vals \cup {Missing}]
    /\ cache \in [Cells -> Results]
    /\ queue \in Seq(Mutations)
    /\ committed \in 0 .. Len(queue)
    /\ seen \in [Cells -> 0 .. committed]
    /\ worker \in Seq(Mutations \cup GetReqs)
    /\ gets \subseteq Cells
    /\ online \in {"Unknown", "Online", "Offline"}
    /\ mainQueue \in Seq(GotTasks \cup OtherTasks)
    /\ up \in BOOLEAN

\* The bookkeeping of the two streams, which the properties below rest on.
\* What the server has applied of the queue is what it holds, the cache never runs
\* ahead of the server, a document that no mutation waits for is cached as the
\* server holds it, and so is one whose watch snapshot covers all its commits.
CommitsAreStored ==
    \A i \in 1 .. committed :
        /\ server[queue[i].cell] \in Vals
        /\ \/ server[queue[i].cell] = queue[i].val
           \/ \E j \in i + 1 .. committed : queue[j].cell = queue[i].cell

CacheFollowsServer == \A c \in Cells : cache[c] \in Vals => server[c] \in Vals

SettledIsCurrent ==
    \A c \in Cells :
        cache[c] \in Vals /\ (\A i \in DOMAIN queue : queue[i].cell # c) => cache[c] = server[c]

SeenIsCached ==
    \A c \in Cells :
        seen[c] > 0 /\ (\A i \in seen[c] + 1 .. committed : queue[i].cell # c)
            => cache[c] = server[c]

\* A mutation that the cached value of its cell reflects has left a document there.
SeenIsThere ==
    \A c \in Cells : \A i \in 1 .. seen[c] : queue[i].cell = c => cache[c] \in Vals

SyncInv == CommitsAreStored /\ CacheFollowsServer /\ SettledIsCurrent /\ SeenIsCached

\* The application never sees a value that will not last.  Whatever the cache
\* lags behind, with writes unanswered, sent twice or refused: the value shown of
\* a document is the one the server ends up with (one device writes).
LocalIsDurable ==
    \A c \in Cells : LocalView(c) \in Vals => LocalView(c) = DurableView(c)

\* Queue and server together are one register per cell that only the next call of
\* the application changes: no answer, refusal, failure, retransmission or restart
\* loses a write that reached the disk or brings an older one back.
Durable == INSTANCE DurableStore WITH
              Requests <- Mutations \cup GetReqs, store <- durable, calls <- worker

ImplementsDurableStore == Durable!Spec

\* A document under a listener does not flicker: whatever the streams do, at any
\* step of theirs a document the application is shown stays as it is, and its own
\* calls change it in their order, before, while and after the server answers them.
Shows == INSTANCE ShownDocuments WITH
            Requests <- Mutations \cup GetReqs, Absent <- Unknown,
            shown <- shown, calls <- worker

ShowsDocuments == Shows!Spec

\* A write that reached the disk reaches the server, or a later write of the cell
\* replaces it; a refused mutation does not hold up the ones behind it.
Publishes ==
    \A c \in Cells, v \in Vals :
        (DurableView(c) = v) ~> (server[c] = v \/ DurableView(c) # v)

\* A getDocument gets its answer unless the process dies first, online or not.
GetsAnswered == \A c \in Cells : (c \in gets) ~> (c \notin gets)
=============================================================================
