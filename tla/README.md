# ValentinesDay in TLA+

ValentinesDay is an iOS treasure hunt. A player scans QR codes in town; each code
unlocks a clue and draws a route on the map; solving the clues yields the words of a
pass key that opens the treasure page. All state that lasts is kept in Firestore, on
the device and on a server; the app itself is a handful of view controllers whose
callbacks run on the main queue, the global queue, the Firestore worker and the
network. One player on one device writes.

Paths below are relative to `src/ValentinesDay`; `core/src` stands for
`Pods/FirebaseFirestore/Firestore/core/src`.

## 1. Inventory

| Component | State | Operations | Correct when |
|---|---|---|---|
| Hunt core (`HomePage.swift`) | last scanned code, routes on the map, tasks in flight; in Firestore `last-path/Last.last-path` and `clues/*.Locked` | `giveQRCodeValue`, `getLastPath`, `loadGeoJson`, `drawPolyline`, `FoundAllMessage` | a scan's two writes keep their order and last; the restored route is the latest; the app can be launched again |
| Firestore client (`core/src`) and server | remote document cache and mutation queue on disk, worker queue, write and watch streams, online state; documents on the server | `setData`, `updateData`, `getDocument`, `addSnapshotListener`; the streams' callbacks | what is shown is what lasts; a write on disk is never lost, undone or held up; a get is answered |
| QR scanner (`QrCode.swift`) | capture session | `metadataOutput`, `found` | one scan, one call of the delegate |
| Pass key (`HomePage.CheckKeyPhrase`, `TreasurePage.swift`) | text field, timers, navigation stack | submit, answer of the get, timers | the treasure page is pushed once, for the right phrase |
| Introduction (`doneIntro`, `SwipeThroughPage`, `FirstPage`..`FourthPage`) | flag `doneintro.done`, presented pages | show, dismiss | not shown again once it was dismissed |
| Clue menu (`MenuView.swift`) | array `clues`, cells of the table, reloads under way | snapshot listener, reload, scrolling, selection | the table never asks beyond the list and ends up showing it; a row opens an unlocked clue only |
| Riddle (`ClueView.swift`) | answer, labels | snapshot listener, `checkAnswer` | its document is there when it is taken apart; a right answer shows the key |
| Map annotations (`showpoints`) | ten listeners, one list of points they share | snapshot listener | exactly the unlocked clues are on the map, and the list stays short |
| Location button | optional reference, subviews | add, remove | at most one button |
| Message overlays (SwiftMessages) | queue of messages, current message, auto-hide token, blocks and timers | show, hide, auto-hide, pan | one message at a time, in order, each until dismissed or over; none is lost |
| Side menu, delegates, static pages, other pods | none of the hunt | | |

How they interact: `QrCode` calls `giveQRCodeValue` through its delegate; that issues
two Firestore writes and submits a file load to the global queue, which submits the
drawing to the main queue. Firestore calls hand over to the worker queue and come back
on the main queue. `showpoints`, `MenuView` and `ClueView` listen to the clue documents
and are called again at each change, local ones included. Components share documents
and the main queue, nothing else.

What is hard here: the process may be killed between any two steps, and every write
is at first in memory, then on disk, then on the server; network failures duplicate
writes and drop answers; acknowledgements and snapshots arrive in either order; a get
races the scan that overwrites what it reads, the style of the map races the first
route, and a crash that follows a durable write comes back at the next launch.
`PROJECT.json` lists each of these under `hazards` at the line where it bites.

## 2. Modules

```
TreasureHunt  <-- refines --  ClueHunt      (HomePage.swift)
                                 | EXTENDS
DurableStore  <-- refines --  FirestoreSync (Firestore client and server), ClueHunt
ShownDocuments <-- refines -- FirestoreSync, ClueHunt
      ^
      | INSTANCE, refines
  ClueViews                           (MenuView.swift, ClueView.swift, showpoints)
OneAtATime    <-- refines --  Alerts        (SwiftMessages and the messages shown with it)
PassKey                               (HomePage.swift, its text field)
MCFirestoreSync, MCClueHunt, MCPassKey, MCClueViews, MCAlerts        constants for TLC
FirestoreSyncProofs, ReplayProofs, ShownProofs, ClueHuntProofs,
PassKeyProofs, ClueViewsProofs, AlertsProofs                         theorems
```

**FirestoreSync.** A *cell* is one field of one document; every update of the app writes
one field. `cache` and `queue` are what LevelDB keeps (`leveldb_remote_document_cache.cc`,
`leveldb_mutation_queue.cc`), `worker` the operations enqueued with `AsyncQueue::Enqueue`,
`gets` the `getDocument` calls that wait for a snapshot, `online` the `OnlineState`,
`mainQueue` the main dispatch queue. `committed` counts the mutations in front of the
queue that the server has applied and not answered; `seen[c]` counts those of them that
the cached copy of `c` includes, which is what comparing document versions with commit
versions tells `LocalStore::ApplyBatchResult` (local_store.cc:210).

| Action | Code |
|---|---|
| `CallWrite`, `CallGet` | `FirestoreClient::WriteMutations`, `ListenToQuery`: enqueue and return |
| `WorkerWrite` | `SyncEngine::WriteMutations` -> `LocalStore::WriteLocally`, one LevelDB transaction |
| `WorkerGet` | `SyncEngine::Listen`, then `QueryListener::ShouldRaiseInitialEvent`: at once from the cache if offline, else it waits |
| `ServerCommit` | the server; the precondition of an update is that the document exists |
| `Acknowledge` | `OnWriteStreamMutationResult` -> `HandleSuccessfulWrite` -> `AcknowledgeBatch`, `ApplyBatchResult` |
| `Reject` | `HandleWriteError` with a permanent error -> `RejectBatch` |
| `WriteStreamBreak`, `RestartNetwork` | `OnWriteStreamClose`, `RestartNetwork`: `OnWriteStreamHandshakeComplete` sends the whole pipeline again |
| `WatchSync(c)` | `RaiseWatchSnapshot` -> `LocalStore::ApplyRemoteEvent`, and the listener's event |
| `WatchMessage`, `WatchFailure`, `OnlineTimeout` | `OnlineStateTracker`, `BecomeOffline` what `QueryListener::OnOnlineStateChanged` then raises |
| `WatchIdle` | `RemoteStore::StopListening` and `OnWatchStreamClose` once nothing is listened to |
| `Kill`, `Start` | the process |

`View(base, q, c)` is the overlay of `LocalDocumentsView::GetDocument` in closed form (lemma
`ReplayIsView` of `ReplayProofs`: it is what applying the mutations one by one gives). The server
refuses (`Reject`) only a mutation whose precondition fails. That is an assumption about the server:
`IsPermanentWriteError` also takes other errors for a refusal, such as PERMISSION_DENIED from its
access rules, which are not in the repository and are taken to admit the application's writes. A
watch snapshot brings the current value of the server: an older one is ignored by the
version check of `ApplyRemoteEvent` and changes nothing. Only `getDocument` callbacks are
put on `mainQueue`: the listeners' callbacks are the subject of `ClueViews`, over what
`ShownDocuments` says of the documents.

**ClueHunt** adds the view controller. `Scan` is the whole of `giveQRCodeValue` with the
calls it makes: both writes are enqueued in one step of the main thread, in the order of
the code. `LoadGeoJson` is the body of the global-queue task and `DrawPolyline` that of the
task it submits to the main queue, `GotLastPath` the closure of `getLastPath`, `GotDoneIntro`
that of `doneIntro`, `Launch` is `viewDidLoad` with the two gets it makes (its listeners, those of
`showpoints`, are in `ClueViews`), `DismissIntro` the button of the last page of the introduction.
While a page is presented, the scanner for one, UIKit refuses to present the introduction; the model
knows no presented pages, so `Present` is free. A failed precondition (`HomePage.swift:496`), the
exception of `addSource` (519), the one of `document(_:)` for a malformed path (29) and the forced cast
of `doneIntro` (227), when its get brought an error or a missing document, end the process (`Crash`). The codes are the clues with a route in the bundle (Clue1 to Clue9), the last
clue, foreign texts and malformed ones. `QRCodeValue` keeps its value after the process
ended only so that the crash properties can refer to it; no action reads it.

**PassKey** is the text field of `HomePage`: `Submit` is `textFieldShouldReturn`, `Answer`
the closure of the get in `CheckKeyPhrase`, which judges the text that is in the field *by then*
(`Recognise`, `Refuse`), `Fire` one timer of the main run loop: `TypeLetter` or, four seconds after the
answer, `End`. A timer is a record with the run of letters it belongs to and the ticks left; `Tick` passes
a tenth of a second once all timers that are due have fired, so that the order of fire dates is kept
and nothing else is assumed of their delays. A text is one of the three phrases, empty, some
other text, or one with letters of a timer in it. The phrases are kept in Firestore and not in the repository; that
a sentence typed by the timers spells none of them on its way is an assumption. `pages` counts the treasure pages on the navigation stack; `opened` counts those ever pushed in the session, a
history variable that no guard reads. While the treasure page is on top the field
cannot be reached; the get and the timers go on. The document of the phrases is in the cache or not; without it
and without a connection the forced casts end the process (`AnswerMissing`). Nothing of the component but that
cached document lasts, so the end of the process is only a step back to the initial state and is
not an action elsewhere. The module does not extend `FirestoreSync`: of the get it needs only that it is
answered later, or never.

**ShownDocuments** is the joint between the store and the views: the value shown of every cell. A
document arrives, as a whole or with others; one that is shown stays, and changes by the calls of
this application alone, in their order; the end of the process forgets the calls not taken up and nothing
else. `FirestoreSync` implements it (`ShowsDocuments`) with `shown` for the cells, the mutation queue over the
cache, and `calls` for the writes on the worker queue: acknowledgements, repetitions, refusals and
snapshots of own writes are stutters, which is why an acknowledged value does not flicker back in a view. A
step `Issue` makes any number of calls, as one callback of the application may (`giveQRCodeValue` makes two);
`ArriveSome` lets any documents arrive that were not shown before.

**ClueViews** is what the player sees of the clues. `Launch` asks for the listeners of the ten points and of the
menu; `WorkerListen` is `EventManager::AddQueryListener` with the first event (`StartMenu`,
`StartPoint`, `StartRiddle`), `Announce` the events of every later change (`SyncEngine::EmitNewSnapshots...`,
`View::ComputeDocumentChanges`: changes of data only, so that acknowledgements raise none). An empty first
snapshot, which an offline client raises, changes nothing in any view and is left out. The callbacks of each
listener wait in a queue of their own, in order.

| Action | Code |
|---|---|
| `TakeClues`, `TakeReload` | the closure of `getClues`: the list is replaced at once, `reloadData` is submitted once for each document |
| `Scroll(r)` | `cellForRowAt`: a cell that scrolls into view is filled from the list of that moment |
| `Select(r)` | `didSelectRowAt`: `clues[indexPath.row]` for the lock, the text of the cell for the name |
| `TakePoint(c)` | the closure of `showpoints` for one coordinate: `points[c]` counts the point in `pointAnnotations` |
| `TakeRiddle` | the closure of `getRiddle`, with its forced casts |
| `CheckAnswer`, `Scan(c)` | `checkAnswer` with the right answer, `giveQRCodeValue`: their `updateData` |
| `Close`, `Kill` | the riddle is dismissed; the process ends |

A listener of a riddle that was closed is never removed; its callbacks reach a view nobody sees and are
not kept. The points of the ten coordinates stand for the clues: the query by latitude finds one document
each, or none yet.

**Alerts** is SwiftMessages as this application uses it: one instance, messages that are modal and stay
(`Modal`: `Message`, `FoundAllMessage`, `showError`, `tryAgainMessage`) or go after two seconds
(`Transient`: `showSuccess`), duplicates ignored. `current` is `_current`, `hiding` the presenters with `isHiding`,
`token` the `autohideToken`. Each block, timer and animation that the code schedules is an element of a set or a
count, and runs in any order: `toShow` and `showing` (`dequeueNext`), `toHide` and `leaving` (`hideCurrent`), `pauses`
(the `didSet` of `_current`), `timers` (`queueAutoHide`), `bounces` (a panned message on its way back). The bodies that
several handlers share are operators: `DequeueNext`, `HideCurrent`, `InternalHide`, `QueueAutoHide`.

**Abstract specifications.** `DurableStore` is what an application wants of a store: a
register per cell, calls taken in order, each once and as a whole, and only calls not yet
taken up are forgotten when the process ends; one callback may make several calls. `FirestoreSync` implements it with
`store[c] <- DurableView(c)`, the mutation queue laid over the *server's* documents: so
every network step, restart and refusal is a stutter. `TreasureHunt` is the player's
view: a clue unlocks only while its own route is the stored one, and never locks again.
`OneAtATime` is what an application expects of its messages: they come to the screen in the order they were
asked for, once, one at a time, and leave only when they may. `Alerts` implements it with the mapping
of `Display`: a message waits until the main queue has shown it, and is visible while its masking view is installed.

## 3. Runs

All pass runs are exhaustive; deadlock is checked in each but `alerts`, which ends when all messages of the
bound have been shown and dismissed.

| Run | Bounds | Shows |
|---|---|---|
| `sync_safety` | one document that exists and one that does not, two values, both listened to, at most 3 calls outstanding; 527,496 states | `TypeOK`, `SyncInv`, `LocalIsDurable`, refinements of `DurableStore` and `ShownDocuments` |
| `sync_live` | two missing documents, both read by get, no listener, 2 calls outstanding; 75,174 states | `Publishes`, `GetsAnswered` |
| `hunt_safety` | a clue with a route, the last clue, a foreign and a malformed code, 2 scans, any number of kills, launches and network failures, the introduction done before; 1,202,873 states | `HuntTypeOK`, `HuntInv`, `UnlockFollowsRoute`, `ScanIsKept`, `LaunchRestores`, `RestoreIsLatest`, refinement of `TreasureHunt` |
| `hunt_live` | the last clue and a foreign code, 2 inputs, each a scan or a dismissal of the introduction, which is still to be done; 162,103 states | `IntroOnce`, `UnlockReachesServer`, refinement of `DurableStore` |
| `clue_views` | two clues, one call outstanding beside the listeners, one riddle opened per session, any number of sessions and answers; 182,705 states | `NeverCrashes`, `MapIsTrue`, `PointsBounded`, `ViewsSettle`, `ViewsWillFollow`, `PointAppears`, `KeyAppears` |
| `alerts` | one modal and one transient text, three messages, two hidings of a message at a time, one pan; 137,182 states | `OnlyCurrent`, `NeverStuck`, `TransientIsTimed`, refinement of `OneAtATime`, `EveryMessageShown`, `TransientLeaves` |
| `pass_key` | sentences of 1, 1 and 3 letters, the end after 3 ticks, 2 phrases typed, 2 gets at a time per text; 348,300 states | `TypeOK`, `LettersAreCleared`, `TreasurePerEntry`, `KeyOpens` |

Five runs end in a violation, each a disagreement of the code with a line of the
repository: `launch_survives` (a foreign code is stored as last route before the
precondition on its file fails, and fails it again at every later launch),
`redundant_source` (a route drawn twice raises in the map), `route_shown` (a route that is
read before the map has its style is never drawn), `menu_row` (the list of the menu is replaced before the
table is reloaded, so that a tap can open the riddle of a clue that is locked) and `pass_key_wrong` (a right phrase that is submitted
twice, or edited before the answer, is called wrong).

Why the bounds are enough. `MaxPending` bounds the calls outstanding: with three, two writes
of one cell and one of another meet in the queue, in every state of acknowledgement,
repetition and refusal; an update can be refused in front of a set of the same cell. `MaxInputs = 2`
lets a second scan meet the first in every stage, with the same or another code (the routes of a clue and of a
foreign code replace each other), before or after a restart; scans and dismissals of the introduction count
against it in a behaviour, not in a session. `MaxPending` plays no part in the hunt, whose calls these inputs bound.
The hunt runs set `Listened` to the empty set: a listener on a clue only refreshes the cache of cells that no action
of the hunt reads, and multiplies the states; `sync_safety` has listeners on all cells, and the theorems hold for any
`Listened`. That is also why what listeners are shown (`ShowsDocuments`) is checked there, and of the hunt only proved.
`hunt_live` leaves out the clues with routes: what it is after is the pipeline behind a refused update (that of a foreign
code, whose document does not exist), sessions that crash at each launch, and the dismissal of the introduction before,
after or between them.

`pass_key` needs `LetterCount[p] <= Delay`, which is what the code has: 20, 20 and 36 letters at a tenth of
a second against 4 seconds. Three ticks with a sentence of one letter and one of three make the timers of two runs
meet in every order: a letter after the other run's end, two ends in one tick, an end right after the last letter.

`clue_views`: two clues are what it takes for a list to be replaced by a longer one that has a new first
row, for one listener to overtake another and for both points to meet on the map; each clue passes through
absent, locked, unlocked and solved, in every order and over any number of sessions. One riddle is open at a time in the code too; a second one in the same session
differs only by the callbacks of the first, which are not seen; that its listener too is asked for and started, however
many were opened before, is part of `ViewsWillFollow`, which is proved for any `MaxOpens`. `MaxCalls` is compared with calls that
are made while another waits; the eleven listeners of a launch are not bounded by it. The theorems hold for any bound.

`alerts`: three messages are one on the screen, one that a late block or timer could take for it, and one that waits;
two hidings of one message at a time are the button and the tap beside it, or a timer and a pan.

Fairness. `WF(WorkerStep)`: the worker is a serial queue that runs its tasks. `WF(OnlineTimeout)`:
the ten-second timer of `online_state_tracker.cc:64` fires. `SF` of `ServerCommit`, `Acknowledge`,
`Reject` and `WatchSync(c)`: the client reconnects with backoff as long as there is something
to send or listen to, and some session and some connection last long enough; without it
(airplane mode for ever) nothing is promised. `UnlockReachesServer` needs
of the hunt only `SF` of `ServerCommit`, `Acknowledge`, `Reject` and `WF(Launch)`: the player opens the app
again; the dispatch queues need not be served for it. `WF(Fire)`, `WF(Tick)` of `PassKey`: the main run loop
runs. `ClueViews`: worker and main queue are served, and nothing of the player is fair. `Alerts`: blocks, timers and
animations end, a finger is lifted, and `WF(Tap)`: the user dismisses what stays until dismissed, without which
`EveryMessageShown` cannot hold; `TransientLeaves` holds however often hidings and pans interfere, within the bound on pans:
a user who pans for ever keeps the message. Nothing makes the player scan, type, dismiss or kill.

## 4. Proofs

TLAPS proves, for every value of the constants that satisfies `SyncAssumption`,
`HuntAssumption`, `ViewsAssumption` or `AlertsAssumption` (finitely many cells, disjoint kinds of values and codes; the bounds may be
any number):

| Theorem | Statement |
|---|---|
| `TypeCorrect`, `HuntTypeCorrect` | `TypeOK`, `HuntTypeOK` are invariants |
| `StreamsAreSound`, `HuntStreamsAreSound` | `SyncInv` is an invariant of the client and of the hunt |
| `ReadsAreDurable` | `LocalIsDurable` |
| `DurableRefinement` | `FirestoreSync` implements `DurableStore` |
| `ScansTravelInOrder` | `HuntInv` |
| `UnlocksFollowRoutes`, `ScansAreKept` | `UnlockFollowsRoute`, `ScanIsKept` |
| `HuntRefinement` | `ClueHunt` implements `TreasureHunt` |
| `RestoresLatest`, `LaunchesRestore`, `IntroductionOnce` | `RestoreIsLatest`, `LaunchRestores`, `IntroOnce` |
| `HuntKeepsStore`, `HuntShowsDocuments` | `ClueHunt` implements `DurableStore` and `ShownDocuments` |
| `ShownRefinement` | `FirestoreSync` implements `ShownDocuments` |
| `ViewsTypeCorrect`, `ViewsNeverCrash`, `MapStaysTrue`, `PointsStayBounded`, `ViewsFollow`, `NothingIsLost` | `TypeOK`, `NeverCrashes`, `MapIsTrue`, `PointsBounded`, `ViewsSettle`, `ViewsWillFollow` of `ClueViews` |
| `ViewsUseDocuments` | every step of `ClueViews` is a step of `ShownDocuments` or a stutter |
| `AlertsTypeCorrect`, `OnScreenIsCurrent`, `QueueNeverWedges`, `TransientGoes`, `AlertsRefinement` | `TypeOK`, `OnlyCurrent`, `NeverStuck`, `TransientIsTimed`, `ShowsOneAtATime` of `Alerts` |
| `PassKeyTypeCorrect`, `LettersGo`, `OnePagePerEntry` | `TypeOK`, `LettersAreCleared`, `TreasurePerEntry` of `PassKey` |

The argument. `LocalIsDurable` is not inductive: an acknowledgement moves a mutation from
the queue to the cache, and whether the cached value is then right depends on what the
server has applied and what the cached copy includes. `SyncInv` says so: the
mutations counted by `committed` are stored on the server unless a later one of them wrote the
same cell (`CommitsAreStored`), a document that exists in the cache exists on the server
(`CacheFollowsServer`), one with no mutation queued is cached as the server holds it
(`SettledIsCurrent`), and so is one whose `seen` count covers its commits (`SeenIsCached`).
With it each step is one of three kinds: it appends to the queue (the view changes as one
register), it moves the boundary between queue and server (the view over the server stays), or
it refreshes the cache. `MaxOfIndices` and `ViewByLast` turn the closed form of the view
into "the last mutation of the cell", which is what the step proofs use. A mutation in front
that was applied, lost its answer and is sent again writes a value that later mutations of the
queue overwrite again, which is why `DurableView` does not change when `committed` falls to 0.

That the closed form is the replay (`ReplayIsView`) says nothing of the actions, but is what makes `View` faithful, so it is a
lemma and not listed as a result. `FoldLeft` is defined by recursion over the queue, and no induction rule can be
instantiated here; the proof goes by the least counterexample instead: the
closed form satisfies the equation of the fold at every prefix of the queue, and of the lengths at which
two solutions of that equation differ there would be a least one, one step after they agree.

`HuntInv` strengthens the hunt's properties: on the worker queue an unlock comes
right behind its route or is next while its route is the stored one (`CallsInOrder`), in the mutation
queue it comes behind a route unless the server has one (`MutationsInOrder`), no clue loses its document
(`CluesExist`) and the last scan has its effect or its calls wait behind every other route
(`ScanUnderWay`). The hunt's own steps change the store only through the worker, so
the lemmas on `FirestoreSync` carry over action by action.

`RestoresLatest` rests on `LocalIsDurable`: only the two gets of a launch are ever made (`OnlyFetched`, from
`CallsInOrder`), and whichever of the three places answers that of the last path - the worker when the client
is offline already, the client when it goes offline, the watch snapshot - the value is the cache with the
queue on top.

`AskedOnce` says that a get of the launch is in one place at most: called for, waiting, or answered. Whoever answers it takes it
from where it was (`OnceGet`, `OnceNetwork`; `OfflineAnswers` gives one answer to each get that waits), and only `Launch`, in
an otherwise empty session (`Gone`), makes it. Both results about the launch use it.

`LaunchRestores` is about a session without a scan. `Restoring` relates what is under way in it: while the get of the last path is
in flight nothing is loaded, drawn or on the map; while a load is, nothing is drawn or on the map; and each carries the stored
route. It is preserved by the client, which neither writes a route nor answers anything but it (`RestoringClient`), and by each
handler (`RestoringGot`, `RestoringLoad`, `RestoringDraw`, `RestoringOther`). The process fails in such a session on a foreign
route, or by the cast of `doneIntro`; that the latter happens only without a copy of the document on the device is part of
`IntroInv`. After a scan the property says nothing, which is where `NoRedundantSource` and `RouteShown` fail.

`IntroOnce` follows from `IntroInv`: the flag is asked for, the pages are on the screen, their dismissal is called for - never two
of these at a time; the pages are on the screen only while the lasting flag is not set; and every answer about the flag is the
lasting value, or an error while the device has no document (`Uncached`). Here the same facts meet as in `RestoresLatest`: a
dismissal that is queued, sent, answered or lost lies over the cached flag, so that no launch reads an older one.

`HuntKeepsStore` and `HuntShowsDocuments` put the parts together: the steps of `FirestoreSync` under `ClueHunt` are
covered by its own lemmas, and the handlers of the hunt only append calls to the worker queue (`CallsAreBehind`, `DurableIssue`, `ShownIssue`).
With `ViewsUseDocuments` on the other side this closes the chain: what the views assume of the documents is what the client under the
hunt's calls provides, and the views use no more of them than `ShownDocuments` allows.

`PassKey` is proved from `FieldInv` and `PagesInv`: every letter still to be typed has an end due strictly after it
(`LettersEndInTime`, which is where `LetterCount[p] <= Delay` is needed), a run has at most one end that opens a page, and pages,
runs that will open one and a key in the field never add up to more than the keys typed in (`PagesAreCounted`). The pages are those ever
opened in the session (`opened`), so that going back from one does not make room for a second from the same entry.

`ShownRefinement` looks at each cell: the local view changes when a write is taken up (as one register) and when its
document arrives, and `LocalIsDurable` with the bookkeeping of `SyncInv` shows that every other step leaves it.

`ClueViews` is proved from `IInv`, one part for each view. The lists of the menu only grow, from the
table over the list to the snapshots on their way, the last of which is what there is (`MenuGrows`, `MenuLast`): so a row of
the table is a row of every later list, and the reload behind the last snapshot shows it. For the map,
`Pot(c)` adds the points there are to the queued callbacks that will add one: it grows at the
start of the listener, at the unlocking and at the solution, none of which happens twice (`PointsOf`). The last callback of
a riddle says what its document says (`RiddleInv`). `ViewsWillFollow` adds `Awaited` to it: a listener that a view needs is started
or its call still waits, which is preserved because calls leave the queue at its front only and `Listen` starts what it names. What the documents may do in a step (`Grows`) is proved of
`ShownDocuments` first, and is all the views rely on. `Listing` enumerates the clues by rank; that the r-th of a finite set exists
(`NthFacts`) is proved by well-founded minimality.

`Alerts` is proved from `TypeOK`, `OnlyCurrent` and three strengthenings. `QueueIsFresh`: a message that still waits in the
queue is untouched, it occurs there once, and no task, gesture or timer refers to it. `CurrentComes`: what is to be shown
is the current message, and it is not on the screen yet. `HidesReleased`: only released messages are hidden, and not before
they were shown. Without `QueueIsFresh` a task left by an earlier message could act on the one that is taken from the queue
next. The refinement maps each action to one of `OneAtATime` or to a stutter. `NeverStuck` and `TransientIsTimed` are inductive together with
`HidingIsOver` (no message hides that waits or is to be shown, and one that hides on the screen has its completion to come) and
`ComesWithToken` (the token is that of the message to be shown): they are the safety half of `EveryMessageShown` and `TransientLeaves`.

Only model-checked: liveness (`Publishes`, `GetsAnswered`, `UnlockReachesServer`, `KeyOpens`, `PointAppears`, `KeyAppears`,
`EveryMessageShown`, `TransientLeaves`), as the prover handles neither fairness nor ENABLED. Of some, a safety half is proved:
a state from which nobody would go on is excluded by `NeverStuck`, `TransientIsTimed` and `ViewsWillFollow`.

## 5. Not modelled, and why

Transactions, field transforms, limbo documents, garbage collection, credentials and query targets of the
Firestore client: no call of the application reaches them. A second device that writes: the
hunt has one player, and `LocalIsDurable` would not hold with two. Batches of more than one
mutation and pipelines of more than ten: the app writes one document per call and the
pipeline only limits how far `ServerCommit` may run ahead.

The location button is one optional reference driven by a system setting, the scanner a delegate call that the hunt takes at
any time, twice in a row included: neither has state that meets the state of another component. The pages of the introduction
are modelled as shown or not; turning them over is layout. That the message "You found all the clues!" asks no other clue
(HomePage.swift:22-25) can be read off its branch. Layout, camera and location hardware and the drawing of annotations are
input and output. Of SwiftMessages, delays, counted hiding, `hideAll`, several instances, keyboard tracking and event
listeners are left out, since the application uses none. The side menu is presentation only; Mapbox and the
server appear as external actions, from how `HomePage` uses them.

Nearly all lines of the repository (some 640,000) are vendored: gRPC, BoringSSL, abseil, LevelDB, generated protocol
buffers and certificates. The application itself has about two thousand lines, most of them layout; what is modelled is its control
and the parts of Firestore and SwiftMessages that this control reaches. The rest of the vendored code has no part in the
hunt, and a model of it would be one of those libraries.

## 6. Plan

What a next step could add. Proofs: the safety half of `UnlockReachesServer` and `Publishes` (a mutation on disk is in the
pipeline or the server has it) and of `KeyOpens` (a recognised key has its timer). Model: `GetsAnswered` over
several gets of one document; the presentation stack of UIKit as an external component, with the introduction, the riddle and
the scanner on it, instead of the free choice of `Present`. `ClueViews` and `FirestoreSync` stay two state spaces that meet in `ShownDocuments`; for safety `ShownRefinement`,
`HuntShowsDocuments` and `ViewsUseDocuments` make that step sound, and the liveness of the views assumes only the
worker and the main queue, both of which `FirestoreSync` has.
