------------------------------ MODULE ClueViews ------------------------------
(***************************************************************************)
(* What the player sees of the clues: the menu (MenuView), one riddle at a *)
(* time (ClueView) and the points on the map (showpoints of HomePage).     *)
(* Each has listeners of its own on the documents of the clues, and each   *)
(* view follows its own copy, by callbacks on the main queue that arrive   *)
(* some time after the documents changed.                                  *)
(*                                                                         *)
(* The documents are those of ShownDocuments.  A listener hears of the     *)
(* documents there are when the worker starts it, then of every change of  *)
(* their data.  Callbacks of one listener arrive in order; those of        *)
(* different listeners touch different state, and their order is left open.*)
(***************************************************************************)
EXTENDS Naturals, FiniteSets, Sequences

CONSTANTS NumClues,  \* the clues, in the order of their field number
          Absent,    \* shown of a document that has not arrived yet
          None,      \* no riddle is open
          Menu,      \* the listener of MenuView
          Riddle,    \* the listener of the ClueView that is open
          MaxCalls,  \* bound: calls not taken up when another is made
          MaxOpens   \* bound: riddles opened in a session

Clues     == 1 .. NumClues
Fields    == {"Locked", "solved"}
Cells     == Clues \X Fields
Listeners == Clues \cup {Menu, Riddle}

ASSUME ViewsAssumption ==
    /\ NumClues \in Nat \ {0}
    /\ Absent \notin BOOLEAN
    /\ None \notin Clues /\ Menu \notin Clues /\ Riddle \notin Clues /\ Menu # Riddle
    /\ MaxCalls \in Nat /\ MaxOpens \in Nat

VARIABLES shown,        \* the documents, as ShownDocuments has them
          calls,        \* requests to the worker: writes and new listeners
          up,           \* the process runs
          listening,    \* the listeners the worker has started
          menuQueue,    \* callbacks and reloads of the menu on the main queue
          pointQueue,   \* callbacks of showpoints, by clue: is it locked
          riddleQueue,  \* callbacks of the open riddle: is it solved
          clues,        \* MenuView.clues
          table,        \* the cells of the table, as they were last filled
          points,       \* how often pointAnnotations holds the point of a clue
          view,         \* the clue whose riddle is open
          riddle,       \* what its view shows
          opened,       \* riddles opened in this session
          crash         \* how the last process ended

documents == <<shown, calls>>
menu      == <<menuQueue, clues, table>>
map       == <<pointQueue, points>>
reading   == <<riddleQueue, view, riddle, opened>>
vars      == <<documents, up, listening, menu, map, reading, crash>>

Unlock(c)      == [op |-> "update", cell |-> <<c, "Locked">>, val |-> FALSE]
Solve(c)       == [op |-> "update", cell |-> <<c, "solved">>, val |-> TRUE]
Listen(who, n) == [op |-> "listen", who |-> who, view |-> n]

Requests == {Unlock(c) : c \in Clues} \cup {Solve(c) : c \in Clues}
            \cup [op : {"listen"}, who : Listeners, view : 0 .. MaxOpens]

Documents == INSTANCE ShownDocuments WITH Vals <- BOOLEAN

-----------------------------------------------------------------------------
(* Snapshots of the query of the menu, in the order of the clues' numbers *)

Entries == [name : Clues, islocked : BOOLEAN]

Present(docs) == {c \in Clues : docs[<<c, "Locked">>] \in BOOLEAN}

Nth(S, r) == CHOOSE c \in S : Cardinality({d \in S : d <= c}) = r

\* Mutant: what changed is taken for what there is (documentChanges for documents).
ListingOfChanges(docs) ==
    LET new == {c \in Present(docs) : \E f \in Fields : docs[<<c, f>>] # shown[<<c, f>>]}
    IN [r \in 1 .. Cardinality(new) |->
           [name |-> Nth(new, r), islocked |-> docs[<<Nth(new, r), "Locked">>]]]

Listing(docs) ==
    [r \in 1 .. Cardinality(Present(docs)) |->
        LET c == Nth(Present(docs), r)
        IN [name |-> c, islocked |-> docs[<<c, "Locked">>]]]

Snapshot(list) == [task |-> "clues", list |-> list]
Reload         == [task |-> "reload"]

-----------------------------------------------------------------------------
Init ==
    /\ Documents!Init
    /\ up = FALSE
    /\ listening = {}
    /\ menuQueue = <<>> /\ clues = <<>> /\ table = <<>>
    /\ pointQueue = [c \in Clues |-> <<>>] /\ points = [c \in Clues |-> 0]
    /\ riddleQueue = <<>> /\ view = None /\ riddle = "none" /\ opened = 0
    /\ crash = "none"

(* The process *)

\* The documents remain, on disk; everything else is gone.
Exit(reason) ==
    /\ Documents!Forget
    /\ up' = FALSE
    /\ listening' = {}
    /\ menuQueue' = <<>> /\ clues' = <<>> /\ table' = <<>>
    /\ pointQueue' = [c \in Clues |-> <<>>] /\ points' = [c \in Clues |-> 0]
    /\ riddleQueue' = <<>> /\ view' = None /\ riddle' = "none" /\ opened' = 0
    /\ crash' = reason

Kill == up /\ Exit("none")

\* SideMenuController loads its content first, HomePage with showpoints, and its menu
\* second, with getClues: eleven listeners, one by one.  (The gets of viewDidLoad are in
\* ClueHunt; an end of the process that they cause is a Kill here.)
Launch ==
    /\ ~up
    /\ up' = TRUE
    /\ calls' = [i \in 1 .. NumClues + 1 |->
                    IF i \in Clues THEN Listen(i, 0) ELSE Listen(Menu, 0)]
    /\ UNCHANGED <<shown, listening, menu, map, reading, crash>>

-----------------------------------------------------------------------------
(* The worker of Firestore *)

Changed == {c \in Clues : \E f \in Fields : shown'[<<c, f>>] # shown[<<c, f>>]}

\* Mutant: a change of the other field raises no event.
AnnounceLocked ==
    LET unlocked == {c \in Clues : shown'[<<c, "Locked">>] # shown[<<c, "Locked">>]}
    IN /\ menuQueue' = IF Menu \in listening /\ unlocked # {}
                       THEN Append(menuQueue, Snapshot(Listing(shown'))) ELSE menuQueue
       /\ pointQueue' = [c \in Clues |->
              IF c \in listening \cap unlocked
              THEN Append(pointQueue[c], shown'[<<c, "Locked">>]) ELSE pointQueue[c]]
       /\ riddleQueue' = IF Riddle \in listening /\ view \in unlocked
                         THEN Append(riddleQueue, shown'[<<view, "solved">>]) ELSE riddleQueue
       /\ UNCHANGED <<up, listening, clues, table, points, view, riddle, opened, crash>>

\* Every listener whose documents have changed gets a callback.
Announce ==
    /\ menuQueue' = IF Menu \in listening /\ Changed # {}
                    THEN Append(menuQueue, Snapshot(Listing(shown'))) ELSE menuQueue
    /\ pointQueue' = [c \in Clues |->
           IF c \in listening \cap Changed
           THEN Append(pointQueue[c], shown'[<<c, "Locked">>]) ELSE pointQueue[c]]
    /\ riddleQueue' = IF Riddle \in listening /\ view \in Changed
                      THEN Append(riddleQueue, shown'[<<view, "solved">>]) ELSE riddleQueue
    /\ UNCHANGED <<up, listening, clues, table, points, view, riddle, opened, crash>>

\* Documents arrive from the server, whole, one or several at a time.
ArriveDocuments ==
    /\ up
    /\ \E new \in (SUBSET (Clues \ Present(shown))) \ {{}} :
          \E news \in [new \X Fields -> BOOLEAN] : Documents!Arrive(news)
    /\ Announce

WorkerWrite ==
    /\ calls # <<>> /\ Head(calls).op = "update"
    /\ Documents!Take
    /\ Announce

\* The first snapshot is what the cache holds; of nothing there is none.
StartMenu ==
    /\ listening' = listening \cup {Menu}
    /\ menuQueue' = IF Present(shown) # {}
                    THEN Append(menuQueue, Snapshot(Listing(shown))) ELSE menuQueue
    /\ UNCHANGED <<clues, table, map, reading>>

\* Mutants: the first snapshot waits for the next change; it has a document also when
\* there is none.
StartPointLate(c) == listening' = listening \cup {c} /\ UNCHANGED <<menu, map, reading>>

StartPointAlways(c) ==
    /\ listening' = listening \cup {c}
    /\ pointQueue' = [pointQueue EXCEPT ![c] = Append(@, shown[<<c, "Locked">>])]
    /\ UNCHANGED <<menu, points, reading>>

StartPoint(c) ==
    /\ listening' = listening \cup {c}
    /\ pointQueue' = IF c \in Present(shown)
                     THEN [pointQueue EXCEPT ![c] = Append(@, shown[<<c, "Locked">>])]
                     ELSE pointQueue
    /\ UNCHANGED <<menu, points, reading>>

\* A riddle closed by now has a listener all the same, which is never removed; what
\* it is told is not seen.
StartRiddle(n) ==
    /\ IF view # None /\ n = opened
       THEN /\ listening' = listening \cup {Riddle}
            /\ riddleQueue' = Append(riddleQueue, shown[<<view, "solved">>])
       ELSE UNCHANGED <<listening, riddleQueue>>
    /\ UNCHANGED <<menu, map, view, riddle, opened>>

WorkerListen ==
    /\ calls # <<>> /\ Head(calls).op = "listen"
    /\ Documents!Take
    /\ \/ Head(calls).who = Menu /\ StartMenu
       \/ Head(calls).who \in Clues /\ StartPoint(Head(calls).who)
       \/ Head(calls).who = Riddle /\ StartRiddle(Head(calls).view)
    /\ UNCHANGED <<up, crash>>

-----------------------------------------------------------------------------
(* The main queue *)

\* Mutant: a list of the same length is not shown again.
TakeCluesIfLonger ==
    /\ menuQueue # <<>> /\ Head(menuQueue).task = "clues"
    /\ LET list == Head(menuQueue).list
       IN /\ clues' = list
          /\ menuQueue' = IF Len(list) = Len(clues) THEN Tail(menuQueue)
                          ELSE Tail(menuQueue) \o [i \in DOMAIN list |-> Reload]
    /\ UNCHANGED <<documents, up, listening, table, map, reading, crash>>

\* getClues: the list is replaced at once, the table asked to reload later, once
\* for every document.
TakeClues ==
    /\ menuQueue # <<>> /\ Head(menuQueue).task = "clues"
    /\ clues' = Head(menuQueue).list
    /\ menuQueue' = Tail(menuQueue) \o [i \in DOMAIN clues' |-> Reload]
    /\ UNCHANGED <<documents, up, listening, table, map, reading, crash>>

TakeReload ==
    /\ menuQueue # <<>> /\ Head(menuQueue).task = "reload"
    /\ table' = clues
    /\ menuQueue' = Tail(menuQueue)
    /\ UNCHANGED <<documents, up, listening, clues, map, reading, crash>>

\* A cell that scrolls into view is filled from the list there is now.
Scroll(r) ==
    /\ r \in DOMAIN table
    /\ IF r \in DOMAIN clues
       THEN /\ table' = [table EXCEPT ![r] = clues[r]]
            /\ UNCHANGED <<documents, up, listening, menuQueue, clues, map, reading, crash>>
       ELSE Exit("row")

\* didSelectRowAt: the lock is that of the list, the name that of the cell.  A locked
\* row shows an error instead.
Select(r) ==
    /\ view = None /\ r \in DOMAIN table
    /\ IF r \in DOMAIN clues
       THEN /\ ~clues[r].islocked /\ opened < MaxOpens
            /\ view' = table[r].name
            /\ riddle' = "blank"
            /\ opened' = opened + 1
            /\ Documents!Call(Listen(Riddle, opened'))
            /\ UNCHANGED <<up, listening, menu, map, riddleQueue, crash>>
       ELSE Exit("row")

\* Mutants: the point is added before anyone asks for the lock; a point is added for
\* every clue that the snapshot follows, once more at each of them.
TakePointAny(c) ==
    /\ pointQueue[c] # <<>>
    /\ points' = [points EXCEPT ![c] = @ + 1]
    /\ pointQueue' = [pointQueue EXCEPT ![c] = Tail(@)]
    /\ UNCHANGED <<documents, up, listening, menu, reading, crash>>

TakePointTwice(c) ==
    /\ pointQueue[c] # <<>>
    /\ points' = IF Head(pointQueue[c]) THEN points
                 ELSE [d \in Clues |-> IF d = c \/ points[d] > 0 THEN points[d] + 1 ELSE 0]
    /\ pointQueue' = [pointQueue EXCEPT ![c] = Tail(@)]
    /\ UNCHANGED <<documents, up, listening, menu, reading, crash>>

\* showpoints: an unlocked clue appends its point, and all points there are go to the
\* map, which takes each of them once.
TakePoint(c) ==
    /\ pointQueue[c] # <<>>
    /\ points' = IF Head(pointQueue[c]) THEN points ELSE [points EXCEPT ![c] = @ + 1]
    /\ pointQueue' = [pointQueue EXCEPT ![c] = Tail(@)]
    /\ UNCHANGED <<documents, up, listening, menu, reading, crash>>

onMap == {c \in Clues : points[c] > 0}

\* getRiddle takes the document apart with forced casts; the key is shown if solved.
TakeRiddle ==
    /\ riddleQueue # <<>>
    /\ IF Head(riddleQueue) = Absent
       THEN Exit("riddle")
       ELSE /\ riddle' = IF Head(riddleQueue) THEN "solved" ELSE "unsolved"
            /\ riddleQueue' = Tail(riddleQueue)
            /\ UNCHANGED <<documents, up, listening, menu, map, view, opened, crash>>

\* checkAnswer, with the right answer, which is known once the riddle is there; any
\* other answer leads to a message only.
CheckAnswer ==
    /\ view # None /\ riddle # "blank" /\ Len(calls) < MaxCalls
    /\ Documents!Call(Solve(view))
    /\ UNCHANGED <<up, listening, menu, map, reading, crash>>

Close ==
    /\ view # None
    /\ view' = None
    /\ riddle' = "none"
    /\ riddleQueue' = <<>>
    /\ listening' = listening \ {Riddle}
    /\ UNCHANGED <<documents, up, menu, map, opened, crash>>

\* giveQRCodeValue of HomePage, as far as it concerns the clues.
Scan(c) ==
    /\ up /\ view = None /\ Len(calls) < MaxCalls
    /\ Documents!Call(Unlock(c))
    /\ UNCHANGED <<up, listening, menu, map, reading, crash>>

-----------------------------------------------------------------------------
WorkerStep == WorkerWrite \/ WorkerListen

MenuStep == TakeClues \/ TakeReload

Next ==
    \/ Launch \/ Kill
    \/ ArriveDocuments \/ WorkerStep
    \/ MenuStep \/ TakeRiddle
    \/ \E c \in Clues : TakePoint(c) \/ Scan(c)
    \/ \E r \in Clues : Scroll(r) \/ Select(r)
    \/ CheckAnswer \/ Close

Spec == Init /\ [][Next]_vars

\* The worker and the main queue are served.
Fairness ==
    /\ WF_vars(WorkerStep) /\ WF_vars(MenuStep) /\ WF_vars(TakeRiddle)
    /\ \A c \in Clues : WF_vars(TakePoint(c))

FairSpec == Spec /\ Fairness

-----------------------------------------------------------------------------
(* Properties *)

TypeOK ==
    /\ shown \in [Cells -> BOOLEAN \cup {Absent}]
    /\ calls \in Seq(Requests)
    /\ up \in BOOLEAN
    /\ listening \subseteq Listeners
    /\ menuQueue \in Seq([task : {"clues"}, list : Seq(Entries)] \cup {Reload})
    /\ clues \in Seq(Entries) /\ table \in Seq(Entries)
    /\ pointQueue \in [Clues -> Seq(BOOLEAN)]
    /\ points \in [Clues -> Nat]
    /\ riddleQueue \in Seq(BOOLEAN \cup {Absent})
    /\ view \in Clues \cup {None}
    /\ riddle \in {"none", "blank", "unsolved", "solved"}
    /\ opened \in 0 .. MaxOpens
    /\ crash \in {"none", "row", "riddle"}

\* The table is never asked for a row that the list does not have, though the list is
\* replaced before the table hears of it, and a riddle that can be opened has its
\* document, so that the forced casts of getRiddle hold.
NeverCrashes == crash = "none"

\* A point on the map belongs to a clue that is unlocked, whatever snapshots are on
\* their way.
MapIsTrue == \A c \in onMap : shown[<<c, "Locked">>] = FALSE

\* The array of points does not grow without end: a clue is in it twice at most, for
\* its unlocking and for its solution.
PointsBounded == \A c \in Clues : points[c] <= 2

\* Once its callbacks are served, each view shows the documents there are: no
\* snapshot is lost, none is overtaken by an older one, and no reload comes too early.
ViewsSettle ==
    /\ Menu \in listening /\ menuQueue = <<>> => table = Listing(shown)
    /\ \A c \in listening \cap Clues :
          pointQueue[c] = <<>> /\ shown[<<c, "Locked">>] = FALSE => c \in onMap
    /\ Riddle \in listening /\ riddleQueue = <<>> =>
          riddle = IF shown[<<view, "solved">>] THEN "solved" ELSE "unsolved"

\* Nothing that a view has yet to show is lost on the way: its listener is started or its
\* start is called for, also when riddles are closed and opened meanwhile; a point that is
\* missing is in a callback, and the last callback of a riddle brings what there is.
Called(req) == \E i \in DOMAIN calls : calls[i] = req

Awaited ==
    /\ \A who \in Clues \cup {Menu} : who \in listening \/ Called(Listen(who, 0))
    /\ view # None => Riddle \in listening \/ Called(Listen(Riddle, opened))

ViewsWillFollow ==
    up => /\ Awaited
          /\ \A c \in listening \cap Clues :
                shown[<<c, "Locked">>] = FALSE /\ c \notin onMap
                    => \E i \in DOMAIN pointQueue[c] : ~pointQueue[c][i]
          /\ riddleQueue # <<>> =>
                riddleQueue[Len(riddleQueue)] = shown[<<view, "solved">>]

\* The point of a clue that is unlocked, in whatever session, appears on the map.
PointAppears ==
    \A c \in Clues :
        (up /\ shown[<<c, "Locked">>] = FALSE) ~> (c \in onMap \/ ~up)

\* A right answer shows the key, unless the riddle is closed first.
KeyAppears ==
    \A c \in Clues :
        (view = c /\ \E i \in DOMAIN calls : calls[i] = Solve(c))
            ~> (riddle = "solved" \/ view # c)

\* "You haven't unlocked this yet." is said of a locked clue, instead of its riddle:
\* the code does not keep it, see the findings.
OpensUnlocked == view # None => shown[<<view, "Locked">>] = FALSE
=============================================================================
