------------------------------ MODULE ClueHunt ------------------------------
(***************************************************************************)
(* The core of the application: HomePage.swift over the Firestore client.  *)
(*                                                                         *)
(* A scanned code stores its value as the last route, unlocks the clue it  *)
(* names and loads the route from the bundle; at the next launch the last  *)
(* route is read back and loaded again.  The introduction is shown at a    *)
(* launch until it was dismissed once.  The steps run on four threads:     *)
(* the main queue, the global queue that reads the files, the worker of    *)
(* Firestore and the network.  The process may end at any time.            *)
(***************************************************************************)
EXTENDS FirestoreSync

CONSTANTS Bundled,    \* clues with a route in the bundle: Clue1 .. Clue9
          Final,      \* "Clue10", which has no route
          Foreign,    \* codes that name neither a clue nor a file
          Malformed,  \* codes that are no document path below "clues"
          LastPath,   \* field last-path of document last-path/Last
          DoneIntro,  \* field done of document doneintro/doneintro
          None,       \* no code was scanned in this session
          MaxInputs   \* bound: codes scanned, introductions dismissed in a behaviour

Clues  == Bundled \cup {Final}
Routes == Bundled \cup Foreign
Codes  == Clues \cup Foreign \cup Malformed

Flags == {"undone", "done"}  \* the field done, FALSE and TRUE

\* A clue or a foreign name, as a cell, is the field Locked of its document.
ASSUME HuntAssumption ==
    /\ Cells = {LastPath, DoneIntro} \cup Clues \cup Foreign
    /\ Vals = {"locked", "unlocked"} \cup Flags \cup Routes
    /\ \A c \in Clues : Seed[c] = "locked"
    /\ Seed[DoneIntro] \in Flags
    /\ \A c \in {LastPath} \cup Foreign : Seed[c] = Missing
    /\ Listened \subseteq Clues /\ Fetched = {LastPath, DoneIntro}
    /\ OtherTasks = [task : {"draw"}, clue : Bundled]
    /\ LastPath \notin Codes /\ DoneIntro \notin Codes \cup {LastPath}
    /\ Final \notin Routes \cup Malformed
    /\ Bundled \cap Foreign = {} /\ Malformed \cap (Routes \cup {Final}) = {}
    /\ ({"locked", "unlocked"} \cup Flags) \cap Routes = {}
    /\ None \notin Codes
    /\ MaxInputs \in Nat

VARIABLES QRCodeValue,  \* the value of the last code scanned in this session
          loading,      \* tasks of the global queue: how many load each route
          style,        \* the map has loaded its style
          sources,      \* routes drawn on the map, by identifier
          foundAll,     \* FoundAllMessage is on the screen, or waiting for it
          intro,        \* the pages of the introduction are on the screen
          crash,        \* how the last process ended
          inputs        \* codes scanned and introductions dismissed so far

home     == <<QRCodeValue, loading, style, sources, foundAll, intro, crash>>
huntVars == <<vars, home, inputs>>

unlocked == {c \in Clues : DurableView(c) = "unlocked"}

Draw(c) == [task |-> "draw", clue |-> c]

NoLoads == [c \in Routes \cup {Final} |-> 0]

HuntInit ==
    /\ Init
    /\ QRCodeValue = None
    /\ loading = NoLoads
    /\ style = FALSE
    /\ sources = {}
    /\ foundAll = FALSE
    /\ intro = FALSE
    /\ crash = "none"
    /\ inputs = 0

-----------------------------------------------------------------------------
(* The process *)

\* What dies with the process.  QRCodeValue is left for the post-mortem only.
HomeGone ==
    /\ loading' = NoLoads
    /\ style' = FALSE
    /\ sources' = {}
    /\ foundAll' = FALSE
    /\ intro' = FALSE

Crash(reason) == Exit /\ HomeGone /\ crash' = reason

KillApp == Kill /\ HomeGone /\ UNCHANGED <<QRCodeValue, crash, inputs>>

\* viewDidLoad: the map is created and asks for its style, the last route is read, and
\* then whether the introduction is done.  (The listeners of showpoints are in Listened.)
Launch ==
    /\ Start(<<GetDocument(LastPath), GetDocument(DoneIntro)>>)
    /\ QRCodeValue' = None
    /\ crash' = "none"
    /\ UNCHANGED <<loading, style, sources, foundAll, intro, inputs>>

-----------------------------------------------------------------------------
(* The main thread *)

SubmitLoad(c) == loading' = [loading EXCEPT ![c] = @ + 1]

\* giveQRCodeValue, for the code of the last clue.
ScanFinal ==
    /\ QRCodeValue' = Final
    /\ Enqueue(<<UpdateData(Final, "unlocked")>>)
    /\ foundAll' = TRUE
    /\ UNCHANGED <<loading, style, sources, intro, crash>>
    /\ UNCHANGED <<server, disk, stream, gets, online, mainQueue, up>>

\* Mutants: the clue is unlocked before its route is stored; the route is written
\* with updateData, which needs the document to exist.
ScanClueUnlockFirst(c) ==
    /\ QRCodeValue' = c
    /\ Enqueue(<<UpdateData(c, "unlocked"), SetData(LastPath, c)>>)
    /\ SubmitLoad(c)
    /\ UNCHANGED <<style, sources, foundAll, intro, crash>>
    /\ UNCHANGED <<server, disk, stream, gets, online, mainQueue, up>>

ScanClueUpdatesRoute(c) ==
    /\ QRCodeValue' = c
    /\ Enqueue(<<UpdateData(LastPath, c), UpdateData(c, "unlocked")>>)
    /\ SubmitLoad(c)
    /\ UNCHANGED <<style, sources, foundAll, intro, crash>>
    /\ UNCHANGED <<server, disk, stream, gets, online, mainQueue, up>>

\* giveQRCodeValue, for any other document id: nothing asks whether it is a clue.
\* (What demoCentered shows does not depend on the hunt.)
ScanClue(c) ==
    /\ QRCodeValue' = c
    /\ Enqueue(<<SetData(LastPath, c), UpdateData(c, "unlocked")>>)
    /\ SubmitLoad(c)
    /\ UNCHANGED <<style, sources, foundAll, intro, crash>>
    /\ UNCHANGED <<server, disk, stream, gets, online, mainQueue, up>>

\* giveQRCodeValue, for a value that Firestore refuses as a document id: the call
\* of document() raises before anything is written.
ScanMalformed(code) == QRCodeValue' = code /\ Crash("path")

\* The scanner is opened on the home page, which the introduction covers.
Scan(code) ==
    /\ up /\ ~intro /\ inputs < MaxInputs
    /\ inputs' = inputs + 1
    /\ \/ code = Final /\ ScanFinal
       \/ code \in Routes /\ ScanClue(code)
       \/ code \in Malformed /\ ScanMalformed(code)

\* getLastPath: an error or a missing document ends it, a value is loaded.
GotLastPath ==
    /\ TakeGot /\ Head(mainQueue).cell = LastPath
    /\ LET last == Head(mainQueue).val
       IN IF last \in Routes THEN SubmitLoad(last) ELSE UNCHANGED loading
    /\ UNCHANGED <<QRCodeValue, style, sources, foundAll, intro, crash, inputs>>

\* UIKit refuses to present the pages while another page, the scanner or a riddle, is
\* presented.
Present == intro' \in BOOLEAN

\* doneIntro: the answer is taken apart with a forced cast, so that an error or a missing
\* document ends the process.
GotDoneIntro ==
    /\ mainQueue # <<>> /\ Head(mainQueue) \in GotTasks /\ Head(mainQueue).cell = DoneIntro
    /\ LET done == Head(mainQueue).val
       IN IF done \in Flags
          THEN /\ TakeGot
               /\ IF done = "undone" THEN Present ELSE UNCHANGED intro
               /\ UNCHANGED <<loading, style, sources, foundAll, crash>>
          ELSE Crash("cast")
    /\ UNCHANGED <<QRCodeValue, inputs>>

\* dismissPage, the button of the last page.
DismissIntro ==
    /\ intro /\ inputs < MaxInputs
    /\ inputs' = inputs + 1
    /\ Enqueue(<<UpdateData(DoneIntro, "done")>>)
    /\ intro' = FALSE
    /\ UNCHANGED <<server, disk, stream, gets, online, mainQueue, up>>
    /\ UNCHANGED <<QRCodeValue, loading, style, sources, foundAll, crash>>

\* drawPolyline: lost without a style; the map raises if the source exists.
DrawPolyline ==
    /\ mainQueue # <<>> /\ Head(mainQueue).task = "draw"
    /\ LET c == Head(mainQueue).clue
       IN IF style /\ c \in sources
          THEN Crash("source")
          ELSE /\ sources' = IF style THEN sources \cup {c} ELSE sources
               /\ mainQueue' = Tail(mainQueue)
               /\ UNCHANGED <<server, disk, stream, worker, gets, online, up>>
               /\ UNCHANGED <<loading, style, foundAll, intro, crash>>
    /\ UNCHANGED <<QRCodeValue, inputs>>

\* The map view has loaded its style (from the network or its own cache).
StyleLoaded ==
    /\ up /\ ~style
    /\ style' = TRUE
    /\ UNCHANGED <<vars, QRCodeValue, loading, sources, foundAll, intro, crash, inputs>>

\* The button of the message, or a tap beside it.
DismissMessage ==
    /\ foundAll
    /\ foundAll' = FALSE
    /\ UNCHANGED <<vars, QRCodeValue, loading, style, sources, intro, crash, inputs>>

-----------------------------------------------------------------------------
(* The global queue: tasks run concurrently, in any order *)

\* Mutant: nothing asks whether the file is there.
LoadGeoJsonUnchecked(c) ==
    /\ up /\ loading[c] > 0
    /\ loading' = [loading EXCEPT ![c] = @ - 1]
    /\ mainQueue' = Append(mainQueue, Draw(c))
    /\ UNCHANGED <<server, disk, stream, worker, gets, online, up>>
    /\ UNCHANGED <<QRCodeValue, style, sources, foundAll, intro, crash, inputs>>

\* loadGeoJson: a name without a file in the bundle fails a precondition.
LoadGeoJson(c) ==
    /\ up /\ loading[c] > 0
    /\ IF c \in Clues
       THEN /\ loading' = [loading EXCEPT ![c] = @ - 1]
            /\ mainQueue' = IF c = Final THEN mainQueue ELSE Append(mainQueue, Draw(c))
            /\ UNCHANGED <<server, disk, stream, worker, gets, online, up>>
            /\ UNCHANGED <<style, sources, foundAll, intro, crash>>
       ELSE Crash("file")
    /\ UNCHANGED <<QRCodeValue, inputs>>

-----------------------------------------------------------------------------
ClientStep == (WorkerStep \/ NetworkStep) /\ UNCHANGED <<home, inputs>>

MainStep == GotLastPath \/ GotDoneIntro \/ DrawPolyline

LoadStep == \E c \in Routes \cup {Final} : LoadGeoJson(c)

HuntNext ==
    \/ Launch \/ KillApp
    \/ \E code \in Codes : Scan(code)
    \/ MainStep \/ LoadStep
    \/ StyleLoaded \/ DismissMessage \/ DismissIntro
    \/ ClientStep

HuntSpec == HuntInit /\ [][HuntNext]_huntVars

\* A player whose application died opens it again, and some session and some connection
\* last long enough for the server to answer a write.  The queues need not be served.
HuntFairness ==
    /\ WF_huntVars(Launch)
    /\ SF_vars(ServerCommit) /\ SF_vars(Acknowledge) /\ SF_vars(Reject)

FairHuntSpec == HuntSpec /\ HuntFairness

-----------------------------------------------------------------------------
(* Properties *)

HuntTypeOK ==
    /\ TypeOK
    /\ QRCodeValue \in Codes \cup {None}
    /\ loading \in [Routes \cup {Final} -> Nat]
    /\ style \in BOOLEAN
    /\ sources \subseteq Bundled
    /\ foundAll \in BOOLEAN
    /\ intro \in BOOLEAN
    /\ crash \in {"none", "file", "source", "path", "cast"}
    /\ inputs \in 0 .. MaxInputs

\* How the two writes of a scan travel: on the worker queue the unlock of a clue comes
\* right behind its route, or is next while its route is the stored one.
CallsInOrder ==
    \A i \in DOMAIN worker :
        \/ worker[i] \in {GetDocument(LastPath), GetDocument(DoneIntro)}
        \/ worker[i] \in {UpdateData(Final, "unlocked"), UpdateData(DoneIntro, "done")}
        \/ \E c \in Routes : worker[i] = SetData(LastPath, c)
        \/ \E c \in Routes :
              /\ worker[i] = UpdateData(c, "unlocked")
              /\ IF i = 1 THEN DurableView(LastPath) = c ELSE worker[i - 1] = SetData(LastPath, c)

\* In the mutation queue it comes behind a route, unless the server has one.
MutationsInOrder ==
    \A i \in DOMAIN queue :
        \/ queue[i] \in {UpdateData(Final, "unlocked"), UpdateData(DoneIntro, "done")}
        \/ \E c \in Routes : queue[i] = SetData(LastPath, c)
        \/ /\ \E c \in Routes : queue[i] = UpdateData(c, "unlocked")
           /\ server[LastPath] \in Vals \/ \E j \in 1 .. i - 1 : queue[j].cell = LastPath

\* No clue is ever without a document, nor is the flag of the introduction.
CluesExist ==
    /\ \A c \in Clues : DurableView(c) \in {"locked", "unlocked"}
    /\ DurableView(DoneIntro) \in Flags

\* The last scan has its effect already, or the call that will have it waits, behind
\* every other route.
ScanUnderWay ==
    up => /\ QRCodeValue \in Clues =>
                \/ DurableView(QRCodeValue) = "unlocked"
                \/ \E i \in DOMAIN worker : worker[i] = UpdateData(QRCodeValue, "unlocked")
          /\ QRCodeValue \in Routes =>
                \/ /\ DurableView(LastPath) = QRCodeValue
                   /\ \A i \in DOMAIN worker : worker[i].op # "set"
                \/ \E i \in DOMAIN worker :
                      /\ worker[i] = SetData(LastPath, QRCodeValue)
                      /\ \A j \in DOMAIN worker : j > i => worker[j].op # "set"

HuntInv == CallsInOrder /\ MutationsInOrder /\ CluesExist /\ ScanUnderWay

\* Route and clues, on disk and server together, go through the hunt as the player
\* knows it: a clue unlocks only while its own route is the stored one, and stays
\* unlocked.  The two writes of giveQRCodeValue may be torn apart by the end of the
\* process, sent twice or refused, but never take effect the other way round.
Hunt == INSTANCE TreasureHunt WITH
            NoRoute <- Missing, route <- DurableView(LastPath), unlocked <- unlocked

ImplementsTreasureHunt == Hunt!Spec

\* On the server alone as well: the unlocked clue of a route is never there before
\* some stored route (a second device reads only the server).
UnlockFollowsRoute ==
    \A c \in Bundled : server[c] = "unlocked" => server[LastPath] # Missing

\* Once the worker has served the calls of a scan, the scan survives whatever comes:
\* its clue is unlocked and its route is the one to restore.
ScanIsKept ==
    up /\ worker = <<>> =>
        /\ QRCodeValue \in Clues => DurableView(QRCodeValue) = "unlocked"
        /\ QRCodeValue \in Routes => DurableView(LastPath) = QRCodeValue

\* The answer of getLastPath that reaches the main queue is the route stored last,
\* or an error: never an older route, never "there is none" while there is one.
RestoreIsLatest ==
    [][\A i \in DOMAIN mainQueue' :
          /\ i > Len(mainQueue)
          /\ mainQueue'[i] \in GotTasks /\ mainQueue'[i].cell = LastPath
          /\ mainQueue'[i].val # Unknown
          => mainQueue'[i].val = DurableView(LastPath)']_huntVars

Answered(c) == {i \in DOMAIN mainQueue : mainQueue[i] \in GotTasks /\ mainQueue[i].cell = c}

\* Until a code is scanned, the route that was stored at the launch is all that is under
\* way: it is asked for, loaded, drawn, or on the map.
Drawing == {i \in DOMAIN mainQueue : mainQueue[i] \in OtherTasks}

Restoring ==
    LET last == DurableView(LastPath)
    IN /\ \A i \in DOMAIN worker : worker[i].op # "set"
       /\ \A i \in Answered(LastPath) : mainQueue[i].val \in {last, Unknown}
       /\ \A i \in Drawing : mainQueue[i] = Draw(last)
       /\ \A i, j \in Drawing : i = j
       /\ loading # NoLoads => last \in Routes /\ loading = [NoLoads EXCEPT ![last] = 1]
       /\ sources \subseteq {last}
       /\ InFlight(LastPath) => loading = NoLoads /\ Drawing = {} /\ sources = {}
       /\ loading # NoLoads => Drawing = {} /\ sources = {}
       /\ Drawing # {} => sources = {}

\* A session in which no code was scanned draws the stored route, at most once, and no
\* other.  It ends by itself only if that route is a foreign code, or by the forced cast of
\* doneIntro while the document of the introduction is not on the device.
LaunchRestores ==
    /\ up /\ QRCodeValue = None => Restoring
    /\ crash # "none" /\ QRCodeValue = None =>
          \/ crash = "file" /\ DurableView(LastPath) \in Foreign
          \/ crash = "cast"
    /\ crash = "cast" => LocalView(DoneIntro) \notin Vals

\* The introduction is shown only until it was dismissed: it is not on the screen, and will
\* not be brought there by an answer under way, once its dismissal has been called for.
Dismissing == \E i \in DOMAIN worker : worker[i] = UpdateData(DoneIntro, "done")

IntroOnce ==
    Dismissing \/ DurableView(DoneIntro) = "done" =>
        /\ ~intro
        /\ \A i \in Answered(DoneIntro) : mainQueue[i].val # "undone"

\* An unlock that reached the disk reaches the server, though the process may be
\* killed, and though a foreign code may end every session soon after its start.
UnlockReachesServer ==
    \A c \in Clues : (DurableView(c) = "unlocked") ~> (server[c] = "unlocked")

\* The comments and messages of the code say the following, which the code does not
\* keep: see the findings.

\* "Failed to load local GeoJSON file" is a precondition: not before a code was
\* scanned in this session, at least.
LaunchSurvives == ~(crash = "file" /\ QRCodeValue = None)

\* A source is not added to the map under an identifier in use.
NoRedundantSource == crash # "source"

\* With nothing left to do, the stored route is on the map.
Idle == up /\ worker = <<>> /\ gets = {} /\ mainQueue = <<>> /\ loading = NoLoads

RouteShown ==
    Idle /\ style /\ DurableView(LastPath) \in Bundled /\ QRCodeValue # None
        => DurableView(LastPath) \in sources
=============================================================================
