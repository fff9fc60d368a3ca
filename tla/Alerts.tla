------------------------------- MODULE Alerts -------------------------------
(***************************************************************************)
(* The messages of the application and the queue of SwiftMessages that     *)
(* shows them.  All but one stay until the user dismisses them (.forever,  *)
(* over a blurred screen); the success of ClueView goes by itself.         *)
(*                                                                         *)
(* A message is current from the time it leaves the queue to the end of    *)
(* its hiding.  What the code schedules (blocks of the main queue, timers, *)
(* animations) is a set or a count of tasks that run in any order.         *)
(***************************************************************************)
EXTENDS Naturals, FiniteSets, Sequences, SequencesExt

CONSTANTS Modal,        \* the messages shown .forever, by their text
          Transient,    \* those that hide themselves after two seconds
          None,         \* no message
          MaxMessages,  \* bound: messages of a session
          MaxTaps,      \* bound: hidings of one message that are scheduled
          MaxPans       \* bound: pans of a session

Texts    == Modal \cup Transient
Messages == 1 .. MaxMessages

ASSUME AlertsAssumption ==
    /\ Modal \cap Transient = {}
    /\ None \notin Nat
    /\ MaxMessages \in Nat /\ MaxTaps \in Nat /\ MaxPans \in Nat

VARIABLES ids,        \* Presenter.id of each message, which is made of its text
          queue,      \* the messages that wait
          current,    \* _current
          hiding,     \* the messages with isHiding
          token,      \* autohideToken
          onScreen,   \* the messages whose masking view is installed
          toShow,     \* blocks of dequeueNext on the main queue
          showing,    \* animations of show
          toHide,     \* blocks of hideCurrent on the main queue, by message
          leaving,    \* animations of hide, by message
          pauses,     \* dequeueNext after the pause between messages
          timers,     \* timers of queueAutoHide, by message
          panning,    \* the message under the finger
          bounces,    \* panned messages on their way back
          pans,       \* pans so far
          released    \* history: the messages that may leave

shown == <<onScreen, toShow, showing>>
hides == <<toHide, leaving, hiding>>
pan   == <<panning, bounces, pans>>
vars  == <<ids, queue, current, token, shown, hides, pauses, timers, pan, released>>

NoTasks == [n \in Messages |-> 0]

Init ==
    /\ ids = <<>> /\ queue = <<>> /\ current = None /\ token = None
    /\ onScreen = {} /\ toShow = {} /\ showing = {}
    /\ toHide = NoTasks /\ leaving = NoTasks /\ hiding = {}
    /\ pauses = 0 /\ timers = NoTasks
    /\ panning = None /\ bounces = 0 /\ pans = 0
    /\ released = {}

-----------------------------------------------------------------------------
(* Parts of the handlers *)

\* Mutant: the message stays in the queue.
DequeuePeek(q) ==
    IF current = None /\ q # <<>>
    THEN /\ current' = Head(q)
         /\ queue' = q
         /\ token' = Head(q)
         /\ toShow' = toShow \cup {Head(q)}
    ELSE /\ queue' = q
         /\ UNCHANGED <<current, token, toShow>>

\* dequeueNext, with q for the queue.
DequeueNext(q) ==
    IF current = None /\ q # <<>>
    THEN /\ current' = Head(q)
         /\ queue' = Tail(q)
         /\ token' = Head(q)
         /\ toShow' = toShow \cup {Head(q)}
    ELSE /\ queue' = q
         /\ UNCHANGED <<current, token, toShow>>

\* hideCurrent: isHiding is set only by the block it schedules.
HideCurrent ==
    toHide' = IF current # None /\ current \notin hiding
              THEN [toHide EXCEPT ![current] = @ + 1] ELSE toHide

\* A message that is not current is taken out of the queue.
InternalHide(n) ==
    IF n = current THEN HideCurrent /\ UNCHANGED queue
    ELSE /\ queue' = IF n \in ToSet(queue) THEN SelectSeq(queue, LAMBDA m : m # n) ELSE queue
         /\ UNCHANGED toHide

\* queueAutoHide, of whatever message is current.
QueueAutoHide ==
    IF current = None THEN UNCHANGED <<token, timers>>
    ELSE /\ token' = current
         /\ timers' = IF ids[current] \in Transient
                      THEN [timers EXCEPT ![current] = @ + 1] ELSE timers

-----------------------------------------------------------------------------
(* SwiftMessages.show *)

\* A message with the text of one that waits or is on the screen is dropped.
Duplicate(id) ==
    \/ current # None /\ ids[current] = id /\ current \notin hiding
    \/ \E i \in DOMAIN queue : ids[queue[i]] = id

Ask(id) ==
    /\ Len(ids) < MaxMessages
    /\ ~Duplicate(id)
    /\ ids' = Append(ids, id)
    /\ DequeueNext(Append(queue, Len(ids')))
    /\ UNCHANGED <<onScreen, showing, hides, pauses, timers, pan, released>>

Show(n) ==
    /\ n \in toShow
    /\ toShow' = toShow \ {n}
    /\ onScreen' = onScreen \cup {n}
    /\ showing' = showing \cup {n}
    /\ UNCHANGED <<ids, queue, current, token, hides, pauses, timers, pan, released>>

\* The animation ends, or is cut short, which hides the message.
ShowCompleted(n) ==
    /\ n \in showing
    /\ showing' = showing \ {n}
    /\ IF token = n THEN QueueAutoHide ELSE UNCHANGED <<token, timers>>
    /\ UNCHANGED <<ids, queue, current, onScreen, toShow, hides, pauses, pan, released>>

ShowCut(n) ==
    /\ n \in showing
    /\ showing' = showing \ {n}
    /\ InternalHide(n)
    /\ released' = released \cup {n}
    /\ UNCHANGED <<ids, current, token, onScreen, toShow, leaving, hiding, pauses, timers, pan>>

-----------------------------------------------------------------------------
(* Hiding *)

\* The button of a message calls hide(), which names none; a tap beside it names it.
Tap(n) ==
    /\ n \in onScreen /\ ids[n] \in Modal /\ toHide[n] < MaxTaps
    /\ \/ HideCurrent /\ UNCHANGED queue
       \/ InternalHide(n)
    /\ released' = released \cup {n}
    /\ UNCHANGED <<ids, current, token, shown, leaving, hiding, pauses, timers, pan>>

\* The block comes behind that of Show, on the same queue.
HideStarts(n) ==
    /\ toHide[n] > 0 /\ n \notin toShow
    /\ toHide' = [toHide EXCEPT ![n] = @ - 1]
    /\ leaving' = [leaving EXCEPT ![n] = @ + 1]
    /\ hiding' = hiding \cup {n}
    /\ UNCHANGED <<ids, queue, current, token, shown, pauses, timers, pan, released>>

\* Mutants: a second hiding of a message ends the next one; the next message is
\* left to the next call of show.
HideEndsAnyway(n) ==
    /\ leaving[n] > 0
    /\ leaving' = [leaving EXCEPT ![n] = @ - 1]
    /\ onScreen' = onScreen \ {n}
    /\ current' = None /\ pauses' = pauses + 1
    /\ UNCHANGED <<ids, queue, token, toShow, showing, toHide, hiding, timers, pan, released>>

HideEndsQuietly(n) ==
    /\ leaving[n] > 0
    /\ leaving' = [leaving EXCEPT ![n] = @ - 1]
    /\ onScreen' = onScreen \ {n}
    /\ current' = IF current = n THEN None ELSE current
    /\ UNCHANGED <<ids, queue, token, toShow, showing, toHide, hiding, pauses, timers, pan,
                   released>>

\* The view goes; if the message is still the current one, the next may come, after
\* a pause.
HideEnds(n) ==
    /\ leaving[n] > 0
    /\ leaving' = [leaving EXCEPT ![n] = @ - 1]
    /\ onScreen' = onScreen \ {n}
    /\ IF current = n THEN current' = None /\ pauses' = pauses + 1
       ELSE UNCHANGED <<current, pauses>>
    /\ UNCHANGED <<ids, queue, token, toShow, showing, toHide, hiding, timers, pan, released>>

PauseEnds ==
    /\ pauses > 0
    /\ pauses' = pauses - 1
    /\ DequeueNext(queue)
    /\ UNCHANGED <<ids, onScreen, showing, hides, timers, pan, released>>

\* Mutant: the timer hides what is current by then.
TimeOutCurrent(n) ==
    /\ timers[n] > 0
    /\ timers' = [timers EXCEPT ![n] = @ - 1]
    /\ HideCurrent
    /\ released' = released \cup {n}
    /\ UNCHANGED <<ids, queue, current, token, shown, leaving, hiding, pauses, pan>>

TimeOut(n) ==
    /\ timers[n] > 0
    /\ timers' = [timers EXCEPT ![n] = @ - 1]
    /\ IF token = n THEN InternalHide(n) /\ released' = released \cup {n}
       ELSE UNCHANGED <<queue, toHide, released>>
    /\ UNCHANGED <<ids, current, token, shown, leaving, hiding, pauses, pan>>

-----------------------------------------------------------------------------
(* Panning a message: it is flung away, or comes back and counts its time anew *)

PanStart(n) ==
    /\ n \in onScreen /\ panning = None /\ pans < MaxPans
    /\ panning' = n
    /\ pans' = pans + 1
    /\ token' = None
    /\ UNCHANGED <<ids, queue, current, shown, hides, pauses, timers, bounces, released>>

PanAway ==
    /\ panning # None
    /\ panning' = None
    /\ InternalHide(panning)
    /\ released' = released \cup {panning}
    /\ UNCHANGED <<ids, current, token, shown, leaving, hiding, pauses, timers, bounces, pans>>

PanBack ==
    /\ panning # None
    /\ panning' = None
    /\ bounces' = bounces + 1
    /\ UNCHANGED <<ids, queue, current, token, shown, hides, pauses, timers, pans, released>>

\* Mutant: the time of a message that came back is not counted anew.
PanEndedQuietly ==
    /\ bounces > 0
    /\ bounces' = bounces - 1
    /\ UNCHANGED <<ids, queue, current, token, shown, hides, pauses, timers, panning, pans,
                   released>>

PanEnded ==
    /\ bounces > 0
    /\ bounces' = bounces - 1
    /\ QueueAutoHide
    /\ UNCHANGED <<ids, queue, current, shown, hides, pauses, panning, pans, released>>

-----------------------------------------------------------------------------
Next ==
    \/ \E id \in Texts : Ask(id)
    \/ \E n \in Messages :
          \/ Show(n) \/ ShowCompleted(n) \/ ShowCut(n)
          \/ Tap(n) \/ HideStarts(n) \/ HideEnds(n) \/ TimeOut(n) \/ PanStart(n)
    \/ PauseEnds \/ PanAway \/ PanBack \/ PanEnded

Spec == Init /\ [][Next]_vars

\* Scheduled blocks run, animations and gestures end, and the user dismisses what
\* does not go by itself.
Fairness ==
    /\ \A n \in Messages :
          /\ WF_vars(Show(n)) /\ WF_vars(ShowCompleted(n) \/ ShowCut(n))
          /\ WF_vars(HideStarts(n)) /\ WF_vars(HideEnds(n)) /\ WF_vars(TimeOut(n))
          /\ WF_vars(Tap(n))
    /\ WF_vars(PauseEnds) /\ WF_vars(PanAway \/ PanBack) /\ WF_vars(PanEnded)

FairSpec == Spec /\ Fairness

-----------------------------------------------------------------------------
(* Properties *)

TypeOK ==
    /\ ids \in Seq(Texts) /\ Len(ids) <= MaxMessages
    /\ queue \in Seq(DOMAIN ids)
    /\ current \in (DOMAIN ids \cup {None}) \ ToSet(queue)
    /\ token \in DOMAIN ids \cup {None}
    /\ panning \in DOMAIN ids \cup {None}
    /\ \A S \in {onScreen, toShow, showing, hiding, released} : S \subseteq DOMAIN ids
    /\ \A f \in {toHide, leaving, timers} : f \in [Messages -> Nat]
    /\ pauses \in Nat /\ bounces \in Nat /\ pans \in 0 .. MaxPans

\* What is on the screen is the current message, so that hide(), which names none,
\* hides the message whose button was pressed.
OnlyCurrent == onScreen \subseteq {current}

\* No message waits for nothing: someone will take the next one from the queue, and the
\* current one is on its way to the screen or on it.  A hiding that ends late, twice or
\* after a restart of the timer leaves neither behind.
NeverStuck ==
    /\ queue # <<>> => current # None \/ pauses > 0
    /\ current # None => current \in toShow \cup onScreen

\* A transient message on the screen is always going to leave it by itself: it is
\* hiding, or its timer runs or will be started when an animation or a gesture ends.
TransientIsTimed ==
    \A n \in onScreen : ids[n] \in Transient =>
        \/ toHide[n] > 0 \/ leaving[n] > 0
        \/ token = n /\ (n \in showing \/ timers[n] > 0)
        \/ panning = n \/ bounces > 0

Visible == IF onScreen = {} THEN None ELSE CHOOSE n \in onScreen : TRUE

\* The current message waits as long as the main queue has not shown it.
Waiting == IF current \in toShow THEN <<current>> \o queue ELSE queue

Display == INSTANCE OneAtATime
    WITH asked <- Len(ids), waiting <- Waiting, visible <- Visible

\* Messages are shown in order, once and one at a time, and none leaves the screen
\* that was not dismissed: neither a hiding nor a timer that comes late takes the
\* next message with it.
ShowsOneAtATime == Display!Spec

\* A message that waits is shown in the end, if the user dismisses those before it.
EveryMessageShown == \A n \in Messages : (n \in ToSet(queue)) ~> (n \in onScreen)

\* The success goes by itself, panned or not.
TransientLeaves ==
    \A n \in Messages :
        (n \in onScreen /\ ids[n] \in Transient) ~> (n \notin onScreen)
=============================================================================
