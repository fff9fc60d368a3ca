---------------------------- MODULE AlertsProofs ----------------------------
(***************************************************************************)
(* The queue of messages shows one message at a time, in order, and hides  *)
(* none that was not released, for any texts and any number of messages,   *)
(* taps and pans.                                                          *)
(*                                                                         *)
(* The argument: a message that waits in the queue is untouched; no block, *)
(* timer, animation or gesture knows it.  So whatever is scheduled for a   *)
(* message was scheduled when it was current, and finds it current or gone.*)
(***************************************************************************)
EXTENDS Alerts, SequenceTheorems, TLAPS

Distinct(q) == \A i, j \in DOMAIN q : q[i] = q[j] => i = j

Scheduled(n) == toHide[n] # 0 \/ leaving[n] # 0 \/ timers[n] # 0

\* What is under way for a message was started after it left the queue.
QueueIsFresh ==
    /\ Distinct(queue)
    /\ \A n \in ToSet(queue) : n \notin showing /\ n # panning
    /\ \A n \in Messages : Scheduled(n) => n \in DOMAIN ids \ ToSet(queue)

\* A message is first to be shown, then on the screen.
CurrentComes == toShow \subseteq {current} /\ toShow \cap onScreen = {}

\* Only a released message is hidden, and not before it was shown.
HidesReleased ==
    \A n \in Messages :
        /\ toHide[n] # 0 \/ leaving[n] # 0 => n \in released
        /\ leaving[n] # 0 => n \notin toShow

Inv == TypeOK /\ OnlyCurrent /\ QueueIsFresh /\ CurrentComes /\ HidesReleased

-----------------------------------------------------------------------------
(* Sequences without repetition *)

LEMMA AppendFacts ==
    ASSUME NEW S, NEW q \in Seq(S), NEW x \in S
    PROVE  /\ Append(q, x) \in Seq(S)
           /\ ToSet(Append(q, x)) = ToSet(q) \cup {x}
           /\ x \notin ToSet(q) /\ Distinct(q) => Distinct(Append(q, x))
<1> DEFINE r == Append(q, x)
<1>1. /\ r \in Seq(S) /\ Len(r) = Len(q) + 1 /\ r[Len(r)] = x
      /\ \A i \in 1 .. Len(q) : r[i] = q[i]
  BY AppendProperties
<1>2. DOMAIN q = 1 .. Len(q) /\ DOMAIN r = 1 .. Len(q) + 1 /\ Len(q) \in Nat
  BY <1>1, LenProperties
<1> HIDE DEF r
<1>3. ToSet(r) = ToSet(q) \cup {x}
  BY <1>1, <1>2 DEF ToSet
<1>4. ASSUME x \notin ToSet(q), Distinct(q) PROVE Distinct(r)
  <2> SUFFICES ASSUME NEW i \in 1 .. Len(q) + 1, NEW j \in 1 .. Len(q) + 1, r[i] = r[j]
               PROVE  i = j
    BY <1>2 DEF Distinct
  <2>1. CASE i \in 1 .. Len(q) /\ j \in 1 .. Len(q)
    BY <2>1, <1>1, <1>2, <1>4 DEF Distinct
  <2>2. CASE i \in 1 .. Len(q) /\ j = Len(q) + 1
    BY <2>2, <1>1, <1>2, <1>4 DEF ToSet
  <2>3. CASE i = Len(q) + 1 /\ j \in 1 .. Len(q)
    BY <2>3, <1>1, <1>2, <1>4 DEF ToSet
  <2> QED
    BY <2>1, <2>2, <2>3, <1>2
<1> QED
  BY <1>1, <1>3, <1>4 DEF r

LEMMA TailFacts ==
    ASSUME NEW S, NEW q \in Seq(S), q # <<>>
    PROVE  /\ Head(q) \in S /\ Tail(q) \in Seq(S)
           /\ Head(q) \in ToSet(q) /\ ToSet(Tail(q)) \subseteq ToSet(q)
           /\ ToSet(q) \subseteq S
           /\ Distinct(q) => Distinct(Tail(q)) /\ Head(q) \notin ToSet(Tail(q))
           /\ <<Head(q)>> \o Tail(q) = q
<1>1. /\ Len(q) \in Nat \ {0} /\ DOMAIN q = 1 .. Len(q)
      /\ Head(q) = q[1] /\ Tail(q) \in Seq(S) /\ Len(Tail(q)) = Len(q) - 1
      /\ \A i \in 1 .. Len(q) - 1 : Tail(q)[i] = q[i + 1]
  BY HeadTailProperties, EmptySeq, LenProperties
<1>2. DOMAIN Tail(q) = 1 .. Len(q) - 1
  BY <1>1, LenProperties
<1>3. Head(q) \in S /\ ToSet(q) \subseteq S
  BY <1>1, ElementOfSeq DEF ToSet
<1>4. Head(q) \in ToSet(q) /\ ToSet(Tail(q)) \subseteq ToSet(q)
  <2>1. \A i \in 1 .. Len(q) - 1 : i + 1 \in DOMAIN q /\ 1 \in DOMAIN q
    BY <1>1
  <2> QED
    BY <1>1, <1>2, <2>1 DEF ToSet
<1>5. ASSUME Distinct(q) PROVE Distinct(Tail(q)) /\ Head(q) \notin ToSet(Tail(q))
  <2>1. \A i \in 1 .. Len(q) - 1 : i + 1 \in DOMAIN q /\ i + 1 # 1 /\ 1 \in DOMAIN q
    BY <1>1
  <2>2. \A i, j \in 1 .. Len(q) - 1 : i + 1 = j + 1 => i = j
    BY <1>1
  <2> QED
    BY <1>1, <1>2, <1>5, <2>1, <2>2 DEF Distinct, ToSet
<1>6. <<Head(q)>> \o Tail(q) = q
  <2> DEFINE r == <<Head(q)>> \o Tail(q)
  <2>1. r \in Seq(S) /\ Len(r) = Len(q)
    BY <1>1, <1>3, ConcatProperties
  <2>2. \A i \in 1 .. Len(q) : r[i] = q[i]
    BY <1>1, <1>3, ConcatProperties
  <2> QED
    BY <2>1, <2>2, SeqEqual
<1> QED
  BY <1>1, <1>3, <1>4, <1>5, <1>6

-----------------------------------------------------------------------------
(* The next message *)

LEMMA IdsFacts ==
    ASSUME TypeOK
    PROVE  /\ Len(ids) \in Nat /\ DOMAIN ids = 1 .. Len(ids) /\ DOMAIN ids \subseteq Messages
           /\ None \notin Messages /\ None \notin DOMAIN ids
           /\ ToSet(queue) \subseteq DOMAIN ids
<1>1. Len(ids) \in Nat /\ DOMAIN ids = 1 .. Len(ids)
  BY LenProperties DEF TypeOK
<1>2. DOMAIN ids \subseteq Messages /\ None \notin Messages
  BY <1>1, AlertsAssumption DEF TypeOK, Messages
<1>3. ToSet(queue) \subseteq DOMAIN ids
  <2>1. \A i \in DOMAIN queue : queue[i] \in DOMAIN ids
    BY ElementOfSeq, LenProperties DEF TypeOK
  <2> QED
    BY <2>1 DEF ToSet
<1> QED
  BY <1>1, <1>2, <1>3

\* dequeueNext keeps the order of what is to be shown, and takes a message to the
\* screen only when there is none.
LEMMA DequeueKeeps ==
    ASSUME TypeOK, CurrentComes, OnlyCurrent,
           NEW S, NEW q \in Seq(S), None \notin S, Distinct(q), current \notin ToSet(q),
           DequeueNext(q), UNCHANGED onScreen
    PROVE  /\ queue' \in Seq(S) /\ ToSet(queue') \subseteq ToSet(q) /\ Distinct(queue')
           /\ ToSet(q) \subseteq S
           /\ current' \in (ToSet(q) \cup {current}) \ ToSet(queue')
           /\ token' \in {token} \cup S
           /\ toShow' \subseteq {current'} /\ toShow' \subseteq toShow \cup ToSet(q)
           /\ onScreen' \subseteq {current'} /\ toShow' \cap onScreen' = {}
           /\ Waiting' = IF current \in toShow THEN <<current>> \o q ELSE q
<1>1. ToSet(q) \subseteq S
  BY ElementOfSeq, LenProperties DEF ToSet
<1>2. CASE current = None /\ q # <<>>
  <2>1. current' = Head(q) /\ queue' = Tail(q) /\ token' = Head(q)
        /\ toShow' = toShow \cup {Head(q)}
    BY <1>2 DEF DequeueNext
  <2>2. toShow = {} /\ onScreen = {}
    BY <1>2, IdsFacts DEF TypeOK, CurrentComes, OnlyCurrent
  <2>3. Waiting' = q /\ current \notin toShow
    BY <1>2, <2>1, <2>2, TailFacts DEF Waiting
  <2>4. /\ Tail(q) \in Seq(S) /\ ToSet(Tail(q)) \subseteq ToSet(q) /\ Distinct(Tail(q))
        /\ Head(q) \in ToSet(q) \ ToSet(Tail(q))
    BY <1>2, TailFacts
  <2> QED
    BY <1>1, <2>1, <2>2, <2>3, <2>4
<1>3. CASE ~(current = None /\ q # <<>>)
  <2>1. queue' = q /\ UNCHANGED <<current, token, toShow>>
    BY <1>3 DEF DequeueNext
  <2> QED
    BY <1>1, <2>1 DEF CurrentComes, OnlyCurrent, Waiting
<1> QED
  BY <1>2, <1>3

-----------------------------------------------------------------------------
(* The invariant *)

LEMMA InvInit == Init => Inv
<1> SUFFICES ASSUME Init PROVE Inv
  OBVIOUS
<1>1. ToSet(queue) = {} /\ DOMAIN ids = {} /\ Distinct(queue) /\ ids \in Seq(Texts)
      /\ queue \in Seq(DOMAIN ids) /\ Len(ids) = 0
  BY EmptySeq DEF Init, ToSet, Distinct
<1>2. NoTasks \in [Messages -> Nat] /\ \A n \in Messages : NoTasks[n] = 0
  BY DEF NoTasks
<1>3. TypeOK
  BY <1>1, <1>2, AlertsAssumption DEF Init, TypeOK
<1> QED
  BY <1>1, <1>2, <1>3
     DEF Init, Inv, OnlyCurrent, QueueIsFresh, CurrentComes, HidesReleased, Scheduled

LEMMA AskKeeps ==
    ASSUME Inv, NEW id \in Texts, Ask(id)
    PROVE  Inv' /\ Waiting' = Append(Waiting, Len(ids) + 1)
<1> DEFINE new == Len(ids) + 1
           q   == Append(queue, new)
<1> USE DEF Inv
<1>1. /\ ids' \in Seq(Texts) /\ Len(ids') = new /\ new <= MaxMessages /\ new \in Nat
      /\ DOMAIN ids' = DOMAIN ids \cup {new} /\ new \notin DOMAIN ids
  <2>1. ids' = Append(ids, id) /\ Len(ids) < MaxMessages /\ ids \in Seq(Texts)
    BY DEF Ask, TypeOK
  <2>2. ids' \in Seq(Texts) /\ Len(ids') = new
    BY <2>1, AppendProperties
  <2> QED
    BY <2>1, <2>2, IdsFacts, LenProperties, AlertsAssumption
<1>2. /\ q \in Seq(DOMAIN ids') /\ ToSet(q) = ToSet(queue) \cup {new} /\ Distinct(q)
      /\ queue \in Seq(DOMAIN ids')
  <2>1. queue \in Seq(DOMAIN ids')
    BY <1>1, SeqMonotonic DEF TypeOK
  <2> QED
    BY <1>1, <2>1, AppendFacts, IdsFacts DEF QueueIsFresh
<1>3. DequeueNext(q) /\ UNCHANGED <<onScreen, showing, hides, pauses, timers, pan, released>>
  BY <1>1 DEF Ask
<1>4. None \notin DOMAIN ids' /\ current \notin ToSet(q)
  BY <1>1, <1>2, AlertsAssumption, IdsFacts DEF TypeOK
<1> HIDE DEF q, new
<1>5. /\ queue' \in Seq(DOMAIN ids') /\ ToSet(queue') \subseteq ToSet(q) /\ Distinct(queue')
      /\ ToSet(q) \subseteq DOMAIN ids'
      /\ current' \in (ToSet(q) \cup {current}) \ ToSet(queue')
      /\ token' \in {token} \cup DOMAIN ids'
      /\ toShow' \subseteq {current'} /\ toShow' \subseteq toShow \cup ToSet(q)
      /\ onScreen' \subseteq {current'} /\ toShow' \cap onScreen' = {}
      /\ Waiting' = IF current \in toShow THEN <<current>> \o q ELSE q
  BY <1>2, <1>3, <1>4, DequeueKeeps
<1>6. TypeOK'
  BY <1>1, <1>3, <1>5, SMTT(30) DEF TypeOK, hides, pan
<1>7. QueueIsFresh'
  <2>1. new \notin showing /\ new # panning
    BY <1>1, <1>4 DEF TypeOK
  <2>2. \A n \in ToSet(queue') : n \notin showing' /\ n # panning'
    BY <2>1, <1>2, <1>3, <1>5 DEF QueueIsFresh, pan
  <2>3. ASSUME NEW n \in Messages, Scheduled(n)' PROVE n \in DOMAIN ids' \ ToSet(queue')
    <3>1. Scheduled(n)
      BY <2>3, <1>3 DEF Scheduled, hides
    <3>2. n \in DOMAIN ids \ ToSet(queue)
      BY <3>1 DEF QueueIsFresh
    <3> QED
      BY <3>2, <1>1, <1>2, <1>5
  <2> QED
    BY <2>2, <2>3, <1>5 DEF QueueIsFresh
<1>8. HidesReleased'
  BY <1>1, <1>2, <1>3, <1>5 DEF HidesReleased, QueueIsFresh, Scheduled, hides
<1>9. OnlyCurrent' /\ CurrentComes'
  BY <1>5 DEF OnlyCurrent, CurrentComes
<1>10. Waiting' = Append(Waiting, new)
  <2>1. CASE current \in toShow
    <3>1. current \in Nat
      BY <2>1, IdsFacts DEF TypeOK
    <3>2. queue \in Seq(Nat)
      BY <1>2, <1>1, IdsFacts, SeqMonotonic DEF TypeOK
    <3>3. <<current>> \o Append(queue, new) = Append(<<current>> \o queue, new)
      BY <3>1, <3>2, <1>1
    <3> QED
      BY <2>1, <3>3, <1>5 DEF Waiting, q
  <2>2. CASE current \notin toShow
    BY <2>2, <1>5 DEF Waiting, q
  <2> QED
    BY <2>1, <2>2
<1> QED
  BY <1>6, <1>7, <1>8, <1>9, <1>10 DEF new

LEMMA PauseEndsKeeps ==
    ASSUME Inv, PauseEnds
    PROVE  Inv' /\ Waiting' = Waiting
<1> USE DEF Inv
<1>1. DequeueNext(queue) /\ UNCHANGED <<ids, onScreen, showing, hides, timers, pan, released>>
      /\ pauses' \in Nat
  BY DEF PauseEnds, TypeOK
<1>2. /\ queue' \in Seq(DOMAIN ids) /\ ToSet(queue') \subseteq ToSet(queue) /\ Distinct(queue')
      /\ current' \in (ToSet(queue) \cup {current}) \ ToSet(queue')
      /\ token' \in {token} \cup DOMAIN ids
      /\ toShow' \subseteq {current'} /\ toShow' \subseteq toShow \cup ToSet(queue)
      /\ onScreen' \subseteq {current'} /\ toShow' \cap onScreen' = {}
      /\ Waiting' = Waiting
  <2>1. queue \in Seq(DOMAIN ids) /\ Distinct(queue) /\ current \notin ToSet(queue)
        /\ None \notin DOMAIN ids /\ TypeOK /\ CurrentComes /\ OnlyCurrent /\ UNCHANGED onScreen
    BY <1>1, IdsFacts DEF TypeOK, QueueIsFresh
  <2>2. Waiting = IF current \in toShow THEN <<current>> \o queue ELSE queue
    BY DEF Waiting
  <2> QED
    BY <1>1, <2>1, <2>2, DequeueKeeps
<1>3. TypeOK'
  <2>1. ToSet(queue) \subseteq DOMAIN ids /\ ids' = ids
    BY <1>1, IdsFacts
  <2>2. /\ toHide' = toHide /\ leaving' = leaving /\ timers' = timers
        /\ onScreen' = onScreen /\ showing' = showing /\ hiding' = hiding /\ released' = released
        /\ panning' = panning /\ bounces' = bounces /\ pans' = pans
    BY <1>1 DEF hides, pan
  <2>3. /\ queue' \in Seq(DOMAIN ids') /\ token' \in DOMAIN ids' \cup {None}
        /\ current' \in (DOMAIN ids' \cup {None}) \ ToSet(queue')
    <3>1. token \in DOMAIN ids \cup {None} /\ current \in DOMAIN ids \cup {None}
      BY DEF TypeOK
    <3> QED
      BY <1>2, <2>1, <3>1
  <2>4. toShow' \subseteq DOMAIN ids'
    <3>1. toShow \subseteq DOMAIN ids
      BY DEF TypeOK
    <3> QED
      BY <1>2, <2>1, <3>1
  <2> QED
    BY <1>1, <2>1, <2>2, <2>3, <2>4, SMTT(30) DEF TypeOK
<1>4. QueueIsFresh' /\ HidesReleased'
  BY <1>1, <1>2 DEF HidesReleased, QueueIsFresh, Scheduled, hides, pan
<1> QED
  BY <1>2, <1>3, <1>4 DEF OnlyCurrent, CurrentComes

-----------------------------------------------------------------------------
(* Requests to hide a message *)

\* Whoever asks to hide the message n reaches n, if it is current, and nothing else.
Reaches(n) ==
    /\ UNCHANGED queue
    /\ \/ UNCHANGED toHide
       \/ n = current /\ toHide' = [toHide EXCEPT ![n] = @ + 1]

LEMMA InternalHideReaches ==
    ASSUME NEW n, n \notin ToSet(queue), InternalHide(n)
    PROVE  Reaches(n)
BY DEF InternalHide, HideCurrent, Reaches

LEMMA ReleaseKeeps ==
    ASSUME Inv, NEW n \in DOMAIN ids, Reaches(n), released' = released \cup {n},
           UNCHANGED <<ids, current, token, onScreen, toShow, leaving, hiding, pauses,
                       bounces, pans>>,
           showing' \subseteq showing, panning' \in {panning, None},
           timers' \in [Messages -> Nat],
           \A m \in Messages : timers'[m] # 0 => timers[m] # 0
    PROVE  Inv' /\ Waiting' = Waiting /\ Visible' = Visible
<1> USE DEF Inv
<1>1. n \in Messages /\ n # None
  BY IdsFacts
<1>2. Waiting' = Waiting /\ Visible' = Visible
  BY DEF Waiting, Visible, Reaches
<1>3. CASE UNCHANGED toHide
  <2>1. TypeOK'
    BY <1>3 DEF TypeOK, Reaches
  <2>2. QueueIsFresh'
    BY <1>3, IdsFacts DEF QueueIsFresh, Scheduled, Reaches
  <2>3. HidesReleased'
    BY <1>3 DEF HidesReleased
  <2> QED
    BY <1>2, <2>1, <2>2, <2>3 DEF OnlyCurrent, CurrentComes
<1>4. CASE n = current /\ toHide' = [toHide EXCEPT ![n] = @ + 1]
  <2>1. toHide' \in [Messages -> Nat] /\ \A m \in Messages : m # n => toHide'[m] = toHide[m]
    BY <1>1, <1>4 DEF TypeOK
  <2>2. TypeOK'
    BY <2>1 DEF TypeOK, Reaches
  <2>3. n \notin ToSet(queue)
    BY <1>4 DEF TypeOK
  <2>4. QueueIsFresh'
    <3>1. \A m \in ToSet(queue) : m \notin showing' /\ m # panning'
      BY IdsFacts DEF QueueIsFresh
    <3>2. ASSUME NEW m \in Messages, Scheduled(m)' PROVE m \in DOMAIN ids \ ToSet(queue)
      <4>1. m = n \/ Scheduled(m)
        BY <2>1, <3>2 DEF Scheduled
      <4> QED
        BY <4>1, <2>3 DEF QueueIsFresh
    <3> QED
      BY <3>1, <3>2 DEF QueueIsFresh, Reaches
  <2>5. HidesReleased'
    BY <2>1 DEF HidesReleased
  <2> QED
    BY <1>2, <2>2, <2>4, <2>5 DEF OnlyCurrent, CurrentComes
<1> QED
  BY <1>3, <1>4 DEF Reaches

\* The actions that ask: each releases the message that it hides.
Requests(n) == Tap(n) \/ ShowCut(n) \/ TimeOut(n) \/ (n = panning /\ PanAway)

LEMMA RequestKeeps ==
    ASSUME Inv, NEW n \in Messages, Requests(n)
    PROVE  /\ Inv' /\ Waiting' = Waiting /\ Visible' = Visible
           /\ UNCHANGED ids /\ released' \in {released, released \cup {n}}
           /\ n \in DOMAIN ids
<1> USE DEF Inv
<1>1. CASE Tap(n)
  <2>1. n = current /\ n \in DOMAIN ids /\ n \notin ToSet(queue)
    BY <1>1 DEF Tap, OnlyCurrent, TypeOK
  <2>2. Reaches(n)
    BY <1>1, <2>1, InternalHideReaches DEF Tap, HideCurrent, Reaches
  <2>3. UNCHANGED <<ids, current, token, showing, onScreen, toShow, leaving, hiding, pauses, timers,
                    panning, bounces, pans>> /\ released' = released \cup {n}
    BY <1>1 DEF Tap, shown, pan
  <2> QED
    BY <2>1, <2>2, <2>3, ReleaseKeeps DEF TypeOK
<1>2. CASE ShowCut(n)
  <2>1. n \in DOMAIN ids /\ n \notin ToSet(queue)
    BY <1>2 DEF ShowCut, QueueIsFresh, TypeOK
  <2>2. Reaches(n)
    BY <1>2, <2>1, InternalHideReaches DEF ShowCut
  <2>3. UNCHANGED <<ids, current, token, onScreen, toShow, leaving, hiding, pauses, timers, panning,
                    bounces, pans>> /\ released' = released \cup {n} /\ showing' \subseteq showing
    BY <1>2 DEF ShowCut, pan
  <2> QED
    BY <2>1, <2>2, <2>3, ReleaseKeeps DEF TypeOK
<1>3. CASE TimeOut(n)
  <2>1. n \in DOMAIN ids /\ n \notin ToSet(queue)
    BY <1>3 DEF TimeOut, QueueIsFresh, Scheduled, TypeOK
  <2>2. UNCHANGED <<ids, current, token, showing, onScreen, toShow, leaving, hiding, pauses,
                    panning, bounces, pans>> /\ timers' = [timers EXCEPT ![n] = @ - 1]
        /\ timers[n] > 0
    BY <1>3 DEF TimeOut, shown, pan
  <2>3. timers' \in [Messages -> Nat] /\ \A m \in Messages : timers'[m] # 0 => timers[m] # 0
    BY <2>2, SMTT(30) DEF TypeOK
  <2>4. CASE token = n
    BY <1>3, <2>1, <2>2, <2>3, <2>4, InternalHideReaches, ReleaseKeeps DEF TimeOut
  <2>5. CASE token # n
    <3>1. UNCHANGED <<queue, toHide, released>>
      BY <1>3, <2>5 DEF TimeOut
    <3>2. TypeOK'
      BY <2>2, <2>3, <3>1 DEF TypeOK
    <3>3. QueueIsFresh'
      BY <2>2, <2>3, <3>1 DEF QueueIsFresh, Scheduled
    <3> QED
      BY <2>1, <2>2, <3>1, <3>2, <3>3
         DEF OnlyCurrent, CurrentComes, HidesReleased, Waiting, Visible
  <2> QED
    BY <2>4, <2>5
<1>4. CASE n = panning /\ PanAway
  <2>1. n \in DOMAIN ids /\ n \notin ToSet(queue)
    BY <1>4 DEF PanAway, QueueIsFresh, TypeOK
  <2>2. Reaches(n)
    BY <1>4, <2>1, InternalHideReaches DEF PanAway
  <2>3. UNCHANGED <<ids, current, token, onScreen, toShow, showing, leaving, hiding, pauses, timers,
                    bounces, pans>> /\ released' = released \cup {n} /\ panning' = None
    BY <1>4 DEF PanAway, shown
  <2> QED
    BY <2>1, <2>2, <2>3, ReleaseKeeps DEF TypeOK
<1> QED
  BY <1>1, <1>2, <1>3, <1>4 DEF Requests

-----------------------------------------------------------------------------
(* The other actions *)

LEMMA ShowKeeps ==
    ASSUME Inv, NEW n \in Messages, Show(n)
    PROVE  /\ Inv'
           /\ Visible = None /\ Visible' = n
           /\ Waiting = <<n>> \o queue /\ Waiting' = queue
<1> USE DEF Inv
<1>1. /\ n = current /\ n \in DOMAIN ids /\ n # None /\ onScreen = {} /\ n \notin ToSet(queue)
  BY IdsFacts DEF Show, CurrentComes, OnlyCurrent, TypeOK
<1>2. /\ toShow' = {} /\ onScreen' = {n} /\ showing' = showing \cup {n}
      /\ UNCHANGED <<ids, queue, current, token, hides, pauses, timers, pan, released>>
  BY <1>1 DEF Show, CurrentComes
<1>3. TypeOK'
  BY <1>1, <1>2 DEF TypeOK, hides, pan
<1>4. QueueIsFresh'
  BY <1>1, <1>2 DEF QueueIsFresh, Scheduled, hides, pan
<1>5. HidesReleased' /\ OnlyCurrent' /\ CurrentComes'
  BY <1>1, <1>2 DEF HidesReleased, OnlyCurrent, CurrentComes, hides
<1>6. Visible = None /\ Visible' = n
  BY <1>1, <1>2 DEF Visible
<1>7. Waiting = <<n>> \o queue /\ Waiting' = queue
  BY <1>1, <1>2 DEF Waiting, Show
<1> QED
  BY <1>3, <1>4, <1>5, <1>6, <1>7

LEMMA AutoHideKeeps ==
    ASSUME Inv, QueueAutoHide
    PROVE  /\ token' \in DOMAIN ids \cup {None}
           /\ timers' \in [Messages -> Nat]
           /\ \A n \in Messages : timers'[n] # 0 => timers[n] # 0 \/ n = current
BY IdsFacts DEF Inv, QueueAutoHide, TypeOK

LEMMA CountingKeeps ==
    ASSUME Inv, PanEnded \/ \E n \in Messages : ShowCompleted(n)
    PROVE  /\ Inv' /\ Waiting' = Waiting /\ Visible' = Visible /\ UNCHANGED <<ids, released>>
<1> USE DEF Inv
<1>1. /\ UNCHANGED <<ids, queue, current, onScreen, toShow, hides, pauses, panning, pans, released>>
      /\ showing' \subseteq showing /\ bounces' \in Nat
      /\ QueueAutoHide \/ UNCHANGED <<token, timers>>
  BY DEF ShowCompleted, PanEnded, shown, pan, TypeOK
<1>2. /\ token' \in DOMAIN ids \cup {None}
      /\ timers' \in [Messages -> Nat]
      /\ \A m \in Messages : timers'[m] # 0 => timers[m] # 0 \/ m = current
  BY <1>1, AutoHideKeeps DEF TypeOK
<1>3. TypeOK'
  BY <1>1, <1>2 DEF TypeOK, hides
<1>4. \A m \in Messages : m = current => m \in DOMAIN ids \ ToSet(queue)
  BY IdsFacts DEF TypeOK
<1>5. QueueIsFresh'
  BY <1>1, <1>2, <1>4 DEF QueueIsFresh, Scheduled, hides
<1>6. HidesReleased' /\ OnlyCurrent' /\ CurrentComes' /\ Waiting' = Waiting /\ Visible' = Visible
  BY <1>1 DEF HidesReleased, OnlyCurrent, CurrentComes, Waiting, Visible, hides
<1> QED
  BY <1>1, <1>3, <1>5, <1>6

LEMMA HideStartsKeeps ==
    ASSUME Inv, NEW n \in Messages, HideStarts(n)
    PROVE  /\ Inv' /\ Waiting' = Waiting /\ Visible' = Visible /\ UNCHANGED <<ids, released>>
<1> USE DEF Inv
<1>1. /\ UNCHANGED <<ids, queue, current, token, shown, pauses, timers, pan, released>>
      /\ toHide[n] # 0 /\ n \notin toShow /\ n \in released /\ hiding' = hiding \cup {n}
      /\ n \in DOMAIN ids \ ToSet(queue)
  BY DEF HideStarts, HidesReleased, QueueIsFresh, Scheduled, TypeOK
<1>2. /\ toHide' \in [Messages -> Nat] /\ leaving' \in [Messages -> Nat]
      /\ \A m \in Messages : m # n => toHide'[m] = toHide[m] /\ leaving'[m] = leaving[m]
  BY SMTT(30) DEF HideStarts, TypeOK
<1>3. TypeOK'
  BY <1>1, <1>2 DEF TypeOK, shown, pan
<1>4. QueueIsFresh'
  BY <1>1, <1>2 DEF QueueIsFresh, Scheduled, shown, pan
<1>5. HidesReleased'
  BY <1>1, <1>2 DEF HidesReleased, shown
<1>6. OnlyCurrent' /\ CurrentComes' /\ Waiting' = Waiting /\ Visible' = Visible
  BY <1>1 DEF OnlyCurrent, CurrentComes, Waiting, Visible, shown
<1> QED
  BY <1>1, <1>3, <1>4, <1>5, <1>6

LEMMA HideEndsKeeps ==
    ASSUME Inv, NEW n \in Messages, HideEnds(n)
    PROVE  /\ Inv' /\ Waiting' = Waiting /\ UNCHANGED <<ids, released>>
           /\ Visible' = Visible \/ (Visible \in released /\ Visible' = None)
<1> USE DEF Inv
<1>1. /\ UNCHANGED <<ids, queue, token, toShow, showing, toHide, hiding, timers, pan, released>>
      /\ leaving[n] # 0 /\ n \notin toShow /\ n \in released
      /\ onScreen' = onScreen \ {n}
  BY DEF HideEnds, HidesReleased, TypeOK
<1>2. /\ leaving' \in [Messages -> Nat]
      /\ \A m \in Messages : leaving'[m] # 0 => leaving[m] # 0
  BY DEF HideEnds, TypeOK
<1>3. /\ pauses' \in Nat
      /\ current' = IF current = n THEN None ELSE current
      /\ None \notin toShow /\ None \notin ToSet(queue)
  <2>1. IF current = n THEN current' = None /\ pauses' = pauses + 1
        ELSE current' = current /\ pauses' = pauses
    BY DEF HideEnds
  <2>2. None \notin toShow /\ None \notin ToSet(queue) /\ pauses \in Nat
    BY IdsFacts DEF TypeOK
  <2> QED
    BY <2>1, <2>2
<1>4. TypeOK'
  BY <1>1, <1>2, <1>3, IdsFacts DEF TypeOK, pan
<1>5. QueueIsFresh'
  BY <1>1, <1>2 DEF QueueIsFresh, Scheduled, pan
<1>6. HidesReleased' /\ OnlyCurrent' /\ CurrentComes'
  BY <1>1, <1>2, <1>3 DEF HidesReleased, OnlyCurrent, CurrentComes
<1>7. Waiting' = Waiting
  BY <1>1, <1>3 DEF Waiting, CurrentComes
<1>8. Visible' = Visible \/ (Visible \in released /\ Visible' = None)
  <2>1. CASE onScreen = {n}
    BY <1>1, <2>1 DEF Visible
  <2>2. CASE onScreen # {n}
    <3>1. n \notin onScreen
      BY <2>2 DEF OnlyCurrent
    <3> QED
      BY <3>1, <1>1 DEF Visible
  <2> QED
    BY <2>1, <2>2
<1> QED
  BY <1>1, <1>4, <1>5, <1>6, <1>7, <1>8

LEMMA PanKeeps ==
    ASSUME Inv, NEW n \in Messages, PanStart(n) \/ PanBack
    PROVE  /\ Inv' /\ Waiting' = Waiting /\ Visible' = Visible /\ UNCHANGED <<ids, released>>
<1> USE DEF Inv
<1>1. /\ UNCHANGED <<ids, queue, current, shown, hides, pauses, timers, released>>
      /\ token' \in {token, None} /\ bounces' \in Nat /\ pans' \in 0 .. MaxPans
      /\ panning' \in {None} \cup (DOMAIN ids \ ToSet(queue))
  <2>1. CASE PanStart(n)
    <3>1. n \in DOMAIN ids \ ToSet(queue)
      BY <2>1 DEF PanStart, OnlyCurrent, TypeOK
    <3> QED
      BY <2>1, <3>1, AlertsAssumption DEF PanStart, TypeOK
  <2>2. CASE PanBack
    BY <2>2 DEF PanBack, TypeOK
  <2> QED
    BY <2>1, <2>2
<1>2. TypeOK'
  BY <1>1 DEF TypeOK, shown, hides
<1>3. QueueIsFresh'
  BY <1>1, IdsFacts DEF QueueIsFresh, Scheduled, shown, hides
<1>4. HidesReleased' /\ OnlyCurrent' /\ CurrentComes' /\ Waiting' = Waiting /\ Visible' = Visible
  BY <1>1 DEF HidesReleased, OnlyCurrent, CurrentComes, Waiting, Visible, shown, hides
<1> QED
  BY <1>1, <1>2, <1>3, <1>4

LEMMA StutterKeeps ==
    ASSUME Inv, UNCHANGED vars
    PROVE  /\ Inv' /\ Waiting' = Waiting /\ Visible' = Visible /\ UNCHANGED <<ids, released>>
BY DEF Inv, vars, shown, hides, pan, TypeOK, OnlyCurrent, QueueIsFresh, Scheduled, CurrentComes,
       HidesReleased, Waiting, Visible

-----------------------------------------------------------------------------
(* Every step, seen from the screen *)

LEMMA NextCases ==
    ASSUME Inv, Next
    PROVE  \/ \E id \in Texts : Ask(id)
           \/ PauseEnds
           \/ PanEnded \/ \E n \in Messages : ShowCompleted(n)
           \/ \E n \in Messages : \/ Requests(n) \/ Show(n) \/ HideStarts(n) \/ HideEnds(n)
                                  \/ PanStart(n) \/ PanBack
<1>1. ASSUME PanAway PROVE panning \in Messages /\ Requests(panning)
  BY <1>1, IdsFacts DEF PanAway, Requests, Inv, TypeOK
<1>2. ASSUME PanBack PROVE panning \in Messages
  BY <1>2, IdsFacts DEF PanBack, Inv, TypeOK
<1>3. CASE \E n \in Messages : \/ Show(n) \/ ShowCompleted(n) \/ ShowCut(n)
                              \/ Tap(n) \/ HideStarts(n) \/ HideEnds(n) \/ TimeOut(n) \/ PanStart(n)
  <2> PICK n \in Messages : \/ Show(n) \/ ShowCompleted(n) \/ ShowCut(n)
                            \/ Tap(n) \/ HideStarts(n) \/ HideEnds(n) \/ TimeOut(n) \/ PanStart(n)
    BY <1>3
  <2>1. Requests(n) \/ Show(n) \/ ShowCompleted(n) \/ HideStarts(n) \/ HideEnds(n) \/ PanStart(n)
    BY DEF Requests
  <2> QED
    BY <2>1
<1> QED
  BY <1>1, <1>2, <1>3 DEF Next

\* A step asks, shows, releases, takes away, or is not seen.
DisplayStep ==
    \/ Len(ids') = Len(ids) + 1 /\ Waiting' = Append(Waiting, Len(ids) + 1)
       /\ UNCHANGED <<Visible, released>>
    \/ UNCHANGED ids /\ UNCHANGED released
       /\ Visible = None /\ Waiting # <<>>
       /\ Visible' = Head(Waiting) /\ Waiting' = Tail(Waiting)
    \/ \E n \in 1 .. Len(ids) :
          UNCHANGED ids /\ UNCHANGED <<Waiting, Visible>> /\ released' = released \cup {n}
    \/ UNCHANGED ids /\ UNCHANGED <<Waiting, released>> /\ Visible \in released /\ Visible' = None
    \/ UNCHANGED <<ids, Waiting, Visible, released>>

LEMMA StepIsSeen ==
    ASSUME Inv, [Next]_vars
    PROVE  Inv' /\ DisplayStep
<1>1. CASE UNCHANGED vars
  BY <1>1, StutterKeeps DEF DisplayStep
<1>2. CASE \E id \in Texts : Ask(id)
  <2> PICK id \in Texts : Ask(id)
    BY <1>2
  <2>1. Inv' /\ Waiting' = Append(Waiting, Len(ids) + 1)
    BY AskKeeps
  <2>2. Len(ids') = Len(ids) + 1 /\ UNCHANGED <<onScreen, released>>
    BY AppendProperties DEF Ask, Inv, TypeOK
  <2>3. UNCHANGED Visible
    BY <2>2 DEF Visible
  <2> QED
    BY <2>1, <2>2, <2>3 DEF DisplayStep
<1>3. CASE PauseEnds
  <2>1. UNCHANGED <<ids, onScreen, released>>
    BY <1>3 DEF PauseEnds
  <2>2. UNCHANGED Visible
    BY <2>1 DEF Visible
  <2> QED
    BY <1>3, <2>1, <2>2, PauseEndsKeeps DEF DisplayStep
<1>4. CASE PanEnded \/ \E n \in Messages : ShowCompleted(n)
  BY <1>4, CountingKeeps DEF DisplayStep
<1>5. ASSUME NEW n \in Messages, Requests(n) PROVE Inv' /\ DisplayStep
  <2>1. /\ Inv' /\ Waiting' = Waiting /\ Visible' = Visible
        /\ UNCHANGED ids /\ released' \in {released, released \cup {n}}
        /\ n \in DOMAIN ids
    BY <1>5, RequestKeeps
  <2>2. n \in 1 .. Len(ids)
    BY <2>1, IdsFacts DEF Inv
  <2> QED
    BY <2>1, <2>2 DEF DisplayStep
<1>6. ASSUME NEW n \in Messages, Show(n) PROVE Inv' /\ DisplayStep
  <2>1. /\ Inv' /\ Visible = None /\ Visible' = n
        /\ Waiting = <<n>> \o queue /\ Waiting' = queue
    BY <1>6, ShowKeeps
  <2>2. queue \in Seq(Messages)
    BY IdsFacts, SeqMonotonic DEF Inv, TypeOK
  <2>3. Waiting # <<>> /\ Head(Waiting) = n /\ Tail(Waiting) = queue
    BY <2>1, <2>2
  <2>4. UNCHANGED <<ids, released>>
    BY <1>6 DEF Show
  <2> QED
    BY <2>1, <2>3, <2>4 DEF DisplayStep
<1>7. ASSUME NEW n \in Messages, HideStarts(n) PROVE Inv' /\ DisplayStep
  BY <1>7, HideStartsKeeps DEF DisplayStep
<1>8. ASSUME NEW n \in Messages, HideEnds(n) PROVE Inv' /\ DisplayStep
  BY <1>8, HideEndsKeeps DEF DisplayStep
<1>9. ASSUME NEW n \in Messages, PanStart(n) \/ PanBack PROVE Inv' /\ DisplayStep
  BY <1>9, PanKeeps DEF DisplayStep
<1> QED
  BY <1>1, <1>2, <1>3, <1>4, <1>5, <1>6, <1>7, <1>8, <1>9, NextCases

LEMMA InvHolds == Spec => []Inv
<1>1. Inv /\ [Next]_vars => Inv'
  BY StepIsSeen
<1> QED
  BY InvInit, <1>1, PTL DEF Spec

-----------------------------------------------------------------------------
(* What is always to come: the safety half of the liveness of the queue *)

\* A message that hides has been shown, and stays on the screen only as long as an
\* animation that takes it away runs.
HidingIsOver ==
    /\ hiding \cap (toShow \cup ToSet(queue)) = {}
    /\ \A n \in onScreen : n \in hiding => leaving[n] > 0

\* Nothing touches the token of a message that is not on the screen yet.
ComesWithToken == \A n \in toShow : token = n

TimeInv == NeverStuck /\ TransientIsTimed /\ HidingIsOver /\ ComesWithToken

LEMMA TimeInit == Init => TimeInv
BY DEF Init, TimeInv, NeverStuck, TransientIsTimed, HidingIsOver, ComesWithToken, ToSet

LEMMA CountFacts ==
    ASSUME NEW f \in [Messages -> Nat], NEW n \in Messages
    PROVE  /\ f[n] \in Nat
           /\ [f EXCEPT ![n] = @ + 1][n] > 0
           /\ \A m \in Messages : m # n => [f EXCEPT ![n] = @ + 1][m] = f[m]
           /\ \A m \in Messages : m # n => [f EXCEPT ![n] = @ - 1][m] = f[m]
OBVIOUS

\* What the queue brings to the screen next comes with its token.
LEMMA DequeueTimes ==
    ASSUME Inv, TimeInv, NEW S, NEW q \in Seq(S), DequeueNext(q),
           ToSet(q) \cap hiding = {}, None \notin S,
           current = None => onScreen = {},
           UNCHANGED <<onScreen, hiding>>
    PROVE  /\ queue' # <<>> => current' # None
           /\ current' # None => current' \in toShow' \cup onScreen'
           /\ hiding \cap (toShow' \cup ToSet(queue')) = {}
           /\ ComesWithToken'
           /\ onScreen # {} => UNCHANGED token
<1>1. CASE current = None /\ q # <<>>
  <2>1. /\ current' = Head(q) /\ queue' = Tail(q) /\ token' = Head(q)
        /\ toShow' = toShow \cup {Head(q)}
    BY <1>1 DEF DequeueNext
  <2>2. Head(q) \in S /\ Head(q) \in ToSet(q) /\ ToSet(Tail(q)) \subseteq ToSet(q)
    BY <1>1, TailFacts
  <2>3. toShow = {}
    BY <1>1, IdsFacts DEF Inv, TypeOK, CurrentComes
  <2> QED
    BY <1>1, <2>1, <2>2, <2>3 DEF ComesWithToken
<1>2. CASE ~(current = None /\ q # <<>>)
  <2>1. queue' = q /\ UNCHANGED <<current, token, toShow>>
    BY <1>2 DEF DequeueNext
  <2> QED
    BY <1>2, <2>1 DEF TimeInv, NeverStuck, HidingIsOver, ComesWithToken
<1> QED
  BY <1>1, <1>2

LEMMA AskTimes ==
    ASSUME Inv, TimeInv, NEW id \in Texts, Ask(id)
    PROVE  TimeInv'
<1> DEFINE new == Len(ids) + 1
           q == Append(queue, new)
<1>1. /\ Len(ids) \in Nat /\ DOMAIN ids = 1 .. Len(ids) /\ DOMAIN ids \subseteq Nat
      /\ ids' = Append(ids, id) /\ Len(ids') = new /\ DOMAIN ids' = 1 .. new
      /\ \A n \in DOMAIN ids : ids'[n] = ids[n]
  <2>1. /\ ids \in Seq(Texts) /\ ids' = Append(ids, id)
        /\ Len(ids) \in Nat /\ DOMAIN ids = 1 .. Len(ids)
    BY IdsFacts DEF Ask, Inv, TypeOK
  <2>2. /\ ids' \in Seq(Texts) /\ Len(ids') = new
        /\ \A n \in 1 .. Len(ids) : ids'[n] = ids[n]
    BY <2>1, AppendProperties
  <2>3. DOMAIN ids' = 1 .. new
    BY <2>2, LenProperties
  <2> QED
    BY <2>1, <2>2, <2>3
<1>2. q \in Seq(Nat) /\ ToSet(q) = ToSet(queue) \cup {new}
  <2>1. queue \in Seq(Nat)
    BY <1>1, SeqMonotonic DEF Inv, TypeOK
  <2> QED
    BY <2>1, <1>1, AppendFacts
<1>3. DequeueNext(q) /\ UNCHANGED <<onScreen, showing, hides, pauses, timers, pan, released>>
  BY <1>1 DEF Ask
<1>4. hiding \subseteq DOMAIN ids /\ onScreen \subseteq DOMAIN ids /\ None \notin Nat
      /\ (current = None => onScreen = {})
  BY AlertsAssumption, IdsFacts DEF Inv, TypeOK, OnlyCurrent
<1>5. ToSet(q) \cap hiding = {}
  BY <1>1, <1>2, <1>4 DEF TimeInv, HidingIsOver
<1> HIDE DEF q, new
<1>6. /\ queue' # <<>> => current' # None
      /\ current' # None => current' \in toShow' \cup onScreen'
      /\ hiding \cap (toShow' \cup ToSet(queue')) = {}
      /\ ComesWithToken'
      /\ onScreen # {} => UNCHANGED token
  BY <1>2, <1>3, <1>4, <1>5, DequeueTimes DEF hides
<1>7. NeverStuck' /\ HidingIsOver'
  BY <1>3, <1>6 DEF NeverStuck, HidingIsOver, hides, TimeInv
<1>8. TransientIsTimed'
  <2>1. UNCHANGED <<onScreen, showing, toHide, leaving, timers, panning, bounces>>
    BY <1>3 DEF hides, pan
  <2>2. onScreen # {} => UNCHANGED token
    BY <1>6
  <2>3. \A n \in onScreen : ids'[n] = ids[n]
    BY <1>1, <1>4
  <2> QED
    BY <2>1, <2>2, <2>3 DEF TransientIsTimed, TimeInv
<1> QED
  BY <1>6, <1>7, <1>8 DEF TimeInv

LEMMA PauseEndsTimes ==
    ASSUME Inv, TimeInv, PauseEnds
    PROVE  TimeInv'
<1>1. DequeueNext(queue) /\ UNCHANGED <<ids, onScreen, showing, hides, timers, pan, released>>
  BY DEF PauseEnds
<1>2. /\ queue \in Seq(DOMAIN ids) /\ None \notin DOMAIN ids
      /\ (current = None => onScreen = {})
      /\ ToSet(queue) \cap hiding = {}
  BY IdsFacts DEF Inv, TypeOK, OnlyCurrent, TimeInv, HidingIsOver
<1>3. /\ queue' # <<>> => current' # None
      /\ current' # None => current' \in toShow' \cup onScreen'
      /\ hiding \cap (toShow' \cup ToSet(queue')) = {}
      /\ ComesWithToken'
      /\ onScreen # {} => UNCHANGED token
  BY <1>1, <1>2, DequeueTimes DEF hides
<1> QED
  BY <1>1, <1>3 DEF TimeInv, NeverStuck, TransientIsTimed, HidingIsOver, hides, pan

\* Whoever asks to hide the message on the screen leaves a task that does, or finds
\* one that is under way.
LEMMA RequestTimes ==
    ASSUME Inv, TimeInv, NEW n \in Messages, Requests(n)
    PROVE  TimeInv'
<1> USE DEF Inv
<1>1. n \in DOMAIN ids /\ n # None /\ toHide \in [Messages -> Nat] /\ timers \in [Messages -> Nat]
      /\ onScreen \subseteq DOMAIN ids /\ DOMAIN ids \subseteq Messages
  BY RequestKeeps, IdsFacts DEF TypeOK
<1>2. n \notin ToSet(queue)
  <2>1. CASE Tap(n)
    BY <2>1 DEF Tap, OnlyCurrent, TypeOK
  <2>2. CASE ShowCut(n)
    BY <2>2 DEF ShowCut, QueueIsFresh
  <2>3. CASE TimeOut(n)
    BY <2>3, <1>1 DEF TimeOut, QueueIsFresh, Scheduled
  <2>4. CASE n = panning /\ PanAway
    BY <2>4 DEF PanAway, QueueIsFresh
  <2> QED
    BY <2>1, <2>2, <2>3, <2>4 DEF Requests
<1>3. UNCHANGED <<ids, queue, current, token, onScreen, toShow, leaving, hiding, pauses, bounces>>
  <2>1. CASE Tap(n)
    BY <2>1, <1>2, InternalHideReaches DEF Tap, Reaches, shown, pan
  <2>2. CASE ShowCut(n)
    BY <2>2, <1>2, InternalHideReaches DEF ShowCut, Reaches, pan
  <2>3. CASE TimeOut(n)
    BY <2>3, <1>2, InternalHideReaches DEF TimeOut, Reaches, shown, pan
  <2>4. CASE n = panning /\ PanAway
    BY <2>4, <1>2, InternalHideReaches DEF PanAway, Reaches, shown
  <2> QED
    BY <2>1, <2>2, <2>3, <2>4 DEF Requests
<1>4. ASSUME HideCurrent \/ InternalHide(n), n \in onScreen
      PROVE  n \in hiding \/ toHide'[n] > 0
  <2>1. n = current
    BY <1>4 DEF OnlyCurrent
  <2>2. HideCurrent
    BY <1>4, <2>1 DEF InternalHide
  <2> QED
    BY <1>1, <2>1, <2>2, CountFacts DEF HideCurrent
<1>5. ASSUME NEW m \in onScreen, m # n
      PROVE  toHide'[m] = toHide[m] /\ timers'[m] = timers[m]
  <2>1. m = current
    BY <1>5 DEF OnlyCurrent
  <2>2. m \in Messages /\ current # n
    BY <1>1, <1>5, <2>1
  <2>3. CASE Tap(n)
    BY <2>3, <2>2 DEF Tap, OnlyCurrent
  <2>4. CASE ShowCut(n)
    BY <2>4, <2>2 DEF ShowCut, InternalHide
  <2>5. CASE TimeOut(n)
    BY <2>5, <2>2, <1>1, <1>5, CountFacts DEF TimeOut, InternalHide
  <2>6. CASE n = panning /\ PanAway
    BY <2>6, <2>2 DEF PanAway, InternalHide
  <2> QED
    BY <2>3, <2>4, <2>5, <2>6 DEF Requests
<1>6. ASSUME NEW m \in onScreen, m # n, ids[m] \in Transient
      PROVE  \/ toHide'[m] > 0 \/ leaving'[m] > 0
             \/ token' = m /\ (m \in showing' \/ timers'[m] > 0)
             \/ panning' = m \/ bounces' > 0
  <2>1. (m \in showing => m \in showing') /\ (panning = m => panning' = m)
    BY <1>6 DEF Requests, Tap, ShowCut, TimeOut, PanAway, shown, pan
  <2> QED
    BY <1>3, <1>5, <1>6, <2>1 DEF TimeInv, TransientIsTimed
<1>7. ASSUME n \in onScreen, ids[n] \in Transient
      PROVE  \/ toHide'[n] > 0 \/ leaving'[n] > 0
             \/ token' = n /\ (n \in showing' \/ timers'[n] > 0)
             \/ panning' = n \/ bounces' > 0
  <2>1. CASE HideCurrent \/ InternalHide(n)
    BY <1>3, <1>4, <1>7, <2>1 DEF TimeInv, HidingIsOver
  <2>2. CASE ~(HideCurrent \/ InternalHide(n))
    <3>1. TimeOut(n) /\ token # n
      BY <2>2 DEF Requests, Tap, ShowCut, TimeOut, PanAway
    <3>2. UNCHANGED <<toHide, showing, panning>>
      BY <3>1 DEF TimeOut, shown, pan
    <3> QED
      BY <1>3, <1>7, <3>1, <3>2 DEF TimeInv, TransientIsTimed
  <2> QED
    BY <2>1, <2>2
<1>8. TransientIsTimed'
  BY <1>3, <1>6, <1>7 DEF TransientIsTimed
<1> QED
  BY <1>3, <1>8 DEF TimeInv, NeverStuck, HidingIsOver, ComesWithToken

LEMMA ShowTimes ==
    ASSUME Inv, TimeInv, NEW n \in Messages, Show(n)
    PROVE  TimeInv'
<1>1. n = current /\ onScreen = {} /\ token = n /\ n \notin hiding
  BY IdsFacts DEF Show, Inv, CurrentComes, OnlyCurrent, TimeInv, ComesWithToken, HidingIsOver
<1>2. /\ toShow' = {} /\ onScreen' = {n} /\ showing' = showing \cup {n}
      /\ UNCHANGED <<ids, queue, current, token, hides, pauses, timers, pan, released>>
  BY <1>1 DEF Show, Inv, CurrentComes
<1> QED
  BY <1>1, <1>2 DEF TimeInv, NeverStuck, TransientIsTimed, HidingIsOver, ComesWithToken, hides

LEMMA CountingTimes ==
    ASSUME Inv, TimeInv, PanEnded \/ \E n \in Messages : ShowCompleted(n)
    PROVE  TimeInv'
<1>1. UNCHANGED <<ids, queue, current, onScreen, toShow, hides, pauses, panning>>
  BY DEF ShowCompleted, PanEnded, shown, pan
<1>2. /\ timers \in [Messages -> Nat] /\ DOMAIN ids \subseteq Messages
      /\ onScreen \subseteq {current} /\ toShow \subseteq {current} /\ None \notin DOMAIN ids
      /\ current \in DOMAIN ids \cup {None} /\ onScreen \subseteq DOMAIN ids
      /\ toShow \subseteq DOMAIN ids
  BY IdsFacts DEF Inv, TypeOK, OnlyCurrent, CurrentComes
<1>3. ASSUME QueueAutoHide
      PROVE  /\ \A n \in onScreen \cup toShow : token' = n
             /\ \A n \in onScreen : ids[n] \in Transient => timers'[n] > 0
  <2>1. CASE current = None
    BY <1>2, <2>1
  <2>2. CASE current # None
    <3>1. current \in Messages
      BY <1>2, <2>2
    <3> QED
      BY <1>2, <1>3, <2>2, <3>1, CountFacts DEF QueueAutoHide
  <2> QED
    BY <2>1, <2>2
<1>4. ComesWithToken' /\ TransientIsTimed'
  <2>1. CASE PanEnded
    BY <2>1, <1>1, <1>3 DEF PanEnded, ComesWithToken, TransientIsTimed
  <2>2. ASSUME NEW n \in Messages, ShowCompleted(n)
        PROVE  ComesWithToken' /\ TransientIsTimed'
    <3>1. CASE token = n
      BY <2>2, <3>1, <1>1, <1>3 DEF ShowCompleted, ComesWithToken, TransientIsTimed
    <3>2. CASE token # n
      <4>1. UNCHANGED <<token, timers, bounces>> /\ showing' = showing \ {n}
        BY <2>2, <3>2 DEF ShowCompleted, pan
      <4> QED
        BY <3>2, <4>1, <1>1 DEF TimeInv, ComesWithToken, TransientIsTimed, hides
    <3> QED
      BY <3>1, <3>2
  <2> QED
    BY <2>1, <2>2
<1> QED
  BY <1>1, <1>4 DEF TimeInv, NeverStuck, HidingIsOver, hides

LEMMA HideStartsTimes ==
    ASSUME Inv, TimeInv, NEW n \in Messages, HideStarts(n)
    PROVE  TimeInv'
<1>1. /\ UNCHANGED <<ids, queue, current, token, shown, pauses, timers, pan, released>>
      /\ n \notin toShow /\ hiding' = hiding \cup {n}
      /\ n \notin ToSet(queue)
  BY DEF HideStarts, Inv, QueueIsFresh, Scheduled, TypeOK
<1>2. /\ leaving'[n] > 0
      /\ \A m \in Messages : m # n => toHide'[m] = toHide[m] /\ leaving'[m] = leaving[m]
      /\ onScreen \subseteq Messages
  <2>1. /\ toHide \in [Messages -> Nat] /\ leaving \in [Messages -> Nat]
        /\ onScreen \subseteq Messages
    BY IdsFacts DEF Inv, TypeOK
  <2>2. /\ toHide' = [toHide EXCEPT ![n] = @ - 1]
        /\ leaving' = [leaving EXCEPT ![n] = @ + 1]
    BY DEF HideStarts
  <2> QED
    BY <2>1, <2>2, CountFacts
<1> QED
  BY <1>1, <1>2
     DEF TimeInv, NeverStuck, TransientIsTimed, HidingIsOver, ComesWithToken, shown, pan

LEMMA HideEndsTimes ==
    ASSUME Inv, TimeInv, NEW n \in Messages, HideEnds(n)
    PROVE  TimeInv'
<1>1. /\ UNCHANGED <<ids, queue, token, toShow, showing, toHide, hiding, timers, pan, released>>
      /\ onScreen' = onScreen \ {n} /\ n \notin toShow
      /\ IF current = n THEN current' = None /\ pauses' = pauses + 1
         ELSE UNCHANGED <<current, pauses>>
  BY DEF HideEnds, Inv, HidesReleased, TypeOK
<1>2. /\ \A m \in Messages : m # n => leaving'[m] = leaving[m]
      /\ onScreen \subseteq Messages /\ pauses \in Nat
  BY IdsFacts, CountFacts DEF HideEnds, Inv, TypeOK
<1>3. NeverStuck'
  BY <1>1, <1>2 DEF TimeInv, NeverStuck
<1>4. TransientIsTimed'
  <2>1. UNCHANGED <<panning, bounces>>
    BY <1>1 DEF pan
  <2> QED
    BY <2>1, <1>1, <1>2 DEF TimeInv, TransientIsTimed
<1>5. HidingIsOver' /\ ComesWithToken'
  BY <1>1, <1>2 DEF TimeInv, HidingIsOver, ComesWithToken
<1> QED
  BY <1>3, <1>4, <1>5 DEF TimeInv

LEMMA PanTimes ==
    ASSUME Inv, TimeInv, NEW n \in Messages, PanStart(n) \/ PanBack
    PROVE  TimeInv'
<1>1. UNCHANGED <<ids, queue, current, shown, hides, pauses, timers, released>>
  BY DEF PanStart, PanBack
<1>2. NeverStuck' /\ HidingIsOver'
  BY <1>1 DEF TimeInv, NeverStuck, HidingIsOver, shown, hides
<1>3. CASE PanStart(n)
  <2>1. onScreen = {n} /\ toShow = {} /\ panning' = n
    BY <1>3 DEF PanStart, Inv, OnlyCurrent, CurrentComes
  <2> QED
    BY <1>1, <1>2, <2>1 DEF TimeInv, TransientIsTimed, ComesWithToken, shown
<1>4. CASE PanBack
  <2>1. bounces' > 0 /\ UNCHANGED token
    BY <1>4 DEF PanBack, Inv, TypeOK
  <2> QED
    BY <1>1, <1>2, <2>1 DEF TimeInv, TransientIsTimed, ComesWithToken, shown
<1> QED
  BY <1>3, <1>4

LEMMA TimeHolds == Spec => []TimeInv
<1>1. Inv /\ TimeInv /\ [Next]_vars => TimeInv'
  <2> SUFFICES ASSUME Inv, TimeInv, [Next]_vars PROVE TimeInv'
    OBVIOUS
  <2>1. CASE UNCHANGED vars
    BY <2>1 DEF vars, shown, hides, pan, TimeInv, NeverStuck, TransientIsTimed, HidingIsOver,
                ComesWithToken
  <2>2. CASE Next
    BY <2>2, NextCases, AskTimes, PauseEndsTimes, CountingTimes, RequestTimes, ShowTimes,
       HideStartsTimes, HideEndsTimes, PanTimes
  <2> QED
    BY <2>1, <2>2
<1> QED
  BY <1>1, TimeInit, InvHolds, PTL DEF Spec

-----------------------------------------------------------------------------
(* Theorems *)

\* The queue, the current message, what is scheduled and the gestures always name
\* messages that have been asked for, and the current message waits no more.
THEOREM AlertsTypeCorrect == Spec => []TypeOK
<1>1. Inv => TypeOK
  BY DEF Inv
<1> QED
  BY InvHolds, <1>1, PTL

\* The message on the screen is the current one, so that hide(), which names none,
\* is about the message whose button was pressed.
THEOREM OnScreenIsCurrent == Spec => []OnlyCurrent
<1>1. Inv => OnlyCurrent
  BY DEF Inv
<1> QED
  BY InvHolds, <1>1, PTL

\* SwiftMessages shows the messages in order, once, one at a time, and takes none from
\* the screen that was not released.
THEOREM AlertsRefinement == Spec => ShowsOneAtATime
<1>1. Init => Display!Init
  BY EmptySeq DEF Init, Display!Init, Waiting, Visible
<1>2. Inv /\ [Next]_vars => [Display!Next]_(Display!vars)
  <2> SUFFICES ASSUME Inv, [Next]_vars PROVE [Display!Next]_(Display!vars)
    OBVIOUS
  <2>1. DisplayStep
    BY StepIsSeen
  <2> QED
    BY <2>1 DEF DisplayStep, Display!Next, Display!Ask, Display!Show, Display!Release,
                Display!Leave, Display!vars
<1> QED
  BY InvHolds, <1>1, <1>2, PTL DEF Spec, ShowsOneAtATime, Display!Spec
\* The queue of messages does not wedge: a message that waits has a predecessor that is
\* current or a pause that will end, and the current one is coming or on the screen.
THEOREM QueueNeverWedges == Spec => []NeverStuck
<1>1. TimeInv => NeverStuck
  BY DEF TimeInv
<1> QED
  BY TimeHolds, <1>1, PTL

\* The success of a riddle does not stay for ever: as long as it is on the screen,
\* something that will take it away, or count its time anew, is under way.
THEOREM TransientGoes == Spec => []TransientIsTimed
<1>1. TimeInv => TransientIsTimed
  BY DEF TimeInv
<1> QED
  BY TimeHolds, <1>1, PTL
=============================================================================
