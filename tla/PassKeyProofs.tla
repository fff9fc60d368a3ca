---------------------------- MODULE PassKeyProofs ----------------------------
(***************************************************************************)
(* The invariants of PassKey, for any phrases, lengths and bounds.         *)
(*                                                                         *)
(* Letters go because every timer of a letter has one behind it that       *)
(* empties the field; treasure pages are counted by the runs that open     *)
(* them, which time does not change.                                       *)
(***************************************************************************)
EXTENDS PassKey, FiniteSetTheorems, TLAPS

Timers(n) ==
    [run : 0 .. n - 1, due : 0 .. Delay - 1, act : {"letter"}]
      \cup [run : 0 .. n - 1, due : 0 .. Delay, act : {"open", "clear"}]

EntriesAddUp == entries.key <= entries.all

\* Every letter comes before some end.
LettersEndInTime ==
    \A t \in timers : t.act = "letter" => \E e \in timers : e.act # "letter" /\ t.due < e.due

OneEndPerRun ==
    \A t, u \in timers : t.act = "open" /\ u.act = "open" /\ t.run = u.run => t = u

\* A key in the field is one more treasure page to come.
KeyInField == IF text = Key THEN 1 ELSE 0

PagesAreCounted ==
    /\ IsFiniteSet(OpenRuns)
    /\ opened + Cardinality(OpenRuns) + KeyInField <= entries.key

FieldInv == TypeOK /\ EntriesAddUp /\ LettersAreCleared /\ LettersEndInTime

-----------------------------------------------------------------------------
(* Timers *)

\* Two records with the same fields are the same timer.
LEMMA TimerFields ==
    ASSUME NEW n \in Nat, NEW t \in Timers(n)
    PROVE  /\ t.run \in 0 .. n - 1
           /\ t.due \in Nat /\ t.due <= Delay
           /\ t.act \in {"letter", "open", "clear"}
           /\ t.act = "letter" => t.due < Delay
           /\ t = [run |-> t.run, due |-> t.due, act |-> t.act]
  BY PassKeyAssumption DEF Timers

\* A tick moves every timer that is not due one step nearer.
LEMMA TimerTicks ==
    ASSUME NEW n \in Nat, NEW t \in Timers(n), t.due > 0
    PROVE  LET s == [t EXCEPT !.due = @ - 1]
           IN  s \in Timers(n) /\ s.run = t.run /\ s.act = t.act /\ s.due = t.due - 1
  BY PassKeyAssumption DEF Timers

\* The timers of a sentence.
LEMMA SentenceTimers ==
    ASSUME NEW n \in Nat, NEW p \in Phrases
    PROVE  /\ Letters(n, p) \cup {Ending(n, p)} \subseteq Timers(n + 1)
           /\ \A t \in Letters(n, p) : t.act = "letter" /\ t.due < Delay
           /\ Ending(n, p).due = Delay /\ Ending(n, p).act # "letter"
           /\ Ending(n, p).run = n
           /\ Ending(n, p).act = "open" <=> p = Key
<1>1. ASSUME NEW k \in 1 .. LetterCount[p]
      PROVE  /\ k - 1 \in 0 .. Delay - 1
             /\ [run |-> n, due |-> k - 1, act |-> "letter"] \in Timers(n + 1)
  <2>1. k - 1 \in 0 .. Delay - 1
    BY PassKeyAssumption
  <2> QED
    BY <2>1 DEF Timers
<1>2. /\ Letters(n, p) \subseteq Timers(n + 1)
      /\ \A t \in Letters(n, p) : t.act = "letter" /\ t.due < Delay
  BY <1>1, PassKeyAssumption DEF Letters
<1>3. Ending(n, p) \in Timers(n + 1)
  BY PassKeyAssumption DEF Ending, Timers
<1> QED
  BY <1>2, <1>3 DEF Ending

LEMMA TimersGrow ==
    ASSUME NEW n \in Nat
    PROVE  Timers(n) \subseteq Timers(n + 1)
  BY DEF Timers

-----------------------------------------------------------------------------
(* The contents of the field *)

LEMMA FieldInit == Init => FieldInv
<1> SUFFICES ASSUME NEW known \in BOOLEAN, Session(known)
             PROVE  FieldInv
  BY DEF Init
<1>1. 0 \in 0 .. MaxAsks /\ 0 \in 0 .. MaxEntries
  BY PassKeyAssumption
<1> QED
  BY <1>1 DEF Session, FieldInv, TypeOK, EntriesAddUp, LettersAreCleared, LettersEndInTime, Texts

LEMMA FieldEdit ==
    ASSUME FieldInv, NEW t \in Texts \ {"letters"}, Edit(t)
    PROVE  FieldInv'
<1> USE DEF FieldInv
<1>1. entries' \in [all : 0 .. MaxEntries, key : 0 .. MaxEntries] /\ EntriesAddUp'
  BY PassKeyAssumption DEF Edit, TypeOK, EntriesAddUp
<1> QED
  BY <1>1 DEF Edit, TypeOK, LettersAreCleared, LettersEndInTime, Texts

LEMMA FieldAnswer ==
    ASSUME FieldInv, NEW s \in Texts, Answer(s)
    PROVE  FieldInv'
<1> USE DEF FieldInv
<1>1. asks' \in [Texts -> 0 .. MaxAsks]
  BY PassKeyAssumption DEF Answer, TypeOK
<1>2. CASE Refuse(s)
  BY <1>1, <1>2 DEF Answer, Refuse, TypeOK, EntriesAddUp, LettersAreCleared, LettersEndInTime
<1>3. CASE Recognise
  <2> DEFINE new == Letters(runs, text) \cup {Ending(runs, text)}
  <2>1. runs \in Nat /\ text \in Phrases /\ timers \subseteq Timers(runs)
    BY <1>3 DEF Recognise, TypeOK, Timers
  <2>2. timers' = timers \cup new /\ runs' = runs + 1 /\ text' = "empty"
    BY <1>3 DEF Recognise
  <2>3. timers' \subseteq Timers(runs + 1)
    BY <2>1, <2>2, SentenceTimers, TimersGrow
  <2>4. TypeOK'
    BY <1>1, <1>3, <2>1, <2>2, <2>3 DEF Answer, Recognise, TypeOK, Timers, Texts
  <2>5. LettersEndInTime'
    BY <2>1, <2>2, SentenceTimers DEF LettersEndInTime
  <2> QED
    BY <1>3, <2>2, <2>4, <2>5, PassKeyAssumption
       DEF Answer, EntriesAddUp, LettersAreCleared
<1> QED
  BY <1>2, <1>3 DEF Answer

\* A letter that is due has its end behind it; an end that is due has no letter left.
LEMMA FieldFire ==
    ASSUME FieldInv, Fire
    PROVE  FieldInv'
<1> USE DEF FieldInv
<1>0. runs \in Nat /\ timers \subseteq Timers(runs)
  BY DEF TypeOK, Timers
<1>1. PICK t \in timers : /\ t.due = 0
                          /\ timers' = timers \ {t}
                          /\ TypeLetter(t) \/ End(t)
  BY DEF Fire
<1>2. TypeOK' /\ EntriesAddUp'
  BY <1>1 DEF Fire, TypeLetter, End, Push, TypeOK, EntriesAddUp, Texts
<1>3. ASSUME NEW s \in timers', s.act = "letter"
      PROVE  \E e \in timers' : e.act # "letter" /\ s.due < e.due
  <2>1. PICK e \in timers : e.act # "letter" /\ s.due < e.due
    BY <1>1, <1>3 DEF LettersEndInTime
  <2>2. s.due \in Nat /\ e.due \in Nat
    BY <1>0, <1>1, TimerFields
  <2>3. e # t
    BY <1>1, <2>1, <2>2
  <2> QED
    BY <1>1, <2>1, <2>3
<1>4. LettersAreCleared'
  <2>1. CASE TypeLetter(t)
    <3>1. PICK e \in timers : e.act # "letter"
      BY <1>1, <2>1 DEF TypeLetter, LettersEndInTime
    <3> QED
      BY <1>1, <2>1, <3>1 DEF TypeLetter, LettersAreCleared
  <2>2. CASE End(t)
    BY <2>2 DEF End, LettersAreCleared
  <2> QED
    BY <1>1, <2>1, <2>2
<1> QED
  BY <1>2, <1>3, <1>4 DEF LettersEndInTime

LEMMA FieldTick ==
    ASSUME FieldInv, Tick
    PROVE  FieldInv'
<1> USE DEF FieldInv
<1> DEFINE Next1(t) == [t EXCEPT !.due = @ - 1]
<1>0. runs \in Nat /\ timers \subseteq Timers(runs)
  BY DEF TypeOK, Timers
<1>1. timers' = {Next1(t) : t \in timers}
  BY DEF Tick
<1>2. ASSUME NEW t \in timers
      PROVE  /\ Next1(t) \in Timers(runs) /\ Next1(t).act = t.act
             /\ Next1(t).due = t.due - 1 /\ t.due \in Nat
  BY <1>0, TimerTicks, TimerFields DEF Tick
<1> HIDE DEF Next1
<1>3. timers' \subseteq Timers(runs)
  BY <1>1, <1>2
<1>4. TypeOK' /\ EntriesAddUp'
  BY <1>3 DEF Tick, TypeOK, Timers, EntriesAddUp
<1>5. ASSUME NEW t \in timers, t.act = "letter"
      PROVE  \E e \in timers : Next1(e).act # "letter" /\ Next1(t).due < Next1(e).due
  <2>1. PICK e \in timers : e.act # "letter" /\ t.due < e.due
    BY <1>5 DEF LettersEndInTime
  <2> QED
    BY <1>2, <2>1
<1>6. LettersEndInTime'
  BY <1>1, <1>2, <1>5 DEF LettersEndInTime
<1>7. LettersAreCleared'
  BY <1>1, <1>2 DEF LettersAreCleared, Tick
<1> QED
  BY <1>4, <1>6, <1>7

LEMMA FieldNext == FieldInv /\ [Next]_vars => FieldInv'
<1> SUFFICES ASSUME FieldInv, [Next]_vars PROVE FieldInv'
  OBVIOUS
<1>1. ASSUME NEW t \in Texts \ {"letters"}, Edit(t) PROVE FieldInv'
  BY <1>1, FieldEdit
<1>2. CASE Submit
  BY <1>2, PassKeyAssumption DEF Submit, FieldInv, TypeOK, EntriesAddUp, LettersAreCleared,
     LettersEndInTime
<1>3. CASE DismissMessage \/ AnswerMissing
  BY <1>3 DEF DismissMessage, AnswerMissing, FieldInv, TypeOK, EntriesAddUp, LettersAreCleared,
     LettersEndInTime
<1>4. CASE Back
  BY <1>4 DEF Back, FieldInv, TypeOK, EntriesAddUp, LettersAreCleared, LettersEndInTime
<1>5. ASSUME NEW t \in Texts, Answer(t) PROVE FieldInv'
  BY <1>5, FieldAnswer
<1>6. CASE Relaunch
  BY <1>6, PassKeyAssumption DEF Relaunch, FieldInv, TypeOK, EntriesAddUp, LettersAreCleared,
     LettersEndInTime, Texts
<1>7. CASE Fire
  BY <1>7, FieldFire
<1>8. CASE Tick
  BY <1>8, FieldTick
<1>9. CASE UNCHANGED vars
  BY <1>9 DEF vars, FieldInv, TypeOK, EntriesAddUp, LettersAreCleared, LettersEndInTime
<1> QED
  BY <1>1, <1>2, <1>3, <1>4, <1>5, <1>6, <1>7, <1>8, <1>9 DEF Next

\* The state of the pass key field keeps its types (CheckKeyPhrase and its timers).
THEOREM PassKeyTypeCorrect == Spec => []TypeOK
<1>1. FieldInv => TypeOK
  BY DEF FieldInv
<1> QED
  BY FieldInit, FieldNext, <1>1, PTL DEF Spec

\* Letters that were typed out into the field always have a timer ahead that empties it
\* (rearrangeLetters against the timer of four seconds).
THEOREM LettersGo == Spec => []LettersAreCleared
<1>1. FieldInv => LettersAreCleared
  BY DEF FieldInv
<1> QED
  BY FieldInit, FieldNext, <1>1, PTL DEF Spec

-----------------------------------------------------------------------------
(* The treasure pages *)

PagesInv == FieldInv /\ OneEndPerRun /\ PagesAreCounted

\* What the counting needs to know of the types.
LEMMA CountsAreNumbers ==
    ASSUME FieldInv, PagesAreCounted
    PROVE  /\ opened \in Nat /\ entries.key \in Nat /\ entries.all \in Nat /\ runs \in Nat
           /\ Cardinality(OpenRuns) \in Nat
           /\ KeyInField \in 0 .. 1
           /\ Key \notin {"empty", "letters"}
<1>1. Cardinality(OpenRuns) \in Nat
  BY FS_CardinalityType DEF PagesAreCounted
<1>2. Key \notin {"empty", "letters"}
  BY PassKeyAssumption DEF Phrases
<1>3. opened \in Nat /\ entries.key \in Nat /\ entries.all \in Nat /\ runs \in Nat
  BY PassKeyAssumption DEF FieldInv, TypeOK
<1>4. KeyInField \in 0 .. 1
  BY DEF KeyInField
<1> QED
  BY <1>1, <1>2, <1>3, <1>4

LEMMA PagesEdit ==
    ASSUME PagesInv, NEW t \in Texts \ {"letters"}, Edit(t)
    PROVE  OneEndPerRun' /\ PagesAreCounted'
<1> USE DEF PagesInv
<1>1. timers' = timers /\ OpenRuns' = OpenRuns /\ opened' = opened /\ text' = t
  BY DEF Edit, OpenRuns
<1>2. entries'.key = IF t = Key THEN entries.key + 1 ELSE entries.key
  BY DEF Edit, Phrases, FieldInv, TypeOK
<1> QED
  BY <1>1, <1>2, CountsAreNumbers DEF OneEndPerRun, PagesAreCounted, KeyInField

\* The run that opens a page is a new one.
LEMMA PagesRecognise ==
    ASSUME PagesInv, Recognise, UNCHANGED <<entries, opened>>
    PROVE  OneEndPerRun' /\ PagesAreCounted'
<1> USE DEF PagesInv
<1>1. runs \in Nat /\ text \in Phrases /\ timers \subseteq Timers(runs)
  BY DEF Recognise, FieldInv, TypeOK, Timers
<1>2. timers' = timers \cup Letters(runs, text) \cup {Ending(runs, text)} /\ text' = "empty"
  BY DEF Recognise
<1>3. /\ \A t \in Letters(runs, text) : t.act = "letter"
      /\ Ending(runs, text).run = runs
      /\ Ending(runs, text).act = "open" <=> text = Key
  BY <1>1, SentenceTimers
<1>4. \A t \in timers : t.run # runs
  BY <1>1, TimerFields
<1>5. OneEndPerRun'
  BY <1>2, <1>3, <1>4 DEF OneEndPerRun
<1>6. OpenRuns' = IF text = Key THEN OpenRuns \cup {runs} ELSE OpenRuns
  BY <1>2, <1>3 DEF OpenRuns
<1>7. runs \notin OpenRuns
  BY <1>4 DEF OpenRuns
<1>8. KeyInField' = 0
  BY <1>2, CountsAreNumbers DEF KeyInField
<1>9. CASE text = Key
  <2>1. IsFiniteSet(OpenRuns') /\ Cardinality(OpenRuns') = Cardinality(OpenRuns) + 1
    BY <1>6, <1>7, <1>9, FS_AddElement DEF PagesAreCounted
  <2> QED
    BY <1>5, <1>8, <1>9, <2>1, CountsAreNumbers DEF PagesAreCounted, KeyInField
<1>10. CASE text # Key
  BY <1>5, <1>6, <1>8, <1>10, CountsAreNumbers DEF PagesAreCounted, KeyInField
<1> QED
  BY <1>9, <1>10

\* A page that opens was counted as one to come.
LEMMA PagesFire ==
    ASSUME PagesInv, Fire
    PROVE  OneEndPerRun' /\ PagesAreCounted'
<1> USE DEF PagesInv
<1>1. PICK t \in timers : /\ t.due = 0
                          /\ timers' = timers \ {t}
                          /\ TypeLetter(t) \/ End(t)
  BY DEF Fire
<1>2. OneEndPerRun' /\ entries' = entries
  BY <1>1 DEF OneEndPerRun, Fire
<1>3. KeyInField' = 0
  BY <1>1, CountsAreNumbers DEF KeyInField, TypeLetter, End
<1>4. CASE t.act = "open"
  <2>1. OpenRuns' = OpenRuns \ {t.run}
    BY <1>1, <1>4 DEF OpenRuns, OneEndPerRun
  <2>2. t.run \in OpenRuns
    BY <1>1, <1>4 DEF OpenRuns
  <2>3. IsFiniteSet(OpenRuns') /\ Cardinality(OpenRuns') = Cardinality(OpenRuns) - 1
    BY <2>1, <2>2, FS_RemoveElement DEF PagesAreCounted
  <2>4. opened' = opened + 1
    BY <1>1, <1>4 DEF TypeLetter, End, Push
  <2> QED
    BY <1>2, <1>3, <2>3, <2>4, CountsAreNumbers DEF PagesAreCounted
<1>5. CASE t.act # "open"
  <2>1. OpenRuns' = OpenRuns
    BY <1>1, <1>5 DEF OpenRuns
  <2>2. opened' = opened
    BY <1>1, <1>5, CountsAreNumbers DEF TypeLetter, End, Push
  <2> QED
    BY <1>2, <1>3, <2>1, <2>2, CountsAreNumbers DEF PagesAreCounted
<1> QED
  BY <1>4, <1>5

\* Time changes no run.
LEMMA PagesTick ==
    ASSUME PagesInv, Tick
    PROVE  OneEndPerRun' /\ PagesAreCounted'
<1> USE DEF PagesInv
<1> DEFINE Next1(t) == [t EXCEPT !.due = @ - 1]
<1>0. runs \in Nat /\ timers \subseteq Timers(runs)
  BY DEF FieldInv, TypeOK, Timers
<1>1. timers' = {Next1(t) : t \in timers}
  BY DEF Tick
<1>2. ASSUME NEW t \in timers
      PROVE  Next1(t).act = t.act /\ Next1(t).run = t.run
  BY <1>0, TimerTicks DEF Tick
<1> HIDE DEF Next1
<1>3. OpenRuns' = OpenRuns
  BY <1>1, <1>2 DEF OpenRuns
<1>4. OneEndPerRun'
  BY <1>1, <1>2 DEF OneEndPerRun
<1> QED
  BY <1>3, <1>4 DEF Tick, PagesAreCounted, KeyInField

LEMMA PagesInit == Init => PagesInv
<1> SUFFICES ASSUME NEW known \in BOOLEAN, Session(known)
             PROVE  OneEndPerRun /\ PagesAreCounted
  BY FieldInit DEF Init, PagesInv
<1>1. OpenRuns = {}
  BY DEF Session, OpenRuns
<1>2. IsFiniteSet(OpenRuns) /\ Cardinality(OpenRuns) = 0
  BY <1>1, FS_EmptySet
<1>3. KeyInField = 0
  <2>1. Key # "empty"
    BY PassKeyAssumption DEF Phrases
  <2> QED
    BY <2>1 DEF Session, KeyInField
<1> QED
  BY <1>2, <1>3 DEF Session, OneEndPerRun, PagesAreCounted

LEMMA PagesNext == PagesInv /\ [Next]_vars => PagesInv'
<1> SUFFICES ASSUME PagesInv, [Next]_vars
             PROVE  OneEndPerRun' /\ PagesAreCounted'
  BY FieldNext DEF PagesInv
<1> USE DEF PagesInv
<1>1. ASSUME NEW t \in Texts \ {"letters"}, Edit(t) PROVE OneEndPerRun' /\ PagesAreCounted'
  BY <1>1, PagesEdit
<1>2. CASE UNCHANGED <<timers, text, entries, opened>>
  BY <1>2 DEF OneEndPerRun, PagesAreCounted, OpenRuns, KeyInField
<1>3. CASE Submit \/ DismissMessage \/ Back \/ AnswerMissing \/ UNCHANGED vars
  BY <1>2, <1>3 DEF Submit, DismissMessage, Back, AnswerMissing, vars
<1>4. ASSUME NEW t \in Texts, Answer(t) PROVE OneEndPerRun' /\ PagesAreCounted'
  BY <1>2, <1>4, PagesRecognise DEF Answer, Refuse
<1>5. CASE Relaunch
  <2>1. OpenRuns' = {}
    BY <1>5 DEF Relaunch, OpenRuns
  <2> QED
    BY <1>5, <2>1, FS_EmptySet, CountsAreNumbers
       DEF Relaunch, OneEndPerRun, PagesAreCounted, KeyInField
<1>6. CASE Fire
  BY <1>6, PagesFire
<1>7. CASE Tick
  BY <1>7, PagesTick
<1> QED
  BY <1>1, <1>3, <1>4, <1>5, <1>6, <1>7 DEF Next

\* Each time the key is typed in opens at most one treasure page, however often it is
\* submitted, answered or typed over, and whichever pages were left again (CheckKeyPhrase
\* empties the field before its timers).
THEOREM OnePagePerEntry == Spec => []TreasurePerEntry
<1>1. PagesInv => TreasurePerEntry
  BY CountsAreNumbers DEF PagesInv, PagesAreCounted, TreasurePerEntry
<1> QED
  BY PagesInit, PagesNext, <1>1, PTL DEF Spec
=============================================================================
