------------------------------- MODULE PassKey -------------------------------
(***************************************************************************)
(* The pass key field of HomePage.swift: CheckKeyPhrase and its timers.    *)
(*                                                                         *)
(* Return in the field reads the three phrases from Firestore.  Each       *)
(* answer judges the text that is in the field by then.  A right phrase    *)
(* empties the field, types a sentence into it letter by letter and ends,  *)
(* four seconds later, with an empty field again; that of the pass key     *)
(* opens the treasure page.  Everything runs on the main thread, timers in *)
(* the order of their fire dates, and meanwhile the user goes on typing.   *)
(*                                                                         *)
(* Nothing here outlives the process but the cached phrases: a process     *)
(* that ends is followed by the initial state.                             *)
(***************************************************************************)
EXTENDS Naturals, FiniteSets

CONSTANTS Key, Secret, Love,  \* the phrases of document password/password
          LetterCount,        \* letters typed out for each; one takes a tick (0.1 s)
          Delay,              \* ticks from the answer to the end (4 s)
          MaxEntries,         \* bound: phrases typed in by the user in a session
          MaxAsks             \* bound: gets not answered yet

Phrases == {Key, Secret, Love}

\* The contents of the field: a phrase, nothing, some other text of the user, or a
\* text with letters that a timer has typed.
Texts == Phrases \cup {"empty", "other", "letters"}

ASSUME PassKeyAssumption ==
    /\ Phrases \cap {"empty", "other", "letters"} = {}
    /\ Delay \in Nat
    /\ LetterCount \in [Phrases -> 1 .. Delay]
    /\ MaxEntries \in Nat /\ MaxAsks \in Nat

VARIABLES text,     \* PassKeyField.text
          asks,     \* gets under way, by the text they were submitted with
          cached,   \* the phrases are in the cache of the client
          timers,   \* scheduled timers: the run of letters, the ticks left, the effect
          runs,     \* phrases recognised in this session
          entries,  \* phrases typed in, and those of them that were the key
          whoops,   \* the submission that the message on the screen is about
          pages,    \* treasure pages on the navigation stack
          opened,   \* treasure pages opened in this session (a history variable)
          up        \* the process runs

vars == <<text, asks, cached, timers, runs, entries, whoops, pages, opened, up>>

\* Treasure pages still to come, by the run that opens them.
OpenRuns == {t.run : t \in {u \in timers : u.act = "open"}}

Session(known) ==
    /\ text = "empty"
    /\ asks = [t \in Texts |-> 0]
    /\ cached = known
    /\ timers = {}
    /\ runs = 0
    /\ entries = [all |-> 0, key |-> 0]
    /\ whoops = "none"
    /\ pages = 0 /\ opened = 0
    /\ up = TRUE

Init == \E known \in BOOLEAN : Session(known)

-----------------------------------------------------------------------------
(* The user; the field is on the screen while no treasure page covers it *)

Edit(t) ==
    /\ up /\ pages = 0
    /\ t \in Phrases => entries.all < MaxEntries
    /\ text' = t
    /\ entries' = IF t \in Phrases
                  THEN [all |-> entries.all + 1,
                        key |-> IF t = Key THEN entries.key + 1 ELSE entries.key]
                  ELSE entries
    /\ UNCHANGED <<asks, cached, timers, runs, whoops, pages, opened, up>>

\* textFieldShouldReturn: nothing prevents a second one before the answer.
Submit ==
    /\ up /\ pages = 0
    /\ \A t \in Texts : asks[t] < MaxAsks
    /\ asks' = [asks EXCEPT ![text] = @ + 1]
    /\ UNCHANGED <<text, cached, timers, runs, entries, whoops, pages, opened, up>>

DismissMessage ==
    /\ up /\ whoops # "none"
    /\ whoops' = "none"
    /\ UNCHANGED <<text, asks, cached, timers, runs, entries, pages, opened, up>>

Back ==
    /\ up /\ pages > 0
    /\ pages' = pages - 1
    /\ UNCHANGED <<text, asks, cached, timers, runs, entries, whoops, opened, up>>

-----------------------------------------------------------------------------
(* The answer of the get *)

\* Mutant: the index of a letter is advanced before its timer is made.
LettersLate(r, p) ==
    {[run |-> r, due |-> k, act |-> "letter"] : k \in 1 .. LetterCount[p]}

\* rearrangeLetters, rearrangeLetters2, rearrangeLetters3.
Letters(r, p) ==
    {[run |-> r, due |-> k - 1, act |-> "letter"] : k \in 1 .. LetterCount[p]}

Ending(r, p) ==
    [run |-> r, due |-> Delay, act |-> IF p = Key THEN "open" ELSE "clear"]

\* Mutants: the field is not emptied first; timers of an earlier phrase are invalidated.
RecogniseKeepsText ==
    /\ text \in Phrases
    /\ timers' = timers \cup Letters(runs, text) \cup {Ending(runs, text)}
    /\ runs' = runs + 1
    /\ UNCHANGED <<text, whoops>>

RecogniseInvalidates ==
    /\ text \in Phrases
    /\ text' = "empty"
    /\ timers' = Letters(runs, text) \cup {Ending(runs, text)}
    /\ runs' = runs + 1
    /\ UNCHANGED whoops

Recognise ==
    /\ text \in Phrases
    /\ text' = "empty"
    /\ timers' = timers \cup Letters(runs, text) \cup {Ending(runs, text)}
    /\ runs' = runs + 1
    /\ UNCHANGED whoops

Refuse(submitted) ==
    /\ text \notin Phrases
    /\ whoops' = submitted
    /\ UNCHANGED <<text, timers, runs>>

\* The text is judged as it is now, whatever was submitted.
Answer(submitted) ==
    /\ up /\ asks[submitted] > 0
    /\ asks' = [asks EXCEPT ![submitted] = @ - 1]
    /\ cached' = TRUE
    /\ Recognise \/ Refuse(submitted)
    /\ UNCHANGED <<entries, pages, opened, up>>

\* Offline with nothing cached there is no data, and the forced casts fail.
AnswerMissing ==
    /\ up /\ ~cached
    /\ \E t \in Texts : asks[t] > 0
    /\ up' = FALSE
    /\ UNCHANGED <<text, asks, cached, timers, runs, entries, whoops, pages, opened>>

Relaunch ==
    /\ ~up
    /\ text' = "empty" /\ asks' = [t \in Texts |-> 0] /\ timers' = {} /\ runs' = 0
    /\ entries' = [all |-> 0, key |-> 0] /\ whoops' = "none"
    /\ pages' = 0 /\ opened' = 0 /\ up' = TRUE
    /\ UNCHANGED cached

-----------------------------------------------------------------------------
(* The timers of the main run loop *)

TypeLetter(t) ==
    /\ t.act = "letter"
    /\ text' = "letters"
    /\ UNCHANGED <<pages, opened>>

Push(n) == pages' = pages + n /\ opened' = opened + n

\* Mutant: the treasure page is opened over a field that keeps its letters.
EndKeepsText(t) ==
    /\ t.act # "letter"
    /\ text' = IF t.act = "open" THEN text ELSE "empty"
    /\ Push(IF t.act = "open" THEN 1 ELSE 0)

End(t) ==
    /\ t.act # "letter"
    /\ text' = "empty"
    /\ Push(IF t.act = "open" THEN 1 ELSE 0)

Fire ==
    /\ up
    /\ \E t \in timers :
          /\ t.due = 0
          /\ timers' = timers \ {t}
          /\ TypeLetter(t) \/ End(t)
    /\ UNCHANGED <<asks, cached, runs, entries, whoops, up>>

\* Time goes on when every timer that is due has fired: a busy main thread delays the
\* timers but keeps their order, which is all that matters here.
Tick ==
    /\ up /\ timers # {}
    /\ \A t \in timers : t.due > 0
    /\ timers' = {[t EXCEPT !.due = @ - 1] : t \in timers}
    /\ UNCHANGED <<text, asks, cached, runs, entries, whoops, pages, opened, up>>

-----------------------------------------------------------------------------
Next ==
    \/ \E t \in Texts \ {"letters"} : Edit(t)
    \/ Submit \/ DismissMessage \/ Back
    \/ \E t \in Texts : Answer(t)
    \/ AnswerMissing \/ Relaunch
    \/ Fire \/ Tick

Spec == Init /\ [][Next]_vars

\* The main run loop is alive.
FairSpec == Spec /\ WF_vars(Fire) /\ WF_vars(Tick)

-----------------------------------------------------------------------------
(* Properties *)

TypeOK ==
    /\ text \in Texts
    /\ asks \in [Texts -> 0 .. MaxAsks]
    /\ cached \in BOOLEAN
    /\ timers \subseteq [run : 0 .. runs - 1, due : 0 .. Delay - 1, act : {"letter"}]
                 \cup [run : 0 .. runs - 1, due : 0 .. Delay, act : {"open", "clear"}]
    /\ runs \in Nat
    /\ entries \in [all : 0 .. MaxEntries, key : 0 .. MaxEntries]
    /\ whoops \in Texts \cup {"none"}
    /\ pages \in Nat /\ opened \in Nat
    /\ up \in BOOLEAN

\* The letters that were typed out do not stay: while some are in the field, a timer
\* that empties it is still to come, also when sentences overlap.
LettersAreCleared ==
    text = "letters" => \E t \in timers : t.act # "letter"

\* However often the key is submitted and answered, whatever is typed meanwhile and
\* however many pages were left again, each time it was typed in opens at most one.
TreasurePerEntry == opened + Cardinality(OpenRuns) <= entries.key

\* A key that was recognised opens the treasure page.
KeyOpens == (OpenRuns # {}) ~> (pages > 0)

\* "I think you typed it wrong." is said of a wrong phrase: see the findings.
WrongIsWrong == whoops \notin Phrases
=============================================================================
