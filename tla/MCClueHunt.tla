----------------------------- MODULE MCClueHunt -----------------------------
(* The hunt with a few clues and codes. *)
EXTENDS ClueHunt

CONSTANTS c1, c10, url, slash,
          intro0  \* the flag of the introduction at the start

MCCells      == {LastPath, DoneIntro} \cup Clues \cup Foreign
MCVals       == {"locked", "unlocked"} \cup Flags \cup Routes
MCSeed       == [c \in MCCells |-> CASE c \in Clues    -> "locked"
                                      [] c = DoneIntro -> intro0
                                      [] OTHER         -> Missing]
MCOtherTasks == [task : {"draw"}, clue : Bundled]
=============================================================================
