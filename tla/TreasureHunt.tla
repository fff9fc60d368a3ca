---------------------------- MODULE TreasureHunt ----------------------------
(***************************************************************************)
(* What the hunt looks like to its player: the clues unlocked so far and   *)
(* the route shown last.  Scanning the code of a clue stores its route     *)
(* first and unlocks the clue second; the application may die in between,  *)
(* so that a route can be stored whose clue is still locked, but never the *)
(* other way round, and an unlocked clue stays unlocked.                   *)
(*                                                                         *)
(* ClueHunt implements this specification on the disk and the server.      *)
(***************************************************************************)
CONSTANTS Bundled,  \* the clues with a route
          Final,    \* the last clue, which has none
          Foreign,  \* other names a code may carry
          NoRoute   \* no route was stored yet

VARIABLES route, unlocked

Init == route = NoRoute /\ unlocked = {}

\* The name on the scanned code, whatever it is, becomes the stored route.
StoreRoute(c) == route' = c /\ UNCHANGED unlocked

\* A clue unlocks while the route stored is its own.
Unlock(c) == route = c /\ unlocked' = unlocked \cup {c} /\ UNCHANGED route

UnlockFinal == unlocked' = unlocked \cup {Final} /\ UNCHANGED route

Next ==
    \/ \E c \in Bundled \cup Foreign : StoreRoute(c)
    \/ \E c \in Bundled : Unlock(c)
    \/ UnlockFinal

Spec == Init /\ [][Next]_<<route, unlocked>>
=============================================================================
