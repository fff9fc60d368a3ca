----------------------------- MODULE OneAtATime -----------------------------
(***************************************************************************)
(* What an application expects of a queue of messages: they come to the    *)
(* screen in the order they were asked for, each of them once, one at a    *)
(* time, and a message that is on the screen stays there until it has been *)
(* released: dismissed by the user, or over by its own time.               *)
(***************************************************************************)
EXTENDS Naturals, Sequences

CONSTANT None

VARIABLES asked,     \* how many messages have been asked for
          waiting,   \* those that have not been shown
          visible,   \* the message on the screen, or None
          released   \* the messages that may leave

vars == <<asked, waiting, visible, released>>

Init == asked = 0 /\ waiting = <<>> /\ visible = None /\ released = {}

Ask ==
    /\ asked' = asked + 1
    /\ waiting' = Append(waiting, asked + 1)
    /\ UNCHANGED <<visible, released>>

Show ==
    /\ visible = None /\ waiting # <<>>
    /\ visible' = Head(waiting)
    /\ waiting' = Tail(waiting)
    /\ UNCHANGED <<asked, released>>

Release ==
    /\ \E m \in 1 .. asked : released' = released \cup {m}
    /\ UNCHANGED <<asked, waiting, visible>>

Leave ==
    /\ visible \in released
    /\ visible' = None
    /\ UNCHANGED <<asked, waiting, released>>

Next == Ask \/ Show \/ Release \/ Leave

Spec == Init /\ [][Next]_vars
=============================================================================
