---------------------------- MODULE MCClueViews -----------------------------
(* The views of a few clues: the constants are given in the configurations. *)
EXTENDS ClueViews
=============================================================================
