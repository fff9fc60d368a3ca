------------------------------ MODULE MCPassKey ------------------------------
(* The pass key field with short sentences, one of them as long as can be. *)
EXTENDS PassKey

MCLetterCount == [p \in Phrases |-> IF p = Love THEN Delay ELSE 1]
=============================================================================
