-------------------------- MODULE MCFirestoreSync ---------------------------
(* The Firestore client over a document that exists and one that does not,  *)
(* or, with one value, over two that do not.                                *)
EXTENDS FirestoreSync

CONSTANTS x, y, u, v

MCSeed      == (x :> u) @@ (y :> Missing)
MCSeedEmpty == [c \in Cells |-> Missing]
=============================================================================
