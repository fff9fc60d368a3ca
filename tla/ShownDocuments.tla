--------------------------- MODULE ShownDocuments ---------------------------
(***************************************************************************)
(* What the listeners of the application are promised by the document      *)
(* store: the value shown of every cell, or Absent as long as the document *)
(* is not known to the client.  Documents arrive, by the network; one that *)
(* is shown stays, and changes by the calls of this application alone, in  *)
(* their order.  The end of the process forgets the calls not taken up and *)
(* shows every document again at the next start, with or without network.  *)
(*                                                                         *)
(* FirestoreSync implements this specification (see Shows there), and the  *)
(* menu, the riddles and the map are modelled over it, in ClueViews.       *)
(***************************************************************************)
EXTENDS Sequences, SequencesExt

CONSTANTS Cells,     \* the fields the application reads
          Vals,      \* the values they take
          Absent,    \* shown of a document that is not there, or not known
          Requests   \* what the application may call

VARIABLES shown,  \* the value shown of every cell
          calls   \* requests not taken up yet, oldest first

Init == shown = [c \in Cells |-> Absent] /\ calls = <<>>

Call(req) == calls' = Append(calls, req) /\ UNCHANGED shown

\* One callback of the application may make several calls.
Issue ==
    /\ calls' \in Seq(Requests) /\ IsPrefix(calls, calls')
    /\ UNCHANGED shown

\* Some documents arrive, with whatever values they have.
Arrive(news) ==
    /\ shown' = [c \in Cells |-> IF c \in DOMAIN news THEN news[c] ELSE shown[c]]
    /\ UNCHANGED calls

\* Only documents that were not shown arrive: those that are shown then.
ArriveSome ==
    LET arrived == {c \in Cells : shown[c] \notin Vals /\ shown'[c] \in Vals}
    IN Arrive([c \in arrived |-> shown'[c]])

\* updateData changes a document that is shown, setData any.
Writes(req) ==
    \/ req.op = "set"
    \/ req.op = "update" /\ shown[req.cell] \in Vals

Take ==
    /\ calls # <<>>
    /\ shown' = IF Writes(Head(calls))
                THEN [shown EXCEPT ![Head(calls).cell] = Head(calls).val]
                ELSE shown
    /\ calls' = Tail(calls)

Forget == calls' = <<>> /\ UNCHANGED shown

Next ==
    \/ Issue
    \/ ArriveSome
    \/ Take
    \/ Forget

Spec == Init /\ [][Next]_<<shown, calls>>
=============================================================================
