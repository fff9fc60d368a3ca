---------------------------- MODULE DurableStore ----------------------------
(***************************************************************************)
(* What the application is promised by the document store it calls: one    *)
(* register per cell (a field of a document) and the calls not taken up    *)
(* yet.  Calls take effect in their order, each once and as a whole; the   *)
(* end of the process forgets those not taken up and nothing else.         *)
(* A network failure, a retransmission, the refusal of another write or a  *)
(* snapshot of the server never changes a cell.                            *)
(*                                                                         *)
(* FirestoreSync implements this specification (see Durable there), under  *)
(* any calls of an application and under those of ClueHunt.                *)
(***************************************************************************)
EXTENDS Sequences, SequencesExt

CONSTANTS Cells,     \* the fields the application writes
          Vals,      \* the values they take
          Requests,  \* what the application may call
          Seed       \* the contents of the store at the start

VARIABLES store,  \* a value per cell; one outside Vals if there is no document
          calls   \* requests not taken up yet, oldest first

Init == store = Seed /\ calls = <<>>

\* One callback of the application may make several calls.
Issue ==
    /\ calls' \in Seq(Requests) /\ IsPrefix(calls, calls')
    /\ UNCHANGED store

\* setData writes the document, updateData only one that exists; a get changes none.
Writes(req) ==
    \/ req.op = "set"
    \/ req.op = "update" /\ store[req.cell] \in Vals

Take ==
    /\ calls # <<>>
    /\ store' = IF Writes(Head(calls))
                THEN [store EXCEPT ![Head(calls).cell] = Head(calls).val]
                ELSE store
    /\ calls' = Tail(calls)

Forget == calls' = <<>> /\ UNCHANGED store

Next == Issue \/ Take \/ Forget

Spec == Init /\ [][Next]_<<store, calls>>
=============================================================================
