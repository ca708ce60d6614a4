----------------------------- MODULE LocalState -----------------------------
(***************************************************************************)
(* What the local ticket state promises, without requests, caches or API   *)
(* calls: each accepted form edits one field of the row as it is at that   *)
(* moment, and a handover removes the row.  state.go:17-19 says of the     *)
(* handler that it "updates a single field of the ticket's local state".   *)
(***************************************************************************)
EXTENDS TicketRow

CONSTANTS Tickets, InitRows

VARIABLE rows   \* ticket_state: [Tickets -> Row or None]

Init == rows \in InitRows

EditRow(t, e) ==
    /\ ~Rejected(e)
    /\ rows' = [rows EXCEPT ![t] = Edit(e, RowOf(rows, t))]

ClearRow(t) == rows' = [rows EXCEPT ![t] = None]

Next == \E t \in Tickets : ClearRow(t) \/ \E e \in FormEdits : EditRow(t, e)

Spec == Init /\ [][Next]_rows
=============================================================================
