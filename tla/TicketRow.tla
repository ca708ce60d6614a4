------------------------------ MODULE TicketRow ------------------------------
(***************************************************************************)
(* One row of the SQLite table ticket_state: the private state DeskTriage  *)
(* keeps about a Freshdesk ticket, and what each form field of             *)
(* PUT /ticket/{id}/state does to it (srv/state.go).  Pure data: no        *)
(* variables.                                                              *)
(*                                                                         *)
(* Dates stand for the review dates the handler computes or parses, Notes  *)
(* for note texts; deferred_at is kept as "set or not set".                *)
(***************************************************************************)
EXTENDS Integers

CONSTANTS
    None,        \* SQL NULL, "no row", "nothing read yet"
    NoNote,      \* the empty note text
    Notes,       \* the other note texts
    Dates,       \* review dates
    Priorities   \* numbers a priority form can carry

ASSUME RowAssumption ==
    /\ Priorities \subseteq Int
    /\ None \notin Dates

-----------------------------------------------------------------------------
Row == [today: BOOLEAN, blocked: BOOLEAN, note: Notes \cup {NoNote},
        priority: Priorities \cup {0, -1}, reviewAfter: Dates \cup {None},
        deferred: BOOLEAN]

\* What the handler works on when the table has no row for the ticket.
DefaultRow == [today |-> FALSE, blocked |-> FALSE, note |-> NoNote,
               priority |-> 0, reviewAfter |-> None, deferred |-> FALSE]

ASSUME NoRowAssumption == None \notin Row

RowOf(rows, t) == IF rows[t] = None THEN DefaultRow ELSE rows[t]

\* The forms the pages send, one kind per `field`.  The date of the two
\* defer fields is the one the handler computes: None when no sprint
\* anchors are configured.  "invalid" stands for an unknown field and for
\* a date or a priority that does not parse.
FormEdits ==
       [field: {"today"}, value: {"0", "1", "toggle"}]
  \cup [field: {"blocked"}, value: {"0", "1"}]
  \cup [field: {"note"}, note: Notes \cup {NoNote}]
  \cup [field: {"review_after"}, date: Dates \cup {None}]
  \cup [field: {"priority"}, priority: Priorities]
  \cup [field: {"dismiss"}]
  \cup [field: {"defer_tomorrow"}, date: Dates]
  \cup [field: {"defer_next_sprint"}, date: Dates \cup {None}]
  \cup [field: {"invalid"}]

\* Answered with 400 before anything is written.
Rejected(e) == \/ e.field = "invalid"
               \/ e.field = "defer_next_sprint" /\ e.date = None

\* The edit sets the today flag, and so assigns the ticket on Freshdesk.
TurnsTodayOn(e, row) ==
    /\ e.field = "today"
    /\ \/ e.value = "1"
       \/ e.value = "toggle" /\ ~row.today

SetToday(e, row) ==
    IF TurnsTodayOn(e, row)
    THEN [row EXCEPT !.today = TRUE, !.reviewAfter = None, !.deferred = FALSE]
    ELSE [row EXCEPT !.today = FALSE]

\* Slip: the deferral time stays.
SetReviewKeepsTime(date, row) == [row EXCEPT !.reviewAfter = date]

SetReview(date, row) ==
    [row EXCEPT !.reviewAfter = date, !.deferred = (date # None)]

Defer(date, row) == [SetReview(date, row) EXCEPT !.today = FALSE]

\* The switch of HandleUpdateState, for an edit that is not Rejected.
Edit(e, row) ==
    CASE e.field = "today"        -> SetToday(e, row)
      [] e.field = "blocked"      -> [row EXCEPT !.blocked = (e.value = "1")]
      [] e.field = "note"         -> [row EXCEPT !.note = e.note]
      [] e.field = "review_after" -> SetReview(e.date, row)
      [] e.field = "priority"     -> [row EXCEPT !.priority = e.priority]
      [] e.field = "dismiss"      -> [row EXCEPT !.priority = -1]
      [] e.field \in {"defer_tomorrow", "defer_next_sprint"} -> Defer(e.date, row)
      [] OTHER -> row

\* A review date and the moment it was set come and go together; the board
\* compares a client's reply with that moment only when both are there.
Paired(row) == row.deferred <=> row.reviewAfter # None
=============================================================================
