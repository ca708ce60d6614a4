---------------------------- MODULE MCTicketDesk ----------------------------
(* Small instances of TicketDesk for TLC. *)
EXTENDS TicketDesk, TLC

CONSTANTS t1, t2, r1, r2, r3, n1, d1

\* Jobs.
Do(kind, t) == [kind |-> kind, t |-> t, edit |-> None, status |-> None, from |-> "ticket"]
Ask(e, t, from)  == [Do("update", t) EXCEPT !.edit = e, !.from = from]
Move(s, t, from) == [Do("status", t) EXCEPT !.status = s, !.from = from]

TodayOn   == [field |-> "today", value |-> "1"]
TodayFlip == [field |-> "today", value |-> "toggle"]
Blocked   == [field |-> "blocked", value |-> "1"]
NoteEdit  == [field |-> "note", note |-> n1]
Review    == [field |-> "review_after", date |-> d1]
Unreview  == [field |-> "review_after", date |-> None]
Raise     == [field |-> "priority", priority |-> 1]
Dismiss   == [field |-> "dismiss"]
Tomorrow  == [field |-> "defer_tomorrow", date |-> d1]
NoSprint  == [field |-> "defer_next_sprint", date |-> None]
NextSprint == [field |-> "defer_next_sprint", date |-> d1]
Invalid   == [field |-> "invalid"]

\* Contents of the database and of Freshdesk at start.
Fresh(t, who, s) == [t |-> t, responder |-> who, status |-> s, rev |-> 0]
DeferredRow == [DefaultRow EXCEPT !.reviewAfter = d1, !.deferred = TRUE, !.note = n1]
NoRows   == {[t \in Tickets |-> None]}
SomeRows == {[t \in Tickets |-> None], [t \in Tickets |-> DeferredRow]}
Mine     == {[t \in Tickets |-> Fresh(t, Me, 2)]}
AnyFd    == {[t \in Tickets |-> Fresh(t, who, 2)] : who \in {Me, Nobody}}

Symmetry == Permutations(Requests)

\* Who asks what, run by run.
ReadsWork  == {Do("detail", t1), Do("preview", t1), Do("note", t1), Do("handover", t1),
               Move(6, t1, "list")}
BoardWork  == {Do("board", t1), Ask(TodayOn, t1, "list"), Do("handover", t1),
               Do("refresh", t1)}
SerialWork == {Do("detail", t1), Do("board", t1), Do("note", t1), Do("handover", t1),
               Move(6, t1, "ticket"), Move(4, t1, "list"), Move(2, t1, "ticket"), Ask(TodayOn, t1, "today"),
               Ask(NoteEdit, t1, "list")}
LiveWork   == {Do("board", t1), Do("detail", t1), Do("note", t1), Do("handover", t1),
               Ask(TodayOn, t1, "list"), Ask(Review, t1, "ticket")}
EditWork   == {Do("handover", t1)} \cup
              {Ask(e, t1, "today") : e \in {TodayOn, TodayFlip, Blocked, NoteEdit, Review, Unreview,
                                            Raise, Dismiss, Tomorrow, NoSprint, NextSprint, Invalid}}
FaultsWork == EditWork \cup {Do("note", t1), Move(6, t1, "list")}
=============================================================================
