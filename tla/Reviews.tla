------------------------------- MODULE Reviews -------------------------------
(* The review date of one ticket: how the agent sets it, what the client     *)
(* does meanwhile, and where the boards in progress show the ticket. Time is *)
(* counted in instants; what the program stores of it are seconds and days.  *)
EXTENDS Sprints, Naturals, Sequences

CONSTANTS
  Parts, DayLength,  \* instants of a second, instants of a day
  Anchors,           \* anchors the administrator can enter
  Pages,             \* boards in progress
  Places,            \* the servers looked at: where each is, and what may happen there
  ConvAge,           \* seconds for which a board trusts cached conversations
  CallTime,          \* seconds an answer of Freshdesk can be on its way into the cache
  None

\* A server has a zone, as an offset in instants, and a weekday for day 0, 0 being Sunday.
\* There the agent picks one of the dates, the administrator one of the anchors; the ticket
\* is ours or not and has a day it was created on; edits and messages are bounds.
ASSUME ReviewsAssumption ==
  /\ Parts \in Nat \ {0} /\ DayLength \in Nat \ {0} /\ None \notin Int
  /\ Anchors \subseteq [year : Nat, number : 1..PerYear, start : Int]
  /\ Places \subseteq [zone : Int, weekday : 0..6, dates : SUBSET Int, anchors : SUBSET Anchors,
                      tickets : SUBSET [mine : BOOLEAN, created : Int], pages : SUBSET Pages,
                      faults : SUBSET {"api", "db"}, time : Nat, edits : Nat, messages : Nat]
  /\ \A p \in Places : -DayLength < p.zone /\ p.zone < DayLength
  /\ ConvAge \in Nat \ {0} /\ CallTime \in Nat

VARIABLES
  now,
  place,     \* the server; it stays what it is
  anchors,   \* the table sprint_anchor
  row,       \* review_after as an instant with the offset it is written in, deferred_at in seconds
  convs,     \* the conversations at Freshdesk, oldest first
  cached,    \* conversations:{id}: how many, and the second they were stored in
  page,      \* each board in progress, see below
  wish,      \* history: the day the review was put off to, when and how
  edits

vars == <<now, place, anchors, row, convs, cached, page, wish, edits>>

Sec(t)      == t \div Parts
UTCDay(t)   == t \div DayLength
LocalDay(t) == (t + place.zone) \div DayLength
Today       == LocalDay(now)
Weekday(d)  == (d + place.weekday) % 7
Weekend(d)  == Weekday(d) \in {0, 6}

NoReview == [at |-> None, zone |-> 0, deferred |-> None]
NoWish   == [day |-> None, at |-> 0, how |-> "none"]

\* A board reads the row; it looks for the conversations in the cache, asks Freshdesk for
\* them and stores the answer; it finds the section for the ticket, and if the ticket is
\* deferred it looks for the conversations again. `got` is how many it got, `asof` when
\* Freshdesk answered, `usual` the section of a ticket that is not deferred; `wish` and
\* `start`, the wish and the time as the row was read, are history.
Closed == [step |-> "closed", row |-> NoReview, wish |-> NoWish, start |-> 0,
           got |-> None, asof |-> 0, usual |-> "none", sections |-> {}]

Init ==
  /\ now = 0
  /\ place \in Places
  /\ anchors = {} /\ row = NoReview /\ convs = <<>> /\ cached = None
  /\ page = [p \in Pages |-> Closed]
  /\ wish = NoWish /\ edits = 0

----------------------------------------------------------------------------
(* The agent.                                                                *)
Edit == edits < place.edits /\ edits' = edits + 1
Defer(review, z, want, how) ==
  /\ row' = [at |-> review, zone |-> z, deferred |-> Sec(now)]
  /\ wish' = [day |-> want, at |-> now, how |-> how]
  /\ Edit
  /\ UNCHANGED <<now, place, anchors, convs, cached, page>>

\* A date is parsed as midnight UTC.
DeferTo(d) == Defer(d * DayLength, 0, d, "date")

\* Slip: the weekend is forgotten.
NextDay(t) == (UTCDay(t) + 1) * DayLength
\* nextWeekday: Truncate cuts to midnight UTC, Weekday is that of the server's zone.
NextWeekday(t) ==
  LET days == {i \in 1..3 : ~ Weekend(LocalDay((UTCDay(t) + i) * DayLength))}
  IN (UTCDay(t) + CHOOSE i \in days : \A j \in days : i <= j) * DayLength
NextWorkday(d) == CHOOSE e \in d+1..d+3 : ~ Weekend(e) /\ \A f \in d+1..e-1 : Weekend(f)
DeferTomorrow == Defer(NextWeekday(now), place.zone, NextWorkday(Today), "tomorrow")

DeferNextSprint ==
  /\ anchors # {}
  /\ \E d \in NextStarts(anchors, Today) : Defer(d * DayLength, 0, d, "sprint")

\* An empty date, or the ticket is marked for today.
Undefer ==
  /\ row' = NoReview /\ wish' = NoWish
  /\ Edit
  /\ UNCHANGED <<now, place, anchors, convs, cached, page>>

\* HandleAdminSprintAnchorAdd replaces the date of an anchor of the same year and number.
SameNumber(a, b) == a.year = b.year /\ a.number = b.number
AddAnchor(a) ==
  /\ anchors' = {b \in anchors : ~ SameNumber(a, b)} \cup {a}
  /\ Edit
  /\ UNCHANGED <<now, place, row, convs, cached, page, wish>>
DeleteAnchor(a) ==
  /\ anchors' = {b \in anchors : ~ SameNumber(a, b)}
  /\ Edit
  /\ UNCHANGED <<now, place, row, convs, cached, page, wish>>

----------------------------------------------------------------------------
(* Freshdesk, time, and what else happens to the cached conversations.       *)
Message(kind) ==
  /\ Len(convs) < place.messages
  /\ convs' = Append(convs, [kind |-> kind, at |-> Sec(now)])
  /\ UNCHANGED <<now, place, anchors, row, cached, page, wish, edits>>
\* An answer is read and stored before CallTime is over.
Tick ==
  /\ now < place.time /\ now' = now + 1
  /\ \A p \in Pages : page[p].step = "store" => now < page[p].asof + CallTime * Parts
  /\ UNCHANGED <<place, anchors, row, convs, cached, page, wish, edits>>
\* A note, a handover or the refresh button deletes the entry; one that a ticket page has
\* stored lasts two minutes instead of five.
Forget ==
  /\ cached # None /\ cached' = None
  /\ UNCHANGED <<now, place, anchors, row, convs, page, wish, edits>>

----------------------------------------------------------------------------
(* The conversations, as a board gets them.                                  *)
Goes(p, step)   == page' = [page EXCEPT ![p].step = step]
Knows(p, count) == page' = [page EXCEPT ![p].step = "known", ![p].got = count]
\* Slip: an entry is used whatever its age.
AnyAge == cached # None
Fresh == cached # None /\ now < (cached.at + ConvAge) * Parts
Look(p) ==
  /\ page[p].step = "look"
  /\ \/ Fresh /\ Knows(p, cached.count)
     \/ (~ Fresh \/ "db" \in place.faults) /\ Goes(p, "ask")
  /\ UNCHANGED <<now, place, anchors, row, convs, cached, wish, edits>>
Ask(p) ==
  /\ page[p].step = "ask"
  /\ \/ page' = [page EXCEPT ![p].step = "store", ![p].got = Len(convs), ![p].asof = now]
     \/ "api" \in place.faults /\ Knows(p, None)
  /\ UNCHANGED <<now, place, anchors, row, convs, cached, wish, edits>>
\* Whatever was stored meanwhile is replaced.
Store(p) ==
  /\ page[p].step = "store"
  /\ \/ cached' = [count |-> page[p].got, at |-> Sec(now)]
     \/ "db" \in place.faults /\ UNCHANGED cached
  /\ page' = [page EXCEPT ![p].step = "known", ![p].asof = 0]
  /\ UNCHANGED <<now, place, anchors, row, convs, wish, edits>>

----------------------------------------------------------------------------
(* The board.                                                                *)
Last(S) == CHOOSE i \in S : \A j \in S : j <= i
Client(n) == {i \in 1..n : convs[i].kind = "client"}
\* latestIncomingReplyTime, of the first n conversations.
LatestIncoming(n) == IF Client(n) = {} THEN None ELSE convs[Last(Client(n))].at

\* Today is the day in the server's zone, the review day that in the zone it is written in.
ReviewDay(r) == (r.at + r.zone) \div DayLength
Deferred(r)  == r.at # None /\ ReviewDay(r) > Today
Due(r)       == r.at # None /\ ReviewDay(r) <= Today
\* Without an answer there are no conversations.
Promoted(r, n) ==
  n # None /\ LatestIncoming(n) # None /\ r.deferred # None /\ LatestIncoming(n) > r.deferred

\* Year and number are compared, not the days.
Label(s) == <<s.year, s.number>>
Usual(t, sp, cur) ==
  IF t.mine THEN "assigned"
  ELSE IF sp # None /\ Label(sp) # Label(cur) THEN "historic" ELSE "unassigned"
SprintOf(d) == IF anchors = {} THEN {None} ELSE Resolutions(anchors, d)

\* ListTicketStates, after which determineLastUpdater looks for the conversations.
Open(p) ==
  /\ p \in place.pages /\ page[p].step = "closed"
  /\ page' = [page EXCEPT ![p] = [Closed EXCEPT !.step = "look", !.row = row, !.wish = wish, !.start = now]]
  /\ UNCHANGED <<now, place, anchors, row, convs, cached, wish, edits>>
Shows(p, where) == page' = [page EXCEPT ![p].step = "shown", ![p].sections = where]
\* The card is built; a deferred ticket makes the board look for the conversations again.
Build(p) ==
  /\ page[p].step = "known" /\ page[p].usual = "none"
  /\ \E t \in place.tickets : \E sp \in SprintOf(t.created), cur \in SprintOf(Today) :
       LET u == Usual(t, sp, cur) IN
       \/ Deferred(page[p].row) /\ page' = [page EXCEPT ![p].step = "look", ![p].usual = u, ![p].got = None]
       \/ Due(page[p].row) /\ Shows(p, {"review_now", u})
       \/ page[p].row.at = None /\ Shows(p, {u})
  /\ UNCHANGED <<now, place, anchors, row, convs, cached, wish, edits>>
Decide(p) ==
  /\ page[p].step = "known" /\ page[p].usual # "none"
  /\ Shows(p, IF Promoted(page[p].row, page[p].got) THEN {"review_now", page[p].usual} ELSE {"for_later"})
  /\ UNCHANGED <<now, place, anchors, row, convs, cached, wish, edits>>

PageStep(p) == Open(p) \/ Look(p) \/ Ask(p) \/ Store(p) \/ Build(p) \/ Decide(p)
Next ==
  \/ (\E d \in place.dates : DeferTo(d)) \/ DeferTomorrow \/ DeferNextSprint \/ Undefer
  \/ (\E a \in place.anchors : AddAnchor(a)) \/ (\E a \in anchors : DeleteAnchor(a))
  \/ (\E kind \in {"client", "other"} : Message(kind)) \/ Tick \/ Forget
  \/ (\E p \in Pages : PageStep(p))
Spec == Init /\ [][Next]_vars

----------------------------------------------------------------------------
(* README.md:75: a board that is asked for ConvAge and CallTime after the    *)
(* client has replied to a deferred ticket shows the ticket in Review Now,   *)
(* however boards overlap and whichever answer of Freshdesk is stored last,  *)
(* if the reply came in a later second than the deferral and the board got   *)
(* the conversations at its second look. For longer than that a reply cannot *)
(* hide: an entry is trusted for ConvAge (5 minutes) from its storing, which *)
(* is at most CallTime after Freshdesk made the answer.                      *)
Reply(i, w) == convs[i].kind = "client" /\ convs[i].at > Sec(w.at)
Shown(b) == b.step = "shown" /\ b.row.at # None
RepliedIsReviewed ==
  \A p \in Pages : LET b == page[p] IN
    Shown(b) /\ b.got # None =>
      \A i \in 1..Len(convs) :
        Reply(i, b.wish) /\ Sec(b.start) >= convs[i].at + ConvAge + CallTime =>
          "review_now" \in b.sections

(* A deferred ticket whose client is silent is in For Later and nowhere else *)
(* until the day it was put off to, and in Review Now from that day on. The  *)
(* day "tomorrow" comes early only on a server whose zone is not UTC: while  *)
(* its date differs from UTC's east of Greenwich, and while it agrees west.  *)
CutEarly(w) ==
  /\ w.how = "tomorrow"
  /\ \/ place.zone > 0 /\ LocalDay(w.at) # UTCDay(w.at)
     \/ place.zone < 0 /\ LocalDay(w.at) = UTCDay(w.at)
ReviewOnItsDay ==
  \A p \in Pages : LET b == page[p] IN
    Shown(b) =>
      /\ LocalDay(b.start) >= b.wish.day => "review_now" \in b.sections
      /\ Today < b.wish.day /\ ~ CutEarly(b.wish) /\ ~ (\E i \in 1..Len(convs) : Reply(i, b.wish)) =>
           b.sections = {"for_later"}

(* Whenever the anchors have been edited, the sprints of all days, as        *)
(* Resolve gives them, follow one another without gap or overlap: a day is   *)
(* in its sprint, and two days next to each other are in the same one or the *)
(* second begins where the first ends.                                       *)
Window == {a.start + i : a \in Anchors, i \in {-29, -15, -14, -13, -1, 0, 1, 13, 14, 15, 28}}
Distinct(A) == \A a, b \in A : a.start = b.start => a = b
Follow(s, n, d) ==
  /\ s.start <= d /\ d < s.end
  /\ s = n \/ (n.start = d + 1 /\ s.end = d + 1)
Partition(A) ==
  \A d \in Window : \A s \in Resolutions(A, d), n \in Resolutions(A, d + 1) : Follow(s, n, d)
SprintsPartition ==
  [][anchors' # anchors /\ anchors' # {} /\ Distinct(anchors') => Partition(anchors')]_anchors

(* IsCurrentSprint compares numbers (dashboard.go:231): as long as the       *)
(* anchors are numbered in the order of their dates, they tell any two       *)
(* sprints apart.                                                            *)
Ordinal(s) == s.year * PerYear + s.number
InOrder(A) == \A a, b \in A : a.start < b.start => Ordinal(a) < Ordinal(b)
ToldApart(A) == \A s, n \in UNION {Resolutions(A, d) : d \in Window} : Label(s) = Label(n) => s = n
NumbersTellApart ==
  [][anchors' # anchors /\ Distinct(anchors') /\ InOrder(anchors') => ToldApart(anchors')]_anchors
=============================================================================
