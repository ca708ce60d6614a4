------------------------------- MODULE Paging --------------------------------
(* How a list longer than one page is read: the client asks for page after   *)
(* page while tickets move between the results and conversations are added   *)
(* and deleted. One handler reads at a time: the lists are Freshdesk's. The  *)
(* order of what was read is left out, but not how much it was.              *)
EXTENDS Integers, FiniteSets

CONSTANTS
  Tickets,      \* numbers of tickets: Freshdesk returns results in their order
  Custom,       \* tickets in a status the account has added
  MaxListed,    \* conversations the ticket can have (bound)
  SearchSize,   \* results on a page of a search: 30
  ListSize,     \* results on a page of a list: 100
  MaxChanges,   \* changes at Freshdesk (bound)
  Faults,       \* {"api"} if Freshdesk can fail
  None

ASSUME PagingAssumption ==
  /\ Tickets \subseteq Nat /\ IsFiniteSet(Tickets) /\ Custom \subseteq Tickets
  /\ {SearchSize, ListSize} \subseteq Nat \ {0} /\ {MaxListed, MaxChanges} \subseteq Nat

VARIABLES
  held,     \* what Freshdesk has: the tickets of each search, the numbers of the conversations
  call,     \* the call in progress: what is read, the page to ask for, the results so far and
            \* their number, in which a ticket counts each time it came
  answer,   \* what the handler got: the tickets of a board, the conversations of a ticket
  sure,     \* history: what the answer must contain
  changes

vars == <<held, call, answer, sure, changes>>

Searches == {"mine", "unassigned"}
Idle     == [of |-> "nothing", page |-> 1, got |-> {}, count |-> 0, mine |-> {}, filter |-> "any"]

Init ==
  /\ \E place \in [Tickets -> {"mine", "unassigned", "other"}], n \in 0..MaxListed :
       held = [mine       |-> {t \in Tickets : place[t] = "mine"},
               unassigned |-> {t \in Tickets : place[t] = "unassigned"},
               listed     |-> 1..n]
  /\ call = Idle /\ answer = None /\ sure = {} /\ changes = 0

----------------------------------------------------------------------------
(* Freshdesk: what a page holds, and how the lists change.                   *)
Rank(S, n) == Cardinality({m \in S : m <= n})
Page(S, size, k) == {n \in S : (k - 1) * size < Rank(S, n) /\ Rank(S, n) <= k * size}

\* What leaves the list being read takes with it the certainty of all that follow it.
Unsure(n, from) == {n} \cup IF call.of = from THEN {m \in held[from] : m > n} ELSE {}
Change == changes < MaxChanges /\ changes' = changes + 1

\* A ticket is assigned, released, closed or reopened.
Move(t) ==
  /\ Change
  /\ \E from \in {s \in Searches : t \in held[s]} \cup {"other"}, to \in Searches \cup {"other"} :
       /\ from # to /\ (from = "other" => \A s \in Searches : t \notin held[s])
       /\ held' = [s \in DOMAIN held |-> IF s = to THEN held[s] \cup {t}
                                         ELSE IF s = from THEN held[s] \ {t} ELSE held[s]]
       /\ sure' = IF call.of \in Searches THEN sure \ Unsure(t, from) ELSE sure
  /\ UNCHANGED <<call, answer>>

AddConversation ==
  /\ Change
  /\ \E n \in 1..MaxListed :
       /\ \A m \in held.listed : m < n
       /\ held' = [held EXCEPT !.listed = @ \cup {n}]
  /\ UNCHANGED <<call, answer, sure>>

DeleteConversation ==
  /\ Change
  /\ \E n \in held.listed :
       /\ held' = [held EXCEPT !.listed = @ \ {n}]
       /\ sure' = IF call.of = "listed" THEN sure \ Unsure(n, "listed") ELSE sure
  /\ UNCHANGED <<call, answer>>

----------------------------------------------------------------------------
(* The search for a board.                                                   *)
\* activeStatusFilter: without the account's statuses only the standard ones are asked for.
Matching(S, filter) == IF filter = "any" THEN S ELSE S \ Custom
ReadBoard ==
  /\ call.of = "nothing"
  /\ \E filter \in {"any"} \cup IF "api" \in Faults THEN {"standard"} ELSE {} :
       /\ call' = [Idle EXCEPT !.of = "mine", !.filter = filter]
       /\ sure' = Matching(held.mine \cup held.unassigned, filter)
  /\ answer' = None
  /\ UNCHANGED <<held, changes>>

\* The search for my tickets is followed by the one for unassigned tickets; a ticket in both
\* is merged into one.
NextSearch(got) ==
  IF call.of = "mine"
    THEN /\ call' = [Idle EXCEPT !.of = "unassigned", !.mine = got, !.filter = call.filter]
         /\ answer' = answer
    ELSE /\ call' = Idle
         /\ answer' = call.mine \cup got

\* Slip: reading stops at a page that brings nothing new.
NothingNew(count, page, total) == page \subseteq call.got
\* paginateSearch: as many results as there are, or an empty page.
SearchRead(count, page, total) == count >= total \/ page = {}
ReadPage(page) ==
  /\ call' = [call EXCEPT !.page = @ + 1, !.got = @ \cup page, !.count = @ + Cardinality(page)]
  /\ answer' = answer
Search ==
  /\ call.of \in Searches
  /\ LET found == Matching(held[call.of], call.filter)
         page  == Page(found, SearchSize, call.page)
     IN IF SearchRead(call.count + Cardinality(page), page, Cardinality(found))
          THEN NextSearch(call.got \cup page) ELSE ReadPage(page)
  /\ UNCHANGED <<held, sure, changes>>

\* Without my tickets there is no new board; unassigned tickets are what was read of them.
SearchFails ==
  /\ "api" \in Faults /\ call.of \in Searches
  /\ IF call.of = "mine" THEN call' = Idle /\ sure' = {} /\ answer' = answer
                         ELSE NextSearch(call.got) /\ sure' = sure \ held.unassigned
  /\ UNCHANGED <<held, changes>>

----------------------------------------------------------------------------
(* The conversations of a ticket; agents, companies and the fields of a      *)
(* ticket are read in the same way.                                          *)
ReadList ==
  /\ call.of = "nothing"
  /\ call' = [Idle EXCEPT !.of = "listed"]
  /\ sure' = held.listed /\ answer' = None
  /\ UNCHANGED <<held, changes>>

\* paginate: an empty or a short page is the last one.
ListRead(page) == page = {} \/ Cardinality(page) < ListSize
List ==
  /\ call.of = "listed"
  /\ LET page == Page(held.listed, ListSize, call.page)
     IN IF ListRead(page) THEN call' = Idle /\ answer' = call.got \cup page ELSE ReadPage(page)
  /\ UNCHANGED <<held, sure, changes>>

\* What was read so far is dropped.
ListFails ==
  /\ "api" \in Faults /\ call.of = "listed"
  /\ call' = Idle /\ sure' = {}
  /\ UNCHANGED <<held, answer, changes>>

Next ==
  \/ (\E t \in Tickets : Move(t)) \/ AddConversation \/ DeleteConversation
  \/ ReadBoard \/ Search \/ SearchFails \/ ReadList \/ List \/ ListFails
Spec == Init /\ [][Next]_vars

----------------------------------------------------------------------------
Answered == call.of = "nothing" /\ answer # None

(* A board has every ticket that was ours or unassigned, and asked for, all  *)
(* the time it was read, if none before it in the same results left them     *)
(* meanwhile; and unassigned ones only if their search did not fail. A       *)
(* conversation list has what was there before and after, under the same     *)
(* condition. Tickets that come in and shift the pages do no harm.           *)
NothingMissed == Answered => sure \subseteq answer
=============================================================================
