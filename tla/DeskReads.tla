------------------------------ MODULE DeskReads ------------------------------
(***************************************************************************)
(* The handlers that read through the cache: HandleTicketDetail and        *)
(* HandleTicketPreview (srv/ticket.go), the board behind HandleDashboard   *)
(* and HandleToday (fetchAllTicketCards, srv/dashboard.go), and            *)
(* HandleRefresh.  Every fill of a cache is three steps -- look, fetch,    *)
(* store -- and others may write between any two.                          *)
(***************************************************************************)
EXTENDS Desk

LookTicket(r) ==
    /\ pc[r] = "ticket"
    /\ LET cached == tcache[Ticket(r)] IN
       \/ /\ DbOk(r) /\ cached # None
          /\ mem' = [mem EXCEPT ![r].item = cached]
          /\ Proceed(r, "convs")
       \/ /\ cached = None \/ DbFails(r)
          /\ Proceed(r, "ticket_fetch")
          /\ UNCHANGED mem
    /\ UNCHANGED <<freshdesk, rows, caches, process, asked, log, bounds>>

FetchTicket(r) ==
    /\ pc[r] = "ticket_fetch"
    /\ \/ /\ ApiOk(r)
          /\ mem' = [mem EXCEPT ![r].item = fd[Ticket(r)]]
          /\ Proceed(r, "ticket_set")
       \/ /\ ApiFails(r)
          /\ Answer(r, "bad")
          /\ UNCHANGED mem
    /\ UNCHANGED <<freshdesk, rows, caches, process, asked, log, bounds>>

StoreTicket(r) ==
    /\ pc[r] = "ticket_set"
    /\ \/ DbOk(r) /\ tcache' = [tcache EXCEPT ![Ticket(r)] = mem[r].item]
       \/ DbFails(r) /\ UNCHANGED tcache
    /\ Proceed(r, "convs")
    /\ UNCHANGED <<freshdesk, rows, ccache, dcache, process, asked, mem, log, bounds>>

\* After the conversations of one ticket: a board goes on with the next
\* ticket, everything else has what it needs to answer.  What a page adds
\* to them (names, local state, labels, links) is read and rendered.
Converse(r) ==
    IF Kind(r) = "board" THEN Proceed(r, "updaters") ELSE Answer(r, "ok")

LookConvs(r) ==
    /\ pc[r] = "convs"
    /\ LET cached == ccache[mem[r].cur] IN
       \/ /\ DbOk(r) /\ cached # None
          /\ mem' = [mem EXCEPT ![r].n = cached]
          /\ Converse(r)
       \/ /\ cached = None \/ DbFails(r)
          /\ Proceed(r, "convs_fetch")
          /\ UNCHANGED mem
    /\ UNCHANGED <<freshdesk, rows, caches, process, asked, log, bounds>>

\* A failure is logged; the page is rendered without conversations.
FetchConvs(r) ==
    /\ pc[r] = "convs_fetch"
    /\ \/ /\ ApiOk(r)
          /\ mem' = [mem EXCEPT ![r].n = convs[mem[r].cur]]
          /\ Proceed(r, "convs_set")
       \/ /\ ApiFails(r)
          /\ Converse(r)
          /\ UNCHANGED mem
    /\ UNCHANGED <<freshdesk, rows, caches, process, asked, log, bounds>>

\* Slip: the key is the ticket the request is about, not the one just asked for.
StoreConvsElsewhere(r) ==
    /\ pc[r] = "convs_set" /\ DbOk(r)
    /\ ccache' = [ccache EXCEPT ![Ticket(r)] = mem[r].n]
    /\ Converse(r)
    /\ UNCHANGED <<freshdesk, rows, tcache, dcache, process, asked, mem, log, bounds>>

StoreConvs(r) ==
    /\ pc[r] = "convs_set"
    /\ \/ DbOk(r) /\ ccache' = [ccache EXCEPT ![mem[r].cur] = mem[r].n]
       \/ DbFails(r) /\ UNCHANGED ccache
    /\ Converse(r)
    /\ UNCHANGED <<freshdesk, rows, tcache, dcache, process, asked, mem, log, bounds>>

-----------------------------------------------------------------------------
\* The board.  On a miss activeStatusFilter picks the statuses to ask for:
\* every active one, or Open and Pending if the choices cannot be loaded.
LookDash(r) ==
    /\ pc[r] = "dash"
    /\ \/ /\ DbOk(r) /\ DashFresh
          /\ mem' = [mem EXCEPT ![r].list = dcache.list]
          /\ Proceed(r, "rows")
       \/ /\ ~DashFresh \/ DbFails(r)
          /\ \E want \in {Active} \cup (IF ApiFails(r) THEN {Statuses \cap {2, 3}} ELSE {}) :
                mem' = [mem EXCEPT ![r].want = want]
          /\ Proceed(r, "filter_mine")
    /\ UNCHANGED <<freshdesk, rows, caches, process, asked, log, bounds>>

Matching(r, responder) ==
    {i \in {fd[t] : t \in Tickets} : i.responder = responder /\ i.status \in mem[r].want}

FilterMine(r) ==
    /\ pc[r] = "filter_mine"
    /\ \/ /\ ApiOk(r)
          /\ mem' = [mem EXCEPT ![r].list = Matching(r, Me)]
          /\ Proceed(r, "filter_unassigned")
       \/ /\ ApiFails(r)
          /\ Proceed(r, "stale")
          /\ UNCHANGED mem
    /\ UNCHANGED <<freshdesk, rows, caches, process, asked, log, bounds>>

\* Slip: there is always something in the cache.
UseStaleOnly(r) ==
    /\ pc[r] = "stale" /\ dcache # None
    /\ mem' = [mem EXCEPT ![r].list = dcache.list]
    /\ Proceed(r, "rows")
    /\ UNCHANGED <<freshdesk, rows, caches, process, asked, log, bounds>>

\* The first filter failed: whatever the cache holds, however old.
UseStale(r) ==
    /\ pc[r] = "stale"
    /\ \/ /\ DbOk(r) /\ dcache # None
          /\ mem' = [mem EXCEPT ![r].list = dcache.list]
          /\ Proceed(r, "rows")
       \/ /\ dcache = None \/ DbFails(r)
          /\ Answer(r, "bad")
          /\ UNCHANGED mem
    /\ UNCHANGED <<freshdesk, rows, caches, process, asked, log, bounds>>

\* Slips: nobody looks for tickets in both lists; the second list replaces
\* the first.
MergedTwice(list, batch) == list \cup batch
MergedLast(list, batch) == batch

\* The second filter; the first list wins for a ticket in both.  A failure
\* is logged and the pages read so far are kept as if they were all.
Merged(list, batch) ==
    list \cup {i \in batch : \A j \in list : j.t # i.t}

FilterUnassigned(r) ==
    /\ pc[r] = "filter_unassigned"
    /\ \E batch \in SUBSET Matching(r, Nobody) :
         /\ \/ ApiOk(r) /\ batch = Matching(r, Nobody)
            \/ ApiFails(r)
         /\ mem' = [mem EXCEPT ![r].list = Merged(@, batch)]
    /\ Proceed(r, "dash_set")
    /\ UNCHANGED <<freshdesk, rows, caches, process, asked, log, bounds>>

StoreDash(r) ==
    /\ pc[r] = "dash_set"
    /\ \/ DbOk(r) /\ dcache' = [list |-> mem[r].list, fresh |-> TRUE]
       \/ DbFails(r) /\ UNCHANGED dcache
    /\ Proceed(r, "rows")
    /\ UNCHANGED <<freshdesk, rows, tcache, ccache, process, asked, mem, log, bounds>>

\* ListTicketStates, then one lookup of conversations per ticket.  The
\* dashboard looks once more at those whose review date is still to come.
ListRows(r) ==
    /\ pc[r] = "rows"
    /\ \/ /\ DbOk(r)
          /\ LET shown == {i.t : i \in mem[r].list} IN
             \E later \in SUBSET {t \in shown : rows[t] # None /\ rows[t].deferred} :
                mem' = [mem EXCEPT ![r].pend = shown, ![r].again = later]
          /\ Proceed(r, "updaters")
       \/ /\ DbFails(r)
          /\ Answer(r, "bad")
          /\ UNCHANGED mem
    /\ UNCHANGED <<freshdesk, rows, caches, process, asked, log, bounds>>

\* determineLastUpdater of each ticket, in any order.
NextUpdater(r) ==
    /\ pc[r] = "updaters"
    /\ \E t \in mem[r].pend :
         mem' = [mem EXCEPT ![r].pend = @ \ {t}, ![r].cur = t, ![r].n = None]
    /\ Proceed(r, "convs")
    /\ UNCHANGED <<freshdesk, rows, caches, process, asked, log, bounds>>

\* latestIncomingReplyTime of each deferred ticket, when all cards are built.
AskAgain(r) ==
    /\ pc[r] = "updaters" /\ mem[r].pend = {} /\ mem[r].again # {}
    /\ mem' = [mem EXCEPT ![r].pend = mem[r].again, ![r].again = {}]
    /\ Proceed(r, "updaters")
    /\ UNCHANGED <<freshdesk, rows, caches, process, asked, log, bounds>>

ShowBoard(r) ==
    /\ pc[r] = "updaters" /\ mem[r].pend = {} /\ mem[r].again = {}
    /\ Answer(r, "ok")
    /\ UNCHANGED <<freshdesk, rows, caches, process, asked, mem, log, bounds>>

\* HandleRefresh: one DELETE over api_cache; an error is only logged.
FlushCache(r) ==
    /\ pc[r] = "flush"
    /\ \/ /\ DbOk(r)
          /\ tcache' = [t \in Tickets |-> None]
          /\ ccache' = [t \in Tickets |-> None]
          /\ dcache' = None
       \/ DbFails(r) /\ UNCHANGED caches
    /\ Answer(r, "ok")
    /\ UNCHANGED <<freshdesk, rows, process, asked, mem, log, bounds>>

ReadStep(r) ==
    \/ LookTicket(r) \/ FetchTicket(r) \/ StoreTicket(r)
    \/ LookConvs(r) \/ FetchConvs(r) \/ StoreConvs(r)
    \/ LookDash(r) \/ FilterMine(r) \/ UseStale(r) \/ FilterUnassigned(r)
    \/ StoreDash(r) \/ ListRows(r) \/ NextUpdater(r) \/ AskAgain(r) \/ ShowBoard(r)
    \/ FlushCache(r)
=============================================================================
