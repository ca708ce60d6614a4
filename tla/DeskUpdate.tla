----------------------------- MODULE DeskUpdate -----------------------------
(***************************************************************************)
(* HandleUpdateState (srv/state.go): a read-modify-write of one row of     *)
(* ticket_state, with an assignment on Freshdesk in the middle when the    *)
(* today flag is set; and buildTicketCard, the card it answers with.       *)
(***************************************************************************)
EXTENDS Desk

\* Slip: the row is built from the defaults, not from what is stored.
LoadBlankRow(r) ==
    /\ pc[r] = "load" /\ DbOk(r) /\ ~Rejected(job[r].edit)
    /\ mem' = [mem EXCEPT ![r].row = Edit(job[r].edit, DefaultRow)]
    /\ Proceed(r, IF TurnsTodayOn(job[r].edit, DefaultRow) THEN "assign_agent" ELSE "upsert")
    /\ UNCHANGED <<freshdesk, rows, caches, process, asked, log, bounds>>

\* GetTicketState, then the switch over the form field.
LoadRow(r) ==
    /\ pc[r] = "load"
    /\ LET e   == job[r].edit
           row == RowOf(rows, Ticket(r))
       IN  \/ /\ DbOk(r) /\ ~Rejected(e)
              /\ mem' = [mem EXCEPT ![r].row = Edit(e, row)]
              /\ Proceed(r, IF TurnsTodayOn(e, row) THEN "assign_agent" ELSE "upsert")
           \/ /\ DbFails(r) \/ Rejected(e)
              /\ Answer(r, "bad")
              /\ UNCHANGED mem
    /\ UNCHANGED <<freshdesk, rows, caches, process, asked, log, bounds>>

\* Slip: a ticket of the board counts as ours whoever it is assigned to.
SkipOfBoard(r) ==
    /\ pc[r] = "skip"
    /\ \/ Cached(Ticket(r)) # {} /\ Proceed(r, "upsert") /\ Achieve(r, "found")
       \/ Cached(Ticket(r)) = {} /\ Proceed(r, "assign") /\ UNCHANGED log
    /\ UNCHANGED <<freshdesk, rows, caches, process, asked, mem, bounds>>

\* assignToSelf looks the ticket up in tickets:dashboard (with a context of
\* its own, so a client that hung up makes no difference).
SkipAssign(r) ==
    /\ pc[r] = "skip"
    /\ \/ /\ \E i \in Cached(Ticket(r)) : i.responder = Me
          /\ Proceed(r, "upsert")
          /\ Achieve(r, "found")
       \/ /\ "db" \in Faults \/ \A i \in Cached(Ticket(r)) : i.responder # Me
          /\ Proceed(r, "assign")
          /\ UNCHANGED log
    /\ UNCHANGED <<freshdesk, rows, caches, process, asked, mem, bounds>>

\* Slip: the cached ticket is not invalidated after an assignment.
AssignAndKeepCache(r) ==
    /\ pc[r] = "assign"
    /\ fd' = Written(Ticket(r), Me, fd[Ticket(r)].status)
    /\ Achieve(r, "assign")
    /\ Proceed(r, "upsert")
    /\ UNCHANGED <<convs, rows, caches, process, asked, mem, bounds>>

\* An assignment that fails is logged and the update goes on.
AssignTicket(r) ==
    /\ pc[r] = "assign"
    /\ \E done, told \in BOOLEAN :
         /\ Call(r, done, told)
         /\ IF done THEN /\ fd' = Written(Ticket(r), Me, fd[Ticket(r)].status)
                         /\ Achieve(r, "assign")
                    ELSE UNCHANGED fd /\ Achieve(r, "failed")
         /\ Proceed(r, IF told THEN "del_ticket" ELSE "upsert")
    /\ UNCHANGED <<convs, rows, caches, process, asked, mem, bounds>>

DelDash(r) ==
    /\ pc[r] = "del_dash"
    /\ \/ DbOk(r) /\ dcache' = None
       \/ DbFails(r) /\ UNCHANGED dcache
    /\ Proceed(r, "upsert")
    /\ UNCHANGED <<freshdesk, rows, tcache, ccache, process, asked, mem, log, bounds>>

\* Slip: a row that holds nothing but defaults is dropped.
UpsertOrDropRow(r) ==
    /\ pc[r] = "upsert" /\ DbOk(r)
    /\ rows' = [rows EXCEPT ![Ticket(r)] =
                   IF mem[r].row = DefaultRow THEN None ELSE mem[r].row]
    /\ Achieve(r, "edit")
    /\ IF job[r].from = "list" THEN Proceed(r, "card") ELSE Answer(r, "ok")
    /\ UNCHANGED <<freshdesk, caches, process, asked, mem, bounds>>

\* UpsertTicketState writes every column of the row as it was loaded.
UpsertRow(r) ==
    /\ pc[r] = "upsert"
    /\ \/ /\ DbOk(r)
          /\ rows' = [rows EXCEPT ![Ticket(r)] = mem[r].row]
          /\ Achieve(r, "edit")
          /\ IF job[r].from = "list" THEN Proceed(r, "card") ELSE Answer(r, "ok")
       \/ /\ DbFails(r)
          /\ Answer(r, "bad")
          /\ UNCHANGED <<rows, log>>
    /\ UNCHANGED <<freshdesk, caches, process, asked, mem, bounds>>

-----------------------------------------------------------------------------
\* buildTicketCard: from the cached board or from Freshdesk; the ticket it
\* fetches itself is not cached.  The conversations come next.
CardFromBoard(r) ==
    /\ pc[r] = "card"
    /\ \/ \E i \in Cached(Ticket(r)) :
             /\ mem' = [mem EXCEPT ![r].item = i]
             /\ Proceed(r, "convs")
       \/ /\ Cached(Ticket(r)) = {} \/ "db" \in Faults
          /\ Proceed(r, "card_fetch")
          /\ UNCHANGED mem
    /\ UNCHANGED <<freshdesk, rows, caches, process, asked, log, bounds>>

CardFromFreshdesk(r) ==
    /\ pc[r] = "card_fetch"
    /\ \/ /\ ApiOk(r)
          /\ mem' = [mem EXCEPT ![r].item = fd[Ticket(r)]]
          /\ Proceed(r, "convs")
       \/ /\ ApiFails(r)
          /\ Answer(r, "bad")
          /\ UNCHANGED mem
    /\ UNCHANGED <<freshdesk, rows, caches, process, asked, log, bounds>>

UpdateStep(r) ==
    \/ LoadRow(r) \/ SkipAssign(r) \/ AssignTicket(r) \/ DelDash(r)
    \/ UpsertRow(r) \/ CardFromBoard(r) \/ CardFromFreshdesk(r)
=============================================================================
