----------------------------- MODULE DeskWrites -----------------------------
(***************************************************************************)
(* The handlers that write to Freshdesk: HandleAddNote and HandleHandover  *)
(* (srv/ticket.go) and HandleUpdateFreshdeskStatus                         *)
(* (srv/freshdesk_status.go).                                              *)
(***************************************************************************)
EXTENDS Desk

\* The status handler first compares with the cached ticket.
CompareStatus(r) ==
    /\ pc[r] = "status_check"
    /\ LET cached == tcache[Ticket(r)] IN
       \/ /\ DbOk(r) /\ cached # None /\ cached.status = job[r].status
          /\ Answer(r, "ok")
          /\ Achieve(r, "found")
       \/ /\ \/ cached = None
             \/ cached # None /\ cached.status # job[r].status
             \/ DbFails(r)
          /\ Proceed(r, "allow")
          /\ UNCHANGED log
    /\ UNCHANGED <<freshdesk, rows, caches, process, asked, mem, bounds>>

\* noteLimiter.Allow, one window per ticket shared by the three handlers.
AllowWrite(r) ==
    /\ pc[r] = "allow"
    /\ IF Ticket(r) \in limited
       THEN Answer(r, "limited") /\ UNCHANGED limited
       ELSE /\ limited' = limited \cup {Ticket(r)}
            /\ Proceed(r, IF Kind(r) = "status" THEN "set_status" ELSE "create_note")
    /\ UNCHANGED <<freshdesk, rows, caches, agent, asked, mem, log, bounds>>

CreateNote(r) ==
    /\ pc[r] = "create_note"
    /\ \E done, told \in BOOLEAN :
         /\ Call(r, done, told)
         /\ IF done
            THEN /\ convs' = [convs EXCEPT ![Ticket(r)] = @ + 1]
                 /\ log' = [log EXCEPT ![r] = NotedAt(log[r], convs[Ticket(r)] + 1)]
            ELSE UNCHANGED <<convs, log>>
         /\ IF told
            THEN Proceed(r, IF Kind(r) = "handover" THEN "unassign" ELSE "del_convs")
            ELSE Answer(r, "bad")
    /\ UNCHANGED <<fd, rows, caches, process, asked, mem, bounds>>

\* Slips: the handover goes on although the ticket is still assigned; the
\* client is not told that the note is already there.
UnassignAndGoOn(r) ==
    /\ pc[r] = "unassign" /\ "api" \in Faults
    /\ Proceed(r, "clear_row")
    /\ UNCHANGED <<freshdesk, rows, caches, process, asked, mem, log, bounds>>

UnassignUntold(r) ==
    /\ pc[r] = "unassign" /\ ApiFails(r)
    /\ Answer(r, "bad")
    /\ UNCHANGED <<freshdesk, rows, caches, process, asked, mem, log, bounds>>

UnassignTicket(r) ==
    /\ pc[r] = "unassign"
    /\ \E done, told \in BOOLEAN :
         /\ Call(r, done, told)
         /\ IF done
            THEN /\ fd' = Written(Ticket(r), Nobody, fd[Ticket(r)].status)
                 /\ log' = [log EXCEPT ![r] = WroteAt(log[r], "unassign", fd[Ticket(r)].rev + 1)]
            ELSE UNCHANGED <<fd, log>>
         /\ IF told THEN Proceed(r, "clear_row") ELSE Answer(r, "bad_unassign")
    /\ UNCHANGED <<convs, rows, caches, process, asked, mem, bounds>>

\* Slip: the handover leaves the row.
KeepState(r) ==
    /\ pc[r] = "clear_row"
    /\ Proceed(r, "del_convs")
    /\ UNCHANGED <<freshdesk, rows, caches, process, asked, mem, log, bounds>>

\* DeleteTicketState; a failure is logged and the handover goes on.
ClearState(r) ==
    /\ pc[r] = "clear_row"
    /\ \/ /\ DbOk(r)
          /\ rows' = [rows EXCEPT ![Ticket(r)] = None]
          /\ Achieve(r, "clear")
       \/ DbFails(r) /\ UNCHANGED <<rows, log>>
    /\ Proceed(r, "del_convs")
    /\ UNCHANGED <<freshdesk, caches, process, asked, mem, bounds>>

SetStatus(r) ==
    /\ pc[r] = "set_status"
    /\ \E done, told \in BOOLEAN :
         /\ Call(r, done, told)
         /\ IF done
            THEN /\ fd' = Written(Ticket(r), fd[Ticket(r)].responder, job[r].status)
                 /\ log' = [log EXCEPT ![r] = WroteAt(log[r], "status", fd[Ticket(r)].rev + 1)]
            ELSE UNCHANGED <<fd, log>>
         /\ IF told THEN Proceed(r, "del_ticket") ELSE Answer(r, "bad")
    /\ UNCHANGED <<convs, rows, caches, process, asked, mem, bounds>>

\* Slips: one of the two invalidations is forgotten.
KeepConvs(r) ==
    /\ pc[r] = "del_convs"
    /\ Proceed(r, "del_ticket")
    /\ UNCHANGED <<freshdesk, rows, caches, process, asked, mem, log, bounds>>

KeepTicket(r) ==
    /\ pc[r] = "del_ticket"
    /\ IF Kind(r) = "update" THEN Proceed(r, "del_dash") ELSE Answer(r, "ok")
    /\ UNCHANGED <<freshdesk, rows, caches, process, asked, mem, log, bounds>>

\* Cache.Delete of conversations:{id} and of ticket:{id}.
DelConvs(r) ==
    /\ pc[r] = "del_convs"
    /\ \/ DbOk(r) /\ ccache' = [ccache EXCEPT ![Ticket(r)] = None]
       \/ DbFails(r) /\ UNCHANGED ccache
    /\ Proceed(r, "del_ticket")
    /\ UNCHANGED <<freshdesk, rows, tcache, dcache, process, asked, mem, log, bounds>>

DelTicket(r) ==
    /\ pc[r] = "del_ticket"
    /\ \/ DbOk(r) /\ tcache' = [tcache EXCEPT ![Ticket(r)] = None]
       \/ DbFails(r) /\ UNCHANGED tcache
    /\ \/ Kind(r) = "update" /\ Proceed(r, "del_dash")
       \/ Kind(r) = "status" /\ job[r].from = "list" /\ Proceed(r, "card")
       \/ Kind(r) = "status" /\ job[r].from # "list" /\ Answer(r, "ok")
       \/ Kind(r) \in {"note", "handover"} /\ Answer(r, "ok")
    /\ UNCHANGED <<freshdesk, rows, ccache, dcache, process, asked, mem, log, bounds>>

WriteStep(r) ==
    \/ CompareStatus(r) \/ AllowWrite(r) \/ CreateNote(r) \/ UnassignTicket(r)
    \/ ClearState(r) \/ SetStatus(r) \/ DelConvs(r) \/ DelTicket(r)
=============================================================================
