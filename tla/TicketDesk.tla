----------------------------- MODULE TicketDesk -----------------------------
(***************************************************************************)
(* The ticket handlers of DeskTriage together: any number of requests in   *)
(* progress over one database, one cache and one Freshdesk account, and    *)
(* what has to be true of them.                                            *)
(***************************************************************************)
EXTENDS DeskUpdate, DeskWrites, DeskReads

Step(r) == Start(r) \/ EnsureAgent(r) \/ AgentUnknown(r)
           \/ UpdateStep(r) \/ WriteStep(r) \/ ReadStep(r)

Next == (\E r \in Requests : Step(r)) \/ Environment

Spec == Init /\ [][Next]_vars

-----------------------------------------------------------------------------
(* Types. *)

Labels == {"idle", "done", "load", "assign_agent", "skip", "assign", "del_ticket",
           "del_dash", "upsert", "card", "card_fetch", "allow", "create_note",
           "unassign", "clear_row", "del_convs", "status_check", "set_status",
           "agent", "dash", "filter_mine", "stale", "filter_unassigned",
           "dash_set", "rows", "updaters", "ticket", "ticket_fetch",
           "ticket_set", "convs", "convs_fetch", "convs_set", "flush"}

Responses == {"none", "ok", "bad", "bad_unassign", "limited", "unseen"}

Mem == [row: Row \cup {None}, item: Item \cup {None}, n: Nat \cup {None},
        want: SUBSET Statuses, list: SUBSET Item, pend: SUBSET Tickets,
        again: SUBSET Tickets, cur: Tickets]

Log == [before: SUBSET Requests, effects: SUBSET Effects, noteAt: Nat, revAt: Nat]

TypeOK ==
    /\ fd \in [Tickets -> Item]
    /\ convs \in [Tickets -> Nat]
    /\ rows \in [Tickets -> Row \cup {None}]
    /\ tcache \in [Tickets -> Item \cup {None}]
    /\ ccache \in [Tickets -> Nat \cup {None}]
    /\ dcache \in [list: SUBSET Item, fresh: BOOLEAN] \cup {None}
    /\ agent \in BOOLEAN
    /\ limited \subseteq Tickets
    /\ pc \in [Requests -> Labels]
    /\ job \in [Requests -> Job \cup {None}]
    /\ mem \in [Requests -> Mem]
    /\ resp \in [Requests -> Responses]
    /\ gone \subseteq Requests
    /\ log \in [Requests -> Log]
    /\ upstream \in Nat
    /\ restarts \in Nat

-----------------------------------------------------------------------------
(* What the cache and the handlers may believe of Freshdesk. *)

Elsewhere == (UNION {mem[r].list : r \in Requests})
             \cup (IF dcache = None THEN {} ELSE dcache.list)

\* i is the ticket as Freshdesk had it now or earlier: never another
\* ticket's data, never ahead of Freshdesk, and different only if older.
SomeVersion(i) ==
    /\ i.t \in Tickets
    /\ i.rev <= fd[i.t].rev
    /\ i.rev = fd[i.t].rev => i = fd[i.t]

(* Whatever handlers fill the cache with, in whatever order they overlap,  *)
(* ticket:{id} and conversations:{id} hold a state that very ticket has    *)
(* had, and so does every ticket a page or a board shows.                  *)
CacheIsPast ==
    /\ \A t \in Tickets :
          /\ tcache[t] # None => tcache[t].t = t /\ SomeVersion(tcache[t])
          /\ ccache[t] # None => ccache[t] <= convs[t]
    /\ \A i \in Elsewhere : SomeVersion(i)
    /\ \A r \in Requests :
          /\ mem[r].item # None => mem[r].item.t = Ticket(r) /\ SomeVersion(mem[r].item)
          /\ mem[r].n # None => mem[r].n <= convs[mem[r].cur]

OnePerTicket(list) == \A i, j \in list : i.t = j.t => i = j

(* A board never shows a ticket twice: one that moved between "mine" and   *)
(* "unassigned" while the two filters ran is in both answers, with two     *)
(* different contents (dashboard.go:105-115).                              *)
BoardHasNoTwins ==
    /\ \A r \in Requests : OnePerTicket(mem[r].list)
    /\ dcache # None => OnePerTicket(dcache.list)

-----------------------------------------------------------------------------
(* Local state. *)

(* Whatever edits overlap and whatever fails between a load and an upsert, *)
(* a stored row has a review date exactly when it has a deferral time.     *)
RowsPaired == \A t \in Tickets : rows[t] # None => Paired(rows[t])

Promise == INSTANCE LocalState WITH rows <- rows

(* state.go:17-19: each accepted form changes one field of the row as it   *)
(* is at that moment, and nothing but a handover removes a row.            *)
RowsAtomic == Promise!Spec

(* A row disappears only in a handover that has put the note on Freshdesk  *)
(* and unassigned the ticket: local state is never lost for a hand over    *)
(* that did not happen.                                                    *)
ClearedOnlyByHandover ==
    [][\A t \in Tickets : rows[t] # None /\ rows'[t] = None =>
          \E r \in Requests : /\ pc[r] = "clear_row" /\ pc'[r] # pc[r]
                              /\ Kind(r) = "handover" /\ Ticket(r) = t
                              /\ {"note", "unassign"} \subseteq log[r].effects]_vars

HandedOver(q) == resp[q] = "ok" /\ Kind(q) = "handover"

(* After a handover is answered, local state of the ticket exists again    *)
(* only if somebody edited it afterwards (ticket.go:401: the handler       *)
(* "clears local state").                                                  *)
HandoverClears ==
    \A q \in Requests :
       HandedOver(q) /\ rows[Ticket(q)] # None =>
          \E p \in Requests : /\ q \in log[p].before
                              /\ "edit" \in log[p].effects
                              /\ Ticket(p) = Ticket(q)

-----------------------------------------------------------------------------
(* Answers. *)

\* The handler has turned the today flag on.
MarksToday(r) == Kind(r) = "update" /\ job[r].edit.field = "today" /\ mem[r].row.today = TRUE

(* What the client is told is what happened: a note or a handover answered *)
(* as done has had all its effects on Freshdesk; a status answered as done *)
(* was set, or found in the cache; an edit is in the database.  A today    *)
(* edit is answered as done when its assignment failed, which is only      *)
(* logged (state.go:63-65, against README.md:105), but never without an    *)
(* attempt unless the cached board said the ticket was ours.  A            *)
(* rate-limited request has done nothing, and "Note was added but failed   *)
(* to unassign ticket" is said only when the note is there and local state *)
(* is kept.                                                                *)
AnswersTrue ==
    \A r \in Requests :
       LET effects == log[r].effects IN
       /\ resp[r] = "ok" =>
             /\ Kind(r) = "note" => "note" \in effects
             /\ Kind(r) = "handover" => {"note", "unassign"} \subseteq effects
             /\ Kind(r) = "status" => effects \cap {"status", "found"} # {}
             /\ Kind(r) = "update" => "edit" \in effects
             /\ MarksToday(r) => effects \cap {"assign", "found", "failed"} # {}
       /\ resp[r] = "limited" => effects = {}
       /\ resp[r] = "bad_unassign" => "note" \in effects /\ "clear" \notin effects

(* Without lost answers, "Failed to create note on Freshdesk" and the      *)
(* other plain 500s of a note or a handover mean that nothing was changed, *)
(* so trying again does not repeat a note (ticket.go:366, 429).            *)
FailureMeansNothing ==
    \A r \in Requests : resp[r] = "bad" /\ Kind(r) \in {"note", "handover"} =>
                            log[r].effects = {}

\* p may have read Freshdesk before q changed it and stored what it read after.
Overlaps(p, q) ==
    /\ job[p] # None
    /\ p \notin log[q].before /\ q \notin log[p].before
    /\ Kind(p) \in {"detail", "preview", "board", "update", "status"}

(* ticket.go:375: "Invalidate caches so the page reload shows the new      *)
(* note".  A detail page asked for after a note (or handover) was answered *)
(* shows that note, unless it could not get the conversations at all.      *)
NoteShownTo(r, q) ==
    /\ Kind(r) = "detail" /\ resp[r] = "ok"
    /\ Kind(q) \in {"note", "handover"} /\ resp[q] = "ok"
    /\ q \in log[r].before /\ Ticket(r) = Ticket(q)
    => mem[r].n = None \/ mem[r].n >= log[q].noteAt

(* This is so, granting that a read of the ticket that was under way       *)
(* during the note may put the older conversations back into the cache.    *)
NoteShownUnlessOverlap ==
    \A r, q \in Requests :
       job[r] # None /\ job[q] # None
       /\ (\A p \in Requests \ {q, r} : ~Overlaps(p, q))
       => NoteShownTo(r, q)

(* freshdesk_status.go:59: "Invalidate ticket cache so subsequent page     *)
(* loads show the new status", with the same allowance.                    *)
StatusShownUnlessOverlap ==
    \A r, q \in Requests :
       /\ job[r] # None /\ job[q] # None
       /\ Kind(r) = "detail" /\ resp[r] = "ok"
       /\ Kind(q) \in {"status", "handover"} /\ resp[q] = "ok"
       /\ q \in log[r].before /\ Ticket(r) = Ticket(q)
       /\ \A p \in Requests \ {q, r} : ~Overlaps(p, q)
       => mem[r].item.rev >= log[q].revAt

-----------------------------------------------------------------------------
(* Decisions taken from the cache. *)

(* README.md:105: "Marking a ticket as "Today" automatically assigns it to  *)
(* the current agent on Freshdesk (skipped if already assigned)".  When    *)
(* requests do not overlap and nobody else changes tickets, one marked for *)
(* today in the database is ours on Freshdesk.  The skip trusts            *)
(* tickets:dashboard, which a handover leaves as it is: not so while a     *)
(* handover is in progress, or after one that a board was read before.     *)
HandedOverAfterBoard(t) ==
    \E q \in Requests :
       /\ job[q] # None /\ Kind(q) = "handover" /\ Ticket(q) = t
       /\ InProgress(q) \/ \E p \in log[q].before : Kind(p) = "board"
TodayIsMineUnlessStale ==
    \A t \in Tickets :
       rows[t] # None /\ rows[t].today /\ ~HandedOverAfterBoard(t) => fd[t].responder = Me

(* freshdesk_status.go:33: the call is skipped only if the status has not  *)
(* changed.                                                                *)
StatusSkipJustified ==
    [][\A r \in Requests : pc[r] = "status_check" /\ resp'[r] = "ok" =>
                               fd[Ticket(r)].status = job[r].status]_vars

(* Between requests that did not overlap, the cached ticket is the ticket  *)
(* and the cached conversations are the conversations.                     *)
CoherentWhenIdle ==
    (\A r \in Requests : ~InProgress(r)) =>
       \A t \in Tickets : tcache[t] \in {None, fd[t]} /\ ccache[t] \in {None, convs[t]}

(* The list a board stores has every active ticket that is ours or         *)
(* unassigned (dashboard.go:90, 98: "Fetch ALL unassigned tickets").       *)
BoardComplete ==
    \A r \in Requests : pc[r] = "dash_set" =>
       \A t \in Tickets :
          fd[t].responder \in {Me, Nobody} /\ fd[t].status \in Active =>
             \E i \in mem[r].list : i.t = t

-----------------------------------------------------------------------------
(* Liveness.  The Go scheduler runs every goroutine, a Freshdesk call ends *)
(* within its 30-second timeout and an SQL statement within busy_timeout,  *)
(* so no handler waits for ever; max_age passes.  Nothing makes a client   *)
(* ask, so Start is not fair.                                              *)

Work(r) == InProgress(r) /\ Step(r)

Fairness ==
    /\ \A r \in Requests : WF_vars(Work(r))
    /\ \A t \in Tickets : WF_vars(TicketExpires(t)) /\ WF_vars(ConvsExpire(t))

FairSpec == Spec /\ Fairness

(* Every request is answered, whatever fails, unless the process restarts. *)
EveryRequestAnswered == \A r \in Requests : InProgress(r) ~> pc[r] = "done"

(* What a race leaves in the cache does not stay: once Freshdesk is left   *)
(* alone and nobody asks any more, pages show what Freshdesk has.          *)
CacheHeals ==
    <>[](\A t \in Tickets : tcache[t] \in {None, fd[t]} /\ ccache[t] \in {None, convs[t]})
=============================================================================
