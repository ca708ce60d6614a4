-------------------------------- MODULE Desk --------------------------------
(***************************************************************************)
(* The state the HTTP handlers of DeskTriage share, the outcomes their     *)
(* calls can have, and everything that happens around them.                *)
(*                                                                         *)
(*   fd, convs       Freshdesk, the source of truth: who a ticket is       *)
(*                   assigned to, its status, how many conversations it    *)
(*                   has.  `rev` counts the changes of the ticket, so that *)
(*                   two versions can be told apart.                       *)
(*   rows            the SQLite table ticket_state                         *)
(*   tcache, ccache  the SQLite table api_cache, keys ticket:{id} and      *)
(*                   conversations:{id}; expired counts as absent, as it   *)
(*                   does for GetJSON                                      *)
(*   dcache          key tickets:dashboard, which GetStaleJSON also reads  *)
(*                   after it has expired                                  *)
(*   agent, limited  process memory: Server.AgentID is known; the tickets  *)
(*                   whose 5-second window of noteLimiter is open          *)
(*   pc, job, mem    each HTTP request: where its handler is, what was     *)
(*                   asked, the handler's local variables                  *)
(*   resp, gone      what the client was answered; clients that hung up    *)
(*   log             history only the properties read                     *)
(*                                                                         *)
(* Every SQL statement and every Freshdesk call is one step; handlers      *)
(* interleave between any two of them, as goroutines of net/http do.       *)
(***************************************************************************)
EXTENDS TicketRow

CONSTANTS
    Tickets, Requests,
    Me, Others,        \* the agent behind the API key; responders that are not
    Nobody,            \* responder_id of an unassigned ticket
    Statuses,          \* Freshdesk status numbers; 4 and 5 are inactive
    Workload,          \* what clients may ask for
    InitRows, InitFd,  \* contents of the database and of Freshdesk at start
    Faults,            \* what may go wrong, see below
    Overlap,           \* may a request start while another is in progress?
    MaxUpstream,       \* bound: changes made on Freshdesk by others
    MaxRestarts        \* bound: restarts of the process

Responders == Others \cup {Me, Nobody}

\* A version of a ticket, as the ticket and filter endpoints return it.
Item == [t: Tickets, responder: Responders, status: Statuses, rev: Nat]

Kinds == {"update", "note", "handover", "status",
          "detail", "preview", "board", "refresh"}

\* `from` is the form value that selects the answer: "today" asks for
\* nothing back, "ticket" for the sidebar, "list" for the ticket's card.
Job == [kind: Kinds, t: Tickets, edit: FormEdits \cup {None},
        status: Statuses \cup {None}, from: {"today", "ticket", "list"}]

\* "api":    Freshdesk refuses a call or cannot be reached
\* "lost":   a call takes effect but its answer is lost (30 s timeout)
\* "db":     an SQL statement fails
\* "cancel": a client hangs up and its request's context is cancelled
\* Rows stored before the deferral time existed were given one by migration
\* 004, so the rows of InitRows are Paired.
ASSUME DeskAssumption ==
    /\ Me \notin Others /\ Nobody \notin Others /\ Me # Nobody
    /\ Statuses \subseteq Nat
    /\ \A j \in Workload :
          /\ j \in Job
          /\ j.kind = "update" => j.edit # None
          /\ j.kind = "status" => j.status # None
    /\ InitRows \subseteq [Tickets -> Row \cup {None}]
    /\ \A rows \in InitRows : \A t \in Tickets : rows[t] # None => Paired(rows[t])
    /\ InitFd \subseteq [Tickets -> Item]
    /\ \A fd \in InitFd : \A t \in Tickets : fd[t].t = t /\ fd[t].rev = 0
    /\ Faults \subseteq {"api", "lost", "db", "cancel"}
    /\ Overlap \in BOOLEAN
    /\ Tickets # {}
    /\ MaxUpstream \in Nat /\ MaxRestarts \in Nat

ASSUME NoneAssumption ==
    None \notin Item /\ None \notin Job /\ None \notin Nat
    /\ None \notin [list: SUBSET Item, fresh: BOOLEAN]

VARIABLES fd, convs, rows, tcache, ccache, dcache, agent, limited,
          pc, job, mem, resp, gone, log, upstream, restarts

freshdesk == <<fd, convs>>
caches    == <<tcache, ccache, dcache>>
process   == <<agent, limited>>
asked     == <<job, gone>>
bounds    == <<upstream, restarts>>
vars == <<fd, convs, rows, tcache, ccache, dcache, agent, limited,
          pc, job, mem, resp, gone, log, upstream, restarts>>

-----------------------------------------------------------------------------
(* Requests. *)

InProgress(r) == pc[r] \notin {"idle", "done"}
Kind(r)   == job[r].kind
Ticket(r) == job[r].t

EmptyMem(t) == [row |-> None, item |-> None, n |-> None, want |-> {},
                list |-> {}, pend |-> {}, again |-> {}, cur |-> t]

\* before: the requests already answered when this one started;
\* effects: what it has achieved outside its own memory, and whether it took
\* what it was to do on Freshdesk for done, by the cache ("found"), or gave
\* the assignment up without a word to the client ("failed"); noteAt, revAt:
\* the conversation count and the ticket revision its own write produced.
EmptyLog == [before |-> {}, effects |-> {}, noteAt |-> 0, revAt |-> 0]

Effects == {"note", "assign", "unassign", "status", "edit", "clear", "found", "failed"}

Proceed(r, step) == pc' = [pc EXCEPT ![r] = step] /\ UNCHANGED resp

\* http.Error or a rendered answer; nobody reads it once the client is gone.
Answer(r, a) ==
    /\ pc' = [pc EXCEPT ![r] = "done"]
    /\ resp' = [resp EXCEPT ![r] = IF r \in gone THEN "unseen" ELSE a]

With(entry, effect) == [entry EXCEPT !.effects = @ \cup {effect}]
NotedAt(entry, count) == [With(entry, "note") EXCEPT !.noteAt = count]
WroteAt(entry, effect, rev) == [With(entry, effect) EXCEPT !.revAt = rev]

Achieve(r, effect) == log' = [log EXCEPT ![r] = With(log[r], effect)]

(* One Freshdesk call that changes something (doRequest): whether it was    *)
(* done, and whether the handler is told so.  A call made with a cancelled  *)
(* context is never sent; a client that hangs up during a call is one that  *)
(* does so right after it, for nothing the handler does then takes effect.  *)
Call(r, done, told) ==
    \/ done /\ told /\ r \notin gone
    \/ ~done /\ ~told /\ (r \in gone \/ "api" \in Faults)
    \/ done /\ ~told /\ r \notin gone /\ "lost" \in Faults

\* A call that only reads: an answer or an error.
ApiOk(r)    == r \notin gone
ApiFails(r) == r \in gone \/ Faults \cap {"api", "lost"} # {}

\* An SQL statement.  A failed cache lookup is treated as a miss, and the
\* errors of SetJSON and Cache.Delete are logged or dropped.
DbOk(r)    == r \notin gone
DbFails(r) == r \in gone \/ "db" \in Faults

\* tickets:dashboard within its max_age, and the ticket there: findCachedTicket.
DashFresh == dcache # None /\ dcache.fresh
Cached(t) == IF DashFresh THEN {i \in dcache.list : i.t = t} ELSE {}

\* A write to a ticket on Freshdesk.
Written(t, responder, status) ==
    [fd EXCEPT ![t] = [t |-> t, responder |-> responder, status |-> status,
                       rev |-> @.rev + 1]]

\* Statuses that are neither Resolved nor Closed.
Active == Statuses \ {4, 5}

-----------------------------------------------------------------------------
Init ==
    /\ fd \in InitFd
    /\ convs = [t \in Tickets |-> 0]
    /\ rows \in InitRows
    /\ tcache = [t \in Tickets |-> None]
    /\ ccache = [t \in Tickets |-> None]
    /\ dcache = None
    /\ agent = FALSE /\ limited = {}
    /\ pc = [r \in Requests |-> "idle"]
    /\ job = [r \in Requests |-> None]
    /\ mem = [r \in Requests |-> EmptyMem(CHOOSE t \in Tickets : TRUE)]
    /\ resp = [r \in Requests |-> "none"]
    /\ gone = {}
    /\ log = [r \in Requests |-> EmptyLog]
    /\ upstream = 0 /\ restarts = 0

FirstStep(kind) ==
    CASE kind = "update"              -> "load"
      [] kind \in {"note", "handover"} -> "allow"
      [] kind = "status"              -> "status_check"
      [] kind \in {"detail", "board"}  -> "agent"
      [] kind = "preview"             -> "ticket"
      [] kind = "refresh"             -> "flush"

\* net/http starts a handler in a goroutine of its own.
Start(r) ==
    /\ pc[r] = "idle"
    /\ Overlap \/ \A q \in Requests : ~InProgress(q)
    /\ \E j \in Workload :
         /\ job' = [job EXCEPT ![r] = j]
         /\ pc' = [pc EXCEPT ![r] = FirstStep(j.kind)]
         /\ mem' = [mem EXCEPT ![r] = EmptyMem(j.t)]
    /\ log' = [log EXCEPT ![r].before = {q \in Requests : pc[q] = "done"}]
    /\ UNCHANGED <<freshdesk, rows, caches, process, resp, gone, bounds>>

\* ensureAgentID: the agent is known to the process, or found in the cache
\* (agent:me) or asked of Freshdesk; a detail page or a board cannot do
\* without it, an assignment is then given up without telling the client.
EnsureAgent(r) ==
    /\ pc[r] \in {"agent", "assign_agent"}
    /\ agent \/ ApiOk(r)
    /\ agent' = TRUE
    /\ \/ pc[r] = "assign_agent" /\ Proceed(r, "skip")
       \/ pc[r] = "agent" /\ Proceed(r, IF Kind(r) = "board" THEN "dash" ELSE "ticket")
    /\ UNCHANGED <<freshdesk, rows, caches, limited, asked, mem, log, bounds>>

AgentUnknown(r) ==
    /\ pc[r] \in {"agent", "assign_agent"}
    /\ ~agent /\ ApiFails(r)
    /\ \/ pc[r] = "agent" /\ Answer(r, "bad") /\ UNCHANGED log
       \/ pc[r] = "assign_agent" /\ Proceed(r, "upsert") /\ Achieve(r, "failed")
    /\ UNCHANGED <<freshdesk, rows, caches, process, asked, mem, bounds>>

-----------------------------------------------------------------------------
(* Around the handlers. *)

\* Another agent, or Freshdesk's own automation, changes a ticket.
OtherAgentWrites(t) ==
    /\ upstream < MaxUpstream
    /\ upstream' = upstream + 1
    /\ \E responder \in Responders, status \in Statuses :
         /\ <<responder, status>> # <<fd[t].responder, fd[t].status>>
         /\ fd' = Written(t, responder, status)
    /\ UNCHANGED <<convs, rows, caches, process, pc, asked, mem, resp, log, restarts>>

ClientReplies(t) ==
    /\ upstream < MaxUpstream
    /\ upstream' = upstream + 1
    /\ convs' = [convs EXCEPT ![t] = @ + 1]
    /\ UNCHANGED <<fd, rows, caches, process, pc, asked, mem, resp, log, restarts>>

\* max_age has passed (cache.go:57-58).
TicketExpires(t) ==
    /\ tcache[t] # None
    /\ tcache' = [tcache EXCEPT ![t] = None]
    /\ UNCHANGED <<freshdesk, rows, ccache, dcache, process, pc, asked, mem, resp, log, bounds>>

\* Slip: max_age is ignored.
ConvsNeverExpire(t) == ccache[t] # None /\ UNCHANGED vars

ConvsExpire(t) ==
    /\ ccache[t] # None
    /\ ccache' = [ccache EXCEPT ![t] = None]
    /\ UNCHANGED <<freshdesk, rows, tcache, dcache, process, pc, asked, mem, resp, log, bounds>>

DashExpires ==
    /\ DashFresh
    /\ dcache' = [dcache EXCEPT !.fresh = FALSE]
    /\ UNCHANGED <<freshdesk, rows, tcache, ccache, process, pc, asked, mem, resp, log, bounds>>

\* 5 seconds have passed since the last admission for the ticket.
WindowCloses(t) ==
    /\ t \in limited
    /\ limited' = limited \ {t}
    /\ UNCHANGED <<freshdesk, rows, caches, agent, pc, asked, mem, resp, log, bounds>>

\* The browser closes the connection: r.Context() is cancelled.
HangUp(r) ==
    /\ "cancel" \in Faults
    /\ InProgress(r) /\ r \notin gone
    /\ gone' = gone \cup {r}
    /\ UNCHANGED <<freshdesk, rows, caches, process, pc, job, mem, resp, log, bounds>>

\* SIGHUP closes the database and re-executes the binary without waiting for
\* the handlers (main.go:100-116); Restart=always covers a crash.  SQLite
\* keeps the rows and the cache.
Restart ==
    /\ restarts < MaxRestarts
    /\ restarts' = restarts + 1
    /\ agent' = FALSE /\ limited' = {}
    /\ pc' = [r \in Requests |-> IF InProgress(r) THEN "done" ELSE pc[r]]
    /\ resp' = [r \in Requests |-> IF InProgress(r) THEN "unseen" ELSE resp[r]]
    /\ UNCHANGED <<freshdesk, rows, caches, asked, mem, log, upstream>>

Environment ==
    \/ Restart
    \/ DashExpires
    \/ \E t \in Tickets : \/ OtherAgentWrites(t) \/ ClientReplies(t)
                          \/ TicketExpires(t) \/ ConvsExpire(t)
                          \/ WindowCloses(t)
    \/ \E r \in Requests : HangUp(r)
=============================================================================
