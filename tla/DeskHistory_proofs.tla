------------------------- MODULE DeskHistory_proofs -------------------------
(***************************************************************************)
(* What one request leaves to the next.  First, what a page shows after a  *)
(* write that was answered, with other requests around the two; then what  *)
(* holds when one request follows the other: the private rows keep their   *)
(* promise, the cache is coherent between requests, and what is decided    *)
(* from the cache is decided rightly.  Each theorem names the hypotheses   *)
(* it needs.                                                               *)
(***************************************************************************)
EXTENDS TicketDesk_proofs

-----------------------------------------------------------------------------
(* What a page shows after a write. *)

\* The request has invalidated conversations:{id}, or ticket:{id}.
ConvsDropped(q) ==
    /\ Kind(q) \in {"note", "handover"}
    /\ resp[q] = "ok" \/ (pc[q] = "del_ticket" /\ q \notin gone)

Rendering == {"card", "card_fetch", "convs", "convs_fetch", "convs_set"}

Reading == {"ticket_set", "convs", "convs_fetch", "convs_set"}

TicketDropped(q) ==
    \/ Kind(q) = "handover" /\ resp[q] = "ok"
    \/ Kind(q) = "status" /\ (resp[q] = "ok" \/ (pc[q] \in Rendering /\ q \notin gone))

Undisturbed(q) == pc[q] # "idle" /\ \A p \in Requests \ {q} : ~Overlaps(p, q)

NoOlder(n, count) == n = None \/ n >= count
NoOlderItem(i, rev) == i = None \/ i.rev >= rev

\* What was answered before a request started; what its write produced is
\* not ahead of Freshdesk.
HistoryOK ==
    \A p \in Requests :
       /\ pc[p] = "idle" => job[p] = None /\ log[p] = EmptyLog
       /\ \A q \in log[p].before : q \in Requests /\ pc[q] = "done"
       /\ pc[p] = "status_check" => log[p].revAt = 0
       /\ pc[p] # "idle" => log[p].noteAt <= convs[Ticket(p)] /\ log[p].revAt <= fd[Ticket(p)].rev

\* A page is about the ticket it was asked for, and has one to show.
PageOK ==
    \A p \in Requests :
       /\ pc[p] # "idle" /\ Kind(p) # "board" => mem[p].cur = Ticket(p)
       /\ pc[p] # "idle" /\ Kind(p) = "detail" =>
             (resp[p] = "ok" \/ pc[p] \in Reading => mem[p].item # None)

ConvsShown ==
    \A q \in Requests : Undisturbed(q) /\ ConvsDropped(q) =>
       /\ NoOlder(ccache[Ticket(q)], log[q].noteAt)
       /\ \A p \in Requests : q \in log[p].before /\ mem[p].cur = Ticket(q) =>
             NoOlder(mem[p].n, log[q].noteAt)

TicketShown ==
    \A q \in Requests : Undisturbed(q) /\ TicketDropped(q) =>
       /\ NoOlderItem(tcache[Ticket(q)], log[q].revAt)
       /\ \A p \in Requests :
             q \in log[p].before /\ Kind(p) \in {"detail", "preview"} /\ Ticket(p) = Ticket(q) =>
                NoOlderItem(mem[p].item, log[q].revAt)

SInv == HistoryOK /\ PageOK /\ ConvsShown /\ TicketShown

(* Freshdesk moves forward, whoever moves it. *)
LEMMA NextForward ==
  ASSUME TInv, CInv, [Next]_vars
  PROVE  Forward(fd, fd') /\ \A t \in Tickets : convs[t] <= convs'[t]
<1>0. fd \in [Tickets -> Item] /\ convs \in [Tickets -> Nat] /\ \A t \in Tickets : fd[t].t = t
  BY DEF TInv, TypeOK, CInv
<1>1. CASE UNCHANGED fd /\ UNCHANGED convs
  BY <1>0, <1>1 DEF Forward
<1>2. ASSUME NEW t \in Tickets, NEW who \in Responders, NEW s \in Statuses,
             fd' = Written(t, who, s), UNCHANGED convs
      PROVE  Forward(fd, fd') /\ \A u \in Tickets : convs[u] <= convs'[u]
  BY <1>0, <1>2, WrittenForward
<1>3. ASSUME NEW t \in Tickets, convs' = [convs EXCEPT ![t] = @ + 1], UNCHANGED fd
      PROVE  Forward(fd, fd') /\ \A u \in Tickets : convs[u] <= convs'[u]
  BY <1>0, <1>3 DEF Forward
<1>4. ASSUME NEW r \in Requests, Step(r)
      PROVE  Forward(fd, fd') /\ \A u \in Tickets : convs[u] <= convs'[u]
  <2> USE DEF freshdesk
  <2>1. CASE Start(r) \/ EnsureAgent(r) \/ AgentUnknown(r) \/ ReadStep(r)
    BY <1>1, <2>1 DEF Start, EnsureAgent, AgentUnknown, ReadStep, LookTicket, FetchTicket,
       StoreTicket, LookConvs, FetchConvs, StoreConvs, LookDash, FilterMine, UseStale,
       FilterUnassigned, StoreDash, ListRows, NextUpdater, AskAgain, ShowBoard, FlushCache
  <2>2. ASSUME ~Start(r)
        PROVE  /\ pc[r] # "idle" /\ Ticket(r) \in Tickets /\ Fits(pc[r], Kind(r))
               /\ Kind(r) = "status" => job[r].status \in Statuses
    BY <1>4, <2>2, StepOf, ThisRequest, WorkType DEF InProgress, Kind
  <2>3. CASE UpdateStep(r)
    <3>1. CASE AssignTicket(r)
      BY <1>0, <1>1, <1>2, <2>2, <3>1, AgentTypes, FdHas DEF AssignTicket, Start
    <3> QED
      BY <1>1, <2>3, <3>1 DEF UpdateStep, LoadRow, SkipAssign, DelDash, UpsertRow,
         CardFromBoard, CardFromFreshdesk
  <2>4. CASE WriteStep(r)
    <3>1. CASE UnassignTicket(r)
      BY <1>0, <1>1, <1>2, <2>2, <3>1, AgentTypes, FdHas DEF UnassignTicket, Start
    <3>2. CASE SetStatus(r)
      BY <1>0, <1>1, <1>2, <2>2, <3>2, FdHas DEF SetStatus, Start, Fits
    <3>3. CASE CreateNote(r)
      BY <1>1, <1>3, <2>2, <3>3 DEF CreateNote, Start
    <3> QED
      BY <1>1, <2>4, <3>1, <3>2, <3>3 DEF WriteStep, CompareStatus, AllowWrite, ClearState,
         DelConvs, DelTicket
  <2> QED
    BY <1>4, <2>1, <2>3, <2>4 DEF Step
<1>5. CASE Environment
  <2>1. ASSUME NEW t \in Tickets, OtherAgentWrites(t)
        PROVE  Forward(fd, fd') /\ \A u \in Tickets : convs[u] <= convs'[u]
    BY <1>2, <2>1 DEF OtherAgentWrites
  <2>2. ASSUME NEW t \in Tickets, ClientReplies(t)
        PROVE  Forward(fd, fd') /\ \A u \in Tickets : convs[u] <= convs'[u]
    BY <1>3, <2>2 DEF ClientReplies
  <2> QED
    BY <1>1, <1>5, <2>1, <2>2 DEF Environment, Restart, DashExpires, TicketExpires,
       ConvsExpire, WindowCloses, HangUp, freshdesk
<1> QED
  BY <1>1, <1>4, <1>5 DEF Next, vars

LEMMA InitHistory == Init => HistoryOK
<1> SUFFICES ASSUME Init PROVE HistoryOK
  OBVIOUS
<1>1. \A r \in Requests : pc[r] = "idle" /\ job[r] = None /\ log[r] = EmptyLog
  BY DEF Init
<1> QED
  BY <1>1 DEF HistoryOK, EmptyLog

LEMMA NextHistory ==
  ASSUME TInv, CInv, HistoryOK, [Next]_vars
  PROVE  HistoryOK'
<1>0. Forward(fd, fd') /\ (\A t \in Tickets : convs[t] <= convs'[t])
      /\ fd \in [Tickets -> Item] /\ fd' \in [Tickets -> Item]
      /\ convs \in [Tickets -> Nat] /\ convs' \in [Tickets -> Nat] /\ log \in [Requests -> Log]
  BY NextForward, NextTInv DEF TInv, TypeOK
<1>1. ASSUME NEW n \in Nat, NEW t \in Tickets
      PROVE  /\ n <= convs[t] => n <= convs'[t]
             /\ n <= fd[t].rev => n <= fd'[t].rev
  BY <1>0 DEF Forward, Item
<1>2. ASSUME NEW p \in Requests, pc[p] # "idle", job'[p] = job[p],
             log'[p].noteAt = log[p].noteAt, log'[p].revAt = log[p].revAt
      PROVE  log'[p].noteAt <= convs'[Ticket(p)'] /\ log'[p].revAt <= fd'[Ticket(p)'].rev
  BY <1>0, <1>1, <1>2, ThisRequest DEF HistoryOK, Ticket, Log
<1>3. ASSUME NEW p \in Requests, job'[p] = job[p], log'[p] = log[p],
             \/ pc'[p] = pc[p]
             \/ InProgress(p) /\ pc'[p] = "done"
      PROVE  /\ pc'[p] = "idle" => job'[p] = None /\ log'[p] = EmptyLog
             /\ pc'[p] = "status_check" => log'[p].revAt = 0
             /\ pc'[p] # "idle" => /\ log'[p].noteAt <= convs'[Ticket(p)']
                                   /\ log'[p].revAt <= fd'[Ticket(p)'].rev
  BY <1>2, <1>3 DEF HistoryOK, InProgress
<1>4. CASE Environment \/ UNCHANGED vars
  <2>1. ASSUME NEW p \in Requests, NEW q \in log'[p].before
        PROVE  q \in Requests /\ pc'[q] = "done"
    BY <1>4, <2>1, Surroundings DEF HistoryOK, InProgress
  <2> QED
    BY <1>3, <1>4, <2>1, Surroundings DEF HistoryOK
<1>5. ASSUME NEW r \in Requests, Step(r)
      PROVE  HistoryOK'
  <2>1. \A p \in Requests \ {r} : /\ pc'[p] = pc[p] /\ job'[p] = job[p] /\ log'[p] = log[p]
    BY <1>5, StepAlone
  <2>2. pc[r] # "done" /\ pc'[r] # "idle"
    BY <1>5, StepOf, StepLeaves
  <2>3. \A q \in Requests : pc[q] = "done" => pc'[q] = "done"
    BY <2>1, <2>2
  <2>4. CASE Start(r)
    <3>1. PICK j \in Workload :
             /\ job'[r] = j /\ pc'[r] = FirstStep(j.kind)
             /\ log'[r] = [log[r] EXCEPT !.before = {q \in Requests : pc[q] = "done"}]
             /\ pc[r] = "idle"
      BY <2>4, StartOf
    <3>2. log'[r].before = {q \in Requests : pc[q] = "done"}
          /\ log'[r].noteAt = 0 /\ log'[r].revAt = 0
      BY <1>0, <3>1 DEF HistoryOK, EmptyLog, Log
    <3>3. Ticket(r)' \in Tickets
      BY <3>1, WorkType DEF Ticket
    <3>4. log'[r].noteAt <= convs'[Ticket(r)'] /\ log'[r].revAt <= fd'[Ticket(r)'].rev
      BY <1>0, <3>2, <3>3 DEF Item
    <3>5. \A p \in Requests : \A q \in log'[p].before : q \in Requests /\ pc'[q] = "done"
      BY <2>1, <2>3, <3>2 DEF HistoryOK
    <3> QED
      BY <1>3, <2>1, <2>2, <3>2, <3>4, <3>5 DEF HistoryOK
  <2>5. CASE ~Start(r)
    <3>1. pc[r] # "idle" /\ job' = job /\ InProgress(r) /\ Ticket(r) \in Tickets
      BY <1>5, <2>5, StepOf, ThisRequest DEF InProgress
    <3>2. /\ log'[r].before = log[r].before
          /\ \/ log'[r].noteAt = log[r].noteAt
             \/ log'[r].noteAt = convs'[Ticket(r)]
          /\ \/ log'[r].revAt = log[r].revAt
             \/ log'[r].revAt = fd'[Ticket(r)].rev
      BY <1>5, <2>5, LogStep
    <3>3. log'[r].noteAt <= convs'[Ticket(r)']
      BY <1>0, <1>1, <3>1, <3>2 DEF HistoryOK, Ticket, Log
    <3>4. log'[r].revAt <= fd'[Ticket(r)'].rev
      BY <1>0, <1>1, <3>1, <3>2 DEF HistoryOK, Ticket, Log, Item
    <3>5. \A p \in Requests : \A q \in log'[p].before : q \in Requests /\ pc'[q] = "done"
      BY <2>1, <2>3, <3>2 DEF HistoryOK
    <3>6. pc'[r] # "status_check"
      BY <1>5, <2>5, EntersByStart
    <3> QED
      BY <1>3, <2>1, <2>2, <3>3, <3>4, <3>5, <3>6 DEF HistoryOK
  <2> QED
    BY <2>4, <2>5
<1> QED
  BY <1>4, <1>5 DEF Next

(* A detail page gets to its conversations with a ticket to show. *)
LEMMA DetailStep ==
  ASSUME NEW r \in Requests, TInv, Step(r), ~Start(r), Kind(r) = "detail",
         pc[r] \in Reading => mem[r].item # None,
         pc'[r] \in Reading \/ resp'[r] = "ok"
  PROVE  mem'[r].item # None \/ resp[r] = "ok"
<1>0. /\ pc[r] # "idle" /\ mem \in [Requests -> Mem] /\ Ticket(r) \in Tickets
      /\ pc \in [Requests -> Labels] /\ resp \in [Requests -> Responses]
  BY StepOf, ThisRequest DEF InProgress, TInv, TypeOK
<1>1. Fits(pc[r], "detail")
  BY <1>0, ThisRequest
<1>2. CASE EnsureAgent(r) \/ AgentUnknown(r)
  BY <1>0, <1>2 DEF EnsureAgent, AgentUnknown, Proceed, Answer, Reading
<1>3. CASE UpdateStep(r) \/ WriteStep(r)
  BY <1>1, <1>3 DEF UpdateStep, LoadRow, SkipAssign, AssignTicket, DelDash, UpsertRow,
     CardFromBoard, CardFromFreshdesk, WriteStep, CompareStatus, AllowWrite, CreateNote,
     UnassignTicket, ClearState, SetStatus, DelConvs, DelTicket, Fits
<1>4. CASE LookTicket(r)
  BY <1>0, <1>4, ItemKept DEF LookTicket, Proceed, Reading
<1>5. CASE FetchTicket(r)
  <2>1. fd[Ticket(r)] # None
    BY <1>0, NoneAssumption DEF TInv, TypeOK
  <2> QED
    BY <1>0, <1>5, <2>1, ItemKept DEF FetchTicket, Proceed, Answer, Reading
<1>6. CASE StoreTicket(r) \/ StoreConvs(r)
  BY <1>0, <1>6 DEF StoreTicket, StoreConvs, Reading
<1>7. CASE LookConvs(r) \/ FetchConvs(r)
  BY <1>0, <1>7, ConvsKept DEF LookConvs, FetchConvs, Reading
<1>8. CASE ReadStep(r)
  BY <1>1, <1>4, <1>5, <1>6, <1>7, <1>8 DEF ReadStep, LookDash, FilterMine, UseStale,
     FilterUnassigned, StoreDash, ListRows, NextUpdater, AskAgain, ShowBoard, FlushCache, Fits
<1> QED
  BY <1>2, <1>3, <1>8 DEF Step

LEMMA NextPage ==
  ASSUME TInv, EInv, PageOK, [Next]_vars
  PROVE  PageOK'
<1> DEFINE Page(p) ==
      /\ pc[p] # "idle" /\ Kind(p) # "board" => mem[p].cur = Ticket(p)
      /\ pc[p] # "idle" /\ Kind(p) = "detail" =>
            (resp[p] = "ok" \/ pc[p] \in Reading => mem[p].item # None)
<1>0. \A p \in Requests : Page(p)
  BY DEF PageOK
<1>1. ASSUME NEW p \in Requests, job'[p] = job[p], mem'[p] = mem[p],
             \/ pc'[p] = pc[p] /\ resp'[p] = resp[p]
             \/ InProgress(p) /\ pc'[p] = "done" /\ resp'[p] = "unseen"
      PROVE  Page(p)'
  BY <1>0, <1>1 DEF InProgress, Kind, Ticket, Reading
<1>2. CASE Environment \/ UNCHANGED vars
  BY <1>1, <1>2, Surroundings DEF PageOK
<1>3. ASSUME NEW r \in Requests, Step(r)
      PROVE  PageOK'
  <2>1. CASE Start(r)
    <3>1. PICK j \in Workload : /\ job'[r] = j /\ pc'[r] = FirstStep(j.kind)
                                /\ mem'[r] = EmptyMem(j.t) /\ resp' = resp /\ pc[r] = "idle"
      BY <2>1, StartOf
    <3>2. FirstStep(j.kind) \notin Reading /\ resp[r] = "none"
      BY <3>1, WorkType DEF FirstStep, Kinds, Reading, EInv, Tracked
    <3>3. Page(r)'
      BY <3>1, <3>2 DEF EmptyMem, Ticket
    <3> QED
      BY <1>1, <1>3, <3>3, StepAlone DEF PageOK
  <2>2. CASE ~Start(r)
    <3>1. pc[r] # "idle" /\ job' = job /\ resp[r] = "none"
      BY <1>3, <2>2, StepOf DEF InProgress, EInv, Tracked
    <3>2. Kind(r) # "board" => mem'[r].cur = mem[r].cur
      BY <1>3, <2>2, MemStep
    <3>3. Kind(r) = "detail" /\ (resp'[r] = "ok" \/ pc'[r] \in Reading) => mem'[r].item # None
      BY <1>0, <1>3, <2>2, <3>1, DetailStep
    <3>4. Page(r)'
      BY <1>0, <3>1, <3>2, <3>3 DEF Kind, Ticket
    <3> QED
      BY <1>1, <1>3, <3>4, StepAlone DEF PageOK
  <2> QED
    BY <2>1, <2>2
<1> QED
  BY <1>2, <1>3 DEF Next

(* Where the two caches get their contents from. *)
LEMMA ConvsCacheStep ==
  ASSUME TInv, [Next]_vars, NEW t \in Tickets
  PROVE  \/ ccache'[t] \in {ccache[t], None}
         \/ \E p \in Requests : pc[p] = "convs_set" /\ mem[p].cur = t /\ ccache'[t] = mem[p].n
<1>0. ccache \in [Tickets -> Nat \cup {None}]
  BY DEF TInv, TypeOK
<1> USE DEF caches
<1>1. ASSUME NEW r \in Requests, Start(r) \/ EnsureAgent(r) \/ AgentUnknown(r) \/ UpdateStep(r)
      PROVE  ccache' = ccache
  BY <1>1 DEF Start, EnsureAgent, AgentUnknown, UpdateStep, LoadRow, SkipAssign, AssignTicket,
     DelDash, UpsertRow, CardFromBoard, CardFromFreshdesk
<1>2. ASSUME NEW r \in Requests, WriteStep(r)
      PROVE  ccache'[t] \in {ccache[t], None}
  BY <1>0, <1>2 DEF WriteStep, CompareStatus, AllowWrite, CreateNote, UnassignTicket, ClearState,
     SetStatus, DelConvs, DelTicket
<1>3. ASSUME NEW r \in Requests, ReadStep(r)
      PROVE  \/ ccache'[t] \in {ccache[t], None}
             \/ pc[r] = "convs_set" /\ mem[r].cur = t /\ ccache'[t] = mem[r].n
  BY <1>0, <1>3 DEF ReadStep, LookTicket, FetchTicket, StoreTicket, LookConvs, FetchConvs,
     StoreConvs, LookDash, FilterMine, UseStale, FilterUnassigned, StoreDash, ListRows,
     NextUpdater, AskAgain, ShowBoard, FlushCache
<1>4. CASE Environment
  BY <1>0, <1>4 DEF Environment, Restart, DashExpires, OtherAgentWrites, ClientReplies,
     TicketExpires, ConvsExpire, WindowCloses, HangUp
<1> QED
  BY <1>1, <1>2, <1>3, <1>4 DEF Next, Step, vars

LEMMA TicketCacheStep ==
  ASSUME TInv, [Next]_vars, NEW t \in Tickets
  PROVE  \/ tcache'[t] \in {tcache[t], None}
         \/ \E p \in Requests : pc[p] = "ticket_set" /\ Ticket(p) = t /\ tcache'[t] = mem[p].item
<1>0. tcache \in [Tickets -> Item \cup {None}]
  BY DEF TInv, TypeOK
<1> USE DEF caches
<1>1. ASSUME NEW r \in Requests, Start(r) \/ EnsureAgent(r) \/ AgentUnknown(r) \/ UpdateStep(r)
      PROVE  tcache' = tcache
  BY <1>1 DEF Start, EnsureAgent, AgentUnknown, UpdateStep, LoadRow, SkipAssign, AssignTicket,
     DelDash, UpsertRow, CardFromBoard, CardFromFreshdesk
<1>2. ASSUME NEW r \in Requests, WriteStep(r)
      PROVE  tcache'[t] \in {tcache[t], None}
  BY <1>0, <1>2 DEF WriteStep, CompareStatus, AllowWrite, CreateNote, UnassignTicket, ClearState,
     SetStatus, DelConvs, DelTicket
<1>3. ASSUME NEW r \in Requests, ReadStep(r)
      PROVE  \/ tcache'[t] \in {tcache[t], None}
             \/ pc[r] = "ticket_set" /\ Ticket(r) = t /\ tcache'[t] = mem[r].item
  BY <1>0, <1>3 DEF ReadStep, LookTicket, FetchTicket, StoreTicket, LookConvs, FetchConvs,
     StoreConvs, LookDash, FilterMine, UseStale, FilterUnassigned, StoreDash, ListRows,
     NextUpdater, AskAgain, ShowBoard, FlushCache
<1>4. CASE Environment
  BY <1>0, <1>4 DEF Environment, Restart, DashExpires, OtherAgentWrites, ClientReplies,
     TicketExpires, ConvsExpire, WindowCloses, HangUp
<1> QED
  BY <1>1, <1>2, <1>3, <1>4 DEF Next, Step, vars

(* Two requests that overlap do so from then on. *)
LEMMA OverlapsStays ==
  ASSUME TInv, HistoryOK, [Next]_vars, NEW p \in Requests, NEW q \in Requests,
         pc[q] # "idle", Overlaps(p, q)
  PROVE  Overlaps(p, q)'
<1>1. pc[p] # "idle"
  BY DEF Overlaps, HistoryOK
<1>2. ASSUME NEW x \in Requests, pc[x] # "idle"
      PROVE  job'[x] = job[x] /\ log'[x].before = log[x].before
  <2>1. CASE Environment \/ UNCHANGED vars
    BY <2>1, Surroundings
  <2>2. ASSUME NEW r \in Requests, Step(r)
        PROVE  job'[x] = job[x] /\ log'[x].before = log[x].before
    BY <1>2, <2>2, StepAlone, StepOf, LogStep DEF Start
  <2> QED
    BY <2>1, <2>2 DEF Next
<1> QED
  BY <1>1, <1>2 DEF Overlaps, Kind

LEMMA UndisturbedBefore ==
  ASSUME TInv, HistoryOK, [Next]_vars, NEW q \in Requests, pc[q] # "idle", Undisturbed(q)'
  PROVE  Undisturbed(q)
  BY OverlapsStays DEF Undisturbed

(* A request is told of the invalidation only when it took place. *)
LEMMA ConvsDroppedStep ==
  ASSUME TInv, EInv, "db" \notin Faults, [Next]_vars, NEW q \in Requests, ConvsDropped(q)'
  PROVE  /\ pc[q] # "idle"
         /\ ConvsDropped(q) \/ (Step(q) /\ ccache'[Ticket(q)] = None /\ ~Start(q))
<1>0. /\ pc \in [Requests -> Labels] /\ resp \in [Requests -> Responses]
      /\ ccache \in [Tickets -> Nat \cup {None}]
  BY DEF TInv, TypeOK
<1>1. CASE Environment \/ UNCHANGED vars
  BY <1>1, Surroundings DEF ConvsDropped, Kind, EInv, Tracked, InProgress
<1>2. ASSUME NEW r \in Requests \ {q}, Step(r)
      PROVE  pc[q] # "idle" /\ ConvsDropped(q)
  BY <1>2, StepAlone, StepOf DEF ConvsDropped, Kind, EInv, Tracked
<1>3. CASE Start(q)
  <2>1. PICK j \in Workload : job'[q] = j /\ pc'[q] = FirstStep(j.kind) /\ resp' = resp
                              /\ pc[q] = "idle"
    BY <1>3, StartOf
  <2> QED
    BY <2>1, WorkType DEF FirstStep, Kinds, ConvsDropped, EInv, Tracked
<1>4. CASE Step(q) /\ ~Start(q)
  <2>1. /\ pc[q] # "idle" /\ resp[q] = "none" /\ job' = job /\ gone' = gone
        /\ Fits(pc[q], Kind(q)) /\ Ticket(q) \in Tickets
    BY <1>4, StepOf, ThisRequest DEF InProgress, EInv, Tracked
  <2>2. Kind(q) \in {"note", "handover"}
    BY <2>1 DEF ConvsDropped, Kind
  <2>3. CASE DelTicket(q)
    BY <1>0, <2>1, <2>2, <2>3 DEF DelTicket, Answer, Proceed, ConvsDropped, Kind
  <2>4. CASE DelConvs(q)
    BY <1>0, <1>4, <2>1, <2>4 DEF DelConvs, DbFails, Proceed, ConvsDropped
  <2>5. CASE CreateNote(q) \/ UnassignTicket(q) \/ ClearState(q) \/ AllowWrite(q)
    <3>1. pc'[q] # "del_ticket" /\ resp'[q] # "ok"
      BY <1>0, <2>1, <2>2, <2>5 DEF CreateNote, UnassignTicket, ClearState, AllowWrite, Answer,
         Proceed
    <3> QED
      BY <3>1 DEF ConvsDropped
  <2>6. CASE EnsureAgent(q) \/ AgentUnknown(q) \/ UpdateStep(q) \/ ReadStep(q)
    BY <2>1, <2>2, <2>6 DEF Fits, EnsureAgent, AgentUnknown, UpdateStep, LoadRow, SkipAssign,
       AssignTicket, DelDash, UpsertRow, CardFromBoard, CardFromFreshdesk, ReadStep, LookTicket,
       FetchTicket, StoreTicket, LookConvs, FetchConvs, StoreConvs, LookDash, FilterMine,
       UseStale, FilterUnassigned, StoreDash, ListRows, NextUpdater, AskAgain, ShowBoard,
       FlushCache
  <2>7. ~CompareStatus(q) /\ ~SetStatus(q)
    BY <2>1, <2>2 DEF Fits, CompareStatus, SetStatus
  <2> QED
    BY <1>4, <2>3, <2>4, <2>5, <2>6, <2>7 DEF Step, WriteStep
<1> QED
  BY <1>1, <1>2, <1>3, <1>4 DEF Next

LEMMA NextConvsShown ==
  ASSUME TInv, CInv, EInv, HistoryOK, ConvsShown, "db" \notin Faults, [Next]_vars
  PROVE  ConvsShown'
<1> SUFFICES ASSUME NEW q \in Requests, Undisturbed(q)', ConvsDropped(q)'
             PROVE  /\ NoOlder(ccache'[Ticket(q)'], log'[q].noteAt)
                    /\ \A p \in Requests : q \in log'[p].before /\ mem'[p].cur = Ticket(q)' =>
                          NoOlder(mem'[p].n, log'[q].noteAt)
  BY DEF ConvsShown
<1>0. HistoryOK' /\ pc[q] # "idle" /\ Undisturbed(q) /\ Ticket(q) \in Tickets
  BY ConvsDroppedStep, NextHistory, UndisturbedBefore, ThisRequest
<1>1. CASE ~ConvsDropped(q)
  <2>1. Step(q) /\ ccache'[Ticket(q)] = None /\ ~Start(q) /\ job' = job
    BY <1>1, ConvsDroppedStep, StepOf
  <2>2. ASSUME NEW p \in Requests
        PROVE  q \notin log'[p].before
    <3>1. log'[p].before = log[p].before
      BY <2>1, StepAlone, LogStep
    <3>2. pc[q] # "done"
      BY <2>1, StepOf
    <3> QED
      BY <3>1, <3>2 DEF HistoryOK
  <2> QED
    BY <2>1, <2>2 DEF NoOlder, Ticket
<1>2. CASE ConvsDropped(q)
  <2>0. /\ NoOlder(ccache[Ticket(q)], log[q].noteAt)
        /\ \A p \in Requests : q \in log[p].before /\ mem[p].cur = Ticket(q) =>
              NoOlder(mem[p].n, log[q].noteAt)
    BY <1>0, <1>2 DEF ConvsShown
  <2>1. job'[q] = job[q] /\ log'[q].noteAt = log[q].noteAt
    <3>1. CASE Environment \/ UNCHANGED vars
      BY <3>1, Surroundings
    <3>2. ASSUME NEW r \in Requests \ {q}, Step(r)
          PROVE  job'[q] = job[q] /\ log'[q].noteAt = log[q].noteAt
      BY <3>2, StepAlone
    <3>3. CASE Step(q)
      <4>1. pc[q] = "del_ticket"
        BY <1>2, <3>3, StepOf DEF ConvsDropped, EInv, Tracked
      <4> QED
        BY <3>3, <4>1, StepOf, LogStep DEF Start
    <3> QED
      BY <3>1, <3>2, <3>3 DEF Next
  <2>2. Ticket(q)' = Ticket(q)
    BY <2>1 DEF Ticket
  <2>3. NoOlder(ccache'[Ticket(q)], log[q].noteAt)
    <3>1. ASSUME NEW p \in Requests, pc[p] = "convs_set", mem[p].cur = Ticket(q)
          PROVE  NoOlder(mem[p].n, log[q].noteAt)
      <4>1. /\ job[p] # None /\ pc[p] # "done"
            /\ Kind(p) \in {"detail", "preview", "board", "update", "status"}
        BY <3>1, ThisRequest, NoneAssumption DEF Fits
      <4>2. p # q
        BY <4>1, <1>2 DEF ConvsDropped
      <4>3. ~Overlaps(p, q) /\ p \notin log[q].before
        BY <1>0, <4>1, <4>2 DEF Undisturbed, HistoryOK
      <4> QED
        BY <2>0, <3>1, <4>1, <4>3 DEF Overlaps
    <3>2. \/ ccache'[Ticket(q)] \in {ccache[Ticket(q)], None}
          \/ \E p \in Requests : /\ pc[p] = "convs_set" /\ mem[p].cur = Ticket(q)
                                 /\ ccache'[Ticket(q)] = mem[p].n
      BY <1>0, ConvsCacheStep
    <3> QED
      BY <2>0, <3>1, <3>2 DEF NoOlder
  <2>4. ASSUME NEW p \in Requests, q \in log'[p].before, mem'[p].cur = Ticket(q)
        PROVE  NoOlder(mem'[p].n, log[q].noteAt)
    <3>1. CASE log'[p] = log[p] /\ mem'[p] = mem[p]
      BY <2>0, <2>4, <3>1
    <3>2. CASE Start(p)
      <4>1. PICK j \in Workload : mem'[p] = EmptyMem(j.t)
        BY <3>2, StartOf
      <4> QED
        BY <4>1 DEF EmptyMem, NoOlder
    <3>3. CASE Step(p) /\ ~Start(p)
      <4>1. log'[p].before = log[p].before
        BY <3>3, LogStep
      <4>2. \/ mem'[p].n = None
            \/ /\ mem'[p].cur = mem[p].cur
               /\ mem'[p].n \in {mem[p].n, ccache[mem[p].cur], convs[mem[p].cur]}
        BY <3>3, MemStep
      <4>3. NoOlder(convs[Ticket(q)], log[q].noteAt)
        <5>1. log[q].noteAt <= convs[Ticket(q)] /\ log[q].noteAt \in Nat /\ convs[Ticket(q)] \in Nat
          BY <1>0 DEF HistoryOK, TInv, TypeOK, Log
        <5> QED
          BY <5>1 DEF NoOlder
      <4> QED
        BY <2>0, <2>4, <4>1, <4>2, <4>3 DEF NoOlder
    <3> QED
      BY <3>1, <3>2, <3>3, StepAlone, Surroundings DEF Next
  <2> QED
    BY <2>1, <2>2, <2>3, <2>4
<1> QED
  BY <1>1, <1>2

\* The same for ticket:{id}; a status that needs no change has written nothing.
LEMMA TicketDroppedStep ==
  ASSUME TInv, EInv, HistoryOK, "db" \notin Faults, [Next]_vars, NEW q \in Requests,
         TicketDropped(q)'
  PROVE  /\ pc[q] # "idle"
         /\ \/ TicketDropped(q) /\ log'[q].revAt = log[q].revAt
            \/ /\ Step(q) /\ ~Start(q)
               /\ log'[q].revAt = 0 \/ tcache'[Ticket(q)] = None
<1>0. /\ pc \in [Requests -> Labels] /\ resp \in [Requests -> Responses]
      /\ tcache \in [Tickets -> Item \cup {None}]
  BY DEF TInv, TypeOK
<1>1. CASE Environment \/ UNCHANGED vars
  BY <1>1, Surroundings DEF TicketDropped, Kind, EInv, Tracked, InProgress, Rendering
<1>2. ASSUME NEW r \in Requests \ {q}, Step(r)
      PROVE  pc[q] # "idle" /\ TicketDropped(q) /\ log'[q].revAt = log[q].revAt
  BY <1>2, StepAlone, StepOf DEF TicketDropped, Kind, EInv, Tracked, Rendering
<1>3. CASE Start(q)
  <2>1. PICK j \in Workload : job'[q] = j /\ pc'[q] = FirstStep(j.kind) /\ resp' = resp
                              /\ pc[q] = "idle"
    BY <1>3, StartOf
  <2> QED
    BY <2>1, WorkType DEF FirstStep, Kinds, TicketDropped, EInv, Tracked, Rendering
<1>4. CASE Step(q) /\ ~Start(q)
  <2>1. /\ pc[q] # "idle" /\ resp[q] = "none" /\ job' = job /\ gone' = gone
        /\ Fits(pc[q], Kind(q)) /\ Ticket(q) \in Tickets
    BY <1>4, StepOf, ThisRequest DEF InProgress, EInv, Tracked
  <2>2. Kind(q) \in {"status", "handover"}
    BY <2>1 DEF TicketDropped, Kind
  <2>3. CASE DelTicket(q)
    <3>1. CASE q \notin gone
      BY <1>0, <1>4, <2>1, <2>3, <3>1 DEF DelTicket, DbFails
    <3>2. CASE q \in gone
      BY <1>0, <2>1, <2>2, <2>3, <3>2 DEF DelTicket, Answer, Proceed, TicketDropped, Kind
    <3> QED
      BY <3>1, <3>2
  <2>4. CASE CompareStatus(q)
    BY <1>4, <2>4, LogStep DEF CompareStatus, HistoryOK
  <2>5. CASE CreateNote(q) \/ UnassignTicket(q) \/ SetStatus(q)
    <3>1. pc'[q] \notin Rendering /\ resp'[q] # "ok"
      BY <1>0, <2>1, <2>2, <2>5 DEF CreateNote, UnassignTicket, SetStatus, Answer, Proceed,
         Rendering
    <3> QED
      BY <3>1 DEF TicketDropped
  <2>6. CASE ClearState(q) \/ DelConvs(q) \/ AllowWrite(q)
    <3>1. pc'[q] \notin Rendering /\ resp'[q] # "ok"
      BY <1>0, <2>1, <2>2, <2>6 DEF ClearState, DelConvs, AllowWrite, Answer, Proceed, Rendering
    <3> QED
      BY <3>1 DEF TicketDropped
  <2>7. CASE pc[q] \in Rendering
    <3>1. log'[q].revAt = log[q].revAt
      BY <1>4, <2>7, LogStep DEF Rendering
    <3>2. Kind(q) = "status"
      BY <2>1, <2>2, <2>7 DEF Fits, Rendering
    <3>3. q \notin gone
      <4>1. resp'[q] = "ok" \/ q \notin gone
        BY <2>1, <3>2 DEF TicketDropped, Kind
      <4> QED
        BY <1>4, <2>1, <4>1, AnswersOk
    <3> QED
      BY <2>1, <2>7, <3>1, <3>2, <3>3 DEF TicketDropped
  <2>8. ASSUME pc[q] \notin Rendering
        PROVE  DelTicket(q) \/ CompareStatus(q) \/ CreateNote(q) \/ UnassignTicket(q)
               \/ SetStatus(q) \/ ClearState(q) \/ DelConvs(q) \/ AllowWrite(q)
    <3>1. ~EnsureAgent(q) /\ ~AgentUnknown(q)
      BY <2>1, <2>2 DEF Fits, EnsureAgent, AgentUnknown
    <3>2. ~UpdateStep(q)
      BY <2>1, <2>2, <2>8 DEF Fits, Rendering, UpdateStep, LoadRow, SkipAssign, AssignTicket,
         DelDash, UpsertRow, CardFromBoard, CardFromFreshdesk
    <3>3. ~ReadStep(q)
      BY <2>1, <2>2, <2>8 DEF Fits, Rendering, ReadStep, LookTicket, FetchTicket, StoreTicket,
         LookConvs, FetchConvs, StoreConvs, LookDash, FilterMine, UseStale, FilterUnassigned,
         StoreDash, ListRows, NextUpdater, AskAgain, ShowBoard, FlushCache
    <3> QED
      BY <1>4, <3>1, <3>2, <3>3 DEF Step, WriteStep
  <2> QED
    BY <2>3, <2>4, <2>5, <2>6, <2>7, <2>8
<1> QED
  BY <1>1, <1>2, <1>3, <1>4 DEF Next

LEMMA NextTicketShown ==
  ASSUME TInv, CInv, EInv, HistoryOK, TicketShown, "db" \notin Faults, [Next]_vars
  PROVE  TicketShown'
<1> SUFFICES ASSUME NEW q \in Requests, Undisturbed(q)', TicketDropped(q)'
             PROVE  /\ NoOlderItem(tcache'[Ticket(q)'], log'[q].revAt)
                    /\ \A p \in Requests :
                          /\ q \in log'[p].before
                          /\ Kind(p)' \in {"detail", "preview"} /\ Ticket(p)' = Ticket(q)'
                          => NoOlderItem(mem'[p].item, log'[q].revAt)
  BY DEF TicketShown
<1>0. HistoryOK' /\ TInv' /\ pc[q] # "idle" /\ Undisturbed(q) /\ Ticket(q) \in Tickets
  BY TicketDroppedStep, NextHistory, NextTInv, UndisturbedBefore, ThisRequest
<1>1. CASE /\ Step(q) /\ ~Start(q)
           /\ log'[q].revAt = 0 \/ tcache'[Ticket(q)] = None
  <2>1. job' = job
    BY <1>1, StepOf
  <2>2. NoOlderItem(tcache'[Ticket(q)], log'[q].revAt)
    BY <1>0, <1>1 DEF NoOlderItem, TInv, TypeOK, Item
  <2>3. ASSUME NEW p \in Requests
        PROVE  q \notin log'[p].before
    <3>1. log'[p].before = log[p].before
      BY <1>1, StepAlone, LogStep
    <3>2. pc[q] # "done"
      BY <1>1, StepOf
    <3> QED
      BY <3>1, <3>2 DEF HistoryOK
  <2> QED
    BY <2>1, <2>2, <2>3 DEF Ticket
<1>2. CASE TicketDropped(q) /\ log'[q].revAt = log[q].revAt
  <2>0. /\ NoOlderItem(tcache[Ticket(q)], log[q].revAt)
        /\ \A p \in Requests :
              q \in log[p].before /\ Kind(p) \in {"detail", "preview"} /\ Ticket(p) = Ticket(q) =>
                 NoOlderItem(mem[p].item, log[q].revAt)
    BY <1>0, <1>2 DEF TicketShown
  <2>1. ASSUME NEW p \in Requests, pc[p] # "idle"
        PROVE  job'[p] = job[p]
    <3>1. CASE Environment \/ UNCHANGED vars
      BY <3>1, Surroundings
    <3>2. ASSUME NEW r \in Requests, Step(r)
          PROVE  job'[p] = job[p]
      BY <2>1, <3>2, StepAlone, StepOf DEF Start
    <3> QED
      BY <3>1, <3>2 DEF Next
  <2>2. Ticket(q)' = Ticket(q)
    BY <1>0, <2>1 DEF Ticket
  <2>3. NoOlderItem(tcache'[Ticket(q)], log[q].revAt)
    <3>1. ASSUME NEW p \in Requests, pc[p] = "ticket_set", Ticket(p) = Ticket(q)
          PROVE  NoOlderItem(mem[p].item, log[q].revAt)
      <4>1. job[p] # None /\ pc[p] # "done" /\ Kind(p) \in {"detail", "preview"}
        BY <3>1, ThisRequest, NoneAssumption DEF Fits
      <4>2. p # q
        BY <4>1, <1>2 DEF TicketDropped
      <4>3. ~Overlaps(p, q) /\ p \notin log[q].before
        BY <1>0, <4>1, <4>2 DEF Undisturbed, HistoryOK
      <4> QED
        BY <2>0, <3>1, <4>1, <4>3 DEF Overlaps
    <3>2. \/ tcache'[Ticket(q)] \in {tcache[Ticket(q)], None}
          \/ \E p \in Requests : /\ pc[p] = "ticket_set" /\ Ticket(p) = Ticket(q)
                                 /\ tcache'[Ticket(q)] = mem[p].item
      BY <1>0, TicketCacheStep
    <3> QED
      BY <2>0, <3>1, <3>2 DEF NoOlderItem
  <2>4. ASSUME NEW p \in Requests, q \in log'[p].before, Kind(p)' \in {"detail", "preview"},
               Ticket(p)' = Ticket(q)
        PROVE  NoOlderItem(mem'[p].item, log[q].revAt)
    <3>1. CASE log'[p] = log[p] /\ mem'[p] = mem[p] /\ job'[p] = job[p]
      BY <2>0, <2>4, <3>1 DEF Kind, Ticket
    <3>2. CASE Start(p)
      <4>1. PICK j \in Workload : mem'[p] = EmptyMem(j.t)
        BY <3>2, StartOf
      <4> QED
        BY <4>1 DEF EmptyMem, NoOlderItem
    <3>3. CASE Step(p) /\ ~Start(p)
      <4>1. log'[p].before = log[p].before /\ job' = job
        BY <3>3, LogStep, StepOf
      <4>2. mem'[p].item \in {mem[p].item, tcache[Ticket(p)], fd[Ticket(p)]}
        BY <2>4, <3>3, <4>1, MemStep DEF Kind
      <4>3. NoOlderItem(fd[Ticket(q)], log[q].revAt)
        <5>1. /\ log[q].revAt <= fd[Ticket(q)].rev
              /\ log[q].revAt \in Nat /\ fd[Ticket(q)].rev \in Nat
          BY <1>0 DEF HistoryOK, TInv, TypeOK, Log, Item
        <5> QED
          BY <5>1 DEF NoOlderItem
      <4> QED
        BY <2>0, <2>4, <4>1, <4>2, <4>3 DEF NoOlderItem, Kind, Ticket
    <3> QED
      BY <3>1, <3>2, <3>3, StepAlone, Surroundings DEF Next
  <2> QED
    BY <1>2, <2>2, <2>3, <2>4
<1> QED
  BY <1>1, <1>2, TicketDroppedStep

LEMMA ShownAlways ==
  ASSUME "db" \notin Faults
  PROVE  Spec => [](TInv /\ EInv /\ SInv)
<1>1. Init => SInv
  <2> SUFFICES ASSUME Init PROVE SInv
    OBVIOUS
  <2>1. \A r \in Requests : pc[r] = "idle" /\ log[r].before = {}
    BY DEF Init, EmptyLog
  <2> QED
    BY <2>1, InitHistory DEF SInv, PageOK, ConvsShown, TicketShown, Undisturbed
<1>2. TInv /\ CInv /\ EInv /\ SInv /\ [Next]_vars => SInv'
  BY NextHistory, NextPage, NextConvsShown, NextTicketShown DEF SInv
<1> QED
  BY <1>1, <1>2, Invariants, PastAlways, PTL DEF Spec

(* ticket.go:375: "Invalidate caches so the page reload shows the new      *)
(* note".  As long as SQLite does not fail, a detail page asked for after  *)
(* a note or a handover was answered shows it, whatever else happens,      *)
(* except a read of the ticket that was under way during the note.         *)
THEOREM NotesShow ==
  ASSUME "db" \notin Faults
  PROVE  Spec => []NoteShownUnlessOverlap
<1>1. TInv /\ EInv /\ SInv => NoteShownUnlessOverlap
  <2> SUFFICES ASSUME TInv, EInv, SInv, NEW r \in Requests, NEW q \in Requests,
                      job[r] # None, job[q] # None,
                      \A p \in Requests \ {q, r} : ~Overlaps(p, q),
                      Kind(r) = "detail", resp[r] = "ok",
                      Kind(q) \in {"note", "handover"}, resp[q] = "ok",
                      q \in log[r].before, Ticket(r) = Ticket(q)
               PROVE  mem[r].n = None \/ mem[r].n >= log[q].noteAt
    BY DEF NoteShownUnlessOverlap, NoteShownTo
  <2>1. pc[q] = "done" /\ pc[r] # "idle"
    BY DEF SInv, HistoryOK, EInv, Tracked
  <2>2. Undisturbed(q) /\ ConvsDropped(q)
    BY <2>1 DEF Undisturbed, ConvsDropped, Overlaps
  <2>3. mem[r].cur = Ticket(q)
    BY <2>1 DEF SInv, PageOK
  <2> QED
    BY <2>2, <2>3 DEF SInv, ConvsShown, NoOlder
<1> QED
  BY ShownAlways, <1>1, PTL

(* freshdesk_status.go:59: "Invalidate ticket cache so subsequent page     *)
(* loads show the new status", and the same for the unassignment of a      *)
(* handover: with the same two exceptions.                                 *)
THEOREM StatusesShow ==
  ASSUME "db" \notin Faults
  PROVE  Spec => []StatusShownUnlessOverlap
<1>1. TInv /\ EInv /\ SInv => StatusShownUnlessOverlap
  <2> SUFFICES ASSUME TInv, EInv, SInv, NEW r \in Requests, NEW q \in Requests,
                      job[r] # None, job[q] # None, Kind(r) = "detail", resp[r] = "ok",
                      Kind(q) \in {"status", "handover"}, resp[q] = "ok",
                      q \in log[r].before, Ticket(r) = Ticket(q),
                      \A p \in Requests \ {q, r} : ~Overlaps(p, q)
               PROVE  mem[r].item.rev >= log[q].revAt
    BY DEF StatusShownUnlessOverlap
  <2>1. pc[q] = "done" /\ pc[r] # "idle"
    BY DEF SInv, HistoryOK, EInv, Tracked
  <2>2. Undisturbed(q) /\ TicketDropped(q)
    BY <2>1 DEF Undisturbed, TicketDropped, Overlaps
  <2>3. mem[r].item # None
    BY <2>1 DEF SInv, PageOK
  <2> QED
    BY <2>2, <2>3 DEF SInv, TicketShown, NoOlderItem
<1> QED
  BY ShownAlways, <1>1, PTL

-----------------------------------------------------------------------------
(* One request after the other. *)

\* One request at a time, each started after all that were answered.
OneAtATime ==
    \A p, q \in Requests :
       InProgress(p) => /\ InProgress(q) => p = q
                        /\ pc[q] = "done" => q \in log[p].before

LEMMA InitOneAtATime == Init => OneAtATime
  BY DEF Init, OneAtATime, InProgress

LEMMA NextOneAtATime ==
  ASSUME Overlap = FALSE, TInv, OneAtATime, [Next]_vars
  PROVE  OneAtATime'
<1>1. CASE Environment \/ UNCHANGED vars
  <2>1. ASSUME NEW q \in Requests
        PROVE  /\ log'[q] = log[q]
               /\ pc'[q] = pc[q] \/ (InProgress(q) /\ pc'[q] = "done")
    <3>1. /\ log'[q] = log[q]
          /\ \/ pc'[q] = pc[q] /\ resp'[q] = resp[q]
             \/ InProgress(q) /\ pc'[q] = "done" /\ resp'[q] = "unseen"
      BY <1>1, Surroundings
    <3> QED
      BY <3>1
  <2>2. ASSUME NEW p \in Requests, NEW q \in Requests, InProgress(p)'
        PROVE  /\ InProgress(q)' => p = q
               /\ pc'[q] = "done" => q \in log'[p].before
    <3>1. InProgress(p) /\ log'[p] = log[p] /\ pc'[p] # "done"
      BY <2>1, <2>2 DEF InProgress
    <3>2. InProgress(q)' => InProgress(q)
      BY <2>1 DEF InProgress
    <3>3. pc'[q] = "done" => pc[q] = "done" \/ p = q
      BY <2>1, <3>1 DEF OneAtATime
    <3> QED
      BY <3>1, <3>2, <3>3 DEF OneAtATime
  <2> QED
    BY <2>2 DEF OneAtATime
<1>2. ASSUME NEW r \in Requests, Step(r)
      PROVE  OneAtATime'
  <2>1. \A q \in Requests \ {r} : pc'[q] = pc[q]
    BY <1>2, StepAlone
  <2>2. \A q \in Requests \ {r} : ~InProgress(q)
    BY <1>2, StepOf DEF OneAtATime, Start
  <2>3. ASSUME NEW q \in Requests \ {r}, pc[q] = "done", InProgress(r)'
        PROVE  q \in log'[r].before
    <3>1. CASE Start(r)
      <4>1. log'[r] = [log[r] EXCEPT !.before = {x \in Requests : pc[x] = "done"}]
        BY <3>1, StartOf
      <4>2. log'[r].before = {x \in Requests : pc[x] = "done"}
        BY <4>1 DEF TInv, TypeOK, Log
      <4> QED
        BY <2>3, <4>2
    <3>2. CASE ~Start(r)
      BY <1>2, <2>3, <3>2, StepOf, LogStep DEF OneAtATime
    <3> QED
      BY <3>1, <3>2
  <2> QED
    BY <2>1, <2>2, <2>3 DEF OneAtATime, InProgress
<1> QED
  BY <1>1, <1>2 DEF Next

LEMMA SerialAlways ==
  ASSUME Overlap = FALSE
  PROVE  Spec => [](TInv /\ EInv /\ CInv /\ HistoryOK /\ OneAtATime)
<1>1. Init => HistoryOK /\ OneAtATime
  BY InitHistory, InitOneAtATime
<1>2. TInv /\ EInv /\ CInv /\ HistoryOK /\ OneAtATime /\ [Next]_vars => (HistoryOK /\ OneAtATime)'
  BY NextHistory, NextOneAtATime
<1> QED
  BY <1>1, <1>2, Invariants, PastAlways, PTL DEF Spec

-----------------------------------------------------------------------------
(* Rows. *)

\* The row a handler works on is the one in the table, edited.
RowCurrent ==
    \A r \in Requests :
       pc[r] \in Loading /\ Kind(r) = "update" =>
          /\ ~Rejected(job[r].edit)
          /\ mem[r].row = Edit(job[r].edit, RowOf(rows, Ticket(r)))

LEMMA UpdateRowStep ==
  ASSUME NEW r \in Requests, TInv, Step(r), ~Start(r), Kind(r) = "update", pc'[r] \in Loading
  PROVE  /\ UNCHANGED rows
         /\ \/ /\ ~Rejected(job[r].edit)
               /\ mem'[r].row = Edit(job[r].edit, RowOf(rows, Ticket(r)))
            \/ pc[r] \in Loading /\ mem'[r].row = mem[r].row
<1>0. /\ pc \in [Requests -> Labels] /\ mem \in [Requests -> Mem]
      /\ pc[r] # "idle"
  BY StepOf DEF InProgress, TInv, TypeOK
<1>1. Fits(pc[r], "update")
  BY <1>0, ThisRequest
<1>2. CASE EnsureAgent(r) \/ AgentUnknown(r)
  BY <1>0, <1>1, <1>2 DEF EnsureAgent, AgentUnknown, Fits, Loading
<1>3. CASE LoadRow(r)
  <2>1. CASE Answer(r, "bad")
    BY <1>0, <2>1 DEF Answer, Loading
  <2>2. CASE /\ ~Rejected(job[r].edit)
             /\ mem' = [mem EXCEPT ![r].row = Edit(job[r].edit, RowOf(rows, Ticket(r)))]
    BY <1>0, <1>3, <2>2, RowKept DEF LoadRow
  <2> QED
    BY <1>3, <2>1, <2>2 DEF LoadRow
<1>4. CASE SkipAssign(r) \/ AssignTicket(r) \/ DelDash(r)
  BY <1>0, <1>4 DEF SkipAssign, AssignTicket, DelDash, Loading
<1>5. CASE UpsertRow(r) \/ CardFromBoard(r) \/ CardFromFreshdesk(r)
  BY <1>0, <1>5 DEF UpsertRow, CardFromBoard, CardFromFreshdesk, Loading, Proceed, Answer
<1>6. CASE WriteStep(r)
  BY <1>0, <1>1, <1>6 DEF WriteStep, CompareStatus, AllowWrite, CreateNote, UnassignTicket,
     ClearState, SetStatus, DelConvs, DelTicket, Fits, Loading
<1>7. CASE LookConvs(r) \/ FetchConvs(r) \/ StoreConvs(r)
  BY <1>0, <1>7 DEF LookConvs, FetchConvs, StoreConvs, Converse, Loading, Proceed, Answer
<1>8. CASE ReadStep(r)
  BY <1>1, <1>7, <1>8 DEF ReadStep, LookTicket, FetchTicket, StoreTicket, LookDash, FilterMine,
     UseStale, FilterUnassigned, StoreDash, ListRows, NextUpdater, AskAgain, ShowBoard,
     FlushCache, Fits
<1> QED
  BY <1>2, <1>3, <1>4, <1>5, <1>6, <1>8 DEF Step, UpdateStep

LEMMA NextRowCurrent ==
  ASSUME TInv, OneAtATime, OneAtATime', RowCurrent, [Next]_vars
  PROVE  RowCurrent'
<1>1. CASE Environment \/ UNCHANGED vars
  <2>1. UNCHANGED rows
    BY <1>1 DEF vars, Environment, Restart, DashExpires, OtherAgentWrites, ClientReplies,
       TicketExpires, ConvsExpire, WindowCloses, HangUp
  <2>2. \A q \in Requests : /\ job'[q] = job[q] /\ mem'[q] = mem[q]
                            /\ pc'[q] = pc[q] \/ pc'[q] = "done"
    BY <1>1, Surroundings
  <2> QED
    BY <2>1, <2>2 DEF RowCurrent, Loading, Kind, Ticket, RowOf
<1>2. ASSUME NEW r \in Requests, Step(r)
      PROVE  RowCurrent'
  <2>1. ASSUME NEW q \in Requests, pc'[q] \in Loading, Kind(q)' = "update"
        PROVE  /\ ~Rejected(job'[q].edit)
               /\ mem'[q].row = Edit(job'[q].edit, RowOf(rows', Ticket(q)'))
    <3>1. CASE q # r
      <4>1. pc'[q] = pc[q]
        BY <1>2, <3>1, StepAlone
      <4>2. InProgress(q) /\ InProgress(q)'
        BY <2>1, <4>1 DEF InProgress, Loading
      <4>3. Start(r)
        BY <1>2, <3>1, <4>2, StepOf DEF OneAtATime
      <4>4. InProgress(r)'
        <5>1. PICK j \in Workload : pc'[r] = FirstStep(j.kind)
          BY <4>3, StartOf
        <5> QED
          BY <5>1, WorkType DEF FirstStep, Kinds, InProgress
      <4> QED
        BY <3>1, <4>2, <4>4 DEF OneAtATime
    <3>2. CASE Start(r) /\ q = r
      <4>1. PICK j \in Workload : pc'[r] = FirstStep(j.kind)
        BY <1>2, <3>2, StartOf
      <4> QED
        BY <2>1, <3>2, <4>1, WorkType DEF FirstStep, Kinds, Loading
    <3>3. CASE ~Start(r) /\ q = r
      <4>1. job' = job /\ Kind(r) = "update"
        BY <1>2, <2>1, <3>3, StepOf DEF Kind
      <4>2. /\ UNCHANGED rows
            /\ \/ /\ ~Rejected(job[r].edit)
                  /\ mem'[r].row = Edit(job[r].edit, RowOf(rows, Ticket(r)))
               \/ pc[r] \in Loading /\ mem'[r].row = mem[r].row
        BY <1>2, <2>1, <3>3, <4>1, UpdateRowStep
      <4> QED
        BY <3>3, <4>1, <4>2 DEF RowCurrent, Ticket, RowOf
    <3> QED
      BY <3>1, <3>2, <3>3
  <2> QED
    BY <2>1 DEF RowCurrent
<1> QED
  BY <1>1, <1>2 DEF Next

(* The switch the abstract specification makes of a form is the handler's. *)
LEMMA SameSwitch ==
  ASSUME NEW e, NEW row
  PROVE  /\ Promise!Rejected(e) <=> Rejected(e)
         /\ Promise!Edit(e, row) = Edit(e, row)
         /\ \A t : Promise!RowOf(rows, t) = RowOf(rows, t)
         /\ Promise!FormEdits = FormEdits
<1>1. Promise!Rejected(e) <=> Rejected(e)
  BY DEF Promise!Rejected, Rejected
<1>2. Promise!SetToday(e, row) = SetToday(e, row)
  BY DEF Promise!SetToday, SetToday, Promise!TurnsTodayOn, TurnsTodayOn
<1>3. \A date : Promise!SetReview(date, row) = SetReview(date, row)
  BY DEF Promise!SetReview, SetReview
<1>4. \A date : Promise!Defer(date, row) = Defer(date, row)
  BY <1>3 DEF Promise!Defer, Defer
<1>5. Promise!Edit(e, row) = Edit(e, row)
  BY <1>2, <1>3, <1>4 DEF Promise!Edit, Edit
<1>6. \A t : Promise!RowOf(rows, t) = RowOf(rows, t)
  BY DEF Promise!RowOf, RowOf, Promise!DefaultRow, DefaultRow
<1>7. Promise!FormEdits = FormEdits
  BY DEF Promise!FormEdits, FormEdits
<1> QED
  BY <1>1, <1>5, <1>6, <1>7

(* state.go:17-19: when requests do not overlap, the handler of a form     *)
(* "updates a single field of the ticket's local state" as it is at that   *)
(* moment, though it reads the row first and writes all of it later, with  *)
(* calls that may fail and restarts in between; and only a handover        *)
(* removes a row.                                                          *)
THEOREM RowsRefine ==
  ASSUME Overlap = FALSE
  PROVE  Spec => RowsAtomic
<1>1. Init => Promise!Init
  BY DEF Init, Promise!Init
<1>2. ASSUME TInv, RowCurrent, [Next]_vars
      PROVE  [Promise!Next]_rows
  <2>1. ASSUME NEW r \in Requests, UpsertRow(r)
        PROVE  [Promise!Next]_rows
    <3>1. pc[r] = "upsert" /\ pc[r] # "idle"
      BY <2>1 DEF UpsertRow
    <3>2. Ticket(r) \in Tickets /\ job[r].edit \in FormEdits /\ Kind(r) = "update"
      BY <1>2, <3>1, ThisRequest, WorkType DEF Fits, Kind
    <3>3. ~Rejected(job[r].edit) /\ mem[r].row = Edit(job[r].edit, RowOf(rows, Ticket(r)))
      BY <1>2, <3>1, <3>2 DEF RowCurrent, Loading
    <3>4. CASE rows' = [rows EXCEPT ![Ticket(r)] = mem[r].row]
      <4>1. Promise!EditRow(Ticket(r), job[r].edit)
        BY <3>3, <3>4, SameSwitch DEF Promise!EditRow
      <4> QED
        BY <3>2, <4>1, SameSwitch DEF Promise!Next
    <3> QED
      BY <2>1, <3>4 DEF UpsertRow
  <2>2. ASSUME NEW r \in Requests, ClearState(r)
        PROVE  [Promise!Next]_rows
    <3>1. Ticket(r) \in Tickets
      BY <1>2, <2>2, ThisRequest DEF ClearState
    <3> QED
      BY <2>2, <3>1 DEF ClearState, Promise!Next, Promise!ClearRow
  <2>3. CASE UNCHANGED vars
    BY <2>3 DEF vars
  <2> QED
    BY <1>2, <2>1, <2>2, <2>3, RowsKept
<1>3. Init => RowCurrent
  BY DEF Init, RowCurrent, Loading
<1>4. TInv /\ OneAtATime /\ OneAtATime' /\ RowCurrent /\ [Next]_vars => RowCurrent'
  BY NextRowCurrent
<1> QED
  BY <1>1, <1>2, <1>3, <1>4, SerialAlways, PTL DEF Spec, RowsAtomic, Promise!Spec

-----------------------------------------------------------------------------
(* Handovers. *)

\* A handover whose row is gone.
RowDropped(q) ==
    /\ Kind(q) = "handover"
    /\ resp[q] = "ok" \/ (pc[q] \in {"del_convs", "del_ticket"} /\ q \notin gone)

RowsEditedAfter ==
    \A q \in Requests :
       pc[q] # "idle" /\ RowDropped(q) /\ rows[Ticket(q)] # None =>
          \E p \in Requests : /\ q \in log[p].before
                              /\ "edit" \in log[p].effects
                              /\ Ticket(p) = Ticket(q)

(* A handover gets past the deletion of its row only by deleting it. *)
LEMMA RowDroppedStep ==
  ASSUME TInv, EInv, "db" \notin Faults, [Next]_vars, NEW q \in Requests,
         pc'[q] # "idle", RowDropped(q)'
  PROVE  /\ pc[q] # "idle"
         /\ RowDropped(q) \/ rows'[Ticket(q)] = None
<1>0. /\ pc \in [Requests -> Labels] /\ rows \in [Tickets -> Row \cup {None}]
      /\ resp \in [Requests -> Responses]
  BY DEF TInv, TypeOK
<1>e. pc[q] # "done" => resp[q] = "none"
  BY DEF EInv, Tracked
<1>1. CASE Environment \/ UNCHANGED vars
  <2>1. /\ job'[q] = job[q]
        /\ \/ pc'[q] = pc[q] /\ resp'[q] = resp[q]
           \/ InProgress(q) /\ pc'[q] = "done" /\ resp'[q] = "unseen"
        /\ gone \subseteq gone'
    BY <1>1, Surroundings
  <2> QED
    BY <2>1 DEF RowDropped, Kind
<1>2. CASE \E r \in Requests \ {q} : Step(r)
  <2>1. PICK r \in Requests \ {q} : Step(r)
    BY <1>2
  <2>2. pc'[q] = pc[q] /\ job'[q] = job[q] /\ resp'[q] = resp[q]
    BY <2>1, StepAlone
  <2>3. gone' = gone
    BY <2>1, StepOf
  <2> QED
    BY <2>2, <2>3 DEF RowDropped, Kind
<1>3. CASE Start(q)
  <2>1. PICK j \in Workload : pc'[q] = FirstStep(j.kind) /\ resp' = resp /\ pc[q] = "idle"
    BY <1>3, StartOf
  <2>2. pc'[q] \notin {"del_convs", "del_ticket"}
    BY <2>1, WorkType DEF FirstStep, Kinds
  <2> QED
    BY <1>e, <2>1, <2>2 DEF RowDropped
<1>4. CASE Step(q) /\ ~Start(q)
  <2>1. pc[q] \notin {"idle", "done"} /\ job' = job /\ gone' = gone
    BY <1>4, StepOf DEF InProgress
  <2>2. Kind(q) = "handover" /\ Fits(pc[q], "handover") /\ Ticket(q) \in Tickets
    BY <2>1, ThisRequest DEF RowDropped, Kind
  <2>3. q \notin gone
    BY <1>4, <1>e, <2>1, AnswersOk DEF RowDropped
  <2>4. CASE EnsureAgent(q) \/ AgentUnknown(q) \/ UpdateStep(q) \/ ReadStep(q)
    BY <2>2, <2>4 DEF EnsureAgent, AgentUnknown, UpdateStep, LoadRow, SkipAssign, AssignTicket,
       DelDash, UpsertRow, CardFromBoard, CardFromFreshdesk, ReadStep, LookTicket, FetchTicket,
       StoreTicket, LookConvs, FetchConvs, StoreConvs, LookDash, FilterMine, UseStale,
       FilterUnassigned, StoreDash, ListRows, NextUpdater, AskAgain, ShowBoard, FlushCache, Fits
  <2>5. CASE DelConvs(q) \/ DelTicket(q)
    BY <2>1, <2>2, <2>3, <2>5 DEF DelConvs, DelTicket, RowDropped
  <2>6. CASE ClearState(q)
    BY <1>0, <2>2, <2>3, <2>6 DEF ClearState, DbFails
  <2>7. CASE CompareStatus(q) \/ SetStatus(q) \/ AllowWrite(q) \/ CreateNote(q) \/ UnassignTicket(q)
    BY <1>0, <1>e, <2>1, <2>2, <2>7 DEF CompareStatus, SetStatus, AllowWrite, CreateNote, UnassignTicket,
       Proceed, Answer, RowDropped, Fits
  <2> QED
    BY <1>4, <2>1, <2>4, <2>5, <2>6, <2>7 DEF Step, WriteStep
<1> QED
  BY <1>1, <1>2, <1>3, <1>4 DEF Next

LEMMA NextRowsEditedAfter ==
  ASSUME TInv, EInv, HistoryOK, OneAtATime, RowsEditedAfter, "db" \notin Faults, [Next]_vars
  PROVE  RowsEditedAfter'
<1> SUFFICES ASSUME NEW q \in Requests, pc'[q] # "idle", RowDropped(q)', rows'[Ticket(q)'] # None
             PROVE  \E p \in Requests : /\ q \in log'[p].before
                                        /\ "edit" \in log'[p].effects
                                        /\ Ticket(p)' = Ticket(q)'
  BY DEF RowsEditedAfter
<1>1. pc[q] # "idle" /\ (RowDropped(q) \/ rows'[Ticket(q)] = None)
  BY RowDroppedStep
<1>2. job'[q] = job[q] /\ Ticket(q)' = Ticket(q) /\ Ticket(q) \in Tickets
  BY <1>1, EffectsGrow, ThisRequest DEF Ticket
<1>3. RowDropped(q) /\ rows'[Ticket(q)] # None
  BY <1>1, <1>2
<1>4. CASE rows'[Ticket(q)] = rows[Ticket(q)]
  <2>1. PICK p \in Requests : /\ q \in log[p].before
                              /\ "edit" \in log[p].effects
                              /\ Ticket(p) = Ticket(q)
    BY <1>1, <1>3, <1>4 DEF RowsEditedAfter
  <2>2. pc[p] # "idle"
    BY <2>1 DEF HistoryOK, EmptyLog
  <2> QED
    BY <1>2, <2>1, <2>2, EffectsGrow DEF Ticket
<1>5. CASE rows'[Ticket(q)] # rows[Ticket(q)]
  <2>1. \E r \in Requests : ClearState(r) \/ UpsertRow(r)
    BY <1>5, RowsKept DEF vars
  <2>2. PICK r \in Requests : ClearState(r) \/ UpsertRow(r)
    BY <2>1
  <2>3. InProgress(r) /\ Ticket(r) \in Tickets /\ rows \in [Tickets -> Row \cup {None}]
    BY <2>2, ThisRequest DEF ClearState, UpsertRow, InProgress, TInv, TypeOK
  <2>4. UpsertRow(r) /\ Ticket(r) = Ticket(q) /\ Achieve(r, "edit")
    BY <1>2, <1>3, <1>5, <2>2, <2>3 DEF ClearState, UpsertRow
  <2>5. pc[r] = "upsert" /\ q # r
    BY <1>3, <2>4, ThisRequest DEF UpsertRow, RowDropped, Fits
  <2>6. q \in log[r].before
    <3>1. CASE pc[q] = "done"
      BY <2>3, <3>1 DEF OneAtATime
    <3>2. CASE InProgress(q)
      BY <2>3, <2>5, <3>2 DEF OneAtATime
    <3> QED
      BY <1>1, <3>1, <3>2 DEF InProgress
  <2>7. "edit" \in log'[r].effects
    BY <2>4, Entries DEF Achieve, TInv, TypeOK
  <2>8. log'[r].before = log[r].before /\ job'[r] = job[r]
    BY <2>3, EffectsGrow DEF InProgress
  <2> QED
    BY <1>2, <2>4, <2>6, <2>7, <2>8 DEF Ticket
<1> QED
  BY <1>4, <1>5

(* ticket.go:401: the handler "clears local state".  When requests do not  *)
(* overlap and the database works, a ticket that was handed over has local *)
(* state again only if it was edited after the handover was answered: a    *)
(* client that hangs up or a restart in the middle is told nothing.        *)
THEOREM HandoversClear ==
  ASSUME Overlap = FALSE, "db" \notin Faults
  PROVE  Spec => []HandoverClears
<1>1. Init => RowsEditedAfter
  BY DEF Init, RowsEditedAfter
<1>2. /\ TInv /\ EInv /\ HistoryOK /\ OneAtATime /\ RowsEditedAfter /\ [Next]_vars
      => RowsEditedAfter'
  BY NextRowsEditedAfter
<1>3. EInv /\ RowsEditedAfter => HandoverClears
  <2> SUFFICES ASSUME EInv, RowsEditedAfter, NEW q \in Requests, HandedOver(q),
                      rows[Ticket(q)] # None
               PROVE  \E p \in Requests : /\ q \in log[p].before
                                          /\ "edit" \in log[p].effects
                                          /\ Ticket(p) = Ticket(q)
    BY DEF HandoverClears
  <2>1. pc[q] # "idle" /\ RowDropped(q)
    BY DEF EInv, Tracked, HandedOver, RowDropped
  <2> QED
    BY <2>1 DEF RowsEditedAfter
<1> QED
  BY <1>1, <1>2, <1>3, SerialAlways, PTL DEF Spec

-----------------------------------------------------------------------------
(* The cache between requests. *)

\* Nothing fails, nobody else changes Freshdesk, the process stays up.
Calm == Faults = {} /\ MaxUpstream = 0 /\ MaxRestarts = 0

\* Who is about to invalidate what.
DropsTicket(r) == \/ pc[r] = "del_ticket"
                  \/ pc[r] \in {"clear_row", "del_convs"} /\ Kind(r) = "handover"
DropsConvs(r) == pc[r] \in {"unassign", "clear_row", "del_convs"}

\* What the cache holds is so, or the handler of r will drop it; and what
\* that handler is about to store is so.
Consistent(r) ==
    /\ \A t \in Tickets :
          /\ tcache[t] \in {None, fd[t]} \/ (DropsTicket(r) /\ Ticket(r) = t)
          /\ ccache[t] \in {None, convs[t]} \/ (DropsConvs(r) /\ Ticket(r) = t)
    /\ pc[r] = "ticket_set" => mem[r].item = fd[Ticket(r)]
    /\ pc[r] = "convs_set" => mem[r].n = convs[mem[r].cur]

Coherent ==
    /\ gone = {}
    /\ \A r \in Requests : InProgress(r) => Consistent(r)
    /\ CoherentWhenIdle

(* In calm, what is around the handlers only lets answers get older.       *)
LEMMA CalmSurroundings ==
  ASSUME Calm, TInv, Environment \/ UNCHANGED vars
  PROVE  /\ UNCHANGED <<fd, convs, rows, pc, job, mem, resp, gone, log>>
         /\ \A t \in Tickets : tcache'[t] \in {None, tcache[t]} /\ ccache'[t] \in {None, ccache[t]}
         /\ dcache' # None <=> dcache # None
         /\ dcache # None => dcache'.list = dcache.list
<1> USE DEF asked, freshdesk, caches, bounds
<1>0. /\ tcache \in [Tickets -> Item \cup {None}] /\ ccache \in [Tickets -> Nat \cup {None}]
      /\ upstream \in Nat /\ restarts \in Nat
      /\ dcache \in [list: SUBSET Item, fresh: BOOLEAN] \cup {None}
  BY DEF TInv, TypeOK
<1>1. ~Restart /\ \A t \in Tickets : ~OtherAgentWrites(t) /\ ~ClientReplies(t)
  BY <1>0 DEF Calm, Restart, OtherAgentWrites, ClientReplies
<1>2. \A r \in Requests : ~HangUp(r)
  BY DEF Calm, HangUp
<1>3. CASE UNCHANGED vars
  BY <1>3 DEF vars
<1>4. CASE DashExpires
  <2>1. dcache' = [dcache EXCEPT !.fresh = FALSE] /\ dcache # None
    BY <1>4 DEF DashExpires, DashFresh
  <2>2. dcache'.list = dcache.list /\ dcache' \in [list: SUBSET Item, fresh: BOOLEAN]
    BY <1>0, <2>1
  <2>3. dcache' # None
    BY <2>2, NoneAssumption
  <2> QED
    BY <1>4, <2>1, <2>2, <2>3 DEF DashExpires
<1>5. ASSUME NEW t \in Tickets, TicketExpires(t) \/ ConvsExpire(t) \/ WindowCloses(t)
      PROVE  /\ UNCHANGED <<fd, convs, rows, dcache, pc, job, mem, resp, gone, log>>
             /\ \A u \in Tickets :
                   tcache'[u] \in {None, tcache[u]} /\ ccache'[u] \in {None, ccache[u]}
  BY <1>0, <1>5 DEF TicketExpires, ConvsExpire, WindowCloses
<1> QED
  BY <1>1, <1>2, <1>3, <1>4, <1>5 DEF Environment

(* Each handler keeps the cache consistent: what it changes on Freshdesk   *)
(* it invalidates before it answers, and it stores what it has just read.  *)
LEMMA ConsistentStep ==
  ASSUME Calm, gone = {}, NEW r \in Requests, TInv, Step(r), ~Start(r), Consistent(r)
  PROVE  Consistent(r)'
<1>0. /\ pc \in [Requests -> Labels] /\ mem \in [Requests -> Mem]
      /\ fd \in [Tickets -> Item] /\ convs \in [Tickets -> Nat]
      /\ tcache \in [Tickets -> Item \cup {None}] /\ ccache \in [Tickets -> Nat \cup {None}]
  BY DEF TInv, TypeOK
<1>1. /\ pc[r] # "idle" /\ job' = job /\ Kind(r)' = Kind(r) /\ Ticket(r)' = Ticket(r)
      /\ Ticket(r) \in Tickets /\ mem[r].cur \in Tickets /\ Fits(pc[r], Kind(r))
  BY StepOf, ThisRequest DEF InProgress, Kind, Ticket
<1>2. DbOk(r) /\ ~DbFails(r) /\ ApiOk(r) /\ ~ApiFails(r)
      /\ \A done, told \in BOOLEAN : Call(r, done, told) => done /\ told
  BY DEF Calm, DbOk, DbFails, ApiOk, ApiFails, Call
<1>3. ASSUME UNCHANGED <<fd, convs, tcache, ccache>>, ~DropsTicket(r), ~DropsConvs(r),
             pc'[r] \notin {"ticket_set", "convs_set"}
      PROVE  Consistent(r)'
  BY <1>1, <1>3 DEF Consistent
<1>4. CASE EnsureAgent(r) \/ AgentUnknown(r) \/ LoadRow(r) \/ SkipAssign(r) \/ DelDash(r)
  BY <1>0, <1>3, <1>4 DEF EnsureAgent, AgentUnknown, LoadRow, SkipAssign, DelDash, DropsTicket, DropsConvs,
     Proceed, Answer, freshdesk, caches
<1>5. CASE UpsertRow(r) \/ CardFromBoard(r) \/ CardFromFreshdesk(r) \/ CompareStatus(r) \/ AllowWrite(r)
  BY <1>0, <1>3, <1>5 DEF UpsertRow, CardFromBoard, CardFromFreshdesk, CompareStatus, AllowWrite,
     DropsTicket, DropsConvs, Proceed, Answer, freshdesk, caches
<1>6. CASE LookTicket(r) \/ LookConvs(r) \/ LookDash(r) \/ FilterMine(r) \/ UseStale(r)
  BY <1>0, <1>3, <1>6 DEF LookTicket, LookConvs, LookDash, FilterMine, UseStale, Converse,
     DropsTicket, DropsConvs, Proceed, Answer, freshdesk, caches
<1>7. CASE \/ FilterUnassigned(r) \/ StoreDash(r) \/ ListRows(r) \/ NextUpdater(r) \/ AskAgain(r)
           \/ ShowBoard(r)
  BY <1>0, <1>3, <1>7 DEF FilterUnassigned, StoreDash, ListRows, NextUpdater, AskAgain, ShowBoard,
     DropsTicket, DropsConvs, Proceed, Answer, freshdesk, caches
<1>8. CASE AssignTicket(r) \/ SetStatus(r) \/ UnassignTicket(r)
  <2>1. \E who, s : fd' = Written(Ticket(r), who, s)
    BY <1>2, <1>8 DEF AssignTicket, SetStatus, UnassignTicket
  <2>2. \A t \in Tickets \ {Ticket(r)} : fd'[t] = fd[t]
    BY <1>0, <2>1 DEF Written
  <2>3. pc'[r] \in {"del_ticket", "clear_row"} /\ (pc'[r] = "clear_row" <=> pc[r] = "unassign")
    BY <1>0, <1>2, <1>8 DEF AssignTicket, SetStatus, UnassignTicket, Proceed
  <2>4. pc[r] \in {"assign", "set_status", "unassign"} /\ UNCHANGED <<convs, tcache, ccache>>
    BY <1>8 DEF AssignTicket, SetStatus, UnassignTicket, caches
  <2>5. DropsTicket(r)' /\ (DropsConvs(r) => DropsConvs(r)') /\ ~DropsTicket(r)
    BY <1>1, <2>3, <2>4 DEF DropsTicket, DropsConvs, Fits
  <2> QED
    BY <1>1, <2>2, <2>3, <2>4, <2>5 DEF Consistent
<1>9. CASE CreateNote(r)
  <2>1. \A t \in Tickets \ {Ticket(r)} : convs'[t] = convs[t]
    BY <1>0, <1>9 DEF CreateNote
  <2>2. pc'[r] \in {"unassign", "del_convs"} /\ pc[r] = "create_note"
        /\ UNCHANGED <<fd, tcache, ccache>>
    BY <1>0, <1>2, <1>9 DEF CreateNote, Proceed, caches
  <2>3. DropsConvs(r)' /\ ~DropsTicket(r) /\ ~DropsConvs(r)
    BY <2>2 DEF DropsTicket, DropsConvs
  <2> QED
    BY <1>1, <2>1, <2>2, <2>3 DEF Consistent
<1>10. CASE ClearState(r)
  <2>1. pc[r] = "clear_row" /\ pc'[r] = "del_convs" /\ UNCHANGED <<fd, convs, tcache, ccache>>
    BY <1>0, <1>10 DEF ClearState, Proceed, freshdesk, caches
  <2> QED
    BY <1>1, <2>1 DEF Consistent, DropsTicket, DropsConvs
<1>11. CASE DelConvs(r)
  <2>1. /\ pc[r] = "del_convs" /\ pc'[r] = "del_ticket" /\ UNCHANGED <<fd, convs, tcache>>
        /\ ccache' = [ccache EXCEPT ![Ticket(r)] = None]
    BY <1>0, <1>2, <1>11 DEF DelConvs, Proceed, freshdesk
  <2> QED
    BY <1>0, <1>1, <2>1 DEF Consistent, DropsTicket
<1>12. CASE DelTicket(r)
  <2>1. /\ pc[r] = "del_ticket" /\ pc'[r] \in {"done", "del_dash", "card"}
        /\ UNCHANGED <<fd, convs, ccache>> /\ tcache' = [tcache EXCEPT ![Ticket(r)] = None]
    BY <1>0, <1>2, <1>12 DEF DelTicket, Proceed, Answer, freshdesk
  <2> QED
    BY <1>0, <1>1, <2>1 DEF Consistent, DropsConvs
<1>13. CASE FetchTicket(r) \/ FetchConvs(r)
  <2>1. /\ UNCHANGED <<fd, convs, tcache, ccache>> /\ ~DropsTicket(r) /\ ~DropsConvs(r)
        /\ pc'[r] = "ticket_set" => mem' = [mem EXCEPT ![r].item = fd[Ticket(r)]]
        /\ pc'[r] = "convs_set" => mem' = [mem EXCEPT ![r].n = convs[mem[r].cur]]
    BY <1>0, <1>2, <1>13 DEF FetchTicket, FetchConvs, Proceed, DropsTicket, DropsConvs, freshdesk, caches
  <2>2. ASSUME pc'[r] = "ticket_set"
        PROVE  mem'[r].item = fd[Ticket(r)]
    BY <1>0, <2>1, <2>2, ItemKept
  <2>3. ASSUME pc'[r] = "convs_set"
        PROVE  mem'[r].n = convs[mem[r].cur] /\ mem'[r].cur = mem[r].cur
    BY <1>0, <2>1, <2>3, ConvsKept
  <2> QED
    BY <1>1, <2>1, <2>2, <2>3 DEF Consistent
<1>14. CASE StoreTicket(r)
  <2>1. /\ pc[r] = "ticket_set" /\ pc'[r] = "convs" /\ UNCHANGED <<fd, convs, ccache>>
        /\ tcache' = [tcache EXCEPT ![Ticket(r)] = mem[r].item]
    BY <1>0, <1>2, <1>14 DEF StoreTicket, Proceed, freshdesk
  <2> QED
    BY <1>0, <1>1, <2>1 DEF Consistent, DropsConvs, DropsTicket
<1>15. CASE StoreConvs(r)
  <2>1. /\ pc[r] = "convs_set" /\ pc'[r] \in {"done", "updaters"} /\ UNCHANGED <<fd, convs, tcache>>
        /\ ccache' = [ccache EXCEPT ![mem[r].cur] = mem[r].n]
    BY <1>0, <1>2, <1>15 DEF StoreConvs, Converse, Proceed, Answer, freshdesk
  <2> QED
    BY <1>0, <1>1, <2>1 DEF Consistent, DropsConvs, DropsTicket
<1>16. CASE FlushCache(r)
  <2>1. /\ pc'[r] = "done" /\ tcache' = [t \in Tickets |-> None]
        /\ ccache' = [t \in Tickets |-> None]
    BY <1>0, <1>2, <1>16 DEF FlushCache, Answer
  <2> QED
    BY <2>1 DEF Consistent
<1> QED
  BY <1>4, <1>5, <1>6, <1>7, <1>8, <1>9, <1>10, <1>11, <1>12, <1>13, <1>14, <1>15, <1>16
     DEF Step, UpdateStep, WriteStep, ReadStep

LEMMA NextCoherent ==
  ASSUME Calm, Overlap = FALSE, TInv, OneAtATime, Coherent, [Next]_vars
  PROVE  Coherent'
<1>1. CASE Environment \/ UNCHANGED vars
  <2>1. /\ UNCHANGED <<fd, convs, pc, job, mem, gone>>
        /\ \A t \in Tickets : tcache'[t] \in {None, tcache[t]} /\ ccache'[t] \in {None, ccache[t]}
    BY <1>1, CalmSurroundings
  <2>2. ASSUME NEW r \in Requests, Consistent(r)
        PROVE  Consistent(r)'
    BY <2>1, <2>2 DEF Consistent, DropsTicket, DropsConvs, Kind, Ticket
  <2> QED
    BY <2>1, <2>2 DEF Coherent, CoherentWhenIdle, InProgress
<1>2. ASSUME NEW r \in Requests, Step(r)
      PROVE  Coherent'
  <2>1. gone' = gone /\ \A q \in Requests \ {r} : ~InProgress(q) /\ pc'[q] = pc[q]
    <3>1. \A q \in Requests \ {r} : ~InProgress(q)
      BY <1>2, StepOf DEF OneAtATime, Start
    <3>2. \A q \in Requests \ {r} : pc'[q] = pc[q]
      BY <1>2, StepAlone
    <3> QED
      BY <1>2, <3>1, <3>2, StepOf
  <2>2. Consistent(r)'
    <3>1. CASE Start(r)
      <4>1. PICK j \in Workload :
               /\ pc'[r] = FirstStep(j.kind) /\ pc[r] = "idle"
               /\ UNCHANGED <<freshdesk, caches>>
        BY <1>2, <3>1, StartOf
      <4>2. pc'[r] \notin {"ticket_set", "convs_set"}
        BY <4>1, WorkType DEF FirstStep, Kinds
      <4>3. \A q \in Requests : ~InProgress(q)
        BY <2>1, <4>1 DEF InProgress
      <4> QED
        BY <4>1, <4>2, <4>3 DEF Coherent, CoherentWhenIdle, Consistent, freshdesk, caches
    <3>2. CASE ~Start(r)
      BY <1>2, <3>2, StepOf, ConsistentStep DEF Coherent
    <3> QED
      BY <3>1, <3>2
  <2>3. \A q \in Requests : InProgress(q)' => Consistent(q)'
    BY <2>1, <2>2 DEF InProgress
  <2>4. ~InProgress(r)' => ~DropsTicket(r)' /\ ~DropsConvs(r)'
    BY DEF InProgress, DropsTicket, DropsConvs
  <2>5. CoherentWhenIdle'
    BY <2>2, <2>4 DEF CoherentWhenIdle, Consistent
  <2> QED
    BY <2>1, <2>3, <2>5 DEF Coherent
<1> QED
  BY <1>1, <1>2 DEF Next

LEMMA CoherentAlways ==
  ASSUME Calm, Overlap = FALSE
  PROVE  Spec => [](TInv /\ EInv /\ OneAtATime /\ Coherent)
<1>1. Init => Coherent
  BY DEF Init, Coherent, CoherentWhenIdle, InProgress
<1>2. TInv /\ OneAtATime /\ Coherent /\ [Next]_vars => Coherent'
  BY NextCoherent
<1> QED
  BY <1>1, <1>2, SerialAlways, PTL DEF Spec

(* When requests do not overlap, nothing fails and nobody else works on    *)
(* Freshdesk, the cache is right whenever no request is in progress: every *)
(* write has invalidated what it changed, and no more is needed.           *)
THEOREM CoherentBetweenRequests ==
  ASSUME Faults = {}, MaxUpstream = 0, MaxRestarts = 0, Overlap = FALSE
  PROVE  Spec => []CoherentWhenIdle
<1>1. Calm
  BY DEF Calm
<1>2. Coherent => CoherentWhenIdle
  BY DEF Coherent
<1> QED
  BY <1>1, <1>2, CoherentAlways, PTL

(* freshdesk_status.go:33: then a status is left alone only when it is     *)
(* what was asked for, though it is the cached ticket that was compared.   *)
THEOREM StatusSkips ==
  ASSUME Faults = {}, MaxUpstream = 0, MaxRestarts = 0, Overlap = FALSE
  PROVE  Spec => StatusSkipJustified
<1> DEFINE Skip(r) == pc[r] = "status_check" /\ resp'[r] = "ok"
<1>0. Calm
  BY DEF Calm
<1>1. ASSUME TInv, EInv, Coherent, [Next]_vars, NEW r \in Requests, Skip(r)
      PROVE  fd[Ticket(r)].status = job[r].status
  <2>1. InProgress(r) /\ resp[r] = "none" /\ resp \in [Requests -> Responses]
        /\ pc \in [Requests -> Labels]
    BY <1>1 DEF InProgress, EInv, Tracked, TInv, TypeOK
  <2>2. Step(r)
    <3>1. CASE Environment \/ UNCHANGED vars
      BY <1>0, <1>1, <2>1, <3>1, CalmSurroundings
    <3>2. CASE \E q \in Requests \ {r} : Step(q)
      BY <1>1, <2>1, <3>2, StepAlone
    <3> QED
      BY <1>1, <3>1, <3>2 DEF Next
  <2>3. CompareStatus(r)
    <3>1. ~Start(r) /\ ~EnsureAgent(r) /\ ~AgentUnknown(r)
      BY <1>1 DEF Start, EnsureAgent, AgentUnknown
    <3>2. ~UpdateStep(r)
      BY <1>1 DEF UpdateStep, LoadRow, SkipAssign, AssignTicket, DelDash, UpsertRow, CardFromBoard,
         CardFromFreshdesk
    <3>3. ~ReadStep(r)
      BY <1>1 DEF ReadStep, LookTicket, FetchTicket, StoreTicket, LookConvs, FetchConvs, StoreConvs,
         LookDash, FilterMine, UseStale, FilterUnassigned, StoreDash, ListRows, NextUpdater,
         AskAgain, ShowBoard, FlushCache
    <3> QED
      BY <1>1, <2>2, <3>1, <3>2, <3>3 DEF Step, WriteStep, AllowWrite, CreateNote, UnassignTicket,
         ClearState, SetStatus, DelConvs, DelTicket
  <2>4. tcache[Ticket(r)] # None /\ tcache[Ticket(r)].status = job[r].status
    BY <1>1, <2>1, <2>3 DEF CompareStatus, Proceed
  <2>5. Ticket(r) \in Tickets /\ Consistent(r) /\ ~DropsTicket(r)
    BY <1>1, <2>1, ThisRequest DEF Coherent, InProgress, DropsTicket
  <2> QED
    BY <2>4, <2>5 DEF Consistent
<1>2. ASSUME TInv, EInv, Coherent, [Next]_vars
      PROVE  [\A r \in Requests : pc[r] = "status_check" /\ resp'[r] = "ok" =>
                                     fd[Ticket(r)].status = job[r].status]_vars
  BY <1>1, <1>2
<1> QED
  BY <1>0, <1>2, CoherentAlways, PTL DEF Spec, StatusSkipJustified

-----------------------------------------------------------------------------
(* The board. *)

Lists(list, responders) ==
    \A t \in Tickets :
       fd[t].responder \in responders /\ fd[t].status \in Active => \E i \in list : i.t = t

BoardFull ==
    /\ gone = {}
    /\ \A r \in Requests :
       /\ pc[r] \in {"filter_mine", "filter_unassigned"} => mem[r].want = Active
       /\ pc[r] = "filter_unassigned" => Lists(mem[r].list, {Me})
       /\ pc[r] = "dash_set" => Lists(mem[r].list, {Me, Nobody})

(* One filter after the other, with nothing in between.                    *)
LEMMA BoardStep ==
  ASSUME Faults \subseteq {"db"}, NEW r \in Requests, TInv, CInv, BoardFull, Step(r), ~Start(r)
  PROVE  /\ pc'[r] \in {"filter_mine", "filter_unassigned"} => mem'[r].want = Active
         /\ pc'[r] = "filter_unassigned" => Lists(mem[r].list, {Me})'
         /\ pc'[r] = "dash_set" => Lists(mem[r].list, {Me, Nobody})'
<1>0. /\ pc \in [Requests -> Labels] /\ mem \in [Requests -> Mem]
      /\ \A t \in Tickets : fd[t].t = t
  BY DEF TInv, TypeOK, CInv
<1>1. ApiOk(r) /\ ~ApiFails(r)
  BY DEF ApiOk, ApiFails, BoardFull
<1>2. CASE LookDash(r)
  <2>1. CASE pc'[r] = "filter_mine"
    <3>1. mem' = [mem EXCEPT ![r].want = Active]
      BY <1>0, <1>1, <1>2, <2>1 DEF LookDash, Proceed
    <3> QED
      BY <1>0, <2>1, <3>1, WantKept
  <2>2. pc'[r] \in {"filter_mine", "rows"}
    BY <1>0, <1>2 DEF LookDash, Proceed
  <2> QED
    BY <2>1, <2>2
<1>3. CASE FilterMine(r)
  <2>1. /\ pc'[r] = "filter_unassigned" /\ fd' = fd /\ mem[r].want = Active
        /\ mem' = [mem EXCEPT ![r].list = Matching(r, Me)]
    BY <1>0, <1>1, <1>3 DEF FilterMine, Proceed, BoardFull, freshdesk
  <2>2. mem'[r].want = Active /\ mem'[r].list = Matching(r, Me)
    BY <1>0, <2>1, ListKept
  <2>3. \A t \in Tickets : fd[t].responder \in {Me} /\ fd[t].status \in Active =>
                              fd[t] \in Matching(r, Me)
    BY <2>1 DEF Matching
  <2> QED
    BY <1>0, <2>1, <2>2, <2>3 DEF Lists
<1>4. CASE FilterUnassigned(r)
  <2>1. /\ pc'[r] = "dash_set" /\ fd' = fd /\ mem[r].want = Active /\ Lists(mem[r].list, {Me})
        /\ mem' = [mem EXCEPT ![r].list = Merged(@, Matching(r, Nobody))]
    BY <1>0, <1>1, <1>4 DEF FilterUnassigned, Proceed, BoardFull, freshdesk
  <2>2. mem'[r].list = Merged(mem[r].list, Matching(r, Nobody))
    BY <1>0, <2>1, ListKept
  <2>3. \A t \in Tickets : fd[t].responder = Nobody /\ fd[t].status \in Active =>
                              fd[t] \in Matching(r, Nobody)
    BY <2>1 DEF Matching
  <2>4. ASSUME NEW t \in Tickets, fd[t].responder \in {Me, Nobody}, fd[t].status \in Active
        PROVE  \E i \in mem'[r].list : i.t = t
    <3>1. CASE \E i \in mem[r].list : i.t = t
      BY <2>2, <3>1 DEF Merged
    <3>2. CASE ~\E i \in mem[r].list : i.t = t
      <4>1. fd[t] \in Matching(r, Nobody) /\ fd[t].t = t
        BY <1>0, <2>1, <2>3, <2>4, <3>2 DEF Lists
      <4>2. fd[t] \in mem'[r].list
        BY <2>2, <3>2, <4>1 DEF Merged
      <4> QED
        BY <4>1, <4>2
    <3> QED
      BY <3>1, <3>2
  <2> QED
    BY <2>1, <2>4 DEF Lists
<1>5. CASE ~LookDash(r) /\ ~FilterMine(r) /\ ~FilterUnassigned(r)
  <2> USE <1>0 DEF Proceed, Answer
  <2>1. CASE EnsureAgent(r) \/ AgentUnknown(r)
    BY <2>1 DEF EnsureAgent, AgentUnknown
  <2>2. CASE UpdateStep(r)
    BY <2>2 DEF UpdateStep, LoadRow, SkipAssign, AssignTicket, DelDash, UpsertRow, CardFromBoard,
       CardFromFreshdesk
  <2>3. CASE WriteStep(r)
    BY <2>3 DEF WriteStep, CompareStatus, AllowWrite, CreateNote, UnassignTicket, ClearState,
       SetStatus, DelConvs, DelTicket
  <2>4. CASE LookTicket(r) \/ FetchTicket(r) \/ StoreTicket(r)
    BY <2>4 DEF LookTicket, FetchTicket, StoreTicket
  <2>5. CASE LookConvs(r) \/ FetchConvs(r) \/ StoreConvs(r)
    BY <2>5 DEF LookConvs, FetchConvs, StoreConvs, Converse
  <2>6. CASE UseStale(r) \/ StoreDash(r) \/ ListRows(r)
    BY <2>6 DEF UseStale, StoreDash, ListRows
  <2>7. CASE NextUpdater(r) \/ AskAgain(r) \/ ShowBoard(r) \/ FlushCache(r)
    BY <2>7 DEF NextUpdater, AskAgain, ShowBoard, FlushCache
  <2> QED
    BY <1>5, <2>1, <2>2, <2>3, <2>4, <2>5, <2>6, <2>7 DEF Step, ReadStep
<1> QED
  BY <1>2, <1>3, <1>4, <1>5

LEMMA NextBoardFull ==
  ASSUME Faults \subseteq {"db"}, MaxUpstream = 0, Overlap = FALSE,
         TInv, CInv, OneAtATime, BoardFull, [Next]_vars
  PROVE  BoardFull'
<1>1. CASE Environment \/ UNCHANGED vars
  <2>1. fd' = fd /\ gone' = gone
    <3>1. \A t \in Tickets : ~OtherAgentWrites(t)
      BY DEF OtherAgentWrites, TInv, TypeOK
    <3>2. \A r \in Requests : ~HangUp(r)
      BY DEF HangUp
    <3> QED
      BY <1>1, <3>1, <3>2 DEF vars, Environment, Restart, DashExpires, ClientReplies, TicketExpires,
         ConvsExpire, WindowCloses, asked, freshdesk
  <2>2. ASSUME NEW r \in Requests
        PROVE  mem'[r] = mem[r] /\ pc'[r] \in {pc[r], "done"}
    BY <1>1, Surroundings
  <2> QED
    BY <2>1, <2>2 DEF BoardFull, Lists
<1>2. ASSUME NEW r \in Requests, Step(r)
      PROVE  BoardFull'
  <2>1. gone' = gone /\ \A q \in Requests \ {r} : ~InProgress(q) /\ pc'[q] = pc[q]
    <3>1. \A q \in Requests \ {r} : ~InProgress(q)
      BY <1>2, StepOf DEF OneAtATime, Start
    <3>2. \A q \in Requests \ {r} : pc'[q] = pc[q]
      BY <1>2, StepAlone
    <3> QED
      BY <1>2, <3>1, <3>2, StepOf
  <2>2. /\ pc'[r] \in {"filter_mine", "filter_unassigned"} => mem'[r].want = Active
        /\ pc'[r] = "filter_unassigned" => Lists(mem[r].list, {Me})'
        /\ pc'[r] = "dash_set" => Lists(mem[r].list, {Me, Nobody})'
    <3>1. CASE Start(r)
      <4>1. PICK j \in Workload : pc'[r] = FirstStep(j.kind)
        BY <3>1, StartOf
      <4>2. pc'[r] \notin {"filter_mine", "filter_unassigned", "dash_set"}
        BY <4>1, WorkType DEF FirstStep, Kinds
      <4> QED
        BY <4>2
    <3>2. CASE ~Start(r)
      BY <1>2, <3>2, BoardStep
    <3> QED
      BY <3>1, <3>2
  <2> QED
    BY <2>1, <2>2 DEF BoardFull, InProgress
<1> QED
  BY <1>1, <1>2 DEF Next

(* dashboard.go:90, 98: "Fetch ALL unassigned tickets".  When requests do  *)
(* not overlap, nobody else works on Freshdesk and its calls succeed, the  *)
(* list a board stores has every active ticket that is ours or unassigned, *)
(* whatever the database does and however often the process is restarted.  *)
THEOREM BoardsComplete ==
  ASSUME Faults \subseteq {"db"}, MaxUpstream = 0, Overlap = FALSE
  PROVE  Spec => []BoardComplete
<1>1. Init => BoardFull
  BY DEF Init, BoardFull
<1>2. TInv /\ CInv /\ OneAtATime /\ BoardFull /\ [Next]_vars => BoardFull'
  BY NextBoardFull
<1>3. BoardFull => BoardComplete
  BY DEF BoardFull, BoardComplete, Lists
<1> QED
  BY <1>1, <1>2, <1>3, SerialAlways, PTL DEF Spec

-----------------------------------------------------------------------------
(* Tickets marked for today. *)

\* A handover that started when a board had been read before.
Doubted(t) ==
    \E q \in Requests : /\ pc[q] # "idle" /\ Kind(q) = "handover" /\ Ticket(q) = t
                        /\ \E p \in log[q].before : Kind(p) = "board"
Unassigning(t) ==
    \E q \in Requests : pc[q] = "clear_row" /\ Ticket(q) = t

MineStays(list) ==
    \A i \in list : i.responder = Me => fd[i.t].responder = Me \/ Doubted(i.t)

TodayMine ==
    \A t \in Tickets :
       rows[t] # None /\ rows[t].today => fd[t].responder = Me \/ Doubted(t) \/ Unassigning(t)

\* What the handler of r is about to write into the row or the board.
PromiseMine(r) ==
    /\ pc[r] \in {"del_ticket", "del_dash", "upsert"} /\ Kind(r) = "update" /\ mem[r].row.today
       => fd[Ticket(r)].responder = Me \/ Doubted(Ticket(r))
    /\ pc[r] \in {"filter_unassigned", "dash_set"} => MineStays(mem[r].list)

BoardMine ==
    dcache # None =>
       /\ MineStays(dcache.list)
       /\ \E p \in Requests : pc[p] # "idle" /\ Kind(p) = "board"

MineNow == gone = {} /\ TodayMine /\ (\A r \in Requests : PromiseMine(r)) /\ BoardMine

LEMMA EditToday ==
  ASSUME NEW e \in FormEdits, NEW row \in Row, ~Rejected(e), Edit(e, row).today
  PROVE  row.today \/ TurnsTodayOn(e, row)
<1> USE RowAssumption DEF Row
<1>1. CASE e.field = "today"
  BY <1>1 DEF Edit, SetToday
<1>2. CASE e.field \in {"blocked", "note", "priority", "dismiss"}
  BY <1>2 DEF Edit
<1>3. CASE e.field = "review_after"
  BY <1>3 DEF Edit, SetReview
<1>4. CASE e.field \in {"defer_tomorrow", "defer_next_sprint"}
  BY <1>4 DEF Edit, Defer, SetReview
<1> QED
  BY <1>1, <1>2, <1>3, <1>4 DEF FormEdits, Rejected

(* A request that has started stays started; a doubt stays. *)
LEMMA StaysStarted ==
  ASSUME TInv, [Next]_vars, NEW p \in Requests, pc[p] # "idle"
  PROVE  pc'[p] # "idle"
<1>1. CASE Environment \/ UNCHANGED vars
  BY <1>1, Surroundings
<1>2. ASSUME NEW r \in Requests, Step(r)
      PROVE  pc'[p] # "idle"
  BY <1>2, StepAlone, StepLeaves
<1> QED
  BY <1>1, <1>2 DEF Next

LEMMA DoubtStays ==
  ASSUME TInv, HistoryOK, [Next]_vars, NEW t \in Tickets, Doubted(t)
  PROVE  Doubted(t)'
<1>1. PICK q \in Requests : /\ pc[q] # "idle" /\ Kind(q) = "handover" /\ Ticket(q) = t
                            /\ \E p \in log[q].before : Kind(p) = "board"
  BY DEF Doubted
<1>2. PICK p \in log[q].before : Kind(p) = "board"
  BY <1>1
<1>3. p \in Requests /\ pc[p] # "idle"
  BY <1>2 DEF HistoryOK
<1>4. pc'[q] # "idle" /\ job'[q] = job[q] /\ log'[q].before = log[q].before /\ job'[p] = job[p]
  BY <1>1, <1>3, EffectsGrow, StaysStarted
<1> QED
  BY <1>1, <1>2, <1>4 DEF Doubted, Kind, Ticket

(* Whom a ticket is assigned to is changed by the assignment of an update  *)
(* and by the unassignment of a handover.                                  *)
LEMMA ResponderStep ==
  ASSUME Calm, gone = {}, NEW r \in Requests, TInv, Step(r), NEW t \in Tickets
  PROVE  \/ fd'[t].responder = fd[t].responder
         \/ fd'[t].responder = Me
         \/ pc[r] = "unassign" /\ pc'[r] = "clear_row" /\ Ticket(r) = t /\ job' = job
<1>0. fd \in [Tickets -> Item] /\ pc \in [Requests -> Labels]
  BY DEF TInv, TypeOK
<1>1. \A done, told \in BOOLEAN : Call(r, done, told) => done /\ told
  BY DEF Calm, Call
<1>2. \A u \in Tickets : \A who, s :
         Written(u, who, s)[t].responder = IF u = t THEN who ELSE fd[t].responder
  BY <1>0 DEF Written
<1>3. CASE AssignTicket(r)
  <2>1. Ticket(r) \in Tickets /\ \E s : fd' = Written(Ticket(r), Me, s)
    BY <1>1, <1>3, ThisRequest DEF AssignTicket
  <2> QED
    BY <1>2, <2>1
<1>4. CASE UnassignTicket(r)
  <2>1. /\ Ticket(r) \in Tickets /\ \E s : fd' = Written(Ticket(r), Nobody, s)
        /\ pc[r] = "unassign" /\ pc'[r] = "clear_row" /\ job' = job
    BY <1>0, <1>1, <1>4, ThisRequest DEF UnassignTicket, Proceed, asked
  <2> QED
    BY <1>2, <2>1
<1>5. CASE SetStatus(r)
  <2>1. Ticket(r) \in Tickets /\ \E s : fd' = Written(Ticket(r), fd[Ticket(r)].responder, s)
    BY <1>1, <1>5, ThisRequest DEF SetStatus
  <2> QED
    BY <1>2, <2>1
<1>6. CASE Start(r) \/ EnsureAgent(r) \/ AgentUnknown(r)
  BY <1>6 DEF Start, EnsureAgent, AgentUnknown, freshdesk
<1>7. CASE UpdateStep(r) /\ ~AssignTicket(r)
  BY <1>7 DEF UpdateStep, LoadRow, SkipAssign, DelDash, UpsertRow, CardFromBoard,
     CardFromFreshdesk, freshdesk
<1>8. CASE WriteStep(r) /\ ~UnassignTicket(r) /\ ~SetStatus(r)
  BY <1>8 DEF WriteStep, CompareStatus, AllowWrite, CreateNote, ClearState, DelConvs, DelTicket,
     freshdesk
<1>9. CASE ReadStep(r)
  BY <1>9 DEF ReadStep, LookTicket, FetchTicket, StoreTicket, LookConvs, FetchConvs, StoreConvs,
     LookDash, FilterMine, UseStale, FilterUnassigned, StoreDash, ListRows, NextUpdater,
     AskAgain, ShowBoard, FlushCache, freshdesk
<1> QED
  BY <1>3, <1>4, <1>5, <1>6, <1>7, <1>8, <1>9 DEF Step

(* The handover that unassigns a ticket a board has shown is the one the   *)
(* board is in doubt about.                                                *)
LEMMA MineLeft ==
  ASSUME Calm, Overlap = FALSE, gone = {}, TInv, HistoryOK, OneAtATime, BoardMine,
         NEW r \in Requests, Step(r), NEW t \in Tickets, fd[t].responder = Me,
         dcache # None
  PROVE  fd'[t].responder = Me \/ Doubted(t)'
<1>1. CASE pc[r] = "unassign" /\ pc'[r] = "clear_row" /\ Ticket(r) = t /\ job' = job
  <2>1. Kind(r) = "handover" /\ InProgress(r) /\ ~Start(r)
    BY <1>1, ThisRequest DEF Fits, InProgress, Start
  <2>2. PICK p \in Requests : pc[p] # "idle" /\ Kind(p) = "board"
    BY DEF BoardMine
  <2>3. p \in log[r].before
    BY <2>1, <2>2 DEF OneAtATime, InProgress
  <2>4. log'[r].before = log[r].before
    BY <2>1, LogStep
  <2> QED
    BY <1>1, <2>1, <2>2, <2>3, <2>4 DEF Doubted, Kind, Ticket
<1> QED
  BY <1>1, ResponderStep

(* How the board in the cache changes. *)
LEMMA DashStep ==
  ASSUME NEW r \in Requests, Step(r)
  PROVE  \/ dcache' = dcache \/ dcache' = None
         \/ /\ pc[r] = "dash_set" /\ UNCHANGED <<fd, job>>
            /\ dcache' = [list |-> mem[r].list, fresh |-> TRUE]
<1> USE DEF caches, freshdesk, asked
<1>1. CASE Start(r) \/ EnsureAgent(r) \/ AgentUnknown(r)
  BY <1>1 DEF Start, EnsureAgent, AgentUnknown
<1>2. CASE UpdateStep(r)
  BY <1>2 DEF UpdateStep, LoadRow, SkipAssign, AssignTicket, DelDash, UpsertRow, CardFromBoard,
     CardFromFreshdesk
<1>3. CASE WriteStep(r)
  BY <1>3 DEF WriteStep, CompareStatus, AllowWrite, CreateNote, UnassignTicket, ClearState,
     SetStatus, DelConvs, DelTicket
<1>4. CASE ReadStep(r)
  BY <1>4 DEF ReadStep, LookTicket, FetchTicket, StoreTicket, LookConvs, FetchConvs, StoreConvs,
     LookDash, FilterMine, UseStale, FilterUnassigned, StoreDash, ListRows, NextUpdater,
     AskAgain, ShowBoard, FlushCache
<1> QED
  BY <1>1, <1>2, <1>3, <1>4 DEF Step
LEMMA TodayMineStep ==
  ASSUME Calm, Overlap = FALSE, TInv, HistoryOK, OneAtATime, MineNow, NEW r \in Requests, Step(r)
  PROVE  TodayMine'
<1> SUFFICES ASSUME NEW t \in Tickets, rows'[t] # None, rows'[t].today
             PROVE  fd'[t].responder = Me \/ Doubted(t)' \/ Unassigning(t)'
  BY DEF TodayMine
<1>0. gone = {} /\ rows \in [Tickets -> Row \cup {None}] /\ pc \in [Requests -> Labels]
  BY DEF MineNow, TInv, TypeOK
<1>n. [Next]_vars
  BY DEF Next
<1>1. ASSUME Unassigning(t)
      PROVE  ClearState(r) /\ Ticket(r) = t
  <2>1. PICK q \in Requests : pc[q] = "clear_row" /\ Ticket(q) = t
    BY <1>1 DEF Unassigning
  <2>2. q = r /\ ~Start(r)
    BY <2>1, StepOf DEF OneAtATime, InProgress, Start
  <2>3. ~EnsureAgent(r) /\ ~AgentUnknown(r) /\ ~UpdateStep(r)
    BY <2>1, <2>2 DEF EnsureAgent, AgentUnknown, UpdateStep, LoadRow, SkipAssign, AssignTicket,
       DelDash, UpsertRow, CardFromBoard, CardFromFreshdesk
  <2>4. ~ReadStep(r)
    BY <2>1, <2>2 DEF ReadStep, LookTicket, FetchTicket, StoreTicket, LookConvs, FetchConvs,
       StoreConvs, LookDash, FilterMine, UseStale, FilterUnassigned, StoreDash, ListRows,
       NextUpdater, AskAgain, ShowBoard, FlushCache
  <2> QED
    BY <2>1, <2>2, <2>3, <2>4 DEF Step, WriteStep, CompareStatus, AllowWrite, CreateNote,
       UnassignTicket, SetStatus, DelConvs, DelTicket
<1>2. CASE UpsertRow(r) /\ rows' # rows
  <2>1. /\ pc[r] = "upsert" /\ rows' = [rows EXCEPT ![Ticket(r)] = mem[r].row]
        /\ fd' = fd /\ Kind(r) = "update" /\ Ticket(r) \in Tickets
    BY <1>2, ThisRequest DEF UpsertRow, freshdesk, Fits
  <2>2. CASE t = Ticket(r)
    <3>1. mem[r].row.today
      BY <1>0, <2>1, <2>2
    <3>2. fd[t].responder = Me \/ Doubted(t)
      BY <2>1, <2>2, <3>1 DEF MineNow, PromiseMine
    <3> QED
      BY <2>1, <3>2, <1>n, DoubtStays
  <2>3. CASE t # Ticket(r)
    <3>1. rows'[t] = rows[t]
      BY <1>0, <2>1, <2>3
    <3>2. fd[t].responder = Me \/ Doubted(t)
      BY <1>1, <2>3, <3>1 DEF MineNow, TodayMine
    <3> QED
      BY <2>1, <3>2, <1>n, DoubtStays
  <2> QED
    BY <2>2, <2>3
<1>3. CASE ClearState(r)
  <2>1. rows' = [rows EXCEPT ![Ticket(r)] = None] /\ fd' = fd
    BY <1>0, <1>3 DEF ClearState, DbFails, Calm, freshdesk
  <2>2. t # Ticket(r) /\ rows'[t] = rows[t]
    BY <1>0, <2>1
  <2>3. fd[t].responder = Me \/ Doubted(t)
    BY <1>1, <2>2 DEF MineNow, TodayMine
  <2> QED
    BY <2>1, <2>3, <1>n, DoubtStays
<1>4. CASE rows' = rows /\ ~ClearState(r)
  <2>1. fd[t].responder = Me \/ Doubted(t)
    BY <1>1, <1>4 DEF MineNow, TodayMine
  <2>2. CASE Doubted(t)
    BY <2>2, <1>n, DoubtStays
  <2>3. CASE fd[t].responder = Me
    <3>1. CASE pc[r] = "unassign" /\ pc'[r] = "clear_row" /\ Ticket(r) = t /\ job' = job
      BY <3>1 DEF Unassigning, Ticket
    <3> QED
      BY <1>0, <2>3, <3>1, ResponderStep
  <2> QED
    BY <2>1, <2>2, <2>3
<1>5. rows' = rows \/ ClearState(r) \/ (UpsertRow(r) /\ rows' # rows)
  <2>1. ASSUME NEW q \in Requests, ClearState(q) \/ UpsertRow(q)
        PROVE  q = r
    <3>1. InProgress(q)
      BY <2>1 DEF ClearState, UpsertRow, InProgress
    <3> QED
      BY <3>1, StepOf DEF OneAtATime, Start
  <2> QED
    BY <2>1, RowsKept DEF Next
<1> QED
  BY <1>2, <1>3, <1>4, <1>5

LEMMA BoardMineStep ==
  ASSUME Calm, Overlap = FALSE, TInv, HistoryOK, OneAtATime, MineNow, NEW r \in Requests, Step(r)
  PROVE  BoardMine'
<1> SUFFICES ASSUME dcache' # None
             PROVE  /\ MineStays(dcache.list)'
                    /\ \E p \in Requests : pc'[p] # "idle" /\ Kind(p)' = "board"
  BY DEF BoardMine
<1>0. /\ dcache \in [list: SUBSET Item, fresh: BOOLEAN] \cup {None} /\ mem \in [Requests -> Mem]
      /\ gone = {} /\ BoardMine /\ PromiseMine(r)
  BY DEF MineNow, TInv, TypeOK
<1>n. [Next]_vars
  BY DEF Next
<1>1. CASE dcache' = dcache
  <2>1. MineStays(dcache.list) /\ dcache.list \subseteq Item
    BY <1>0, <1>1 DEF BoardMine
  <2>2. PICK p \in Requests : pc[p] # "idle" /\ Kind(p) = "board"
    BY <1>0, <1>1 DEF BoardMine
  <2>3. pc'[p] # "idle" /\ Kind(p)' = "board"
    BY <2>2, <1>n, StaysStarted, EffectsGrow DEF Kind
  <2>4. ASSUME NEW i \in dcache.list, i.responder = Me
        PROVE  fd'[i.t].responder = Me \/ Doubted(i.t)'
    <3>1. i.t \in Tickets /\ (fd[i.t].responder = Me \/ Doubted(i.t))
      BY <2>1, <2>4 DEF MineStays, Item
    <3>2. CASE Doubted(i.t)
      BY <3>1, <3>2, <1>n, DoubtStays
    <3>3. CASE fd[i.t].responder = Me
      BY <1>0, <1>1, <3>1, <3>3, MineLeft
    <3> QED
      BY <3>1, <3>2, <3>3
  <2>5. MineStays(dcache.list)'
    BY <1>1, <2>4 DEF MineStays
  <2> QED
    BY <2>3, <2>5
<1>2. CASE /\ pc[r] = "dash_set" /\ UNCHANGED <<fd, job>>
           /\ dcache' = [list |-> mem[r].list, fresh |-> TRUE]
  <2>1. MineStays(mem[r].list) /\ mem[r].list \subseteq Item /\ dcache'.list = mem[r].list
    BY <1>0, <1>2, MemType DEF PromiseMine
  <2>2. Kind(r) = "board" /\ pc[r] # "idle"
    BY <1>2, ThisRequest DEF Fits
  <2>3. pc'[r] # "idle" /\ Kind(r)' = "board"
    BY <1>2, <2>2, <1>n, StaysStarted DEF Kind
  <2>4. ASSUME NEW i \in mem[r].list, i.responder = Me
        PROVE  fd'[i.t].responder = Me \/ Doubted(i.t)'
    <3>1. i.t \in Tickets /\ (fd[i.t].responder = Me \/ Doubted(i.t))
      BY <2>1, <2>4 DEF MineStays, Item
    <3> QED
      BY <1>2, <3>1, <1>n, DoubtStays
  <2>5. MineStays(dcache.list)'
    BY <2>1, <2>4 DEF MineStays
  <2> QED
    BY <2>3, <2>5
<1> QED
  BY <1>1, <1>2, DashStep
LEMMA RowMineStep ==
  ASSUME Calm, Overlap = FALSE, TInv, HistoryOK, OneAtATime, MineNow, NEW r \in Requests, Step(r),
         ~Start(r), pc'[r] \in {"del_ticket", "del_dash", "upsert"}, Kind(r) = "update",
         mem'[r].row.today, NEW t \in Tickets, t = Ticket(r)
  PROVE  fd'[t].responder = Me \/ Doubted(t)'
<1>0. /\ pc \in [Requests -> Labels] /\ mem \in [Requests -> Mem] /\ fd \in [Tickets -> Item]
      /\ rows \in [Tickets -> Row \cup {None}] /\ gone = {}
      /\ TodayMine /\ PromiseMine(r) /\ BoardMine
  BY DEF TInv, TypeOK, MineNow
<1>1. /\ InProgress(r) /\ Ticket(r) \in Tickets /\ job[r].edit \in FormEdits
      /\ Fits(pc[r], "update")
  BY StepOf, ThisRequest, WorkType DEF InProgress, Kind
<1>n. [Next]_vars
  BY DEF Next
<1>2. DbOk(r) /\ ~DbFails(r) /\ ApiOk(r) /\ ~ApiFails(r)
      /\ \A done, told \in BOOLEAN : Call(r, done, told) => done /\ told
  BY <1>0 DEF Calm, DbOk, DbFails, ApiOk, ApiFails, Call
<1>3. CASE LoadRow(r)
  <2> DEFINE row == RowOf(rows, Ticket(r))
  <2>1. /\ ~Rejected(job[r].edit) /\ fd' = fd /\ pc[r] = "load"
        /\ mem' = [mem EXCEPT ![r].row = Edit(job[r].edit, row)]
        /\ ~TurnsTodayOn(job[r].edit, row)
    BY <1>0, <1>2, <1>3 DEF LoadRow, Proceed, Answer, freshdesk
  <2>2. mem'[r].row = Edit(job[r].edit, row)
    BY <1>0, <2>1, RowKept
  <2>3. row \in Row
    BY <1>0, <1>1, DefaultRowType DEF RowOf
  <2>4. row.today
    BY <1>1, <2>1, <2>2, <2>3, EditToday
  <2>5. rows[Ticket(r)] # None /\ rows[Ticket(r)].today
    BY <2>4 DEF RowOf, DefaultRow
  <2>6. ~Unassigning(Ticket(r))
    BY <1>1, <2>1 DEF Unassigning, OneAtATime, InProgress
  <2>7. fd[t].responder = Me \/ Doubted(t)
    BY <1>0, <1>1, <2>5, <2>6 DEF TodayMine
  <2> QED
    BY <1>n, <1>1, <2>1, <2>7, DoubtStays
<1>4. CASE SkipAssign(r)
  <2>1. fd' = fd /\ \E i \in Cached(Ticket(r)) : i.responder = Me
    BY <1>0, <1>4 DEF SkipAssign, Proceed, Calm, freshdesk
  <2>2. PICK i \in Cached(Ticket(r)) : i.responder = Me
    BY <2>1
  <2>3. dcache # None /\ i \in dcache.list /\ i.t = Ticket(r)
    BY <2>2 DEF Cached, DashFresh
  <2>4. fd[t].responder = Me \/ Doubted(t)
    BY <1>0, <2>2, <2>3 DEF BoardMine, MineStays
  <2> QED
    BY <1>n, <1>1, <2>1, <2>4, DoubtStays
<1>5. CASE AssignTicket(r)
  <2>1. fd' = Written(Ticket(r), Me, fd[Ticket(r)].status)
    BY <1>2, <1>5 DEF AssignTicket
  <2> QED
    BY <1>0, <1>1, <2>1 DEF Written
<1>6. CASE DelTicket(r) \/ DelDash(r)
  <2>1. fd' = fd /\ mem' = mem /\ pc[r] \in {"del_ticket", "del_dash"}
    BY <1>6 DEF DelTicket, DelDash, freshdesk
  <2>2. fd[t].responder = Me \/ Doubted(t)
    BY <1>0, <2>1 DEF PromiseMine
  <2> QED
    BY <1>n, <1>1, <2>1, <2>2, DoubtStays
<1>7. CASE EnsureAgent(r) \/ AgentUnknown(r) \/ UpsertRow(r) \/ CardFromBoard(r) \/ CardFromFreshdesk(r)
  BY <1>0, <1>2, <1>7 DEF EnsureAgent, AgentUnknown, UpsertRow, CardFromBoard, CardFromFreshdesk,
     Proceed, Answer
<1>8. CASE WriteStep(r) /\ ~DelTicket(r)
  BY <1>1, <1>8 DEF WriteStep, CompareStatus, AllowWrite, CreateNote, UnassignTicket, ClearState,
     SetStatus, DelConvs, Fits
<1>9. CASE LookConvs(r) \/ FetchConvs(r) \/ StoreConvs(r)
  BY <1>0, <1>9 DEF LookConvs, FetchConvs, StoreConvs, Converse, Proceed, Answer
<1>10. CASE ReadStep(r) /\ ~LookConvs(r) /\ ~FetchConvs(r) /\ ~StoreConvs(r)
  BY <1>1, <1>10 DEF ReadStep, LookTicket, FetchTicket, StoreTicket, LookDash, FilterMine,
     UseStale, FilterUnassigned, StoreDash, ListRows, NextUpdater, AskAgain, ShowBoard,
     FlushCache, Fits
<1> QED
  BY <1>3, <1>4, <1>5, <1>6, <1>7, <1>8, <1>9, <1>10 DEF Step, UpdateStep

(* A board is filled from Freshdesk as it is.                              *)
LEMMA ListMineStep ==
  ASSUME Calm, gone = {}, TInv, CInv, HistoryOK, NEW r \in Requests, Step(r), ~Start(r),
         PromiseMine(r), pc'[r] \in {"filter_unassigned", "dash_set"}
  PROVE  MineStays(mem[r].list)'
<1>0. /\ pc \in [Requests -> Labels] /\ mem \in [Requests -> Mem]
      /\ \A t \in Tickets : fd[t].t = t
  BY DEF TInv, TypeOK, CInv
<1>n. [Next]_vars
  BY DEF Next
<1>1. ApiOk(r) /\ ~ApiFails(r)
  BY DEF Calm, ApiOk, ApiFails
<1>2. CASE FilterMine(r)
  <2>1. fd' = fd /\ mem' = [mem EXCEPT ![r].list = Matching(r, Me)]
    BY <1>0, <1>1, <1>2 DEF FilterMine, Proceed, freshdesk
  <2>2. mem'[r].list = Matching(r, Me)
    BY <1>0, <2>1, ListKept
  <2>3. \A i \in Matching(r, Me) : fd[i.t].responder = Me
    BY <1>0 DEF Matching
  <2> QED
    BY <2>1, <2>2, <2>3 DEF MineStays
<1>3. CASE FilterUnassigned(r)
  <2>1. /\ fd' = fd /\ MineStays(mem[r].list)
        /\ mem' = [mem EXCEPT ![r].list = Merged(@, Matching(r, Nobody))]
    BY <1>0, <1>1, <1>3 DEF FilterUnassigned, PromiseMine, freshdesk
  <2>2. mem'[r].list = Merged(mem[r].list, Matching(r, Nobody))
    BY <1>0, <2>1, ListKept
  <2>3. ASSUME NEW i \in mem'[r].list, i.responder = Me
        PROVE  fd'[i.t].responder = Me \/ Doubted(i.t)'
    <3>1. i \in mem[r].list
      BY <2>2, <2>3, DeskAssumption DEF Merged, Matching
    <3>2. i.t \in Tickets /\ (fd[i.t].responder = Me \/ Doubted(i.t))
      BY <1>0, <2>1, <2>3, <3>1, MemType DEF MineStays, Item
    <3> QED
      BY <1>n, <2>1, <3>2, DoubtStays
  <2> QED
    BY <2>3 DEF MineStays
<1>4. CASE ~FilterMine(r) /\ ~FilterUnassigned(r)
  <2> USE <1>0 DEF Proceed, Answer
  <2>1. CASE EnsureAgent(r) \/ AgentUnknown(r)
    BY <2>1 DEF EnsureAgent, AgentUnknown
  <2>2. CASE UpdateStep(r)
    BY <2>2 DEF UpdateStep, LoadRow, SkipAssign, AssignTicket, DelDash, UpsertRow, CardFromBoard,
       CardFromFreshdesk
  <2>3. CASE WriteStep(r)
    BY <2>3 DEF WriteStep, CompareStatus, AllowWrite, CreateNote, UnassignTicket, ClearState,
       SetStatus, DelConvs, DelTicket
  <2>4. CASE LookTicket(r) \/ FetchTicket(r) \/ StoreTicket(r)
    BY <2>4 DEF LookTicket, FetchTicket, StoreTicket
  <2>5. CASE LookConvs(r) \/ FetchConvs(r) \/ StoreConvs(r)
    BY <2>5 DEF LookConvs, FetchConvs, StoreConvs, Converse
  <2>6. CASE LookDash(r) \/ UseStale(r) \/ StoreDash(r) \/ ListRows(r)
    BY <2>6 DEF LookDash, UseStale, StoreDash, ListRows
  <2>7. CASE NextUpdater(r) \/ AskAgain(r) \/ ShowBoard(r) \/ FlushCache(r)
    BY <2>7 DEF NextUpdater, AskAgain, ShowBoard, FlushCache
  <2> QED
    BY <1>4, <2>1, <2>2, <2>3, <2>4, <2>5, <2>6, <2>7 DEF Step, ReadStep
<1> QED
  BY <1>2, <1>3, <1>4

LEMMA NextMineNow ==
  ASSUME Calm, Overlap = FALSE, TInv, CInv, HistoryOK, OneAtATime, MineNow, [Next]_vars
  PROVE  MineNow'
<1>1. CASE Environment \/ UNCHANGED vars
  <2>1. /\ UNCHANGED <<fd, rows, pc, job, mem, gone, log>>
        /\ dcache' # None <=> dcache # None
        /\ dcache # None => dcache'.list = dcache.list
    BY <1>1, CalmSurroundings
  <2>2. \A t : Doubted(t)' = Doubted(t) /\ Unassigning(t)' = Unassigning(t)
    BY <2>1 DEF Doubted, Unassigning, Kind, Ticket
  <2>3. TodayMine'
    BY <2>1, <2>2 DEF MineNow, TodayMine
  <2>4. BoardMine'
    BY <2>1, <2>2 DEF MineNow, BoardMine, MineStays, Kind
  <2>5. ASSUME NEW r \in Requests
        PROVE  PromiseMine(r)'
    BY <2>1, <2>2 DEF MineNow, PromiseMine, MineStays, Kind, Ticket
  <2> QED
    BY <2>1, <2>3, <2>4, <2>5 DEF MineNow
<1>2. ASSUME NEW r \in Requests, Step(r)
      PROVE  MineNow'
  <2>1. ASSUME NEW q \in Requests, q # r
        PROVE  PromiseMine(q)'
    <3>1. ~InProgress(q) /\ pc'[q] = pc[q]
      BY <1>2, <2>1, StepOf, StepAlone DEF OneAtATime, Start
    <3> QED
      BY <3>1 DEF PromiseMine, InProgress
  <2>2. PromiseMine(r)'
    <3>1. CASE Start(r)
      <4>1. PICK j \in Workload : pc'[r] = FirstStep(j.kind)
        BY <3>1, StartOf
      <4>2. pc'[r] \notin {"del_ticket", "del_dash", "upsert", "filter_unassigned", "dash_set"}
        BY <4>1, WorkType DEF FirstStep, Kinds
      <4> QED
        BY <4>2 DEF PromiseMine
    <3>2. CASE ~Start(r)
      <4>1. job' = job
        BY <1>2, <3>2, StepOf
      <4>2. ASSUME pc'[r] \in {"del_ticket", "del_dash", "upsert"}, Kind(r) = "update",
                   mem'[r].row.today, NEW t \in Tickets, t = Ticket(r)
            PROVE  fd'[t].responder = Me \/ Doubted(t)'
        BY <1>2, <3>2, <4>2, RowMineStep
      <4>3. ASSUME pc'[r] \in {"filter_unassigned", "dash_set"}
            PROVE  MineStays(mem[r].list)'
        BY <1>2, <3>2, <4>3, ListMineStep DEF MineNow
      <4>4. Ticket(r)' = Ticket(r) /\ Kind(r)' = Kind(r) /\ Ticket(r) \in Tickets
        BY <1>2, <3>2, <4>1, StepOf, ThisRequest DEF Kind, Ticket, InProgress
      <4> QED
        BY <4>2, <4>3, <4>4 DEF PromiseMine
    <3> QED
      BY <3>1, <3>2
  <2>3. TodayMine' /\ BoardMine'
    BY <1>2, TodayMineStep, BoardMineStep
  <2>4. gone' = {}
    BY <1>2, StepOf DEF MineNow
  <2> QED
    BY <2>1, <2>2, <2>3, <2>4 DEF MineNow
<1> QED
  BY <1>1, <1>2 DEF Next

(* README.md:105: marking a ticket for today "automatically assigns it to  *)
(* the current agent on Freshdesk (skipped if already assigned)".  When    *)
(* requests do not overlap, nothing fails, nobody else works on Freshdesk  *)
(* and the rows in the database were right to begin with, a ticket marked  *)
(* for today is ours on Freshdesk, unless it was handed over after a board *)
(* was read: tickets:dashboard, which the skip trusts, outlives a handover.*)
THEOREM TodayMeansMine ==
  ASSUME Faults = {}, MaxUpstream = 0, MaxRestarts = 0, Overlap = FALSE,
         \A tbl \in InitRows, tix \in InitFd : \A t \in Tickets :
            tbl[t] # None /\ tbl[t].today => tix[t].responder = Me
  PROVE  Spec => []TodayIsMineUnlessStale
<1>0. Calm
  BY DEF Calm
<1>1. Init => MineNow
  <2> SUFFICES ASSUME Init PROVE MineNow
    OBVIOUS
  <2>1. TodayMine
    BY DEF Init, TodayMine
  <2>2. \A r \in Requests : PromiseMine(r)
    BY DEF Init, PromiseMine
  <2> QED
    BY <2>1, <2>2 DEF Init, MineNow, BoardMine
<1>2. TInv /\ CInv /\ HistoryOK /\ OneAtATime /\ MineNow /\ [Next]_vars => MineNow'
  BY <1>0, NextMineNow
<1>3. TInv /\ MineNow => TodayIsMineUnlessStale
  <2> SUFFICES ASSUME TInv, MineNow, NEW t \in Tickets, rows[t] # None, rows[t].today,
                      ~HandedOverAfterBoard(t)
               PROVE  fd[t].responder = Me
    BY DEF TodayIsMineUnlessStale
  <2>1. ASSUME NEW q \in Requests, pc[q] # "idle"
        PROVE  job[q] # None
    BY <2>1, ThisRequest, NoneAssumption
  <2>2. ~Doubted(t)
    BY <2>1 DEF Doubted, HandedOverAfterBoard
  <2>3. ~Unassigning(t)
    <3>1. ASSUME NEW q \in Requests, pc[q] = "clear_row" PROVE Kind(q) = "handover"
      BY <3>1, ThisRequest DEF Fits
    <3> QED
      BY <2>1, <3>1 DEF Unassigning, HandedOverAfterBoard, InProgress
  <2> QED
    BY <2>2, <2>3 DEF MineNow, TodayMine
<1> QED
  BY <1>1, <1>2, <1>3, SerialAlways, PTL DEF Spec
=============================================================================
