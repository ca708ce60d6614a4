-------------------------- MODULE TicketDesk_proofs --------------------------
(***************************************************************************)
(* What holds at every moment of TicketDesk, for any tickets, requests,    *)
(* workload, faults, statuses and agents, with or without overlapping      *)
(* requests: types and pairs, what clients are told, and that what is      *)
(* cached was once so.                                                     *)
(***************************************************************************)
EXTENDS TicketDesk, TLAPS

-----------------------------------------------------------------------------
(* What the switch of HandleUpdateState does to any row. *)

(* A row the handler may start from when the table has none.               *)
LEMMA DefaultRowType == DefaultRow \in Row /\ Paired(DefaultRow)
  BY RowAssumption DEF DefaultRow, Row, Paired

(* state.go:49-128: an accepted form turns a row into a row.               *)
LEMMA EditType ==
  ASSUME NEW e \in FormEdits, NEW row \in Row, ~Rejected(e)
  PROVE  Edit(e, row) \in Row
<1> USE RowAssumption DEF Row
<1>1. CASE e.field = "today"
  BY <1>1 DEF Edit, SetToday
<1>2. CASE e.field = "blocked"
  BY <1>2 DEF Edit
<1>3. CASE e.field = "note"
  <2>1. e.note \in Notes \cup {NoNote}
    BY <1>3 DEF FormEdits
  <2> QED
    BY <1>3, <2>1 DEF Edit
<1>4. CASE e.field = "review_after"
  <2>1. e.date \in Dates \cup {None}
    BY <1>4 DEF FormEdits
  <2> QED
    BY <1>4, <2>1 DEF Edit, SetReview
<1>5. CASE e.field = "priority"
  <2>1. e.priority \in Priorities
    BY <1>5 DEF FormEdits
  <2> QED
    BY <1>5, <2>1 DEF Edit
<1>6. CASE e.field = "dismiss"
  BY <1>6 DEF Edit
<1>7. CASE e.field \in {"defer_tomorrow", "defer_next_sprint"}
  <2>1. e.date \in Dates \cup {None}
    BY <1>7 DEF FormEdits
  <2> QED
    BY <1>7, <2>1 DEF Edit, Defer, SetReview
<1> QED
  BY <1>1, <1>2, <1>3, <1>4, <1>5, <1>6, <1>7 DEF FormEdits, Rejected

(* An accepted form keeps review_after and deferred_at together.           *)
LEMMA EditPaired ==
  ASSUME NEW e \in FormEdits, NEW row \in Row, ~Rejected(e), Paired(row)
  PROVE  Paired(Edit(e, row))
<1> USE RowAssumption DEF Row, Paired
<1>1. CASE e.field = "today"
  BY <1>1 DEF Edit, SetToday
<1>2. CASE e.field = "blocked"
  BY <1>2 DEF Edit
<1>3. CASE e.field = "note"
  BY <1>3 DEF Edit
<1>4. CASE e.field = "review_after"
  BY <1>4 DEF Edit, SetReview
<1>5. CASE e.field = "priority"
  BY <1>5 DEF Edit
<1>6. CASE e.field = "dismiss"
  BY <1>6 DEF Edit
<1>7. CASE e.field \in {"defer_tomorrow", "defer_next_sprint"}
  <2>1. e.date # None
    BY <1>7 DEF FormEdits, Rejected
  <2> QED
    BY <1>7, <2>1 DEF Edit, Defer, SetReview
<1> QED
  BY <1>1, <1>2, <1>3, <1>4, <1>5, <1>6, <1>7 DEF FormEdits, Rejected

-----------------------------------------------------------------------------
(* Control: which steps each kind of request goes through. *)

Fits(step, kind) ==
    /\ step \in {"load", "assign_agent", "skip", "assign", "del_dash", "upsert"} =>
          kind = "update"
    /\ step \in {"unassign", "clear_row"} => kind = "handover"
    /\ step \in {"create_note", "del_convs"} => kind \in {"note", "handover"}
    /\ step \in {"status_check", "set_status"} => kind = "status"
    /\ step = "allow" => kind \in {"note", "handover", "status"}
    /\ step = "del_ticket" => kind \in {"update", "note", "handover", "status"}
    /\ step \in {"card", "card_fetch"} => kind \in {"update", "status"}
    /\ step = "agent" => kind \in {"detail", "board"}
    /\ step \in {"ticket", "ticket_fetch", "ticket_set"} => kind \in {"detail", "preview"}
    /\ step \in {"convs", "convs_fetch", "convs_set"} =>
          kind \in {"update", "status", "detail", "preview", "board"}
    /\ step \in {"dash", "filter_mine", "stale", "filter_unassigned", "dash_set", "rows",
                "updaters"} => kind = "board"
    /\ step = "flush" => kind = "refresh"

ControlOK ==
    \A r \in Requests : pc[r] # "idle" => job[r] \in Workload /\ Fits(pc[r], Kind(r))

\* A loaded row waits to be written; nothing else has one.
Loading == {"assign_agent", "skip", "assign", "del_ticket", "del_dash", "upsert"}

RowLoaded ==
    \A r \in Requests :
       pc[r] \in Loading /\ Kind(r) = "update" => mem[r].row \in Row /\ Paired(mem[r].row)

TInv == TypeOK /\ ControlOK /\ RowLoaded /\ RowsPaired

-----------------------------------------------------------------------------
(* Facts about the data. *)

LEMMA WorkType ==
  ASSUME NEW j \in Workload
  PROVE  /\ j \in Job /\ j.t \in Tickets /\ j.kind \in Kinds
         /\ j.kind = "update" => j.edit \in FormEdits
         /\ j.kind = "status" => j.status \in Statuses
  BY DeskAssumption DEF Job

LEMMA MemType ==
  ASSUME NEW m \in Mem
  PROVE  /\ m.row \in Row \cup {None} /\ m.item \in Item \cup {None} /\ m.n \in Nat \cup {None}
         /\ m.want \subseteq Statuses /\ m.list \subseteq Item
         /\ m.pend \subseteq Tickets /\ m.again \subseteq Tickets /\ m.cur \in Tickets
  BY DEF Mem

LEMMA EmptyMemType == \A t \in Tickets : EmptyMem(t) \in Mem
  BY DEF Mem, EmptyMem

LEMMA FdHas ==
  ASSUME fd \in [Tickets -> Item], NEW t \in Tickets
  PROVE  /\ fd[t].t \in Tickets /\ fd[t].responder \in Responders
         /\ fd[t].status \in Statuses /\ fd[t].rev \in Nat
  BY DEF Item

LEMMA WrittenType ==
  ASSUME fd \in [Tickets -> Item], NEW t \in Tickets, NEW who \in Responders, NEW s \in Statuses
  PROVE  Written(t, who, s) \in [Tickets -> Item]
  BY DEF Written, Item

LEMMA AgentTypes == Me \in Responders /\ Nobody \in Responders
  BY DEF Responders

-----------------------------------------------------------------------------
LEMMA InitTInv == Init => TInv
<1> SUFFICES ASSUME Init PROVE TInv
  OBVIOUS
<1> USE DeskAssumption DEF Init
<1>1. (CHOOSE t \in Tickets : TRUE) \in Tickets
  OBVIOUS
<1>2. mem \in [Requests -> Mem]
  BY <1>1, EmptyMemType
<1>3. log \in [Requests -> Log]
  BY DEF EmptyLog, Log
<1>4. TypeOK
  BY <1>2, <1>3 DEF TypeOK, Labels, Responses
<1>5. ControlOK /\ RowLoaded
  BY DEF ControlOK, RowLoaded, Loading
<1>6. RowsPaired
  BY DEF RowsPaired
<1> QED
  BY <1>4, <1>5, <1>6 DEF TInv

(* Every step a request takes, for that request. *)
LEMMA ThisRequest ==
  ASSUME NEW r \in Requests, TInv, pc[r] # "idle"
  PROVE  /\ job[r] \in Workload /\ job[r] \in Job /\ Ticket(r) \in Tickets /\ Kind(r) \in Kinds
         /\ Fits(pc[r], Kind(r)) /\ mem[r] \in Mem /\ log[r] \in Log
         /\ mem[r].cur \in Tickets
  BY WorkType, MemType DEF TInv, TypeOK, ControlOK, Ticket, Kind

LEMMA Moves ==
  ASSUME NEW r \in Requests, TInv, pc[r] # "idle", job' = job,
         \/ \E step \in Labels \ {"idle"} : Proceed(r, step) /\ Fits(step, Kind(r))
         \/ \E a \in {"ok", "bad", "bad_unassign", "limited"} : Answer(r, a)
  PROVE  /\ pc' \in [Requests -> Labels]
         /\ resp' \in [Requests -> Responses]
         /\ ControlOK'
<1> USE DEF TInv, TypeOK, Labels, Responses
<1>1. CASE \E a \in {"ok", "bad", "bad_unassign", "limited"} : Answer(r, a)
  BY <1>1 DEF Answer, ControlOK, Fits, Kind
<1>2. ASSUME NEW step \in Labels \ {"idle"}, Proceed(r, step), Fits(step, Kind(r))
      PROVE  /\ pc' \in [Requests -> Labels]
             /\ resp' = resp
             /\ ControlOK'
  <2>1. pc' \in [Requests -> Labels] /\ resp' = resp
    BY <1>2 DEF Proceed
  <2>2. ControlOK'
    BY <1>2 DEF Proceed, ControlOK, Kind
  <2> QED
    BY <2>1, <2>2
<1> QED
  BY <1>1, <1>2

(* How a step changes what its handler remembers, the row apart, and the   *)
(* history of the request.                                                 *)
MemMoves(r) ==
    \/ mem' = mem
    \/ \E i \in Item \cup {None} : mem' = [mem EXCEPT ![r].item = i]
    \/ \E n \in Nat \cup {None} : mem' = [mem EXCEPT ![r].n = n]
    \/ \E want \in SUBSET Statuses : mem' = [mem EXCEPT ![r].want = want]
    \/ \E list \in SUBSET Item : mem' = [mem EXCEPT ![r].list = list]
    \/ \E pend, again \in SUBSET Tickets :
          mem' = [mem EXCEPT ![r].pend = pend, ![r].again = again]
    \/ \E pend \in SUBSET Tickets, t \in Tickets :
          mem' = [mem EXCEPT ![r].pend = pend, ![r].cur = t, ![r].n = None]

LogMoves(r) ==
    \/ log' = log
    \/ \E x \in Effects : log' = [log EXCEPT ![r] = With(log[r], x)]
    \/ \E n \in Nat : log' = [log EXCEPT ![r] = NotedAt(log[r], n)]
    \/ \E x \in Effects, n \in Nat :
          log' = [log EXCEPT ![r] = WroteAt(log[r], x, n)]

LEMMA MemMoved ==
  ASSUME NEW r \in Requests, mem \in [Requests -> Mem], MemMoves(r)
  PROVE  mem' \in [Requests -> Mem] /\ \A q \in Requests : mem'[q].row = mem[q].row
<1>1. ASSUME NEW i \in Item \cup {None}, mem' = [mem EXCEPT ![r].item = i]
      PROVE  mem' \in [Requests -> Mem] /\ \A q \in Requests : mem'[q].row = mem[q].row
  BY <1>1 DEF Mem
<1>2. ASSUME NEW n \in Nat \cup {None}, mem' = [mem EXCEPT ![r].n = n]
      PROVE  mem' \in [Requests -> Mem] /\ \A q \in Requests : mem'[q].row = mem[q].row
  BY <1>2 DEF Mem
<1>3. ASSUME NEW want \in SUBSET Statuses, mem' = [mem EXCEPT ![r].want = want]
      PROVE  mem' \in [Requests -> Mem] /\ \A q \in Requests : mem'[q].row = mem[q].row
  BY <1>3 DEF Mem
<1>4. ASSUME NEW list \in SUBSET Item, mem' = [mem EXCEPT ![r].list = list]
      PROVE  mem' \in [Requests -> Mem] /\ \A q \in Requests : mem'[q].row = mem[q].row
  BY <1>4 DEF Mem
<1>5. ASSUME NEW pend \in SUBSET Tickets, NEW again \in SUBSET Tickets,
             mem' = [mem EXCEPT ![r].pend = pend, ![r].again = again]
      PROVE  mem' \in [Requests -> Mem] /\ \A q \in Requests : mem'[q].row = mem[q].row
  <2> DEFINE m == [mem[r] EXCEPT !.pend = pend, !.again = again]
  <2>1. m \in Mem /\ m.row = mem[r].row
    BY DEF Mem
  <2>2. mem' = [mem EXCEPT ![r] = m]
    BY <1>5 DEF Mem
  <2> QED
    BY <2>1, <2>2
<1>6. ASSUME NEW pend \in SUBSET Tickets, NEW t \in Tickets,
             mem' = [mem EXCEPT ![r].pend = pend, ![r].cur = t, ![r].n = None]
      PROVE  mem' \in [Requests -> Mem] /\ \A q \in Requests : mem'[q].row = mem[q].row
  <2> DEFINE m == [mem[r] EXCEPT !.pend = pend, !.cur = t, !.n = None]
  <2>1. m \in Mem /\ m.row = mem[r].row
    BY DEF Mem
  <2>2. mem' = [mem EXCEPT ![r] = m]
    BY <1>6 DEF Mem
  <2> QED
    BY <2>1, <2>2
<1> QED
  BY <1>1, <1>2, <1>3, <1>4, <1>5, <1>6 DEF MemMoves

LEMMA LogMoved ==
  ASSUME NEW r \in Requests, log \in [Requests -> Log], LogMoves(r)
  PROVE  log' \in [Requests -> Log]
<1>1. \A x \in Effects : With(log[r], x) \in Log
  <2>1. \A x \in Effects : log[r].effects \cup {x} \in SUBSET Effects
    BY DEF Log
  <2> QED
    BY <2>1 DEF With, Log
<1>2. \A n \in Nat : NotedAt(log[r], n) \in Log
  BY <1>1 DEF NotedAt, Log, Effects
<1>3. \A x \in Effects, n \in Nat : WroteAt(log[r], x, n) \in Log
  BY <1>1 DEF WroteAt, Log
<1> QED
  BY <1>1, <1>2, <1>3 DEF LogMoves

LEMMA RowWaits ==
  ASSUME NEW r \in Requests, TInv, pc[r] # "idle", job' = job,
         \A q \in Requests : mem'[q].row = mem[q].row,
         \/ \E step \in Labels : /\ Proceed(r, step)
                                 /\ step \in Loading => pc[r] \in Loading \/ Kind(r) # "update"
         \/ \E a : Answer(r, a)
  PROVE  RowLoaded'
<1>1. ASSUME NEW q \in Requests, pc'[q] \in Loading, Kind(q) = "update"
      PROVE  pc[q] \in Loading
  BY <1>1 DEF Proceed, Answer, Loading, TInv, TypeOK
<1> QED
  BY <1>1 DEF RowLoaded, TInv, Kind

LEMMA ListTypes ==
  ASSUME TypeOK, NEW r \in Requests
  PROVE  /\ \A who : Matching(r, who) \subseteq Item
         /\ \A list, batch \in SUBSET Item : Merged(list, batch) \in SUBSET Item
         /\ \A list \in SUBSET Item : {i.t : i \in list} \in SUBSET Tickets
<1>1. \A who : Matching(r, who) \subseteq Item
  BY DEF Matching, TypeOK
<1>2. \A list, batch \in SUBSET Item : Merged(list, batch) \in SUBSET Item
  BY DEF Merged
<1>3. \A list \in SUBSET Item : {i.t : i \in list} \in SUBSET Tickets
  BY DEF Item
<1> QED
  BY <1>1, <1>2, <1>3

LEMMA RowRead ==
  ASSUME NEW r \in Requests, mem \in [Requests -> Mem], NEW row \in Row,
         mem' = [mem EXCEPT ![r].row = row]
  PROVE  /\ mem' \in [Requests -> Mem] /\ mem'[r].row = row
         /\ \A q \in Requests \ {r} : mem'[q] = mem[q]
  BY DEF Mem

LEMMA LoadTInv ==
  ASSUME NEW r \in Requests, TInv, LoadRow(r)
  PROVE  TInv'
<1> DEFINE e == job[r].edit
           row == RowOf(rows, Ticket(r))
<1>0. pc[r] # "idle" /\ TypeOK
  BY DEF LoadRow, TInv
<1>1. Kind(r) = "update" /\ Ticket(r) \in Tickets /\ e \in FormEdits
  BY <1>0, ThisRequest, WorkType DEF LoadRow, Fits, Kind
<1>2. row \in Row /\ Paired(row)
  BY <1>0, <1>1, DefaultRowType DEF RowOf, TypeOK, TInv, RowsPaired
<1>3. /\ pc' \in [Requests -> Labels]
      /\ resp' \in [Requests -> Responses]
      /\ ControlOK'
  BY <1>0, <1>1, Moves DEF LoadRow, Fits, Labels, asked
<1>4. CASE Answer(r, "bad") /\ mem' = mem
  <2>1. RowLoaded'
    BY <1>0, <1>4, RowWaits DEF LoadRow, asked
  <2> QED
    BY <1>0, <1>3, <1>4, <2>1 DEF LoadRow, TInv, TypeOK, RowsPaired, freshdesk, caches, process,
       asked, bounds
<1>5. CASE ~Rejected(e) /\ mem' = [mem EXCEPT ![r].row = Edit(e, row)]
  <2>1. Edit(e, row) \in Row /\ Paired(Edit(e, row))
    BY <1>1, <1>2, <1>5, EditType, EditPaired
  <2> HIDE DEF e, row
  <2>2. mem \in [Requests -> Mem]
    BY <1>0 DEF TypeOK
  <2>3. /\ mem' \in [Requests -> Mem] /\ mem'[r].row = Edit(e, row)
        /\ \A q \in Requests \ {r} : mem'[q] = mem[q]
    BY <1>5, <2>1, <2>2, RowRead
  <2>4. \A q \in Requests \ {r} : pc'[q] = pc[q]
    BY <1>0 DEF LoadRow, Proceed, Answer, TypeOK
  <2>5. RowLoaded'
    BY <2>1, <2>3, <2>4 DEF LoadRow, RowLoaded, TInv, Kind, asked
  <2> QED
    BY <1>0, <1>3, <2>3, <2>5 DEF LoadRow, TInv, TypeOK, RowsPaired, freshdesk, caches, process,
       asked, bounds
<1> QED
  BY <1>4, <1>5 DEF LoadRow

LEMMA UpdateTInv ==
  ASSUME NEW r \in Requests, TInv, UpdateStep(r)
  PROVE  TInv'
<1>0. pc[r] # "idle"
  BY DEF UpdateStep, LoadRow, SkipAssign, AssignTicket, DelDash, UpsertRow, CardFromBoard,
     CardFromFreshdesk
<1>1. TypeOK
  BY DEF TInv
<1>2. Ticket(r) \in Tickets /\ Kind(r) \in Kinds /\ Fits(pc[r], Kind(r))
  BY <1>0, ThisRequest
<1>3. /\ mem[r].row \in Row \cup {None} /\ mem[r].item \in Item \cup {None}
      /\ mem[r].n \in Nat \cup {None} /\ mem[r].want \subseteq Statuses
      /\ mem[r].list \subseteq Item /\ mem[r].pend \subseteq Tickets
      /\ mem[r].again \subseteq Tickets /\ mem[r].cur \in Tickets
  BY <1>0, ThisRequest, MemType
<1>4. CASE SkipAssign(r)
  <2>1. /\ pc' \in [Requests -> Labels]
        /\ resp' \in [Requests -> Responses]
        /\ ControlOK'
    BY <1>0, <1>2, <1>4, Moves DEF SkipAssign, Fits, Labels, asked
  <2>2. RowLoaded'
    BY <1>0, <1>2, <1>4, RowWaits DEF SkipAssign, Labels, Loading, Fits, asked
  <2>3. LogMoves(r)
    BY <1>4 DEF SkipAssign, LogMoves, Effects, Achieve
  <2>4. log' \in [Requests -> Log]
    BY <1>1, <2>3, LogMoved DEF TypeOK
  <2> QED
    BY <1>1, <1>4, <2>1, <2>2, <2>4 DEF SkipAssign, TInv, TypeOK, RowsPaired, freshdesk, caches,
       process, asked, bounds
<1>5. CASE AssignTicket(r)
  <2>1. /\ pc' \in [Requests -> Labels]
        /\ resp' \in [Requests -> Responses]
        /\ ControlOK'
    BY <1>0, <1>2, <1>5, Moves DEF AssignTicket, Fits, Labels, asked
  <2>2. fd' \in [Tickets -> Item]
    BY <1>1, <1>2, <1>5, WrittenType, AgentTypes, FdHas DEF AssignTicket, TypeOK
  <2>3. LogMoves(r)
    BY <1>1, <1>2, <1>5 DEF AssignTicket, TypeOK, LogMoves, Effects, Achieve
  <2>4. log' \in [Requests -> Log]
    BY <1>1, <2>3, LogMoved DEF TypeOK
  <2>5. RowLoaded'
    BY <1>0, <1>2, <1>5, RowWaits DEF AssignTicket, Labels, Loading, Fits, asked
  <2> QED
    BY <1>1, <1>5, <2>1, <2>2, <2>4, <2>5 DEF AssignTicket, TInv, TypeOK, RowsPaired,
       freshdesk, caches, process, asked, bounds
<1>6. CASE DelDash(r)
  <2>1. /\ pc' \in [Requests -> Labels]
        /\ resp' \in [Requests -> Responses]
        /\ ControlOK'
    BY <1>0, <1>2, <1>6, Moves DEF DelDash, Fits, Labels, asked
  <2>2. dcache' \in [list: SUBSET Item, fresh: BOOLEAN] \cup {None}
    BY <1>1, <1>2, <1>6 DEF DelDash, TypeOK
  <2>3. RowLoaded'
    BY <1>0, <1>2, <1>6, RowWaits DEF DelDash, Labels, Loading, Fits, asked
  <2> QED
    BY <1>1, <1>6, <2>1, <2>2, <2>3 DEF DelDash, TInv, TypeOK, RowsPaired, freshdesk, caches,
       process, asked, bounds
<1>7. CASE UpsertRow(r)
  <2>1. /\ pc' \in [Requests -> Labels]
        /\ resp' \in [Requests -> Responses]
        /\ ControlOK'
    BY <1>0, <1>2, <1>7, Moves DEF UpsertRow, Fits, Labels, asked
  <2>2. mem[r].row \in Row /\ Paired(mem[r].row)
    BY <1>2, <1>7 DEF UpsertRow, TInv, RowLoaded, Loading, Fits
  <2>3. rows' \in [Tickets -> Row \cup {None}] /\ RowsPaired'
    BY <1>1, <1>2, <1>7, <2>2 DEF UpsertRow, TypeOK, TInv, RowsPaired
  <2>4. LogMoves(r)
    BY <1>1, <1>2, <1>7 DEF UpsertRow, TypeOK, LogMoves, Effects, Achieve
  <2>5. log' \in [Requests -> Log]
    BY <1>1, <2>4, LogMoved DEF TypeOK
  <2>6. RowLoaded'
    BY <1>0, <1>2, <1>7, RowWaits DEF UpsertRow, Labels, Loading, Fits, asked
  <2> QED
    BY <1>1, <1>7, <2>1, <2>3, <2>5, <2>6 DEF UpsertRow, TInv, TypeOK, RowsPaired, freshdesk,
       caches, process, asked, bounds
<1>8. CASE CardFromBoard(r)
  <2>1. /\ pc' \in [Requests -> Labels]
        /\ resp' \in [Requests -> Responses]
        /\ ControlOK'
    BY <1>0, <1>2, <1>8, Moves DEF CardFromBoard, Fits, Labels, asked
  <2>2. MemMoves(r)
    BY <1>1, <1>2, <1>3, <1>8 DEF CardFromBoard, TypeOK, MemMoves, Cached, DashFresh
  <2>3. mem' \in [Requests -> Mem] /\ \A q \in Requests : mem'[q].row = mem[q].row
    BY <1>1, <2>2, MemMoved DEF TypeOK
  <2>4. RowLoaded'
    BY <1>0, <1>2, <1>8, <2>3, RowWaits DEF CardFromBoard, Labels, Loading, Fits, asked
  <2> QED
    BY <1>1, <1>8, <2>1, <2>3, <2>4 DEF CardFromBoard, TInv, TypeOK, RowsPaired, freshdesk,
       caches, process, asked, bounds
<1>9. CASE CardFromFreshdesk(r)
  <2>1. /\ pc' \in [Requests -> Labels]
        /\ resp' \in [Requests -> Responses]
        /\ ControlOK'
    BY <1>0, <1>2, <1>9, Moves DEF CardFromFreshdesk, Fits, Labels, asked
  <2>2. MemMoves(r)
    BY <1>1, <1>2, <1>3, <1>9 DEF CardFromFreshdesk, TypeOK, MemMoves
  <2>3. mem' \in [Requests -> Mem] /\ \A q \in Requests : mem'[q].row = mem[q].row
    BY <1>1, <2>2, MemMoved DEF TypeOK
  <2>4. RowLoaded'
    BY <1>0, <1>2, <1>9, <2>3, RowWaits DEF CardFromFreshdesk, Labels, Loading, Fits, asked
  <2> QED
    BY <1>1, <1>9, <2>1, <2>3, <2>4 DEF CardFromFreshdesk, TInv, TypeOK, RowsPaired,
       freshdesk, caches, process, asked, bounds
<1> QED
  BY LoadTInv, <1>4, <1>5, <1>6, <1>7, <1>8, <1>9 DEF UpdateStep

LEMMA WriteTInv ==
  ASSUME NEW r \in Requests, TInv, WriteStep(r)
  PROVE  TInv'
<1>0. pc[r] # "idle"
  BY DEF WriteStep, CompareStatus, AllowWrite, CreateNote, UnassignTicket, ClearState,
     SetStatus, DelConvs, DelTicket
<1>1. TypeOK
  BY DEF TInv
<1>2. Ticket(r) \in Tickets /\ Kind(r) \in Kinds /\ Fits(pc[r], Kind(r))
  BY <1>0, ThisRequest
<1>3. /\ mem[r].row \in Row \cup {None} /\ mem[r].item \in Item \cup {None}
      /\ mem[r].n \in Nat \cup {None} /\ mem[r].want \subseteq Statuses
      /\ mem[r].list \subseteq Item /\ mem[r].pend \subseteq Tickets
      /\ mem[r].again \subseteq Tickets /\ mem[r].cur \in Tickets
  BY <1>0, ThisRequest, MemType
<1>4. CASE CompareStatus(r)
  <2>1. /\ pc' \in [Requests -> Labels]
        /\ resp' \in [Requests -> Responses]
        /\ ControlOK'
    BY <1>0, <1>2, <1>4, Moves DEF CompareStatus, Fits, Labels, asked
  <2>2. RowLoaded'
    BY <1>0, <1>2, <1>4, RowWaits DEF CompareStatus, Labels, Loading, Fits, asked
  <2>3. LogMoves(r)
    BY <1>4 DEF CompareStatus, LogMoves, Effects, Achieve
  <2>4. log' \in [Requests -> Log]
    BY <1>1, <2>3, LogMoved DEF TInv, TypeOK
  <2> QED
    BY <1>1, <1>4, <2>1, <2>2, <2>4 DEF CompareStatus, TInv, TypeOK, RowsPaired, freshdesk, caches,
       process, asked, bounds
<1>5. CASE AllowWrite(r)
  <2>1. /\ pc' \in [Requests -> Labels]
        /\ resp' \in [Requests -> Responses]
        /\ ControlOK'
    BY <1>0, <1>2, <1>5, Moves DEF AllowWrite, Fits, Labels, asked
  <2>2. limited' \subseteq Tickets
    BY <1>1, <1>2, <1>5 DEF AllowWrite, TypeOK
  <2>3. RowLoaded'
    BY <1>0, <1>2, <1>5, RowWaits DEF AllowWrite, Labels, Loading, Fits, asked
  <2> QED
    BY <1>1, <1>5, <2>1, <2>2, <2>3 DEF AllowWrite, TInv, TypeOK, RowsPaired, freshdesk,
       caches, process, asked, bounds
<1>6. CASE CreateNote(r)
  <2>1. /\ pc' \in [Requests -> Labels]
        /\ resp' \in [Requests -> Responses]
        /\ ControlOK'
    BY <1>0, <1>2, <1>6, Moves DEF CreateNote, Fits, Labels, asked
  <2>2. convs' \in [Tickets -> Nat]
    BY <1>1, <1>2, <1>6 DEF CreateNote, TypeOK
  <2>3. LogMoves(r)
    BY <1>1, <1>2, <1>6 DEF CreateNote, TypeOK, LogMoves, Effects
  <2>4. log' \in [Requests -> Log]
    BY <1>1, <2>3, LogMoved DEF TypeOK
  <2>5. RowLoaded'
    BY <1>0, <1>2, <1>6, RowWaits DEF CreateNote, Labels, Loading, Fits, asked
  <2> QED
    BY <1>1, <1>6, <2>1, <2>2, <2>4, <2>5 DEF CreateNote, TInv, TypeOK, RowsPaired, freshdesk,
       caches, process, asked, bounds
<1>7. CASE UnassignTicket(r)
  <2>1. /\ pc' \in [Requests -> Labels]
        /\ resp' \in [Requests -> Responses]
        /\ ControlOK'
    BY <1>0, <1>2, <1>7, Moves DEF UnassignTicket, Fits, Labels, asked
  <2>2. fd' \in [Tickets -> Item]
    BY <1>1, <1>2, <1>7, WrittenType, AgentTypes, FdHas DEF UnassignTicket, TypeOK
  <2>3. LogMoves(r)
    BY <1>1, <1>2, <1>7, FdHas DEF UnassignTicket, TypeOK, LogMoves, Effects
  <2>4. log' \in [Requests -> Log]
    BY <1>1, <2>3, LogMoved DEF TypeOK
  <2>5. RowLoaded'
    BY <1>0, <1>2, <1>7, RowWaits DEF UnassignTicket, Labels, Loading, Fits, asked
  <2> QED
    BY <1>1, <1>7, <2>1, <2>2, <2>4, <2>5 DEF UnassignTicket, TInv, TypeOK, RowsPaired,
       freshdesk, caches, process, asked, bounds
<1>8. CASE ClearState(r)
  <2>1. /\ pc' \in [Requests -> Labels]
        /\ resp' \in [Requests -> Responses]
        /\ ControlOK'
    BY <1>0, <1>2, <1>8, Moves DEF ClearState, Fits, Labels, asked
  <2>2. rows' \in [Tickets -> Row \cup {None}] /\ RowsPaired'
    BY <1>1, <1>2, <1>8 DEF ClearState, TypeOK, TInv, RowsPaired
  <2>3. LogMoves(r)
    BY <1>1, <1>2, <1>8 DEF ClearState, TypeOK, LogMoves, Effects, Achieve
  <2>4. log' \in [Requests -> Log]
    BY <1>1, <2>3, LogMoved DEF TypeOK
  <2>5. RowLoaded'
    BY <1>0, <1>2, <1>8, RowWaits DEF ClearState, Labels, Loading, Fits, asked
  <2> QED
    BY <1>1, <1>8, <2>1, <2>2, <2>4, <2>5 DEF ClearState, TInv, TypeOK, RowsPaired, freshdesk,
       caches, process, asked, bounds
<1>9. CASE SetStatus(r)
  <2>1. /\ pc' \in [Requests -> Labels]
        /\ resp' \in [Requests -> Responses]
        /\ ControlOK'
    BY <1>0, <1>2, <1>9, Moves DEF SetStatus, Fits, Labels, asked
  <2>2. job[r].status \in Statuses
    BY <1>0, <1>2, <1>9, ThisRequest, WorkType DEF SetStatus, Fits, Kind
  <2>3. fd' \in [Tickets -> Item]
    BY <1>1, <1>2, <1>9, <2>2, WrittenType, FdHas DEF SetStatus, TypeOK
  <2>4. LogMoves(r)
    BY <1>1, <1>2, <1>9, FdHas DEF SetStatus, TypeOK, LogMoves, Effects
  <2>5. log' \in [Requests -> Log]
    BY <1>1, <2>4, LogMoved DEF TypeOK
  <2>6. RowLoaded'
    BY <1>0, <1>2, <1>9, RowWaits DEF SetStatus, Labels, Loading, Fits, asked
  <2> QED
    BY <1>1, <1>9, <2>1, <2>3, <2>5, <2>6 DEF SetStatus, TInv, TypeOK, RowsPaired, freshdesk,
       caches, process, asked, bounds
<1>10. CASE DelConvs(r)
  <2>1. /\ pc' \in [Requests -> Labels]
        /\ resp' \in [Requests -> Responses]
        /\ ControlOK'
    BY <1>0, <1>2, <1>10, Moves DEF DelConvs, Fits, Labels, asked
  <2>2. ccache' \in [Tickets -> Nat \cup {None}]
    BY <1>1, <1>2, <1>10 DEF DelConvs, TypeOK
  <2>3. RowLoaded'
    BY <1>0, <1>2, <1>10, RowWaits DEF DelConvs, Labels, Loading, Fits, asked
  <2> QED
    BY <1>1, <1>10, <2>1, <2>2, <2>3 DEF DelConvs, TInv, TypeOK, RowsPaired, freshdesk,
       caches, process, asked, bounds
<1>11. CASE DelTicket(r)
  <2>1. /\ pc' \in [Requests -> Labels]
        /\ resp' \in [Requests -> Responses]
        /\ ControlOK'
    BY <1>0, <1>2, <1>11, Moves DEF DelTicket, Fits, Labels, asked
  <2>2. tcache' \in [Tickets -> Item \cup {None}]
    BY <1>1, <1>2, <1>11 DEF DelTicket, TypeOK
  <2>3. RowLoaded'
    BY <1>0, <1>2, <1>11, RowWaits DEF DelTicket, Labels, Loading, Fits, asked
  <2> QED
    BY <1>1, <1>11, <2>1, <2>2, <2>3 DEF DelTicket, TInv, TypeOK, RowsPaired, freshdesk,
       caches, process, asked, bounds
<1> QED
  BY <1>4, <1>5, <1>6, <1>7, <1>8, <1>9, <1>10, <1>11 DEF WriteStep

LEMMA ReadTInv ==
  ASSUME NEW r \in Requests, TInv, ReadStep(r)
  PROVE  TInv'
<1>0. pc[r] # "idle"
  BY DEF ReadStep, LookTicket, FetchTicket, StoreTicket, LookConvs, FetchConvs, StoreConvs,
     LookDash, FilterMine, UseStale, FilterUnassigned, StoreDash, ListRows, NextUpdater,
     AskAgain, ShowBoard, FlushCache
<1>1. TypeOK
  BY DEF TInv
<1>2. Ticket(r) \in Tickets /\ Kind(r) \in Kinds /\ Fits(pc[r], Kind(r))
  BY <1>0, ThisRequest
<1>3. /\ mem[r].row \in Row \cup {None} /\ mem[r].item \in Item \cup {None}
      /\ mem[r].n \in Nat \cup {None} /\ mem[r].want \subseteq Statuses
      /\ mem[r].list \subseteq Item /\ mem[r].pend \subseteq Tickets
      /\ mem[r].again \subseteq Tickets /\ mem[r].cur \in Tickets
  BY <1>0, ThisRequest, MemType
<1>4. CASE LookTicket(r)
  <2>1. /\ pc' \in [Requests -> Labels]
        /\ resp' \in [Requests -> Responses]
        /\ ControlOK'
    BY <1>0, <1>2, <1>4, Moves DEF LookTicket, Fits, Labels, asked
  <2>2. MemMoves(r)
    BY <1>1, <1>2, <1>3, <1>4 DEF LookTicket, TypeOK, MemMoves
  <2>3. mem' \in [Requests -> Mem] /\ \A q \in Requests : mem'[q].row = mem[q].row
    BY <1>1, <2>2, MemMoved DEF TypeOK
  <2>4. RowLoaded'
    BY <1>0, <1>2, <1>4, <2>3, RowWaits DEF LookTicket, Labels, Loading, Fits, asked
  <2> QED
    BY <1>1, <1>4, <2>1, <2>3, <2>4 DEF LookTicket, TInv, TypeOK, RowsPaired, freshdesk,
       caches, process, asked, bounds
<1>5. CASE FetchTicket(r)
  <2>1. /\ pc' \in [Requests -> Labels]
        /\ resp' \in [Requests -> Responses]
        /\ ControlOK'
    BY <1>0, <1>2, <1>5, Moves DEF FetchTicket, Fits, Labels, asked
  <2>2. MemMoves(r)
    BY <1>1, <1>2, <1>3, <1>5 DEF FetchTicket, TypeOK, MemMoves
  <2>3. mem' \in [Requests -> Mem] /\ \A q \in Requests : mem'[q].row = mem[q].row
    BY <1>1, <2>2, MemMoved DEF TypeOK
  <2>4. RowLoaded'
    BY <1>0, <1>2, <1>5, <2>3, RowWaits DEF FetchTicket, Labels, Loading, Fits, asked
  <2> QED
    BY <1>1, <1>5, <2>1, <2>3, <2>4 DEF FetchTicket, TInv, TypeOK, RowsPaired, freshdesk,
       caches, process, asked, bounds
<1>6. CASE StoreTicket(r)
  <2>1. /\ pc' \in [Requests -> Labels]
        /\ resp' \in [Requests -> Responses]
        /\ ControlOK'
    BY <1>0, <1>2, <1>6, Moves DEF StoreTicket, Fits, Labels, asked
  <2>2. tcache' \in [Tickets -> Item \cup {None}]
    BY <1>1, <1>2, <1>3, <1>6 DEF StoreTicket, TypeOK
  <2>3. RowLoaded'
    BY <1>0, <1>2, <1>6, RowWaits DEF StoreTicket, Labels, Loading, Fits, asked
  <2> QED
    BY <1>1, <1>6, <2>1, <2>2, <2>3 DEF StoreTicket, TInv, TypeOK, RowsPaired, freshdesk,
       caches, process, asked, bounds
<1>7. CASE LookConvs(r)
  <2>1. /\ pc' \in [Requests -> Labels]
        /\ resp' \in [Requests -> Responses]
        /\ ControlOK'
    BY <1>0, <1>2, <1>7, Moves DEF LookConvs, Fits, Labels, Converse, asked
  <2>2. MemMoves(r)
    BY <1>1, <1>2, <1>3, <1>7 DEF LookConvs, TypeOK, MemMoves
  <2>3. mem' \in [Requests -> Mem] /\ \A q \in Requests : mem'[q].row = mem[q].row
    BY <1>1, <2>2, MemMoved DEF TypeOK
  <2>4. RowLoaded'
    BY <1>0, <1>2, <1>7, <2>3, RowWaits DEF LookConvs, Labels, Loading, Fits, asked, Converse
  <2> QED
    BY <1>1, <1>7, <2>1, <2>3, <2>4 DEF LookConvs, TInv, TypeOK, RowsPaired, freshdesk,
       caches, process, asked, bounds
<1>8. CASE FetchConvs(r)
  <2>1. /\ pc' \in [Requests -> Labels]
        /\ resp' \in [Requests -> Responses]
        /\ ControlOK'
    BY <1>0, <1>2, <1>8, Moves DEF FetchConvs, Fits, Labels, Converse, asked
  <2>2. MemMoves(r)
    BY <1>1, <1>2, <1>3, <1>8 DEF FetchConvs, TypeOK, MemMoves
  <2>3. mem' \in [Requests -> Mem] /\ \A q \in Requests : mem'[q].row = mem[q].row
    BY <1>1, <2>2, MemMoved DEF TypeOK
  <2>4. RowLoaded'
    BY <1>0, <1>2, <1>8, <2>3, RowWaits DEF FetchConvs, Labels, Loading, Fits, asked, Converse
  <2> QED
    BY <1>1, <1>8, <2>1, <2>3, <2>4 DEF FetchConvs, TInv, TypeOK, RowsPaired, freshdesk,
       caches, process, asked, bounds
<1>9. CASE StoreConvs(r)
  <2>1. /\ pc' \in [Requests -> Labels]
        /\ resp' \in [Requests -> Responses]
        /\ ControlOK'
    BY <1>0, <1>2, <1>9, Moves DEF StoreConvs, Fits, Labels, Converse, asked
  <2>2. ccache' \in [Tickets -> Nat \cup {None}]
    BY <1>1, <1>2, <1>3, <1>9 DEF StoreConvs, TypeOK
  <2>3. RowLoaded'
    BY <1>0, <1>2, <1>9, RowWaits DEF StoreConvs, Labels, Loading, Fits, asked, Converse
  <2> QED
    BY <1>1, <1>9, <2>1, <2>2, <2>3 DEF StoreConvs, TInv, TypeOK, RowsPaired, freshdesk,
       caches, process, asked, bounds
<1>10. CASE LookDash(r)
  <2>1. /\ pc' \in [Requests -> Labels]
        /\ resp' \in [Requests -> Responses]
        /\ ControlOK'
    BY <1>0, <1>2, <1>10, Moves DEF LookDash, Fits, Labels, asked
  <2>2. MemMoves(r)
    BY <1>1, <1>2, <1>3, <1>10 DEF LookDash, TypeOK, MemMoves, DashFresh, Active
  <2>3. mem' \in [Requests -> Mem] /\ \A q \in Requests : mem'[q].row = mem[q].row
    BY <1>1, <2>2, MemMoved DEF TypeOK
  <2>4. RowLoaded'
    BY <1>0, <1>2, <1>10, <2>3, RowWaits DEF LookDash, Labels, Loading, Fits, asked
  <2> QED
    BY <1>1, <1>10, <2>1, <2>3, <2>4 DEF LookDash, TInv, TypeOK, RowsPaired, freshdesk,
       caches, process, asked, bounds
<1>11. CASE FilterMine(r)
  <2>1. /\ pc' \in [Requests -> Labels]
        /\ resp' \in [Requests -> Responses]
        /\ ControlOK'
    BY <1>0, <1>2, <1>11, Moves DEF FilterMine, Fits, Labels, asked
  <2>2. MemMoves(r)
    BY <1>1, <1>2, <1>3, <1>11, ListTypes DEF FilterMine, TypeOK, MemMoves
  <2>3. mem' \in [Requests -> Mem] /\ \A q \in Requests : mem'[q].row = mem[q].row
    BY <1>1, <2>2, MemMoved DEF TypeOK
  <2>4. RowLoaded'
    BY <1>0, <1>2, <1>11, <2>3, RowWaits DEF FilterMine, Labels, Loading, Fits, asked
  <2> QED
    BY <1>1, <1>11, <2>1, <2>3, <2>4 DEF FilterMine, TInv, TypeOK, RowsPaired, freshdesk,
       caches, process, asked, bounds
<1>12. CASE UseStale(r)
  <2>1. /\ pc' \in [Requests -> Labels]
        /\ resp' \in [Requests -> Responses]
        /\ ControlOK'
    BY <1>0, <1>2, <1>12, Moves DEF UseStale, Fits, Labels, asked
  <2>2. MemMoves(r)
    BY <1>1, <1>2, <1>3, <1>12 DEF UseStale, TypeOK, MemMoves
  <2>3. mem' \in [Requests -> Mem] /\ \A q \in Requests : mem'[q].row = mem[q].row
    BY <1>1, <2>2, MemMoved DEF TypeOK
  <2>4. RowLoaded'
    BY <1>0, <1>2, <1>12, <2>3, RowWaits DEF UseStale, Labels, Loading, Fits, asked
  <2> QED
    BY <1>1, <1>12, <2>1, <2>3, <2>4 DEF UseStale, TInv, TypeOK, RowsPaired, freshdesk,
       caches, process, asked, bounds
<1>13. CASE FilterUnassigned(r)
  <2>1. /\ pc' \in [Requests -> Labels]
        /\ resp' \in [Requests -> Responses]
        /\ ControlOK'
    BY <1>0, <1>2, <1>13, Moves DEF FilterUnassigned, Fits, Labels, asked
  <2>2. MemMoves(r)
    <3>1. PICK batch \in SUBSET Matching(r, Nobody) :
             mem' = [mem EXCEPT ![r].list = Merged(@, batch)]
      BY <1>13 DEF FilterUnassigned
    <3>2. Merged(mem[r].list, batch) \in SUBSET Item
      BY <1>1, <1>3, ListTypes
    <3>3. mem' = [mem EXCEPT ![r].list = Merged(mem[r].list, batch)]
      BY <1>1, <3>1 DEF TypeOK
    <3> QED
      BY <3>2, <3>3 DEF MemMoves
  <2>3. mem' \in [Requests -> Mem] /\ \A q \in Requests : mem'[q].row = mem[q].row
    BY <1>1, <2>2, MemMoved DEF TypeOK
  <2>4. RowLoaded'
    BY <1>0, <1>2, <1>13, <2>3, RowWaits DEF FilterUnassigned, Labels, Loading, Fits, asked
  <2> QED
    BY <1>1, <1>13, <2>1, <2>3, <2>4 DEF FilterUnassigned, TInv, TypeOK, RowsPaired,
       freshdesk, caches, process, asked, bounds
<1>14. CASE StoreDash(r)
  <2>1. /\ pc' \in [Requests -> Labels]
        /\ resp' \in [Requests -> Responses]
        /\ ControlOK'
    BY <1>0, <1>2, <1>14, Moves DEF StoreDash, Fits, Labels, asked
  <2>2. dcache' \in [list: SUBSET Item, fresh: BOOLEAN] \cup {None}
    <3>1. [list |-> mem[r].list, fresh |-> TRUE] \in [list: SUBSET Item, fresh: BOOLEAN]
      BY <1>3
    <3> QED
      BY <1>1, <1>14, <3>1 DEF StoreDash, TypeOK
  <2>3. RowLoaded'
    BY <1>0, <1>2, <1>14, RowWaits DEF StoreDash, Labels, Loading, Fits, asked
  <2> QED
    BY <1>1, <1>14, <2>1, <2>2, <2>3 DEF StoreDash, TInv, TypeOK, RowsPaired, freshdesk,
       caches, process, asked, bounds
<1>15. CASE ListRows(r)
  <2>1. /\ pc' \in [Requests -> Labels]
        /\ resp' \in [Requests -> Responses]
        /\ ControlOK'
    BY <1>0, <1>2, <1>15, Moves DEF ListRows, Fits, Labels, asked
  <2>2. MemMoves(r)
    <3> DEFINE shown == {i.t : i \in mem[r].list}
    <3>1. shown \in SUBSET Tickets
      BY <1>1, <1>3, ListTypes
    <3>2. mem' = mem \/ \E later \in SUBSET shown :
                         mem' = [mem EXCEPT ![r].pend = shown, ![r].again = later]
      BY <1>15 DEF ListRows
    <3> QED
      BY <3>1, <3>2 DEF MemMoves
  <2>3. mem' \in [Requests -> Mem] /\ \A q \in Requests : mem'[q].row = mem[q].row
    BY <1>1, <2>2, MemMoved DEF TypeOK
  <2>4. RowLoaded'
    BY <1>0, <1>2, <1>15, <2>3, RowWaits DEF ListRows, Labels, Loading, Fits, asked
  <2> QED
    BY <1>1, <1>15, <2>1, <2>3, <2>4 DEF ListRows, TInv, TypeOK, RowsPaired, freshdesk,
       caches, process, asked, bounds
<1>16. CASE NextUpdater(r)
  <2>1. /\ pc' \in [Requests -> Labels]
        /\ resp' \in [Requests -> Responses]
        /\ ControlOK'
    BY <1>0, <1>2, <1>16, Moves DEF NextUpdater, Fits, Labels, asked
  <2>2. MemMoves(r)
    BY <1>1, <1>2, <1>3, <1>16 DEF NextUpdater, TypeOK, MemMoves
  <2>3. mem' \in [Requests -> Mem] /\ \A q \in Requests : mem'[q].row = mem[q].row
    BY <1>1, <2>2, MemMoved DEF TypeOK
  <2>4. RowLoaded'
    BY <1>0, <1>2, <1>16, <2>3, RowWaits DEF NextUpdater, Labels, Loading, Fits, asked
  <2> QED
    BY <1>1, <1>16, <2>1, <2>3, <2>4 DEF NextUpdater, TInv, TypeOK, RowsPaired, freshdesk,
       caches, process, asked, bounds
<1>17. CASE ShowBoard(r)
  <2>1. /\ pc' \in [Requests -> Labels]
        /\ resp' \in [Requests -> Responses]
        /\ ControlOK'
    BY <1>0, <1>2, <1>17, Moves DEF ShowBoard, Fits, Labels, asked
  <2>2. RowLoaded'
    BY <1>0, <1>2, <1>17, RowWaits DEF ShowBoard, Labels, Loading, Fits, asked
  <2> QED
    BY <1>1, <1>17, <2>1, <2>2 DEF ShowBoard, TInv, TypeOK, RowsPaired, freshdesk, caches,
       process, asked, bounds
<1>18. CASE FlushCache(r)
  <2>1. /\ pc' \in [Requests -> Labels]
        /\ resp' \in [Requests -> Responses]
        /\ ControlOK'
    BY <1>0, <1>2, <1>18, Moves DEF FlushCache, Fits, Labels, asked
  <2>2. tcache' \in [Tickets -> Item \cup {None}]
    BY <1>1, <1>2, <1>18 DEF FlushCache, TypeOK, caches
  <2>3. ccache' \in [Tickets -> Nat \cup {None}]
    BY <1>1, <1>2, <1>18 DEF FlushCache, TypeOK, caches
  <2>4. dcache' \in [list: SUBSET Item, fresh: BOOLEAN] \cup {None}
    BY <1>1, <1>2, <1>18 DEF FlushCache, TypeOK, caches
  <2>5. RowLoaded'
    BY <1>0, <1>2, <1>18, RowWaits DEF FlushCache, Labels, Loading, Fits, asked
  <2> QED
    BY <1>1, <1>18, <2>1, <2>2, <2>3, <2>4, <2>5 DEF FlushCache, TInv, TypeOK, RowsPaired,
       freshdesk, caches, process, asked, bounds
<1>19. CASE AskAgain(r)
  <2>1. /\ pc' \in [Requests -> Labels]
        /\ resp' \in [Requests -> Responses]
        /\ ControlOK'
    BY <1>0, <1>2, <1>19, Moves DEF AskAgain, Fits, Labels, asked
  <2>2. MemMoves(r)
    BY <1>1, <1>3, <1>19 DEF AskAgain, TypeOK, MemMoves
  <2>3. mem' \in [Requests -> Mem] /\ \A q \in Requests : mem'[q].row = mem[q].row
    BY <1>1, <2>2, MemMoved DEF TypeOK
  <2>4. RowLoaded'
    BY <1>0, <1>2, <1>19, <2>3, RowWaits DEF AskAgain, Labels, Loading, Fits, asked
  <2> QED
    BY <1>1, <1>19, <2>1, <2>3, <2>4 DEF AskAgain, TInv, TypeOK, RowsPaired, freshdesk,
       caches, process, asked, bounds
<1> QED
  BY <1>4, <1>5, <1>6, <1>7, <1>8, <1>9, <1>10, <1>11, <1>12, <1>13, <1>14, <1>15, <1>16,
     <1>17, <1>18, <1>19 DEF ReadStep

-----------------------------------------------------------------------------
(* What a request does before its own work, and the surroundings. *)

LEMMA StartTInv ==
  ASSUME NEW r \in Requests, TInv, Start(r)
  PROVE  TInv'
<1>1. TypeOK
  BY DEF TInv
<1>2. PICK j \in Workload : /\ job' = [job EXCEPT ![r] = j]
                            /\ pc' = [pc EXCEPT ![r] = FirstStep(j.kind)]
                            /\ mem' = [mem EXCEPT ![r] = EmptyMem(j.t)]
  BY DEF Start
<1>3. j \in Job /\ j.t \in Tickets /\ j.kind \in Kinds
  BY WorkType
<1>4. FirstStep(j.kind) \in Labels \ Loading /\ Fits(FirstStep(j.kind), j.kind)
  BY <1>3 DEF FirstStep, Kinds, Fits, Labels, Loading
<1>5. EmptyMem(j.t) \in Mem
  BY <1>3, EmptyMemType
<1>6. log' \in [Requests -> Log]
  <2>1. log \in [Requests -> Log]
    BY <1>1 DEF TypeOK
  <2>2. log' = [log EXCEPT ![r].before = {q \in Requests : pc[q] = "done"}]
    BY DEF Start
  <2> QED
    BY <2>1, <2>2 DEF Log
<1>7. pc' \in [Requests -> Labels] /\ job' \in [Requests -> Job \cup {None}]
      /\ mem' \in [Requests -> Mem]
  BY <1>1, <1>2, <1>3, <1>4, <1>5 DEF TypeOK
<1>8. ControlOK'
  BY <1>1, <1>2, <1>4 DEF TInv, TypeOK, ControlOK, Kind
<1>9. RowLoaded'
  BY <1>1, <1>2, <1>4 DEF TInv, TypeOK, RowLoaded, Kind
<1> QED
  BY <1>1, <1>6, <1>7, <1>8, <1>9 DEF Start, TInv, TypeOK, RowsPaired, freshdesk, caches,
     process, bounds

LEMMA AgentTInv ==
  ASSUME NEW r \in Requests, TInv, EnsureAgent(r) \/ AgentUnknown(r)
  PROVE  TInv'
<1>1. TypeOK /\ pc[r] # "idle"
  BY DEF TInv, EnsureAgent, AgentUnknown
<1>2. Kind(r) \in Kinds /\ Fits(pc[r], Kind(r))
  BY <1>1, ThisRequest
<1>3. CASE EnsureAgent(r)
  <2>1. /\ pc' \in [Requests -> Labels]
        /\ resp' \in [Requests -> Responses]
        /\ ControlOK'
    BY <1>1, <1>2, <1>3, Moves DEF EnsureAgent, Fits, Labels, asked
  <2>2. RowLoaded'
    BY <1>1, <1>3, RowWaits DEF EnsureAgent, Labels, Loading, asked
  <2> QED
    BY <1>1, <1>3, <2>1, <2>2 DEF EnsureAgent, TInv, TypeOK, RowsPaired, freshdesk, caches,
       asked, bounds
<1>4. CASE AgentUnknown(r)
  <2>1. /\ pc' \in [Requests -> Labels]
        /\ resp' \in [Requests -> Responses]
        /\ ControlOK'
    BY <1>1, <1>2, <1>4, Moves DEF AgentUnknown, Fits, Labels, asked
  <2>2. RowLoaded'
    BY <1>1, <1>4, RowWaits DEF AgentUnknown, Labels, Loading, asked
  <2>3. LogMoves(r)
    BY <1>4 DEF AgentUnknown, LogMoves, Effects, Achieve
  <2>4. log' \in [Requests -> Log]
    BY <1>1, <2>3, LogMoved DEF TInv, TypeOK
  <2> QED
    BY <1>1, <1>4, <2>1, <2>2, <2>4 DEF AgentUnknown, TInv, TypeOK, RowsPaired, freshdesk, caches,
       process, asked, bounds
<1> QED
  BY <1>3, <1>4

LEMMA RestartTInv ==
  ASSUME TInv, Restart
  PROVE  TInv'
<1>1. /\ pc' \in [Requests -> Labels]
      /\ resp' \in [Requests -> Responses]
  BY DEF TInv, TypeOK, Restart, Labels, Responses
<1>2. \A r \in Requests : pc'[r] = pc[r] \/ (pc[r] # "idle" /\ pc'[r] = "done")
  BY DEF Restart, InProgress, TInv, TypeOK
<1>3. ControlOK' /\ RowLoaded'
  <2>1. ControlOK'
    <3>1. ASSUME NEW r \in Requests, pc'[r] # "idle"
          PROVE  job[r] \in Workload /\ Fits(pc'[r], Kind(r))
      BY <1>2, <3>1 DEF TInv, ControlOK, Fits
    <3> QED
      BY <3>1 DEF Restart, ControlOK, Kind, asked
  <2>2. RowLoaded'
    BY <1>2 DEF Restart, TInv, RowLoaded, Loading, Kind, asked
  <2> QED
    BY <2>1, <2>2
<1> QED
  <2>1. TypeOK'
    <3>1. UNCHANGED <<fd, convs, rows, tcache, ccache, dcache, job, gone, mem, log, upstream>>
      BY DEF Restart, freshdesk, caches, asked
    <3>2. agent' \in BOOLEAN
      BY Zenon DEF Restart
    <3>3. limited' = {} /\ restarts' = restarts + 1
      BY DEF Restart
    <3> QED
      BY <1>1, <3>1, <3>2, <3>3 DEF TInv, TypeOK
  <2> QED
    BY <1>3, <2>1 DEF Restart, TInv, RowsPaired

LEMMA EnvironmentTInv ==
  ASSUME TInv, Environment
  PROVE  TInv'
<1>1. TypeOK
  BY DEF TInv
<1>2. ASSUME UNCHANGED <<rows, pc, job, mem>>, TypeOK'
      PROVE  TInv'
  BY <1>2 DEF TInv, ControlOK, RowLoaded, RowsPaired, Kind
<1>3. CASE DashExpires
  BY <1>1, <1>2, <1>3 DEF DashExpires, DashFresh, TypeOK, freshdesk, process, asked, bounds
<1>4. ASSUME NEW t \in Tickets, OtherAgentWrites(t)
      PROVE  TInv'
  <2>1. fd' \in [Tickets -> Item]
    BY <1>1, <1>4, WrittenType DEF OtherAgentWrites, TypeOK
  <2> QED
    BY <1>1, <1>2, <1>4, <2>1 DEF OtherAgentWrites, TypeOK, caches, process, asked
<1>5. ASSUME NEW t \in Tickets, ClientReplies(t)
      PROVE  TInv'
  BY <1>1, <1>2, <1>5 DEF ClientReplies, TypeOK, caches, process, asked
<1>6. ASSUME NEW t \in Tickets, TicketExpires(t)
      PROVE  TInv'
  BY <1>1, <1>2, <1>6 DEF TicketExpires, TypeOK, freshdesk, process, asked, bounds
<1>7. ASSUME NEW t \in Tickets, ConvsExpire(t)
      PROVE  TInv'
  BY <1>1, <1>2, <1>7 DEF ConvsExpire, TypeOK, freshdesk, process, asked, bounds
<1>8. ASSUME NEW t \in Tickets, WindowCloses(t)
      PROVE  TInv'
  BY <1>1, <1>2, <1>8 DEF WindowCloses, TypeOK, freshdesk, caches, asked, bounds
<1>9. ASSUME NEW r \in Requests, HangUp(r)
      PROVE  TInv'
  BY <1>1, <1>2, <1>9 DEF HangUp, TypeOK, freshdesk, caches, process, bounds
<1> QED
  BY <1>3, <1>4, <1>5, <1>6, <1>7, <1>8, <1>9, RestartTInv DEF Environment

LEMMA NextTInv == TInv /\ [Next]_vars => TInv'
<1> SUFFICES ASSUME TInv, [Next]_vars PROVE TInv'
  OBVIOUS
<1>1. ASSUME NEW r \in Requests, Step(r) PROVE TInv'
  BY <1>1, StartTInv, AgentTInv, UpdateTInv, WriteTInv, ReadTInv DEF Step
<1>2. CASE Environment
  BY <1>2, EnvironmentTInv
<1>3. CASE UNCHANGED vars
  BY <1>3 DEF vars, TInv, TypeOK, ControlOK, RowLoaded, RowsPaired, Kind
<1> QED
  BY <1>1, <1>2, <1>3 DEF Next

-----------------------------------------------------------------------------
(* Every variable keeps its type, for any number of tickets and requests:  *)
(* in particular what is stored in a cache or loaded from it is what the   *)
(* handlers expect to find there.                                          *)
THEOREM Typing == Spec => []TypeOK
<1>1. TInv => TypeOK
  BY DEF TInv
<1> QED
  BY InitTInv, NextTInv, <1>1, PTL DEF Spec

(* No interleaving of edits, and no failure between a load and an upsert,  *)
(* stores a review date without the time it was set or that time without a *)
(* date (state.go:84-91, 108-120).                                         *)
THEOREM RowsStayPaired == Spec => []RowsPaired
<1>1. TInv => RowsPaired
  BY DEF TInv
<1> QED
  BY InitTInv, NextTInv, <1>1, PTL DEF Spec

-----------------------------------------------------------------------------
(* What one step does to its request, and to all others. *)

(* One handler at a time takes a step, and it is one that has not answered. *)
LEMMA StepAlone ==
  ASSUME NEW r \in Requests, TInv, Step(r), NEW q \in Requests \ {r}
  PROVE  /\ pc'[q] = pc[q] /\ job'[q] = job[q] /\ resp'[q] = resp[q]
         /\ mem'[q] = mem[q] /\ log'[q] = log[q]
<1>0. /\ pc \in [Requests -> Labels] /\ job \in [Requests -> Job \cup {None}]
      /\ resp \in [Requests -> Responses] /\ mem \in [Requests -> Mem]
      /\ log \in [Requests -> Log]
  BY DEF TInv, TypeOK
<1> USE <1>0 DEF Proceed, Answer, asked
<1>1. CASE Start(r)
  BY <1>1 DEF Start
<1>2. CASE EnsureAgent(r) \/ AgentUnknown(r)
  BY <1>2 DEF EnsureAgent, AgentUnknown, Achieve
<1>3. CASE UpdateStep(r)
  BY <1>3 DEF UpdateStep, LoadRow, SkipAssign, AssignTicket, DelDash, UpsertRow, CardFromBoard,
     CardFromFreshdesk, Achieve
<1>4. CASE WriteStep(r)
  BY <1>4 DEF WriteStep, CompareStatus, AllowWrite, CreateNote, UnassignTicket, ClearState,
     SetStatus, DelConvs, DelTicket, Achieve
<1>5. CASE ReadStep(r)
  BY <1>5 DEF ReadStep, LookTicket, FetchTicket, StoreTicket, LookConvs, FetchConvs, StoreConvs,
     LookDash, FilterMine, UseStale, FilterUnassigned, StoreDash, ListRows, NextUpdater,
     AskAgain, ShowBoard, FlushCache, Converse
<1> QED
  BY <1>1, <1>2, <1>3, <1>4, <1>5 DEF Step

LEMMA StepOf ==
  ASSUME NEW r \in Requests, Step(r)
  PROVE  /\ pc[r] # "done" /\ gone' = gone /\ upstream' = upstream /\ restarts' = restarts
         /\ ~Start(r) => job' = job /\ InProgress(r)
<1> USE DEF asked, bounds, InProgress
<1>1. CASE Start(r)
  BY <1>1 DEF Start
<1>2. CASE EnsureAgent(r) \/ AgentUnknown(r)
  BY <1>2 DEF EnsureAgent, AgentUnknown
<1>3. CASE UpdateStep(r)
  BY <1>3 DEF UpdateStep, LoadRow, SkipAssign, AssignTicket, DelDash, UpsertRow, CardFromBoard,
     CardFromFreshdesk
<1>4. CASE WriteStep(r)
  BY <1>4 DEF WriteStep, CompareStatus, AllowWrite, CreateNote, UnassignTicket, ClearState,
     SetStatus, DelConvs, DelTicket
<1>5. CASE ReadStep(r)
  BY <1>5 DEF ReadStep, LookTicket, FetchTicket, StoreTicket, LookConvs, FetchConvs, StoreConvs,
     LookDash, FilterMine, UseStale, FilterUnassigned, StoreDash, ListRows, NextUpdater,
     AskAgain, ShowBoard, FlushCache
<1> QED
  BY <1>1, <1>2, <1>3, <1>4, <1>5 DEF Step

LEMMA StartOf ==
  ASSUME NEW r \in Requests, TInv, Start(r)
  PROVE  \E j \in Workload :
            /\ job'[r] = j /\ pc'[r] = FirstStep(j.kind) /\ mem'[r] = EmptyMem(j.t)
            /\ pc[r] = "idle" /\ resp' = resp
            /\ log'[r] = [log[r] EXCEPT !.before = {q \in Requests : pc[q] = "done"}]
            /\ UNCHANGED <<freshdesk, rows, caches, process, gone, bounds>>
  BY DEF Start, TInv, TypeOK

LEMMA Surroundings ==
  ASSUME TInv, Environment \/ UNCHANGED vars, NEW q \in Requests
  PROVE  /\ job'[q] = job[q] /\ mem'[q] = mem[q] /\ log'[q] = log[q]
         /\ \/ pc'[q] = pc[q] /\ resp'[q] = resp[q]
            \/ InProgress(q) /\ pc'[q] = "done" /\ resp'[q] = "unseen"
         /\ gone \subseteq gone'
         /\ q \in gone' => q \in gone \/ InProgress(q)
<1> USE DEF asked
<1>1. CASE UNCHANGED vars
  BY <1>1 DEF vars
<1>2. CASE Restart
  BY <1>2 DEF Restart, TInv, TypeOK
<1>3. CASE \E r \in Requests : HangUp(r)
  BY <1>3 DEF HangUp
<1>4. CASE DashExpires \/ \E t \in Tickets : \/ OtherAgentWrites(t) \/ ClientReplies(t)
                          \/ TicketExpires(t) \/ ConvsExpire(t) \/ WindowCloses(t)
  BY <1>4 DEF DashExpires, OtherAgentWrites, ClientReplies, TicketExpires, ConvsExpire,
     WindowCloses
<1> QED
  BY <1>1, <1>2, <1>3, <1>4 DEF Environment

(* The places a handler only enters when it starts. *)
LEMMA EntersByStart ==
  ASSUME NEW r \in Requests, TInv, Step(r), ~Start(r)
  PROVE  pc'[r] \notin {"idle", "load", "status_check", "agent", "flush"}
<1>1. pc \in [Requests -> Labels]
  BY DEF TInv, TypeOK
<1> USE <1>1 DEF Proceed, Answer
<1>2. CASE EnsureAgent(r) \/ AgentUnknown(r)
  BY <1>2 DEF EnsureAgent, AgentUnknown
<1>3. CASE UpdateStep(r)
  BY <1>3 DEF UpdateStep, LoadRow, SkipAssign, AssignTicket, DelDash, UpsertRow, CardFromBoard,
     CardFromFreshdesk
<1>4. CASE WriteStep(r)
  BY <1>4 DEF WriteStep, CompareStatus, AllowWrite, CreateNote, UnassignTicket, ClearState,
     SetStatus, DelConvs, DelTicket
<1>5. CASE LookTicket(r) \/ FetchTicket(r) \/ StoreTicket(r)
  BY <1>5 DEF LookTicket, FetchTicket, StoreTicket
<1>6. CASE LookConvs(r) \/ FetchConvs(r) \/ StoreConvs(r)
  BY <1>6 DEF LookConvs, FetchConvs, StoreConvs, Converse
<1>7. CASE LookDash(r) \/ FilterMine(r) \/ UseStale(r) \/ FilterUnassigned(r) \/ StoreDash(r)
  BY <1>7 DEF LookDash, FilterMine, UseStale, FilterUnassigned, StoreDash
<1>8. CASE ListRows(r) \/ NextUpdater(r) \/ AskAgain(r) \/ ShowBoard(r) \/ FlushCache(r)
  BY <1>8 DEF ListRows, NextUpdater, AskAgain, ShowBoard, FlushCache
<1> QED
  BY <1>2, <1>3, <1>4, <1>5, <1>6, <1>7, <1>8 DEF Step, ReadStep

(* A request never becomes idle again, and an answer is final. *)
LEMMA StepLeaves ==
  ASSUME NEW r \in Requests, TInv, Step(r)
  PROVE  pc'[r] # "idle"
<1>1. CASE Start(r)
  <2>1. PICK j \in Workload : pc'[r] = FirstStep(j.kind)
    BY <1>1 DEF Start, TInv, TypeOK
  <2> QED
    BY <2>1, WorkType DEF FirstStep, Kinds
<1> QED
  BY <1>1, EntersByStart

(* A success is told by an answer, and to a client that is still there. *)
LEMMA AnswersOk ==
  ASSUME NEW r \in Requests, TInv, Step(r), resp[r] = "none", resp'[r] = "ok"
  PROVE  pc'[r] = "done" /\ r \notin gone
<1>0. pc \in [Requests -> Labels] /\ resp \in [Requests -> Responses]
  BY DEF TInv, TypeOK
<1> USE <1>0 DEF Proceed, Answer
<1>1. CASE Start(r)
  BY <1>1 DEF Start
<1>2. CASE EnsureAgent(r) \/ AgentUnknown(r)
  BY <1>2 DEF EnsureAgent, AgentUnknown
<1>3. CASE UpdateStep(r)
  BY <1>3 DEF UpdateStep, LoadRow, SkipAssign, AssignTicket, DelDash, UpsertRow, CardFromBoard,
     CardFromFreshdesk
<1>4. CASE WriteStep(r)
  BY <1>4 DEF WriteStep, CompareStatus, AllowWrite, CreateNote, UnassignTicket, ClearState,
     SetStatus, DelConvs, DelTicket
<1>5. CASE LookTicket(r) \/ FetchTicket(r) \/ StoreTicket(r)
  BY <1>5 DEF LookTicket, FetchTicket, StoreTicket
<1>6. CASE LookConvs(r) \/ FetchConvs(r) \/ StoreConvs(r)
  BY <1>6 DEF LookConvs, FetchConvs, StoreConvs, Converse
<1>7. CASE LookDash(r) \/ FilterMine(r) \/ UseStale(r) \/ FilterUnassigned(r) \/ StoreDash(r)
  BY <1>7 DEF LookDash, FilterMine, UseStale, FilterUnassigned, StoreDash
<1>8. CASE ListRows(r) \/ NextUpdater(r) \/ AskAgain(r) \/ ShowBoard(r) \/ FlushCache(r)
  BY <1>8 DEF ListRows, NextUpdater, AskAgain, ShowBoard, FlushCache
<1> QED
  BY <1>1, <1>2, <1>3, <1>4, <1>5, <1>6, <1>7, <1>8 DEF Step, ReadStep

(* What a step does to the history of its request. *)
LEMMA LogStep ==
  ASSUME NEW r \in Requests, TInv, Step(r), ~Start(r)
  PROVE  /\ log'[r].before = log[r].before
         /\ \/ log'[r].noteAt = log[r].noteAt
            \/ pc[r] = "create_note" /\ log'[r].noteAt = convs'[Ticket(r)]
         /\ \/ log'[r].revAt = log[r].revAt
            \/ /\ pc[r] \in {"unassign", "set_status"}
               /\ log'[r].revAt = fd'[Ticket(r)].rev
<1>0. log \in [Requests -> Log] /\ fd \in [Tickets -> Item] /\ convs \in [Tickets -> Nat]
      /\ log[r] \in Log
  BY DEF TInv, TypeOK
<1>1. pc[r] # "idle" /\ Ticket(r) \in Tickets
  BY StepOf, ThisRequest DEF InProgress
<1>2. \A x : With(log[r], x).before = log[r].before /\ With(log[r], x).noteAt = log[r].noteAt
             /\ With(log[r], x).revAt = log[r].revAt
  BY <1>0 DEF With, Log
<1>3. \A n : NotedAt(log[r], n).before = log[r].before /\ NotedAt(log[r], n).noteAt = n
             /\ NotedAt(log[r], n).revAt = log[r].revAt
  BY <1>0 DEF With, NotedAt, Log
<1>4. \A x, n : WroteAt(log[r], x, n).before = log[r].before
                /\ WroteAt(log[r], x, n).noteAt = log[r].noteAt
                /\ WroteAt(log[r], x, n).revAt = n
  BY <1>0 DEF With, WroteAt, Log
<1>5. \A who, s : Written(Ticket(r), who, s)[Ticket(r)].rev = fd[Ticket(r)].rev + 1
  BY <1>0, <1>1 DEF Written
<1>6. CASE log' = log
  BY <1>6
<1>7. CASE \E x : log' = [log EXCEPT ![r] = With(log[r], x)]
  BY <1>0, <1>2, <1>7
<1>8. CASE CreateNote(r) /\ log' # log
  <2>1. /\ log' = [log EXCEPT ![r] = NotedAt(log[r], convs[Ticket(r)] + 1)]
        /\ convs' = [convs EXCEPT ![Ticket(r)] = convs[Ticket(r)] + 1]
    BY <1>8 DEF CreateNote
  <2> QED
    BY <1>0, <1>1, <1>3, <1>8, <2>1 DEF CreateNote
<1>9. CASE (UnassignTicket(r) \/ SetStatus(r)) /\ log' # log
  <2>1. \E x, who, s : /\ log' = [log EXCEPT ![r] = WroteAt(log[r], x, fd[Ticket(r)].rev + 1)]
                       /\ fd' = Written(Ticket(r), who, s)
    BY <1>9 DEF UnassignTicket, SetStatus
  <2>2. pc[r] \in {"unassign", "set_status"}
    BY <1>9 DEF UnassignTicket, SetStatus
  <2> QED
    BY <1>0, <1>4, <1>5, <2>1, <2>2
<1>10. CASE EnsureAgent(r) \/ AgentUnknown(r) \/ ReadStep(r)
  BY <1>6, <1>7, <1>10 DEF EnsureAgent, AgentUnknown, ReadStep, LookTicket, FetchTicket,
     StoreTicket, LookConvs, FetchConvs, StoreConvs, LookDash, FilterMine, UseStale,
     FilterUnassigned, StoreDash, ListRows, NextUpdater, AskAgain, ShowBoard, FlushCache, Achieve
<1>11. CASE UpdateStep(r)
  BY <1>6, <1>7, <1>11 DEF UpdateStep, LoadRow, SkipAssign, AssignTicket, DelDash, UpsertRow,
     CardFromBoard, CardFromFreshdesk, Achieve
<1>12. CASE WriteStep(r)
  BY <1>6, <1>7, <1>8, <1>9, <1>12 DEF WriteStep, CompareStatus, AllowWrite, ClearState,
     DelConvs, DelTicket, Achieve
<1> QED
  BY <1>10, <1>11, <1>12 DEF Step

(* What a handler remembers when one field changes. *)
LEMMA RowKept ==
  ASSUME mem \in [Requests -> Mem], NEW r \in Requests, NEW x,
         mem' = [mem EXCEPT ![r].row = x]
  PROVE  /\ mem'[r].row = x /\ mem'[r].item = mem[r].item /\ mem'[r].n = mem[r].n
         /\ mem'[r].cur = mem[r].cur /\ mem'[r].want = mem[r].want /\ mem'[r].list = mem[r].list
<1>1. mem'[r] = [mem[r] EXCEPT !.row = x]
  OBVIOUS
<1> QED
  BY <1>1 DEF Mem

LEMMA ItemKept ==
  ASSUME mem \in [Requests -> Mem], NEW r \in Requests, NEW x,
         mem' = [mem EXCEPT ![r].item = x]
  PROVE  /\ mem'[r].row = mem[r].row /\ mem'[r].item = x /\ mem'[r].n = mem[r].n
         /\ mem'[r].cur = mem[r].cur /\ mem'[r].want = mem[r].want /\ mem'[r].list = mem[r].list
<1>1. mem'[r] = [mem[r] EXCEPT !.item = x]
  OBVIOUS
<1> QED
  BY <1>1 DEF Mem

LEMMA ConvsKept ==
  ASSUME mem \in [Requests -> Mem], NEW r \in Requests, NEW x,
         mem' = [mem EXCEPT ![r].n = x]
  PROVE  /\ mem'[r].row = mem[r].row /\ mem'[r].item = mem[r].item /\ mem'[r].n = x
         /\ mem'[r].cur = mem[r].cur /\ mem'[r].want = mem[r].want /\ mem'[r].list = mem[r].list
<1>1. mem'[r] = [mem[r] EXCEPT !.n = x]
  OBVIOUS
<1> QED
  BY <1>1 DEF Mem

LEMMA WantKept ==
  ASSUME mem \in [Requests -> Mem], NEW r \in Requests, NEW x,
         mem' = [mem EXCEPT ![r].want = x]
  PROVE  /\ mem'[r].row = mem[r].row /\ mem'[r].item = mem[r].item /\ mem'[r].n = mem[r].n
         /\ mem'[r].cur = mem[r].cur /\ mem'[r].want = x /\ mem'[r].list = mem[r].list
<1>1. mem'[r] = [mem[r] EXCEPT !.want = x]
  OBVIOUS
<1> QED
  BY <1>1 DEF Mem

LEMMA ListKept ==
  ASSUME mem \in [Requests -> Mem], NEW r \in Requests, NEW x,
         mem' = [mem EXCEPT ![r].list = x]
  PROVE  /\ mem'[r].row = mem[r].row /\ mem'[r].item = mem[r].item /\ mem'[r].n = mem[r].n
         /\ mem'[r].cur = mem[r].cur /\ mem'[r].want = mem[r].want /\ mem'[r].list = x
<1>1. mem'[r] = [mem[r] EXCEPT !.list = x]
  OBVIOUS
<1> QED
  BY <1>1 DEF Mem

LEMMA PendKept ==
  ASSUME mem \in [Requests -> Mem], NEW r \in Requests, NEW x, NEW y,
         mem' = [mem EXCEPT ![r].pend = x, ![r].again = y]
  PROVE  /\ mem'[r].row = mem[r].row /\ mem'[r].item = mem[r].item /\ mem'[r].n = mem[r].n
         /\ mem'[r].cur = mem[r].cur /\ mem'[r].want = mem[r].want /\ mem'[r].list = mem[r].list
<1>1. mem'[r] = [mem[r] EXCEPT !.pend = x, !.again = y]
  OBVIOUS
<1> QED
  BY <1>1 DEF Mem

LEMMA TurnKept ==
  ASSUME mem \in [Requests -> Mem], NEW r \in Requests, NEW x, NEW t,
         mem' = [mem EXCEPT ![r].pend = x, ![r].cur = t, ![r].n = None]
  PROVE  /\ mem'[r].row = mem[r].row /\ mem'[r].item = mem[r].item /\ mem'[r].n = None
         /\ mem'[r].cur = t /\ mem'[r].want = mem[r].want /\ mem'[r].list = mem[r].list
<1>1. mem'[r] = [mem[r] EXCEPT !.pend = x, !.cur = t, !.n = None]
  OBVIOUS
<1> QED
  BY <1>1 DEF Mem

(* What a step does to what its handler has read. *)
LEMMA MemStep ==
  ASSUME NEW r \in Requests, TInv, Step(r), ~Start(r)
  PROVE  /\ Kind(r) # "board" => mem'[r].cur = mem[r].cur
         /\ \/ mem'[r].n = None
            \/ /\ mem'[r].cur = mem[r].cur
               /\ mem'[r].n \in {mem[r].n, ccache[mem[r].cur], convs[mem[r].cur]}
         /\ Kind(r) \in {"detail", "preview"} =>
               mem'[r].item \in {mem[r].item, tcache[Ticket(r)], fd[Ticket(r)]}
<1>0. pc[r] # "idle" /\ mem \in [Requests -> Mem]
  BY StepOf DEF InProgress, TInv, TypeOK
<1>1. Fits(pc[r], Kind(r))
  BY <1>0, ThisRequest
<1>2. CASE mem' = mem
  BY <1>2
<1>3. CASE LoadRow(r) /\ mem' # mem
  BY <1>0, <1>3, RowKept DEF LoadRow
<1>4. CASE (CardFromBoard(r) \/ CardFromFreshdesk(r)) /\ mem' # mem
  BY <1>0, <1>1, <1>4, ItemKept DEF CardFromBoard, CardFromFreshdesk, Fits
<1>5. CASE (LookTicket(r) \/ FetchTicket(r)) /\ mem' # mem
  BY <1>0, <1>5, ItemKept DEF LookTicket, FetchTicket
<1>6. CASE (LookConvs(r) \/ FetchConvs(r)) /\ mem' # mem
  BY <1>0, <1>6, ConvsKept DEF LookConvs, FetchConvs
<1>7. CASE LookDash(r) /\ mem' # mem
  BY <1>0, <1>7, ListKept, WantKept DEF LookDash
<1>8. CASE (FilterMine(r) \/ UseStale(r) \/ FilterUnassigned(r)) /\ mem' # mem
  BY <1>0, <1>8, ListKept DEF FilterMine, UseStale, FilterUnassigned
<1>9. CASE (ListRows(r) \/ AskAgain(r)) /\ mem' # mem
  <2>1. PICK x, y : mem' = [mem EXCEPT ![r].pend = x, ![r].again = y]
    BY <1>9 DEF ListRows, AskAgain
  <2>2. mem'[r].item = mem[r].item /\ mem'[r].n = mem[r].n /\ mem'[r].cur = mem[r].cur
    BY <1>0, <2>1, PendKept
  <2> QED
    BY <2>2
<1>10. CASE NextUpdater(r)
  <2>1. PICK x, t : mem' = [mem EXCEPT ![r].pend = x, ![r].cur = t, ![r].n = None]
    BY <1>10 DEF NextUpdater
  <2>2. mem'[r].n = None /\ mem'[r].item = mem[r].item
    BY <1>0, <2>1, TurnKept
  <2> QED
    BY <1>1, <1>10, <2>2 DEF NextUpdater, Fits
<1>11. CASE EnsureAgent(r) \/ AgentUnknown(r) \/ WriteStep(r) \/ UpdateStep(r)
  BY <1>2, <1>3, <1>4, <1>11 DEF EnsureAgent, AgentUnknown, WriteStep, CompareStatus, AllowWrite,
     CreateNote, UnassignTicket, ClearState, SetStatus, DelConvs, DelTicket, UpdateStep,
     SkipAssign, AssignTicket, DelDash, UpsertRow
<1>12. CASE ReadStep(r)
  BY <1>2, <1>5, <1>6, <1>7, <1>8, <1>9, <1>10, <1>12 DEF ReadStep, StoreTicket, StoreConvs,
     StoreDash, ShowBoard, FlushCache
<1> QED
  BY <1>11, <1>12 DEF Step

-----------------------------------------------------------------------------
(* What clients are told is what happened, and local state is removed only *)
(* by a handover that reached Freshdesk.  The argument is one table: what  *)
(* a request has achieved by the time its handler is at a step, and what   *)
(* an answer says about it.                                                *)


\* What a handler has achieved when it is at `step`.
Due(step, kind, effects) ==
    /\ step \in {"load", "assign_agent", "skip", "allow", "create_note", "status_check",
                 "set_status"} => effects = {}
    /\ step = "unassign" => "note" \in effects /\ "clear" \notin effects
    /\ step = "clear_row" => {"note", "unassign"} \subseteq effects
    /\ step \in {"del_convs", "del_ticket"} =>
          /\ kind = "note" => "note" \in effects
          /\ kind = "handover" => {"note", "unassign"} \subseteq effects
          /\ kind = "status" => "status" \in effects
    /\ step \in {"card", "card_fetch", "convs", "convs_fetch", "convs_set"} =>
          /\ kind = "update" => "edit" \in effects
          /\ kind = "status" => "status" \in effects

\* What an answer says of it.
Honest(answer, kind, effects) ==
    /\ answer = "ok" =>
          /\ kind = "note" => "note" \in effects
          /\ kind = "handover" => {"note", "unassign"} \subseteq effects
          /\ kind = "status" => "status" \in effects \/ "found" \in effects
          /\ kind = "update" => "edit" \in effects
    /\ answer = "limited" => effects = {}
    /\ answer = "bad_unassign" => "note" \in effects /\ "clear" \notin effects
    /\ answer = "bad" /\ kind \in {"note", "handover"} /\ "lost" \notin Faults => effects = {}

Tracked(r) ==
    /\ pc[r] = "idle" => log[r].effects = {}
    /\ pc[r] # "idle" => Due(pc[r], Kind(r), log[r].effects)
    /\ pc[r] # "done" => resp[r] = "none"
    /\ Honest(resp[r], Kind(r), log[r].effects)

EInv == \A r \in Requests : Tracked(r)

-----------------------------------------------------------------------------
LEMMA InitEInv == Init => EInv
<1> SUFFICES ASSUME Init, NEW r \in Requests PROVE Tracked(r)
  BY DEF EInv
<1>1. pc[r] = "idle" /\ resp[r] = "none" /\ log[r].effects = {}
  BY DEF Init, EmptyLog
<1> QED
  BY <1>1 DEF Tracked, Honest

LEMMA Entries ==
  ASSUME NEW entry \in Log
  PROVE  /\ \A x : With(entry, x).effects = entry.effects \cup {x}
         /\ \A n : NotedAt(entry, n).effects = entry.effects \cup {"note"}
         /\ \A x, n : WroteAt(entry, x, n).effects = entry.effects \cup {x}
  BY DEF With, NotedAt, WroteAt, Log

(* A handler that goes on, or answers, in step with the table.             *)
LEMMA OnTrack ==
  ASSUME NEW r \in Requests, TInv, EInv, InProgress(r), job' = job,
         \A q \in Requests \ {r} : log'[q] = log[q],
         \/ \E step \in Labels \ {"idle", "done"} :
               Proceed(r, step) /\ Due(step, Kind(r), log'[r].effects)
         \/ \E a \in {"ok", "bad", "bad_unassign", "limited"} :
               Answer(r, a) /\ Honest(a, Kind(r), log'[r].effects)
  PROVE  EInv'
<1> SUFFICES ASSUME NEW q \in Requests PROVE Tracked(q)'
  BY DEF EInv
<1>1. TypeOK /\ Tracked(q) /\ Tracked(r)
  BY DEF TInv, EInv
<1>2. CASE q # r
  <2>1. pc'[q] = pc[q] /\ resp'[q] = resp[q] /\ log'[q] = log[q]
    BY <1>1, <1>2 DEF Proceed, Answer, TypeOK
  <2> QED
    BY <1>1, <2>1 DEF Tracked, Kind
<1>3. CASE q = r
  <2>1. ASSUME NEW step \in Labels \ {"idle", "done"}, Proceed(r, step),
               Due(step, Kind(r), log'[r].effects)
        PROVE  Tracked(r)'
    <3>1. pc'[r] = step /\ resp'[r] = "none"
      BY <1>1, <2>1 DEF Proceed, TypeOK, Tracked, InProgress
    <3> QED
      BY <2>1, <3>1 DEF Tracked, Honest, Kind
  <2>2. ASSUME NEW a \in {"ok", "bad", "bad_unassign", "limited"}, Answer(r, a),
               Honest(a, Kind(r), log'[r].effects)
        PROVE  Tracked(r)'
    <3>1. pc'[r] = "done" /\ resp'[r] \in {a, "unseen"}
      BY <1>1, <2>2 DEF Answer, TypeOK
    <3>2. Honest(resp'[r], Kind(r), log'[r].effects)
      BY <2>2, <3>1 DEF Honest
    <3> QED
      BY <3>1, <3>2 DEF Tracked, Due, Kind
  <2> QED
    BY <1>3, <2>1, <2>2
<1> QED
  BY <1>2, <1>3

LEMMA UpdateEInv ==
  ASSUME NEW r \in Requests, TInv, EInv, UpdateStep(r)
  PROVE  EInv'
<1>1. InProgress(r)
  BY DEF InProgress, UpdateStep, LoadRow, SkipAssign, AssignTicket, DelDash, UpsertRow,
     CardFromBoard, CardFromFreshdesk
<1>2. TypeOK /\ Fits(pc[r], Kind(r)) /\ Due(pc[r], Kind(r), log[r].effects)
  BY <1>1, ThisRequest DEF TInv, EInv, Tracked, InProgress
<1>3. log[r] \in Log
  BY <1>2 DEF TypeOK
<1>4. CASE LoadRow(r)
  BY <1>1, <1>2, <1>4, OnTrack DEF LoadRow, Fits, Due, Honest, Labels, asked
<1>5. CASE SkipAssign(r)
  <2>1. log' = log \/ log' = [log EXCEPT ![r] = With(log[r], "found")]
    BY <1>5 DEF SkipAssign, Achieve
  <2>2. \A q \in Requests \ {r} : log'[q] = log[q]
    BY <1>2, <2>1 DEF TypeOK
  <2>3. CASE Proceed(r, "assign") /\ log' = log
    BY <1>1, <1>2, <1>5, <2>2, <2>3, OnTrack DEF SkipAssign, Fits, Due, Labels, asked
  <2>4. CASE Proceed(r, "upsert")
    BY <1>1, <1>2, <1>5, <2>2, <2>4, OnTrack DEF SkipAssign, Fits, Due, Labels, asked
  <2> QED
    BY <1>5, <2>3, <2>4 DEF SkipAssign
<1>6. CASE AssignTicket(r)
  <2>1. \E x : log' = [log EXCEPT ![r] = With(log[r], x)]
    BY <1>2, <1>6 DEF AssignTicket, Achieve
  <2>2. \A q \in Requests \ {r} : log'[q] = log[q]
    BY <1>2, <2>1 DEF TypeOK
  <2> QED
    BY <1>1, <1>2, <1>6, <2>2, OnTrack DEF AssignTicket, Fits, Due, Labels, asked
<1>7. CASE DelDash(r)
  BY <1>1, <1>2, <1>7, OnTrack DEF DelDash, Fits, Due, Honest, Labels, asked
<1>8. CASE UpsertRow(r)
  <2>1. CASE rows' = [rows EXCEPT ![Ticket(r)] = mem[r].row] /\ Achieve(r, "edit")
    <3>1. /\ log'[r].effects = log[r].effects \cup {"edit"}
          /\ \A q \in Requests \ {r} : log'[q] = log[q]
      BY <1>2, <1>3, <2>1, Entries DEF Achieve, TypeOK
    <3>2. Proceed(r, "card") \/ Answer(r, "ok") \/ Answer(r, "bad")
      BY <1>8 DEF UpsertRow
    <3>3. Kind(r) = "update" /\ job' = job
      BY <1>2, <1>8 DEF UpsertRow, Fits, asked
    <3> QED
      BY <1>1, <3>1, <3>2, <3>3, OnTrack DEF Due, Honest, Labels
  <2>2. CASE Answer(r, "bad") /\ UNCHANGED log
    BY <1>1, <1>2, <1>8, <2>2, OnTrack DEF UpsertRow, Fits, Honest, asked
  <2> QED
    BY <1>8, <2>1, <2>2 DEF UpsertRow
<1>9. CASE CardFromBoard(r)
  BY <1>1, <1>2, <1>9, OnTrack DEF CardFromBoard, Fits, Due, Honest, Labels, asked
<1>10. CASE CardFromFreshdesk(r)
  BY <1>1, <1>2, <1>10, OnTrack DEF CardFromFreshdesk, Fits, Due, Honest, Labels, asked
<1> QED
  BY <1>4, <1>5, <1>6, <1>7, <1>8, <1>9, <1>10 DEF UpdateStep

LEMMA WriteEInv ==
  ASSUME NEW r \in Requests, TInv, EInv, WriteStep(r)
  PROVE  EInv'
<1>1. InProgress(r)
  BY DEF InProgress, WriteStep, CompareStatus, AllowWrite, CreateNote, UnassignTicket,
     ClearState, SetStatus, DelConvs, DelTicket
<1>2. TypeOK /\ Fits(pc[r], Kind(r)) /\ Due(pc[r], Kind(r), log[r].effects)
  BY <1>1, ThisRequest DEF TInv, EInv, Tracked, InProgress
<1>3. log[r] \in Log
  BY <1>2 DEF TypeOK
<1>4. CASE CompareStatus(r)
  <2>1. CASE Answer(r, "ok") /\ Achieve(r, "found")
    <3>1. /\ log'[r].effects = log[r].effects \cup {"found"}
          /\ \A q \in Requests \ {r} : log'[q] = log[q]
      BY <1>2, <1>3, <2>1, Entries DEF Achieve, TypeOK
    <3>2. Kind(r) = "status" /\ job' = job
      BY <1>2, <1>4 DEF CompareStatus, Fits, asked
    <3> QED
      BY <1>1, <2>1, <3>1, <3>2, OnTrack DEF Honest
  <2>2. CASE Proceed(r, "allow") /\ log' = log
    BY <1>1, <1>2, <1>4, <2>2, OnTrack DEF CompareStatus, Fits, Due, Labels, asked
  <2> QED
    BY <1>4, <2>1, <2>2 DEF CompareStatus
<1>5. CASE AllowWrite(r)
  BY <1>1, <1>2, <1>5, OnTrack DEF AllowWrite, Fits, Due, Honest, Labels, asked
<1>6. CASE CreateNote(r)
  <2>1. \/ /\ log' = [log EXCEPT ![r] = NotedAt(log[r], convs[Ticket(r)] + 1)]
           /\ \/ Proceed(r, IF Kind(r) = "handover" THEN "unassign" ELSE "del_convs")
              \/ "lost" \in Faults /\ Answer(r, "bad")
        \/ log' = log /\ Answer(r, "bad")
    BY <1>6 DEF CreateNote, Call
  <2>2. \A q \in Requests \ {r} : log'[q] = log[q]
    BY <1>2, <2>1 DEF TypeOK
  <2>3. job' = job /\ Kind(r) \in {"note", "handover"} /\ log[r].effects = {}
    BY <1>2, <1>6 DEF CreateNote, Fits, Due, asked
  <2>4. CASE log' = log /\ Answer(r, "bad")
    BY <1>1, <2>2, <2>3, <2>4, OnTrack DEF Honest
  <2>5. CASE log' = [log EXCEPT ![r] = NotedAt(log[r], convs[Ticket(r)] + 1)]
    <3>1. log'[r].effects = {"note"}
      BY <1>2, <1>3, <2>3, <2>5, Entries DEF TypeOK
    <3>2. CASE Proceed(r, IF Kind(r) = "handover" THEN "unassign" ELSE "del_convs")
      BY <1>1, <2>2, <2>3, <3>1, <3>2, OnTrack DEF Due, Labels
    <3>3. CASE Answer(r, "bad") /\ "lost" \in Faults
      BY <1>1, <2>2, <2>3, <3>1, <3>3, OnTrack DEF Honest
    <3>4. CASE Answer(r, "bad") /\ log' = log
      BY <2>4, <3>4
    <3> QED
      BY <2>1, <3>2, <3>3, <3>4
  <2> QED
    BY <2>1, <2>4, <2>5
<1>7. CASE UnassignTicket(r)
  <2>1. \/ /\ log' = [log EXCEPT ![r] = WroteAt(log[r], "unassign", fd[Ticket(r)].rev + 1)]
           /\ Proceed(r, "clear_row") \/ Answer(r, "bad_unassign")
        \/ log' = log /\ Answer(r, "bad_unassign")
    BY <1>7 DEF UnassignTicket, Call
  <2>2. \A q \in Requests \ {r} : log'[q] = log[q]
    BY <1>2, <2>1 DEF TypeOK
  <2>3. /\ job' = job /\ Kind(r) = "handover"
        /\ "note" \in log[r].effects /\ "clear" \notin log[r].effects
    BY <1>2, <1>7 DEF UnassignTicket, Fits, Due, asked
  <2>4. CASE log' = log /\ Answer(r, "bad_unassign")
    BY <1>1, <2>2, <2>3, <2>4, OnTrack DEF Honest
  <2>5. CASE log' = [log EXCEPT ![r] = WroteAt(log[r], "unassign", fd[Ticket(r)].rev + 1)]
    <3>1. log'[r].effects = log[r].effects \cup {"unassign"}
      BY <1>2, <1>3, <2>5, Entries DEF TypeOK
    <3>2. CASE Proceed(r, "clear_row")
      BY <1>1, <2>2, <2>3, <3>1, <3>2, OnTrack DEF Due, Labels
    <3>3. CASE Answer(r, "bad_unassign")
      BY <1>1, <2>2, <2>3, <3>1, <3>3, OnTrack DEF Honest
    <3> QED
      BY <2>1, <3>2, <3>3
  <2> QED
    BY <2>1, <2>4, <2>5
<1>8. CASE ClearState(r)
  <2>1. log' = log \/ log' = [log EXCEPT ![r] = With(log[r], "clear")]
    BY <1>2, <1>8 DEF ClearState, Achieve
  <2>2. /\ log[r].effects \subseteq log'[r].effects
        /\ \A q \in Requests \ {r} : log'[q] = log[q]
    BY <1>2, <1>3, <2>1, Entries DEF TypeOK
  <2> QED
    BY <1>1, <1>2, <1>8, <2>2, OnTrack DEF ClearState, Fits, Due, Labels, asked
<1>9. CASE SetStatus(r)
  <2>1. \/ /\ log' = [log EXCEPT ![r] = WroteAt(log[r], "status", fd[Ticket(r)].rev + 1)]
           /\ Proceed(r, "del_ticket") \/ Answer(r, "bad")
        \/ log' = log /\ Answer(r, "bad")
    BY <1>9 DEF SetStatus, Call
  <2>2. \A q \in Requests \ {r} : log'[q] = log[q]
    BY <1>2, <2>1 DEF TypeOK
  <2>3. job' = job /\ Kind(r) = "status"
    BY <1>2, <1>9 DEF SetStatus, Fits, asked
  <2>4. CASE Answer(r, "bad")
    BY <1>1, <2>2, <2>3, <2>4, OnTrack DEF Honest
  <2>5. CASE /\ log' = [log EXCEPT ![r] = WroteAt(log[r], "status", fd[Ticket(r)].rev + 1)]
             /\ Proceed(r, "del_ticket")
    <3>1. log'[r].effects = log[r].effects \cup {"status"}
      BY <1>2, <1>3, <2>5, Entries DEF TypeOK
    <3> QED
      BY <1>1, <2>2, <2>3, <2>5, <3>1, OnTrack DEF Due, Labels
  <2> QED
    BY <2>1, <2>4, <2>5
<1>10. CASE DelConvs(r)
  BY <1>1, <1>2, <1>10, OnTrack DEF DelConvs, Fits, Due, Honest, Labels, asked
<1>11. CASE DelTicket(r)
  BY <1>1, <1>2, <1>11, OnTrack DEF DelTicket, Fits, Due, Honest, Labels, asked
<1> QED
  BY <1>4, <1>5, <1>6, <1>7, <1>8, <1>9, <1>10, <1>11 DEF WriteStep

LEMMA ReadEInv ==
  ASSUME NEW r \in Requests, TInv, EInv, ReadStep(r)
  PROVE  EInv'
<1>1. InProgress(r)
  BY DEF InProgress, ReadStep, LookTicket, FetchTicket, StoreTicket, LookConvs,
     FetchConvs, StoreConvs, LookDash, FilterMine, UseStale, FilterUnassigned, StoreDash,
     ListRows, NextUpdater, AskAgain, ShowBoard, FlushCache
<1>2. TypeOK /\ Fits(pc[r], Kind(r)) /\ Due(pc[r], Kind(r), log[r].effects)
  BY <1>1, ThisRequest DEF TInv, EInv, Tracked, InProgress
<1>3. log[r] \in Log
  BY <1>2 DEF TypeOK
<1>4. CASE LookTicket(r)
  BY <1>1, <1>2, <1>4, OnTrack DEF LookTicket, Fits, Due, Honest, Labels, asked
<1>5. CASE FetchTicket(r)
  BY <1>1, <1>2, <1>5, OnTrack DEF FetchTicket, Fits, Due, Honest, Labels, asked
<1>6. CASE StoreTicket(r)
  BY <1>1, <1>2, <1>6, OnTrack DEF StoreTicket, Fits, Due, Honest, Labels, asked
<1>7. CASE LookConvs(r)
  BY <1>1, <1>2, <1>7, OnTrack DEF LookConvs, Fits, Due, Honest, Labels, asked, Converse
<1>8. CASE FetchConvs(r)
  BY <1>1, <1>2, <1>8, OnTrack DEF FetchConvs, Fits, Due, Honest, Labels, asked, Converse
<1>9. CASE StoreConvs(r)
  BY <1>1, <1>2, <1>9, OnTrack DEF StoreConvs, Fits, Due, Honest, Labels, asked, Converse
<1>10. CASE LookDash(r)
  BY <1>1, <1>2, <1>10, OnTrack DEF LookDash, Fits, Due, Honest, Labels, asked
<1>11. CASE FilterMine(r)
  BY <1>1, <1>2, <1>11, OnTrack DEF FilterMine, Fits, Due, Honest, Labels, asked
<1>12. CASE UseStale(r)
  BY <1>1, <1>2, <1>12, OnTrack DEF UseStale, Fits, Due, Honest, Labels, asked
<1>13. CASE FilterUnassigned(r)
  BY <1>1, <1>2, <1>13, OnTrack DEF FilterUnassigned, Fits, Due, Honest, Labels, asked
<1>14. CASE StoreDash(r)
  BY <1>1, <1>2, <1>14, OnTrack DEF StoreDash, Fits, Due, Honest, Labels, asked
<1>15. CASE ListRows(r)
  BY <1>1, <1>2, <1>15, OnTrack DEF ListRows, Fits, Due, Honest, Labels, asked
<1>16. CASE NextUpdater(r)
  BY <1>1, <1>2, <1>16, OnTrack DEF NextUpdater, Fits, Due, Honest, Labels, asked
<1>17. CASE AskAgain(r)
  BY <1>1, <1>2, <1>17, OnTrack DEF AskAgain, Fits, Due, Honest, Labels, asked
<1>18. CASE ShowBoard(r)
  BY <1>1, <1>2, <1>18, OnTrack DEF ShowBoard, Fits, Due, Honest, Labels, asked
<1>19. CASE FlushCache(r)
  BY <1>1, <1>2, <1>19, OnTrack DEF FlushCache, Fits, Due, Honest, Labels, asked
<1> QED
  BY <1>4, <1>5, <1>6, <1>7, <1>8, <1>9, <1>10, <1>11, <1>12, <1>13, <1>14, <1>15, <1>16,
     <1>17, <1>18, <1>19 DEF ReadStep

LEMMA StartEInv ==
  ASSUME NEW r \in Requests, TInv, EInv, Start(r)
  PROVE  EInv'
<1> SUFFICES ASSUME NEW q \in Requests PROVE Tracked(q)'
  BY DEF EInv
<1>1. TypeOK /\ Tracked(q) /\ pc[r] = "idle"
  BY DEF TInv, EInv, Start
<1>2. CASE q # r
  <2>1. pc'[q] = pc[q] /\ resp'[q] = resp[q] /\ log'[q] = log[q] /\ job'[q] = job[q]
    BY <1>1, <1>2 DEF Start, TypeOK
  <2> QED
    BY <1>1, <2>1 DEF Tracked, Kind
<1>3. CASE q = r
  <2>1. PICK j \in Workload : job' = [job EXCEPT ![r] = j] /\ pc' = [pc EXCEPT ![r] = FirstStep(j.kind)]
    BY DEF Start
  <2>2. FirstStep(j.kind) \in {"load", "allow", "status_check", "agent", "ticket", "flush"}
    BY <2>1, WorkType DEF FirstStep, Kinds
  <2>3. pc'[r] = FirstStep(j.kind) /\ resp'[r] = "none"
    BY <1>1, <1>3, <2>1 DEF Start, TypeOK, Tracked
  <2>4. log'[r].effects = {}
    BY <1>1, <1>3 DEF Start, TypeOK, Log, Tracked
  <2> QED
    BY <1>3, <2>2, <2>3, <2>4 DEF Tracked, Due, Honest
<1> QED
  BY <1>2, <1>3

LEMMA AgentEInv ==
  ASSUME NEW r \in Requests, TInv, EInv, EnsureAgent(r) \/ AgentUnknown(r)
  PROVE  EInv'
<1>1. InProgress(r)
  BY DEF InProgress, EnsureAgent, AgentUnknown
<1>2. TypeOK /\ Fits(pc[r], Kind(r)) /\ Due(pc[r], Kind(r), log[r].effects)
  BY <1>1, ThisRequest DEF TInv, EInv, Tracked, InProgress
<1>3. CASE EnsureAgent(r)
  BY <1>1, <1>2, <1>3, OnTrack DEF EnsureAgent, Fits, Due, Honest, Labels, asked
<1>4. CASE AgentUnknown(r)
  <2>1. CASE Answer(r, "bad") /\ log' = log
    BY <1>1, <1>2, <1>4, <2>1, OnTrack DEF AgentUnknown, Fits, Honest, asked
  <2>2. CASE Proceed(r, "upsert") /\ Achieve(r, "failed")
    <3>1. \A q \in Requests \ {r} : log'[q] = log[q]
      BY <1>2, <2>2 DEF Achieve, TypeOK
    <3> QED
      BY <1>1, <1>2, <1>4, <2>2, <3>1, OnTrack DEF AgentUnknown, Fits, Due, Labels, asked
  <2> QED
    BY <1>4, <2>1, <2>2 DEF AgentUnknown
<1> QED
  BY <1>3, <1>4

LEMMA EnvironmentEInv ==
  ASSUME TInv, EInv, Environment
  PROVE  EInv'
<1>1. CASE UNCHANGED <<pc, job, resp, log>>
  BY <1>1 DEF EInv, Tracked, Kind
<1>2. CASE Restart
  <2> SUFFICES ASSUME NEW r \in Requests PROVE Tracked(r)'
    BY DEF EInv
  <2>1. job'[r] = job[r] /\ log'[r] = log[r]
    BY <1>2 DEF Restart, asked
  <2>2. \/ pc'[r] = pc[r] /\ resp'[r] = resp[r]
        \/ pc'[r] = "done" /\ resp'[r] = "unseen"
    BY <1>2 DEF Restart, InProgress, TInv, TypeOK
  <2> QED
    BY <2>1, <2>2 DEF EInv, Tracked, Due, Honest, Kind
<1> QED
  BY <1>1, <1>2 DEF Environment, DashExpires, OtherAgentWrites, ClientReplies, TicketExpires,
     ConvsExpire, WindowCloses, HangUp, asked

LEMMA NextEInv == TInv /\ EInv /\ [Next]_vars => EInv'
<1> SUFFICES ASSUME TInv, EInv, [Next]_vars PROVE EInv'
  OBVIOUS
<1>1. ASSUME NEW r \in Requests, Step(r) PROVE EInv'
  BY <1>1, StartEInv, AgentEInv, UpdateEInv, WriteEInv, ReadEInv DEF Step
<1>2. CASE UNCHANGED vars
  BY <1>2 DEF vars, EInv, Tracked, Kind
<1> QED
  BY <1>1, <1>2, EnvironmentEInv DEF Next

LEMMA Invariants == Spec => [](TInv /\ EInv)
  BY InitTInv, NextTInv, InitEInv, NextEInv, PTL DEF Spec

-----------------------------------------------------------------------------
(* A today edit is not written to the database before the ticket was       *)
(* assigned, found assigned, or the assignment given up.                   *)

(* What a request has achieved stays achieved. *)
LEMMA EffectsGrow ==
  ASSUME TInv, [Next]_vars, NEW p \in Requests, pc[p] # "idle"
  PROVE  /\ log[p].effects \subseteq log'[p].effects /\ log'[p].before = log[p].before
         /\ job'[p] = job[p]
<1>0. log \in [Requests -> Log]
  BY DEF TInv, TypeOK
<1>1. CASE Environment \/ UNCHANGED vars
  <2>1. log'[p] = log[p] /\ job'[p] = job[p]
    BY <1>1, Surroundings
  <2> QED
    BY <2>1
<1>2. ASSUME NEW r \in Requests, Step(r), p # r
      PROVE  log'[p] = log[p] /\ job'[p] = job[p]
  BY <1>2, StepAlone
<1>3. CASE Step(p)
  <2>1. ~Start(p)
    BY DEF Start
  <2>2. log[p].effects \subseteq log'[p].effects
    <3>1. CASE log' = log
      BY <3>1
    <3>2. CASE \E x : log' = [log EXCEPT ![p] = With(log[p], x)]
      BY <1>0, <3>2, Entries
    <3>3. CASE CreateNote(p) \/ UnassignTicket(p) \/ SetStatus(p)
      <4>1. \/ log' = log \/ \E n : log' = [log EXCEPT ![p] = NotedAt(log[p], n)]
            \/ \E x, n : log' = [log EXCEPT ![p] = WroteAt(log[p], x, n)]
        BY <3>3 DEF CreateNote, UnassignTicket, SetStatus
      <4> QED
        BY <1>0, <4>1, Entries
    <3>4. CASE EnsureAgent(p) \/ AgentUnknown(p) \/ ReadStep(p)
      BY <3>1, <3>2, <3>4 DEF EnsureAgent, AgentUnknown, ReadStep, LookTicket, FetchTicket,
         StoreTicket, LookConvs, FetchConvs, StoreConvs, LookDash, FilterMine, UseStale,
         FilterUnassigned, StoreDash, ListRows, NextUpdater, AskAgain, ShowBoard, FlushCache, Achieve
    <3>5. CASE UpdateStep(p)
      BY <3>1, <3>2, <3>5 DEF UpdateStep, LoadRow, SkipAssign, AssignTicket, DelDash, UpsertRow,
         CardFromBoard, CardFromFreshdesk, Achieve
    <3>6. CASE WriteStep(p)
      BY <3>1, <3>2, <3>3, <3>6 DEF WriteStep, CompareStatus, AllowWrite, ClearState,
         DelConvs, DelTicket, Achieve
    <3> QED
      BY <1>3, <2>1, <3>4, <3>5, <3>6 DEF Step
  <2> QED
    BY <1>3, <2>1, <2>2, LogStep, StepOf
<1> QED
  BY <1>1, <1>2, <1>3 DEF Next

(* Only the load puts a row into a handler's memory. *)
LEMMA RowStays ==
  ASSUME NEW r \in Requests, TInv, Step(r), ~Start(r), ~LoadRow(r)
  PROVE  mem'[r].row = mem[r].row
<1>0. mem \in [Requests -> Mem]
  BY DEF TInv, TypeOK
<1>1. CASE mem' = mem
  BY <1>1
<1>2. CASE \E x : mem' = [mem EXCEPT ![r].item = x]
  BY <1>0, <1>2, ItemKept
<1>3. CASE \E x : mem' = [mem EXCEPT ![r].n = x]
  BY <1>0, <1>3, ConvsKept
<1>4. CASE \E x : mem' = [mem EXCEPT ![r].want = x]
  BY <1>0, <1>4, WantKept
<1>5. CASE \E x : mem' = [mem EXCEPT ![r].list = x]
  BY <1>0, <1>5, ListKept
<1>6. CASE \E x, y : mem' = [mem EXCEPT ![r].pend = x, ![r].again = y]
  <2>1. PICK x, y : mem' = [mem EXCEPT ![r].pend = x, ![r].again = y]
    BY <1>6
  <2> QED
    BY <1>0, <2>1, PendKept
<1>7. CASE \E x, t : mem' = [mem EXCEPT ![r].pend = x, ![r].cur = t, ![r].n = None]
  <2>1. PICK x, t : mem' = [mem EXCEPT ![r].pend = x, ![r].cur = t, ![r].n = None]
    BY <1>7
  <2> QED
    BY <1>0, <2>1, TurnKept
<1>8. CASE EnsureAgent(r) \/ AgentUnknown(r) \/ WriteStep(r)
  BY <1>1, <1>8 DEF EnsureAgent, AgentUnknown, WriteStep, CompareStatus, AllowWrite,
     CreateNote, UnassignTicket, ClearState, SetStatus, DelConvs, DelTicket
<1>9. CASE UpdateStep(r)
  BY <1>1, <1>2, <1>9 DEF UpdateStep, SkipAssign, AssignTicket, DelDash, UpsertRow, CardFromBoard,
     CardFromFreshdesk
<1>10. CASE ReadStep(r)
  BY <1>1, <1>2, <1>3, <1>4, <1>5, <1>6, <1>7, <1>10 DEF ReadStep, LookTicket, FetchTicket,
     StoreTicket, LookConvs, FetchConvs, StoreConvs, LookDash, FilterMine, UseStale,
     FilterUnassigned, StoreDash, ListRows, NextUpdater, AskAgain, ShowBoard, FlushCache
<1> QED
  BY <1>8, <1>9, <1>10 DEF Step

\* What became of the assignment.
Tried(effects) == "assign" \in effects \/ "found" \in effects \/ "failed" \in effects

Early == {"idle", "load", "assign_agent", "skip", "assign", "done"}

AssignmentTried(r) ==
    MarksToday(r) /\ (resp[r] = "ok" \/ pc[r] \notin Early) => Tried(log[r].effects)

AInv == \A r \in Requests : AssignmentTried(r)

LEMMA InitAInv == Init => AInv
  BY DEF Init, AInv, AssignmentTried, Early

LEMMA StepAInv ==
  ASSUME NEW r \in Requests, TInv, EInv, AInv, Step(r)
  PROVE  AssignmentTried(r)'
<1>0. /\ pc \in [Requests -> Labels] /\ resp \in [Requests -> Responses]
      /\ log \in [Requests -> Log] /\ mem \in [Requests -> Mem]
  BY DEF TInv, TypeOK
<1>1. pc[r] # "done" /\ resp[r] = "none" /\ AssignmentTried(r)
  BY StepOf DEF EInv, AInv, Tracked
<1>2. CASE Start(r)
  <2>1. PICK j \in Workload : job' = [job EXCEPT ![r] = j] /\ pc' = [pc EXCEPT ![r] = FirstStep(j.kind)]
    BY <1>2 DEF Start
  <2>2. resp' = resp
    BY <1>2 DEF Start
  <2>3. job \in [Requests -> Job \cup {None}]
    BY DEF TInv, TypeOK
  <2> QED
    BY <1>0, <1>1, <2>1, <2>2, <2>3 DEF AssignmentTried, MarksToday, Kind, FirstStep, Early
<1>3. ASSUME ~Start(r), Kind(r) = "update" PROVE AssignmentTried(r)'
  <2>0. job' = job /\ pc[r] # "idle" /\ Fits(pc[r], "update") /\ log[r] \in Log
    BY <1>0, <1>3, StepOf, ThisRequest DEF InProgress
  <2>1. log[r].effects \subseteq log'[r].effects
    BY <2>0, EffectsGrow DEF Next
  <2>2. CASE LoadRow(r)
    <3>1. CASE Answer(r, "bad")
      BY <1>0, <3>1 DEF Answer, AssignmentTried, Early
    <3>2. CASE /\ mem' = [mem EXCEPT ![r].row = Edit(job[r].edit, RowOf(rows, Ticket(r)))]
               /\ Proceed(r, IF TurnsTodayOn(job[r].edit, RowOf(rows, Ticket(r)))
                             THEN "assign_agent" ELSE "upsert")
      <4> DEFINE row == RowOf(rows, Ticket(r))
      <4>1. mem'[r].row = Edit(job[r].edit, row) /\ resp'[r] = "none"
            /\ pc'[r] = IF TurnsTodayOn(job[r].edit, row) THEN "assign_agent" ELSE "upsert"
        BY <1>0, <1>1, <3>2, RowKept DEF Proceed
      <4>2. CASE TurnsTodayOn(job[r].edit, row)
        BY <4>1, <4>2 DEF AssignmentTried, Early
      <4>3. CASE ~TurnsTodayOn(job[r].edit, row) /\ job[r].edit.field = "today"
        <5>1. mem'[r].row = [row EXCEPT !.today = FALSE]
          BY <4>1, <4>3 DEF Edit, SetToday
        <5>2. row \in Row
          BY <2>0, <1>3, ThisRequest DEF RowOf, DefaultRow, Row, TInv, TypeOK
        <5>3. mem'[r].row.today = FALSE
          BY <5>1, <5>2 DEF Row
        <5> QED
          BY <5>3 DEF AssignmentTried, MarksToday
      <4>4. CASE job[r].edit.field # "today"
        BY <2>0, <4>4 DEF AssignmentTried, MarksToday
      <4> QED
        BY <4>2, <4>3, <4>4
    <3> QED
      BY <2>2, <3>1, <3>2 DEF LoadRow
  <2>3. CASE ~LoadRow(r)
    <3>1. MarksToday(r)' => MarksToday(r)
      BY <2>0, <2>3, <1>3, RowStays DEF MarksToday, Kind
    <3>2. CASE pc[r] \notin Early
      BY <1>1, <2>1, <3>1, <3>2 DEF AssignmentTried, Tried
    <3>3. CASE EnsureAgent(r) /\ pc[r] = "assign_agent"
      BY <1>0, <1>1, <3>3 DEF EnsureAgent, Proceed, AssignmentTried, Early
    <3>4. CASE AgentUnknown(r) /\ pc[r] = "assign_agent"
      <4>1. "failed" \in log'[r].effects
        BY <1>0, <2>0, <3>4, Entries DEF AgentUnknown, Achieve
      <4> QED
        BY <4>1 DEF AssignmentTried, Tried
    <3>5. CASE SkipAssign(r)
      <4>1. CASE Proceed(r, "assign")
        BY <1>0, <1>1, <4>1 DEF Proceed, AssignmentTried, Early
      <4>2. CASE Achieve(r, "found")
        <5>1. "found" \in log'[r].effects
          BY <1>0, <2>0, <4>2, Entries DEF Achieve
        <5> QED
          BY <5>1 DEF AssignmentTried, Tried
      <4> QED
        BY <3>5, <4>1, <4>2 DEF SkipAssign
    <3>6. CASE AssignTicket(r)
      <4>1. Achieve(r, "assign") \/ Achieve(r, "failed")
        BY <3>6 DEF AssignTicket
      <4>2. "assign" \in log'[r].effects \/ "failed" \in log'[r].effects
        BY <1>0, <2>0, <4>1, Entries DEF Achieve
      <4> QED
        BY <4>2 DEF AssignmentTried, Tried
    <3>7. pc[r] \in Early => \/ EnsureAgent(r) \/ AgentUnknown(r) \/ SkipAssign(r) \/ AssignTicket(r)
      <4>1. pc[r] \in Early => pc[r] \in {"load", "assign_agent", "skip", "assign"}
        BY <1>1, <2>0 DEF Early
      <4>2. ReadStep(r) \/ WriteStep(r) => pc[r] \notin {"load", "assign_agent", "skip", "assign"}
        BY DEF ReadStep, LookTicket, FetchTicket, StoreTicket, LookConvs, FetchConvs, StoreConvs,
           LookDash, FilterMine, UseStale, FilterUnassigned, StoreDash, ListRows, NextUpdater,
           AskAgain, ShowBoard, FlushCache, WriteStep, CompareStatus, AllowWrite, CreateNote,
           UnassignTicket, ClearState, SetStatus, DelConvs, DelTicket
      <4>3. DelDash(r) \/ UpsertRow(r) \/ CardFromBoard(r) \/ CardFromFreshdesk(r) =>
               pc[r] \notin {"load", "assign_agent", "skip", "assign"}
        BY DEF DelDash, UpsertRow, CardFromBoard, CardFromFreshdesk
      <4> QED
        BY <1>3, <2>3, <4>1, <4>2, <4>3 DEF Step, UpdateStep
    <3>8. EnsureAgent(r) \/ AgentUnknown(r) => pc[r] = "assign_agent"
      BY <2>0 DEF EnsureAgent, AgentUnknown, Fits
    <3> QED
      BY <3>2, <3>3, <3>4, <3>5, <3>6, <3>7, <3>8
  <2> QED
    BY <2>2, <2>3
<1>4. ASSUME ~Start(r), Kind(r) # "update" PROVE AssignmentTried(r)'
  <2>1. job' = job
    BY <1>4, StepOf
  <2> QED
    BY <1>4, <2>1 DEF AssignmentTried, MarksToday, Kind
<1> QED
  BY <1>2, <1>3, <1>4

LEMMA NextAInv == TInv /\ EInv /\ AInv /\ [Next]_vars => AInv'
<1> SUFFICES ASSUME TInv, EInv, AInv, [Next]_vars, NEW q \in Requests PROVE AssignmentTried(q)'
  BY DEF AInv
<1>1. CASE Environment \/ UNCHANGED vars
  BY <1>1, Surroundings DEF AInv, AssignmentTried, MarksToday, Kind, Early
<1>2. ASSUME NEW r \in Requests, Step(r) PROVE AssignmentTried(q)'
  <2>1. CASE q # r
    <3>1. /\ pc'[q] = pc[q] /\ job'[q] = job[q] /\ resp'[q] = resp[q]
          /\ mem'[q] = mem[q] /\ log'[q] = log[q]
      BY <1>2, <2>1, StepAlone
    <3> QED
      BY <3>1 DEF AInv, AssignmentTried, MarksToday, Kind
  <2> QED
    BY <1>2, <2>1, StepAInv
<1> QED
  BY <1>1, <1>2 DEF Next

(* A note or a handover answered "ok" is on Freshdesk, a status was set or *)
(* was the one the cache had, an edit is in the database; a today edit has *)
(* been assigned, was ours on the cached board, or its assignment was      *)
(* tried and failed without the client being told (state.go:63-65).  A     *)
(* rate-limited request has done nothing; and "Note was added but failed   *)
(* to unassign ticket" is true when it is said (ticket.go:435-439).        *)
THEOREM Answering == Spec => []AnswersTrue
<1>1. EInv /\ AInv => AnswersTrue
  <2> SUFFICES ASSUME EInv, AInv, NEW r \in Requests
               PROVE  /\ Honest(resp[r], Kind(r), log[r].effects)
                      /\ AssignmentTried(r)
    BY DEF AnswersTrue, Honest, AssignmentTried, Tried
  <2> QED
    BY DEF EInv, Tracked, AInv
<1> QED
  BY Invariants, InitAInv, NextAInv, <1>1, PTL DEF Spec

(* As long as no answer of Freshdesk is lost, a note or a handover that    *)
(* was answered with the plain 500 has changed nothing, so it can be       *)
(* repeated.                                                               *)
THEOREM Retrying ==
  ASSUME "lost" \notin Faults
  PROVE  Spec => []FailureMeansNothing
<1>1. EInv => FailureMeansNothing
  BY DEF EInv, Tracked, Honest, FailureMeansNothing
<1> QED
  BY Invariants, <1>1, PTL

-----------------------------------------------------------------------------
(* Which steps touch the rows. *)

LEMMA RowsKept ==
  ASSUME Next, \A r \in Requests : ~ClearState(r) /\ ~UpsertRow(r)
  PROVE  UNCHANGED rows
<1>1. ASSUME NEW r \in Requests, Start(r) \/ EnsureAgent(r) \/ AgentUnknown(r)
      PROVE  UNCHANGED rows
  BY <1>1 DEF Start, EnsureAgent, AgentUnknown
<1>2. ASSUME NEW r \in Requests, UpdateStep(r)
      PROVE  UNCHANGED rows
  BY <1>2 DEF UpdateStep, LoadRow, SkipAssign, AssignTicket, DelDash, CardFromBoard,
     CardFromFreshdesk
<1>3. ASSUME NEW r \in Requests, WriteStep(r)
      PROVE  UNCHANGED rows
  BY <1>3 DEF WriteStep, CompareStatus, AllowWrite, CreateNote, UnassignTicket, SetStatus,
     DelConvs, DelTicket
<1>4. ASSUME NEW r \in Requests, ReadStep(r)
      PROVE  UNCHANGED rows
  BY <1>4 DEF ReadStep, LookTicket, FetchTicket, StoreTicket, LookConvs, FetchConvs,
     StoreConvs, LookDash, FilterMine, UseStale, FilterUnassigned, StoreDash, ListRows,
     NextUpdater, AskAgain, ShowBoard, FlushCache
<1>5. CASE Environment
  BY <1>5 DEF Environment, Restart, DashExpires, OtherAgentWrites, ClientReplies,
     TicketExpires, ConvsExpire, WindowCloses, HangUp
<1> QED
  BY <1>1, <1>2, <1>3, <1>4, <1>5 DEF Next, Step

(* Local state disappears only in a handover whose note is on Freshdesk    *)
(* and whose ticket has been unassigned there (ticket.go:427-446).         *)
THEOREM Clearing == Spec => ClearedOnlyByHandover
<1> DEFINE Cleared(t) ==
      rows[t] # None /\ rows'[t] = None =>
         \E r \in Requests : /\ pc[r] = "clear_row" /\ pc'[r] # pc[r]
                             /\ Kind(r) = "handover" /\ Ticket(r) = t
                             /\ {"note", "unassign"} \subseteq log[r].effects
<1>1. ASSUME TInv, EInv, [Next]_vars, NEW t \in Tickets
      PROVE  Cleared(t)
  <2> SUFFICES ASSUME rows[t] # None, rows'[t] = None
               PROVE  \E r \in Requests : /\ pc[r] = "clear_row" /\ pc'[r] # pc[r]
                                          /\ Kind(r) = "handover" /\ Ticket(r) = t
                                          /\ {"note", "unassign"} \subseteq log[r].effects
    OBVIOUS
  <2>1. TypeOK /\ Next
    BY <1>1 DEF TInv, vars
  <2>2. ASSUME NEW r \in Requests, UpsertRow(r) PROVE FALSE
    <3>1. InProgress(r) /\ Kind(r) = "update"
      BY <1>1, <2>2, ThisRequest DEF UpsertRow, InProgress, Fits
    <3>2. mem[r].row \in Row
      BY <1>1, <2>2, <3>1 DEF UpsertRow, TInv, RowLoaded, Loading
    <3> QED
      BY <2>1, <2>2, <3>2, NoRowAssumption DEF UpsertRow, TypeOK
  <2>3. PICK r \in Requests : ClearState(r)
    BY <2>1, <2>2, RowsKept
  <2>4. Ticket(r) = t
    BY <2>1, <2>3 DEF ClearState, TypeOK
  <2>5. pc[r] = "clear_row" /\ pc'[r] # pc[r]
    BY <2>1, <2>3 DEF ClearState, Proceed, TypeOK
  <2>6. Kind(r) = "handover" /\ {"note", "unassign"} \subseteq log[r].effects
    BY <1>1, <2>5, ThisRequest DEF Fits, EInv, Tracked, Due
  <2> QED
    BY <2>4, <2>5, <2>6
<1>2. TInv /\ EInv /\ [Next]_vars => [\A t \in Tickets : Cleared(t)]_vars
  BY <1>1
<1> QED
  BY Invariants, <1>2, PTL DEF Spec, ClearedOnlyByHandover

-----------------------------------------------------------------------------
(* What the cache and the boards hold is a past state of the ticket it is  *)
(* about, whatever requests overlap and whatever fails.  The argument:     *)
(* Freshdesk only moves forward, so what was a past state stays one; and   *)
(* every fill, look-up and merge only passes past states on.               *)


Past(f, i) == /\ i.t \in Tickets
              /\ i.rev <= f[i.t].rev
              /\ i.rev = f[i.t].rev => i = f[i.t]

PastTicket(f, t, i) == i # None => i.t = t /\ Past(f, i)
PastConvs(c, t, n) == n # None => n <= c[t]
PastList(f, list) == (\A i \in list : Past(f, i)) /\ OnePerTicket(list)
PastMem(f, c, t, m) ==
    PastTicket(f, t, m.item) /\ PastConvs(c, m.cur, m.n) /\ PastList(f, m.list)

CachesPast ==
    /\ \A t \in Tickets : PastTicket(fd, t, tcache[t]) /\ PastConvs(convs, t, ccache[t])
    /\ dcache # None => PastList(fd, dcache.list)

MemsPast == \A r \in Requests : PastMem(fd, convs, Ticket(r), mem[r])

CInv == (\A t \in Tickets : fd[t].t = t) /\ CachesPast /\ MemsPast

-----------------------------------------------------------------------------
(* Freshdesk moves forward. *)

Forward(f, g) == \A t \in Tickets : g[t] = f[t] \/ g[t].rev > f[t].rev

LEMMA PastKept ==
  ASSUME NEW f \in [Tickets -> Item], NEW g \in [Tickets -> Item], Forward(f, g),
         NEW i \in Item, Past(f, i)
  PROVE  Past(g, i)
<1>1. i.t \in Tickets /\ i.rev \in Nat /\ f[i.t].rev \in Nat /\ g[i.t].rev \in Nat
  BY DEF Past, Item
<1>2. g[i.t] = f[i.t] \/ g[i.t].rev > f[i.t].rev
  BY <1>1 DEF Forward
<1>3. CASE g[i.t] = f[i.t]
  BY <1>3 DEF Past
<1>4. CASE g[i.t].rev > f[i.t].rev
  BY <1>1, <1>4 DEF Past
<1> QED
  BY <1>2, <1>3, <1>4

LEMMA PastListKept ==
  ASSUME NEW f \in [Tickets -> Item], NEW g \in [Tickets -> Item], Forward(f, g),
         NEW list \in SUBSET Item, PastList(f, list)
  PROVE  PastList(g, list)
  BY PastKept DEF PastList

LEMMA PastTicketKept ==
  ASSUME NEW f \in [Tickets -> Item], NEW g \in [Tickets -> Item], Forward(f, g),
         NEW t \in Tickets, NEW i \in Item \cup {None}, PastTicket(f, t, i)
  PROVE  PastTicket(g, t, i)
  BY PastKept DEF PastTicket

LEMMA PastConvsKept ==
  ASSUME NEW c \in [Tickets -> Nat], NEW d \in [Tickets -> Nat],
         \A t \in Tickets : c[t] <= d[t],
         NEW t \in Tickets, NEW n \in Nat \cup {None}, PastConvs(c, t, n)
  PROVE  PastConvs(d, t, n)
<1>1. CASE n = None
  BY <1>1 DEF PastConvs
<1>2. CASE n # None
  <2>1. n \in Nat /\ c[t] \in Nat /\ d[t] \in Nat /\ n <= c[t] /\ c[t] <= d[t]
    BY <1>2 DEF PastConvs
  <2> QED
    BY <2>1 DEF PastConvs
<1> QED
  BY <1>1, <1>2

LEMMA WrittenForward ==
  ASSUME fd \in [Tickets -> Item], NEW t \in Tickets, NEW who \in Responders, NEW s \in Statuses,
         \A u \in Tickets : fd[u].t = u
  PROVE  /\ Forward(fd, Written(t, who, s))
         /\ \A u \in Tickets : Written(t, who, s)[u].t = u
<1>1. fd[t].rev \in Nat
  BY DEF Item
<1>2. Written(t, who, s)[t].rev = fd[t].rev + 1 /\ Written(t, who, s)[t].t = t
  BY DEF Written
<1>3. \A u \in Tickets \ {t} : Written(t, who, s)[u] = fd[u]
  BY DEF Written
<1> QED
  BY <1>1, <1>2, <1>3 DEF Forward

-----------------------------------------------------------------------------
(* The three kinds of step: Freshdesk moves, a handler reads, the cache    *)
(* changes.                                                                *)

LEMMA FreshdeskMoves ==
  ASSUME TInv, CInv, TInv', UNCHANGED <<tcache, ccache, dcache, mem, job>>,
         Forward(fd, fd'), \A t \in Tickets : fd'[t].t = t,
         \A t \in Tickets : convs[t] <= convs'[t]
  PROVE  CInv'
<1>1. /\ fd \in [Tickets -> Item] /\ fd' \in [Tickets -> Item]
      /\ convs \in [Tickets -> Nat] /\ convs' \in [Tickets -> Nat]
      /\ tcache \in [Tickets -> Item \cup {None}] /\ ccache \in [Tickets -> Nat \cup {None}]
      /\ dcache # None => dcache.list \in SUBSET Item
  BY DEF TInv, TypeOK
<1>2. CachesPast'
  <2>1. ASSUME NEW t \in Tickets
        PROVE  PastTicket(fd', t, tcache[t]) /\ PastConvs(convs', t, ccache[t])
    <3>1. PastTicket(fd, t, tcache[t]) /\ PastConvs(convs, t, ccache[t])
      BY DEF CInv, CachesPast
    <3> QED
      BY <1>1, <3>1, PastTicketKept, PastConvsKept
  <2>2. dcache # None => PastList(fd', dcache.list)
    BY <1>1, PastListKept DEF CInv, CachesPast
  <2> QED
    BY <2>1, <2>2 DEF CachesPast
<1>3. MemsPast'
  <2>1. ASSUME NEW r \in Requests
        PROVE  PastMem(fd', convs', Ticket(r), mem[r])
    <3>0. mem[r] \in Mem
      BY DEF TInv, TypeOK
    <3>1. PastMem(fd, convs, Ticket(r), mem[r])
      BY DEF CInv, MemsPast
    <3>2. /\ mem[r].item \in Item \cup {None} /\ mem[r].n \in Nat \cup {None}
          /\ mem[r].list \in SUBSET Item /\ mem[r].cur \in Tickets
      BY <3>0, MemType
    <3>3. PastTicket(fd', Ticket(r), mem[r].item)
      BY <1>1, <3>1, <3>2, PastKept DEF PastMem, PastTicket
    <3>4. PastConvs(convs', mem[r].cur, mem[r].n)
      BY <1>1, <3>1, <3>2, PastConvsKept DEF PastMem
    <3>5. PastList(fd', mem[r].list)
      BY <1>1, <3>1, <3>2, PastListKept DEF PastMem
    <3> QED
      BY <3>3, <3>4, <3>5 DEF PastMem
  <2> QED
    BY <2>1 DEF MemsPast, Ticket
<1> QED
  BY <1>2, <1>3 DEF CInv

LEMMA HandlerReads ==
  ASSUME TInv, CInv, UNCHANGED <<fd, convs, tcache, ccache, dcache>>,
         NEW r \in Requests, NEW m, mem' = [mem EXCEPT ![r] = m],
         job' = job, PastMem(fd, convs, Ticket(r), m)
  PROVE  CInv'
<1>1. mem'[r] = m /\ \A q \in Requests \ {r} : mem'[q] = mem[q]
  BY DEF TInv, TypeOK
<1>2. MemsPast'
  BY <1>1 DEF CInv, MemsPast, Ticket
<1> QED
  BY <1>2 DEF CInv, CachesPast

LEMMA CacheChanges ==
  ASSUME CInv, UNCHANGED <<fd, convs, mem, job>>, CachesPast'
  PROVE  CInv'
  BY DEF CInv, MemsPast, Ticket

-----------------------------------------------------------------------------
(* Lists of tickets. *)

LEMMA NowIsPast ==
  ASSUME TInv, CInv, NEW t \in Tickets
  PROVE  fd[t] \in Item /\ fd[t].t = t /\ Past(fd, fd[t])
<1>1. fd[t] \in Item /\ fd[t].t = t
  BY DEF TInv, TypeOK, CInv
<1> QED
  BY <1>1 DEF Past, Item

LEMMA MatchingPast ==
  ASSUME TInv, CInv, NEW r \in Requests, NEW who, NEW batch \in SUBSET Matching(r, who)
  PROVE  PastList(fd, batch)
<1>1. \A i \in batch : \E t \in Tickets : i = fd[t]
  BY DEF Matching
<1>2. \A i \in batch : Past(fd, i) /\ i = fd[i.t]
  BY <1>1, NowIsPast
<1> QED
  BY <1>2 DEF PastList, OnePerTicket

(* The merge keeps the first list's version of a ticket in both.           *)
LEMMA MergedPast ==
  ASSUME NEW list, NEW batch, PastList(fd, list), PastList(fd, batch)
  PROVE  PastList(fd, Merged(list, batch))
<1>1. \A i \in Merged(list, batch) : Past(fd, i)
  BY DEF Merged, PastList
<1>2. OnePerTicket(Merged(list, batch))
  BY DEF Merged, PastList, OnePerTicket
<1> QED
  BY <1>1, <1>2 DEF PastList

(* What changes of a handler's memory, field by field.                     *)
LEMMA ItemRead ==
  ASSUME TInv, CInv, NEW r \in Requests, NEW i, PastTicket(fd, Ticket(r), i),
         UNCHANGED <<fd, convs, tcache, ccache, dcache, job>>,
         mem' = [mem EXCEPT ![r].item = i]
  PROVE  CInv'
<1> DEFINE m == [mem[r] EXCEPT !.item = i]
<1>1. mem[r] \in Mem /\ PastMem(fd, convs, Ticket(r), mem[r])
  BY DEF TInv, TypeOK, CInv, MemsPast
<1>2. m.item = i /\ m.n = mem[r].n /\ m.cur = mem[r].cur /\ m.list = mem[r].list
  BY <1>1 DEF Mem
<1>3. mem' = [mem EXCEPT ![r] = m]
  OBVIOUS
<1>4. PastMem(fd, convs, Ticket(r), m)
  BY <1>1, <1>2 DEF PastMem
<1> HIDE DEF m
<1> QED
  BY <1>3, <1>4, HandlerReads

LEMMA ListRead ==
  ASSUME TInv, CInv, NEW r \in Requests, NEW list, PastList(fd, list),
         UNCHANGED <<fd, convs, tcache, ccache, dcache, job>>,
         mem' = [mem EXCEPT ![r].list = list]
  PROVE  CInv'
<1> DEFINE m == [mem[r] EXCEPT !.list = list]
<1>1. mem[r] \in Mem /\ PastMem(fd, convs, Ticket(r), mem[r])
  BY DEF TInv, TypeOK, CInv, MemsPast
<1>2. m.item = mem[r].item /\ m.n = mem[r].n /\ m.cur = mem[r].cur /\ m.list = list
  BY <1>1 DEF Mem
<1>3. mem' = [mem EXCEPT ![r] = m]
  OBVIOUS
<1>4. PastMem(fd, convs, Ticket(r), m)
  BY <1>1, <1>2 DEF PastMem
<1> HIDE DEF m
<1> QED
  BY <1>3, <1>4, HandlerReads

LEMMA ConvsRead ==
  ASSUME TInv, CInv, NEW r \in Requests, NEW n, PastConvs(convs, mem[r].cur, n),
         UNCHANGED <<fd, convs, tcache, ccache, dcache, job>>,
         mem' = [mem EXCEPT ![r].n = n]
  PROVE  CInv'
<1> DEFINE m == [mem[r] EXCEPT !.n = n]
<1>1. mem[r] \in Mem /\ PastMem(fd, convs, Ticket(r), mem[r])
  BY DEF TInv, TypeOK, CInv, MemsPast
<1>2. m.item = mem[r].item /\ m.n = n /\ m.cur = mem[r].cur /\ m.list = mem[r].list
  BY <1>1 DEF Mem
<1>3. mem' = [mem EXCEPT ![r] = m]
  OBVIOUS
<1>4. PastMem(fd, convs, Ticket(r), m)
  BY <1>1, <1>2 DEF PastMem
<1> HIDE DEF m
<1> QED
  BY <1>3, <1>4, HandlerReads

LEMMA NothingRead ==
  ASSUME CInv, UNCHANGED <<fd, convs, tcache, ccache, dcache, job, mem>>
  PROVE  CInv'
  BY DEF CInv, CachesPast, MemsPast, Ticket

-----------------------------------------------------------------------------
(* The actions. *)

LEMMA InitCInv == Init => CInv
<1> SUFFICES ASSUME Init PROVE CInv
  OBVIOUS
<1>1. \A t \in Tickets : fd[t].t = t
  BY DeskAssumption DEF Init
<1>2. CachesPast
  BY DEF Init, CachesPast, PastTicket, PastConvs
<1>3. MemsPast
  BY DEF Init, MemsPast, EmptyMem, PastMem, PastTicket, PastConvs, PastList, OnePerTicket
<1> QED
  BY <1>1, <1>2, <1>3 DEF CInv

LEMMA StartCInv ==
  ASSUME NEW r \in Requests, TInv, CInv, Start(r)
  PROVE  CInv'
<1>1. PICK j \in Workload : job' = [job EXCEPT ![r] = j] /\ mem' = [mem EXCEPT ![r] = EmptyMem(j.t)]
  BY DEF Start
<1>2. /\ job'[r] = j /\ mem'[r] = EmptyMem(j.t)
      /\ \A q \in Requests \ {r} : job'[q] = job[q] /\ mem'[q] = mem[q]
  BY <1>1 DEF TInv, TypeOK
<1>3. UNCHANGED <<fd, convs, tcache, ccache, dcache>>
  BY DEF Start, freshdesk, caches
<1>4. PastMem(fd, convs, j.t, EmptyMem(j.t))
  BY DEF EmptyMem, PastMem, PastTicket, PastConvs, PastList, OnePerTicket
<1>5. MemsPast'
  BY <1>2, <1>3, <1>4 DEF CInv, MemsPast, Ticket
<1> QED
  BY <1>3, <1>5 DEF CInv, CachesPast

LEMMA UpdateCInv ==
  ASSUME NEW r \in Requests, TInv, CInv, TInv', UpdateStep(r)
  PROVE  CInv'
<1>0. pc[r] # "idle"
  BY DEF UpdateStep, LoadRow, SkipAssign, AssignTicket, DelDash, UpsertRow, CardFromBoard,
     CardFromFreshdesk
<1>1. TypeOK /\ Ticket(r) \in Tickets /\ mem[r] \in Mem
  BY <1>0, ThisRequest DEF TInv
<1>2. CASE LoadRow(r)
  <2>1. UNCHANGED <<fd, convs, tcache, ccache, dcache, job>>
    BY <1>2 DEF LoadRow, freshdesk, caches, asked
  <2>2. CASE mem' = mem
    BY <2>1, <2>2, NothingRead
  <2>3. ASSUME NEW row, mem' = [mem EXCEPT ![r].row = row]
        PROVE  CInv'
    <3> DEFINE m == [mem[r] EXCEPT !.row = row]
    <3>1. m.item = mem[r].item /\ m.n = mem[r].n /\ m.cur = mem[r].cur /\ m.list = mem[r].list
      BY <1>1 DEF Mem
    <3>2. mem' = [mem EXCEPT ![r] = m]
      BY <2>3
    <3>3. PastMem(fd, convs, Ticket(r), m)
      BY <3>1 DEF CInv, MemsPast, PastMem
    <3> HIDE DEF m
    <3> QED
      BY <2>1, <3>2, <3>3, HandlerReads
  <2> QED
    BY <1>2, <2>2, <2>3 DEF LoadRow
<1>3. CASE SkipAssign(r)
  BY <1>3, NothingRead DEF SkipAssign, freshdesk, caches, asked
<1>4. CASE AssignTicket(r)
  <2>1. UNCHANGED <<convs, tcache, ccache, dcache, mem, job>>
    BY <1>4 DEF AssignTicket, caches, asked
  <2>2. fd' = fd \/ fd' = Written(Ticket(r), Me, fd[Ticket(r)].status)
    BY <1>4 DEF AssignTicket
  <2>3. Forward(fd, fd') /\ \A t \in Tickets : fd'[t].t = t
    BY <1>1, <2>2, WrittenForward, FdHas, AgentTypes DEF TypeOK, CInv, Forward
  <2>4. \A t \in Tickets : convs[t] <= convs'[t]
    BY <1>1, <2>1 DEF TypeOK
  <2> QED
    BY <2>1, <2>3, <2>4, FreshdeskMoves
<1>5. CASE DelDash(r)
  BY <1>5, CacheChanges DEF DelDash, CInv, CachesPast, freshdesk, asked
<1>6. CASE UpsertRow(r)
  BY <1>6, NothingRead DEF UpsertRow, freshdesk, caches, asked
<1>7. CASE CardFromBoard(r)
  <2>1. UNCHANGED <<fd, convs, tcache, ccache, dcache, job>>
    BY <1>7 DEF CardFromBoard, freshdesk, caches, asked
  <2>2. mem' = mem \/ \E i \in Cached(Ticket(r)) : mem' = [mem EXCEPT ![r].item = i]
    BY <1>7 DEF CardFromBoard
  <2>3. \A i \in Cached(Ticket(r)) : PastTicket(fd, Ticket(r), i)
    BY DEF Cached, DashFresh, CInv, CachesPast, PastList, PastTicket
  <2> QED
    BY <2>1, <2>2, <2>3, NothingRead, ItemRead
<1>8. CASE CardFromFreshdesk(r)
  <2>1. UNCHANGED <<fd, convs, tcache, ccache, dcache, job>>
    BY <1>8 DEF CardFromFreshdesk, freshdesk, caches, asked
  <2>2. mem' = mem \/ mem' = [mem EXCEPT ![r].item = fd[Ticket(r)]]
    BY <1>8 DEF CardFromFreshdesk
  <2>3. PastTicket(fd, Ticket(r), fd[Ticket(r)])
    BY <1>1, NowIsPast DEF PastTicket
  <2> QED
    BY <2>1, <2>2, <2>3, NothingRead, ItemRead
<1> QED
  BY <1>2, <1>3, <1>4, <1>5, <1>6, <1>7, <1>8 DEF UpdateStep

LEMMA WriteCInv ==
  ASSUME NEW r \in Requests, TInv, CInv, TInv', WriteStep(r)
  PROVE  CInv'
<1>0. pc[r] # "idle"
  BY DEF WriteStep, CompareStatus, AllowWrite, CreateNote, UnassignTicket, ClearState, SetStatus,
     DelConvs, DelTicket
<1>1. TypeOK /\ Ticket(r) \in Tickets /\ job[r] \in Workload
  BY <1>0, ThisRequest DEF TInv
<1>2. ASSUME fd' = fd, convs' = convs
      PROVE  /\ Forward(fd, fd') /\ \A t \in Tickets : fd'[t].t = t
             /\ \A t \in Tickets : convs[t] <= convs'[t]
  BY <1>1, <1>2 DEF Forward, CInv, TypeOK
<1>3. CASE CompareStatus(r) \/ AllowWrite(r) \/ ClearState(r)
  BY <1>3, NothingRead DEF CompareStatus, AllowWrite, ClearState, freshdesk, caches, asked
<1>4. CASE CreateNote(r)
  <2>1. UNCHANGED <<fd, tcache, ccache, dcache, mem, job>>
    BY <1>4 DEF CreateNote, caches, asked
  <2>2. convs' = convs \/ convs' = [convs EXCEPT ![Ticket(r)] = @ + 1]
    BY <1>4 DEF CreateNote
  <2>3. \A t \in Tickets : convs[t] <= convs'[t]
    BY <1>1, <2>2 DEF TypeOK
  <2>4. Forward(fd, fd') /\ \A t \in Tickets : fd'[t].t = t
    BY <2>1 DEF Forward, CInv
  <2> QED
    BY <2>1, <2>3, <2>4, FreshdeskMoves
<1>5. CASE UnassignTicket(r)
  <2>1. UNCHANGED <<convs, tcache, ccache, dcache, mem, job>>
    BY <1>5 DEF UnassignTicket, caches, asked
  <2>2. fd' = fd \/ fd' = Written(Ticket(r), Nobody, fd[Ticket(r)].status)
    BY <1>5 DEF UnassignTicket
  <2>3. Forward(fd, fd') /\ \A t \in Tickets : fd'[t].t = t
    BY <1>1, <2>2, WrittenForward, FdHas, AgentTypes DEF TypeOK, CInv, Forward
  <2>4. \A t \in Tickets : convs[t] <= convs'[t]
    BY <1>1, <2>1 DEF TypeOK
  <2> QED
    BY <2>1, <2>3, <2>4, FreshdeskMoves
<1>6. CASE SetStatus(r)
  <2>1. UNCHANGED <<convs, tcache, ccache, dcache, mem, job>>
    BY <1>6 DEF SetStatus, caches, asked
  <2>2. fd' = fd \/ fd' = Written(Ticket(r), fd[Ticket(r)].responder, job[r].status)
    BY <1>6 DEF SetStatus
  <2>3. Kind(r) = "status" /\ job[r].status \in Statuses
    BY <1>0, <1>1, <1>6, ThisRequest, WorkType DEF SetStatus, Fits, Kind
  <2>4. Forward(fd, fd') /\ \A t \in Tickets : fd'[t].t = t
    BY <1>1, <2>2, <2>3, WrittenForward, FdHas DEF TypeOK, CInv, Forward
  <2>5. \A t \in Tickets : convs[t] <= convs'[t]
    BY <1>1, <2>1 DEF TypeOK
  <2> QED
    BY <2>1, <2>4, <2>5, FreshdeskMoves
<1>7. CASE DelConvs(r)
  <2>1. UNCHANGED <<fd, convs, tcache, dcache, mem, job>>
    BY <1>7 DEF DelConvs, freshdesk, asked
  <2>2. \A t \in Tickets : ccache'[t] = ccache[t] \/ ccache'[t] = None
    BY <1>1, <1>7 DEF DelConvs, TypeOK
  <2> QED
    BY <2>1, <2>2, CacheChanges DEF CInv, CachesPast, PastConvs
<1>8. CASE DelTicket(r)
  <2>1. UNCHANGED <<fd, convs, ccache, dcache, mem, job>>
    BY <1>8 DEF DelTicket, freshdesk, asked
  <2>2. \A t \in Tickets : tcache'[t] = tcache[t] \/ tcache'[t] = None
    BY <1>1, <1>8 DEF DelTicket, TypeOK
  <2> QED
    BY <2>1, <2>2, CacheChanges DEF CInv, CachesPast, PastTicket
<1> QED
  BY <1>3, <1>4, <1>5, <1>6, <1>7, <1>8 DEF WriteStep

LEMMA ReadCInv ==
  ASSUME NEW r \in Requests, TInv, CInv, TInv', ReadStep(r)
  PROVE  CInv'
<1>0. pc[r] # "idle"
  BY DEF ReadStep, LookTicket, FetchTicket, StoreTicket, LookConvs, FetchConvs, StoreConvs,
     LookDash, FilterMine, UseStale, FilterUnassigned, StoreDash, ListRows, NextUpdater, AskAgain,
     ShowBoard, FlushCache
<1>1. TypeOK /\ Ticket(r) \in Tickets /\ mem[r] \in Mem /\ mem[r].cur \in Tickets
  BY <1>0, ThisRequest DEF TInv
<1>2. PastMem(fd, convs, Ticket(r), mem[r])
  BY DEF CInv, MemsPast
<1>3. CASE LookTicket(r)
  <2>1. UNCHANGED <<fd, convs, tcache, ccache, dcache, job>>
    BY <1>3 DEF LookTicket, freshdesk, caches, asked
  <2>2. mem' = mem \/ mem' = [mem EXCEPT ![r].item = tcache[Ticket(r)]]
    BY <1>3 DEF LookTicket
  <2>3. PastTicket(fd, Ticket(r), tcache[Ticket(r)])
    BY <1>1 DEF CInv, CachesPast
  <2> QED
    BY <2>1, <2>2, <2>3, NothingRead, ItemRead
<1>4. CASE FetchTicket(r)
  <2>1. UNCHANGED <<fd, convs, tcache, ccache, dcache, job>>
    BY <1>4 DEF FetchTicket, freshdesk, caches, asked
  <2>2. mem' = mem \/ mem' = [mem EXCEPT ![r].item = fd[Ticket(r)]]
    BY <1>4 DEF FetchTicket
  <2>3. PastTicket(fd, Ticket(r), fd[Ticket(r)])
    BY <1>1, NowIsPast DEF PastTicket
  <2> QED
    BY <2>1, <2>2, <2>3, NothingRead, ItemRead
<1>5. CASE StoreTicket(r)
  <2>1. UNCHANGED <<fd, convs, ccache, dcache, mem, job>>
    BY <1>5 DEF StoreTicket, freshdesk, asked
  <2>2. \A t \in Tickets :
           tcache'[t] = tcache[t] \/ (t = Ticket(r) /\ tcache'[t] = mem[r].item)
    BY <1>1, <1>5 DEF StoreTicket, TypeOK
  <2>3. PastTicket(fd, Ticket(r), mem[r].item)
    BY <1>2 DEF PastMem
  <2>4. CachesPast'
    BY <2>1, <2>2, <2>3 DEF CInv, CachesPast
  <2> QED
    BY <2>1, <2>4, CacheChanges
<1>6. CASE LookConvs(r)
  <2>1. UNCHANGED <<fd, convs, tcache, ccache, dcache, job>>
    BY <1>6 DEF LookConvs, freshdesk, caches, asked
  <2>2. mem' = mem \/ mem' = [mem EXCEPT ![r].n = ccache[mem[r].cur]]
    BY <1>6 DEF LookConvs
  <2>3. PastConvs(convs, mem[r].cur, ccache[mem[r].cur])
    BY <1>1 DEF CInv, CachesPast
  <2> QED
    BY <2>1, <2>2, <2>3, NothingRead, ConvsRead
<1>7. CASE FetchConvs(r)
  <2>1. UNCHANGED <<fd, convs, tcache, ccache, dcache, job>>
    BY <1>7 DEF FetchConvs, freshdesk, caches, asked
  <2>2. mem' = mem \/ mem' = [mem EXCEPT ![r].n = convs[mem[r].cur]]
    BY <1>7 DEF FetchConvs
  <2>3. PastConvs(convs, mem[r].cur, convs[mem[r].cur])
    BY <1>1 DEF PastConvs, TypeOK
  <2> QED
    BY <2>1, <2>2, <2>3, NothingRead, ConvsRead
<1>8. CASE StoreConvs(r)
  <2>1. UNCHANGED <<fd, convs, tcache, dcache, mem, job>>
    BY <1>8 DEF StoreConvs, freshdesk, asked
  <2>2. \A t \in Tickets :
           ccache'[t] = ccache[t] \/ (t = mem[r].cur /\ ccache'[t] = mem[r].n)
    BY <1>1, <1>8 DEF StoreConvs, TypeOK
  <2>3. PastConvs(convs, mem[r].cur, mem[r].n)
    BY <1>2 DEF PastMem
  <2>4. CachesPast'
    BY <2>1, <2>2, <2>3 DEF CInv, CachesPast
  <2> QED
    BY <2>1, <2>4, CacheChanges
<1>9. CASE LookDash(r)
  <2>1. UNCHANGED <<fd, convs, tcache, ccache, dcache, job>>
    BY <1>9 DEF LookDash, freshdesk, caches, asked
  <2>2. \/ dcache # None /\ mem' = [mem EXCEPT ![r].list = dcache.list]
        \/ \E want : mem' = [mem EXCEPT ![r].want = want]
    BY <1>9 DEF LookDash, DashFresh
  <2>3. ASSUME NEW want, mem' = [mem EXCEPT ![r].want = want]
        PROVE  CInv'
    <3> DEFINE m == [mem[r] EXCEPT !.want = want]
    <3>1. m.item = mem[r].item /\ m.n = mem[r].n /\ m.cur = mem[r].cur /\ m.list = mem[r].list
      BY <1>1 DEF Mem
    <3>2. mem' = [mem EXCEPT ![r] = m]
      BY <2>3
    <3>3. PastMem(fd, convs, Ticket(r), m)
      BY <1>2, <3>1 DEF PastMem
    <3> HIDE DEF m
    <3> QED
      BY <2>1, <3>2, <3>3, HandlerReads
  <2> QED
    BY <2>1, <2>2, <2>3, ListRead DEF CInv, CachesPast
<1>10. CASE FilterMine(r)
  <2>1. UNCHANGED <<fd, convs, tcache, ccache, dcache, job>>
    BY <1>10 DEF FilterMine, freshdesk, caches, asked
  <2>2. mem' = mem \/ mem' = [mem EXCEPT ![r].list = Matching(r, Me)]
    BY <1>10 DEF FilterMine
  <2>3. PastList(fd, Matching(r, Me))
    BY MatchingPast
  <2> QED
    BY <2>1, <2>2, <2>3, NothingRead, ListRead
<1>11. CASE UseStale(r)
  <2>1. UNCHANGED <<fd, convs, tcache, ccache, dcache, job>>
    BY <1>11 DEF UseStale, freshdesk, caches, asked
  <2>2. \/ mem' = mem
        \/ dcache # None /\ mem' = [mem EXCEPT ![r].list = dcache.list]
    BY <1>11, Zenon DEF UseStale
  <2> QED
    BY <2>1, <2>2, NothingRead, ListRead DEF CInv, CachesPast
<1>12. CASE FilterUnassigned(r)
  <2>1. UNCHANGED <<fd, convs, tcache, ccache, dcache, job>>
    BY <1>12 DEF FilterUnassigned, freshdesk, caches, asked
  <2>2. PICK batch \in SUBSET Matching(r, Nobody) :
           mem' = [mem EXCEPT ![r].list = Merged(@, batch)]
    BY <1>12 DEF FilterUnassigned
  <2>3. mem' = [mem EXCEPT ![r].list = Merged(mem[r].list, batch)]
    BY <1>1, <2>2 DEF TypeOK
  <2>4. PastList(fd, Merged(mem[r].list, batch))
    BY <1>2, MatchingPast, MergedPast DEF PastMem
  <2> QED
    BY <2>1, <2>3, <2>4, ListRead
<1>13. CASE StoreDash(r)
  <2>1. UNCHANGED <<fd, convs, tcache, ccache, mem, job>>
    BY <1>13 DEF StoreDash, freshdesk, asked
  <2>2. dcache' = dcache \/ dcache'.list = mem[r].list
    BY <1>13 DEF StoreDash
  <2> QED
    BY <1>2, <2>1, <2>2, CacheChanges DEF CInv, CachesPast, PastMem
<1>14. CASE ListRows(r) \/ AskAgain(r)
  <2>1. UNCHANGED <<fd, convs, tcache, ccache, dcache, job>>
    BY <1>14 DEF ListRows, AskAgain, freshdesk, caches, asked
  <2>2. mem' = mem \/ \E pend, again : mem' = [mem EXCEPT ![r].pend = pend, ![r].again = again]
    BY <1>14 DEF ListRows, AskAgain
  <2>3. ASSUME NEW pend, NEW again, mem' = [mem EXCEPT ![r].pend = pend, ![r].again = again]
        PROVE  CInv'
    <3> DEFINE m == [mem[r] EXCEPT !.pend = pend, !.again = again]
    <3>1. m.item = mem[r].item /\ m.n = mem[r].n /\ m.cur = mem[r].cur /\ m.list = mem[r].list
      BY <1>1 DEF Mem
    <3>2. mem' = [mem EXCEPT ![r] = m]
      BY <1>1, <2>3 DEF Mem, TypeOK
    <3>3. PastMem(fd, convs, Ticket(r), m)
      BY <1>2, <3>1 DEF PastMem
    <3> HIDE DEF m
    <3> QED
      BY <2>1, <3>2, <3>3, HandlerReads
  <2> QED
    BY <2>1, <2>2, <2>3, NothingRead
<1>15. CASE NextUpdater(r)
  <2>1. UNCHANGED <<fd, convs, tcache, ccache, dcache, job>>
    BY <1>15 DEF NextUpdater, freshdesk, caches, asked
  <2>2. PICK t : mem' = [mem EXCEPT ![r].pend = @ \ {t}, ![r].cur = t, ![r].n = None]
    BY <1>15 DEF NextUpdater
  <2> DEFINE m == [mem[r] EXCEPT !.pend = @ \ {t}, !.cur = t, !.n = None]
  <2>3. m.item = mem[r].item /\ m.n = None /\ m.list = mem[r].list
    BY <1>1 DEF Mem
  <2>4. mem' = [mem EXCEPT ![r] = m]
    BY <1>1, <2>2 DEF Mem, TypeOK
  <2>5. PastMem(fd, convs, Ticket(r), m)
    BY <1>2, <2>3 DEF PastMem, PastConvs
  <2> HIDE DEF m
  <2> QED
    BY <2>1, <2>4, <2>5, HandlerReads
<1>16. CASE ShowBoard(r)
  BY <1>16, NothingRead DEF ShowBoard, freshdesk, caches, asked
<1>17. CASE FlushCache(r)
  <2>1. UNCHANGED <<fd, convs, mem, job>>
    BY <1>17 DEF FlushCache, freshdesk, asked
  <2>2. \/ UNCHANGED <<tcache, ccache, dcache>>
        \/ (\A t \in Tickets : tcache'[t] = None /\ ccache'[t] = None) /\ dcache' = None
    BY <1>17 DEF FlushCache, caches
  <2> QED
    BY <2>1, <2>2, CacheChanges DEF CInv, CachesPast, PastTicket, PastConvs
<1> QED
  BY <1>3, <1>4, <1>5, <1>6, <1>7, <1>8, <1>9, <1>10, <1>11, <1>12, <1>13, <1>14, <1>15, <1>16,
     <1>17 DEF ReadStep

LEMMA EnvironmentCInv ==
  ASSUME TInv, CInv, TInv', Environment
  PROVE  CInv'
<1>1. TypeOK
  BY DEF TInv
<1>2. CASE Restart
  BY <1>2, NothingRead DEF Restart, freshdesk, caches, asked
<1>3. CASE DashExpires
  <2>1. UNCHANGED <<fd, convs, tcache, ccache, mem, job>> /\ dcache # None
    BY <1>3 DEF DashExpires, DashFresh, freshdesk, asked
  <2>2. dcache'.list = dcache.list
    BY <1>1, <1>3, <2>1 DEF DashExpires, TypeOK
  <2> QED
    BY <2>1, <2>2, CacheChanges DEF CInv, CachesPast
<1>4. ASSUME NEW t \in Tickets, OtherAgentWrites(t)
      PROVE  CInv'
  <2>1. UNCHANGED <<convs, tcache, ccache, dcache, mem, job>>
    BY <1>4 DEF OtherAgentWrites, caches, asked
  <2>2. PICK who \in Responders, s \in Statuses : fd' = Written(t, who, s)
    BY <1>4 DEF OtherAgentWrites
  <2>3. Forward(fd, fd') /\ \A u \in Tickets : fd'[u].t = u
    BY <1>1, <2>2, WrittenForward DEF TypeOK, CInv
  <2>4. \A u \in Tickets : convs[u] <= convs'[u]
    BY <1>1, <2>1 DEF TypeOK
  <2> QED
    BY <2>1, <2>3, <2>4, FreshdeskMoves
<1>5. ASSUME NEW t \in Tickets, ClientReplies(t)
      PROVE  CInv'
  <2>1. UNCHANGED <<fd, tcache, ccache, dcache, mem, job>>
    BY <1>5 DEF ClientReplies, caches, asked
  <2>2. \A u \in Tickets : convs[u] <= convs'[u]
    BY <1>1, <1>5 DEF ClientReplies, TypeOK
  <2>3. Forward(fd, fd') /\ \A u \in Tickets : fd'[u].t = u
    BY <2>1 DEF Forward, CInv
  <2> QED
    BY <2>1, <2>2, <2>3, FreshdeskMoves
<1>6. ASSUME NEW t \in Tickets, TicketExpires(t)
      PROVE  CInv'
  <2>1. UNCHANGED <<fd, convs, ccache, dcache, mem, job>>
    BY <1>6 DEF TicketExpires, freshdesk, asked
  <2>2. \A u \in Tickets : tcache'[u] = tcache[u] \/ tcache'[u] = None
    BY <1>1, <1>6 DEF TicketExpires, TypeOK
  <2> QED
    BY <2>1, <2>2, CacheChanges DEF CInv, CachesPast, PastTicket
<1>7. ASSUME NEW t \in Tickets, ConvsExpire(t)
      PROVE  CInv'
  <2>1. UNCHANGED <<fd, convs, tcache, dcache, mem, job>>
    BY <1>7 DEF ConvsExpire, freshdesk, asked
  <2>2. \A u \in Tickets : ccache'[u] = ccache[u] \/ ccache'[u] = None
    BY <1>1, <1>7 DEF ConvsExpire, TypeOK
  <2> QED
    BY <2>1, <2>2, CacheChanges DEF CInv, CachesPast, PastConvs
<1>8. ASSUME NEW t \in Tickets, WindowCloses(t)
      PROVE  CInv'
  BY <1>8, NothingRead DEF WindowCloses, freshdesk, caches, asked
<1>9. ASSUME NEW r \in Requests, HangUp(r)
      PROVE  CInv'
  BY <1>9, NothingRead DEF HangUp, freshdesk, caches
<1> QED
  BY <1>2, <1>3, <1>4, <1>5, <1>6, <1>7, <1>8, <1>9 DEF Environment

LEMMA NextCInv == TInv /\ CInv /\ [Next]_vars => CInv'
<1> SUFFICES ASSUME TInv, CInv, [Next]_vars PROVE CInv'
  OBVIOUS
<1>1. TInv'
  BY NextTInv
<1>2. ASSUME NEW r \in Requests, EnsureAgent(r) \/ AgentUnknown(r) PROVE CInv'
  BY <1>2, NothingRead DEF EnsureAgent, AgentUnknown, freshdesk, caches, asked
<1>3. ASSUME NEW r \in Requests, Step(r) PROVE CInv'
  BY <1>1, <1>2, <1>3, StartCInv, UpdateCInv, WriteCInv, ReadCInv DEF Step
<1>4. CASE Environment
  BY <1>1, <1>4, EnvironmentCInv
<1>5. CASE UNCHANGED vars
  BY <1>5, NothingRead DEF vars
<1> QED
  BY <1>3, <1>4, <1>5 DEF Next

LEMMA PastAlways == Spec => [](TInv /\ CInv)
<1>1. Init => TInv /\ CInv
  BY InitTInv, InitCInv
<1>2. TInv /\ CInv /\ [Next]_vars => (TInv /\ CInv)'
  BY NextTInv, NextCInv
<1> QED
  BY <1>1, <1>2, PTL DEF Spec

-----------------------------------------------------------------------------
(* Whatever overlaps and whatever fails, ticket:{id}, conversations:{id},  *)
(* tickets:dashboard and what a handler has read are states their tickets  *)
(* have had: the wrong ticket's data never gets under a key, and nothing   *)
(* is made up by merging (ticket.go:127-178, dashboard.go:74-127).         *)
THEOREM CachePast == Spec => []CacheIsPast
<1>1. CInv => CacheIsPast
  <2> SUFFICES ASSUME CInv PROVE CacheIsPast
    OBVIOUS
  <2>1. ASSUME NEW t \in Tickets
        PROVE  /\ tcache[t] # None => tcache[t].t = t /\ SomeVersion(tcache[t])
               /\ ccache[t] # None => ccache[t] <= convs[t]
    BY DEF CInv, CachesPast, PastTicket, PastConvs, Past, SomeVersion
  <2>2. ASSUME NEW i, i \in Elsewhere
        PROVE  SomeVersion(i)
    <3>1. \/ \E r \in Requests : i \in mem[r].list
          \/ dcache # None /\ i \in dcache.list
      BY <2>2 DEF Elsewhere
    <3>2. Past(fd, i)
      <4>1. \A r \in Requests : PastList(fd, mem[r].list)
        BY DEF CInv, MemsPast, PastMem
      <4>2. dcache # None => PastList(fd, dcache.list)
        BY DEF CInv, CachesPast
      <4> QED
        BY <3>1, <4>1, <4>2 DEF PastList
    <3> QED
      BY <3>2 DEF Past, SomeVersion
  <2>3. ASSUME NEW r \in Requests
        PROVE  /\ mem[r].item # None => mem[r].item.t = Ticket(r) /\ SomeVersion(mem[r].item)
               /\ mem[r].n # None => mem[r].n <= convs[mem[r].cur]
    <3>1. PastMem(fd, convs, Ticket(r), mem[r])
      BY DEF CInv, MemsPast
    <3> QED
      BY <3>1 DEF PastMem, PastTicket, PastConvs, Past, SomeVersion
  <2> QED
    BY <2>1, <2>2, <2>3 DEF CacheIsPast
<1> QED
  BY PastAlways, <1>1, PTL

(* A ticket that moves between "mine" and "unassigned" while the two       *)
(* filters run is on the board once (dashboard.go:105-115).                *)
THEOREM NoTwins == Spec => []BoardHasNoTwins
<1>1. CInv => BoardHasNoTwins
  BY DEF CInv, CachesPast, MemsPast, PastMem, PastList, BoardHasNoTwins
<1> QED
  BY PastAlways, <1>1, PTL

=============================================================================
