--------------------------- MODULE Lookups_proofs ---------------------------
(***************************************************************************)
(* The cache implements CachePromise, and the goroutines of all pages hold *)
(* as many slots as are taken, for any plans, ages, capacity and faults.   *)
(* Every step of Lookups does one of six things to the cache (CacheStep)   *)
(* and one of three to the pages: a page moves, a lookup moves, or neither. *)
(***************************************************************************)
EXTENDS Lookups, FiniteSetTheorems, TLAPS

Places == {"none", "wait", "look", "fetch", "agents", "store", "done"}
Under  == Places \ {"none", "done"}

\* What is under way belongs to the stage of its page, and what is stored was received.
Control ==
  /\ \A p \in Pages, k \in Keys : look[p][k] \in Under => stage[p] \in 1..3 /\ k \in Plan[p][stage[p]]
  /\ \A p \in Pages : stage[p] \in {1, 3} => todo[p] \subseteq Plan[p][stage[p]]
  /\ \A p \in Pages, k \in Keys : look[p][k] = "store" => got[p][k] \in Bodies

\* A lookup of k for p goes on, and nothing else about the pages changes.
LookupMoves(p, k) ==
  /\ look[p][k] \in Under
  /\ \E place \in {"look", "fetch", "agents", "store", "done"} :
       look' = [look EXCEPT ![p][k] = place]
  /\ UNCHANGED <<stage, todo>>

Lookup(p, k) == Acquire(p, k) \/ LookUp(p, k) \/ Fetch(p, k) \/ FetchAgent(p, k) \/ Store(p, k)
PageMoves(p) == Open(p) \/ Spawn(p) \/ Gather(p) \/ Answer(p) \/ \E k \in Keys : Ask(p, k)

CacheStep ==
  \/ UNCHANGED cache
  \/ \E k \in Keys, b \in Bodies, age \in Nat \ {0} : Put(k, b, age)
  \/ Tick \/ Flush \/ Cleanup \/ \E k \in Deletable : Delete(k)

-----------------------------------------------------------------------------
(* Seconds and instants. *)

LEMMA Division ==
  ASSUME NEW n \in Nat, NEW p \in Nat \ {0}
  PROVE  (n \div p) \in Nat /\ (n \div p) * p <= n /\ n < (n \div p) * p + p
  OBVIOUS

LEMMA Product ==
  ASSUME NEW a \in Nat, NEW b \in Nat, NEW p \in Nat \ {0}
  PROVE  a * p \in Nat /\ (a < b => a * p + p <= b * p) /\ (a + b) * p = a * p + b * p
  OBVIOUS

LEMMA NextCases ==
  ASSUME Next
  PROVE  Around \/ \E p \in Pages : PageMoves(p) \/ \E k \in Keys : Lookup(p, k)
  BY DEF Next, Steps, PageMoves, Lookup

-----------------------------------------------------------------------------
(* Types. *)

Histories == [newest : [Keys -> 0..MaxVersion], floor : [Pages -> [Keys -> 0..MaxVersion]],
              raced : SUBSET Keys, failed : [Pages -> SUBSET Keys]]

LEMMA HistoryType ==
  ASSUME seen \in Histories, NEW p \in Pages, NEW k \in Keys, NEW v \in Bodies
  PROVE  /\ Begun(p, k) \in Histories
         /\ Returned(k, v) \in Histories
         /\ Raced(seen, k) \in Histories /\ Raced(Returned(k, v), k) \in Histories
         /\ [seen EXCEPT !.failed[p] = @ \cup {k}] \in Histories
<1>1. v \in 0..MaxVersion
  BY LookupsAssumption
<1>2. Begun(p, k) \in Histories
  BY DEF Histories, Begun
<1>3. Returned(k, v) \in Histories
  BY <1>1 DEF Histories, Returned
<1>4. Raced(seen, k) \in Histories /\ Raced(Returned(k, v), k) \in Histories
  BY <1>3 DEF Histories, Raced
<1>5. [seen EXCEPT !.failed[p] = @ \cup {k}] \in Histories
  BY DEF Histories
<1> QED
  BY <1>2, <1>3, <1>4, <1>5

\* The state of the pages, by itself and with the cache.
PagesTyped ==
  /\ stage \in [Pages -> 0..4] /\ todo \in [Pages -> SUBSET Keys]
  /\ look \in [Pages -> [Keys -> Places]]
  /\ got \in [Pages -> [Keys -> Bodies \cup {Unknown}]]
  /\ result \in [Pages -> [Keys -> Bodies \cup {Unknown}]]
  /\ slots \in Int
RestTyped ==
  CacheTypeOK /\ upstream \in [Keys -> Bodies] /\ gone \subseteq Pages /\ seen \in Histories

LEMMA TypeParts == TypeOK <=> PagesTyped /\ RestTyped
  BY DEF TypeOK, PagesTyped, RestTyped, Places, Histories

TInv == PagesTyped /\ RestTyped /\ Control

LEMMA InitTyped ==
  ASSUME Init
  PROVE  TInv
<1> USE LookupsAssumption, CacheAssumption
<1>1. 1 \in Bodies
  OBVIOUS
<1>2. PagesTyped
  BY DEF Init, PagesTyped, Places
<1>3. RestTyped
  BY <1>1 DEF Init, RestTyped, CacheInit, CacheTypeOK, Histories
<1>4. Control
  BY DEF Init, Control, Under
<1> QED
  BY <1>2, <1>3, <1>4 DEF TInv

-----------------------------------------------------------------------------
(* A page moves. *)

LEMMA PageTyped ==
  ASSUME TInv, NEW p \in Pages, PageMoves(p)
  PROVE  TInv'
<1> USE LookupsAssumption DEF TInv
<1>1. CASE Open(p)
  <2>1. PagesTyped'
    BY <1>1 DEF Open, ToStage, PagesTyped
  <2>2. RestTyped'
    BY <1>1 DEF Open, RestTyped, cache, CacheTypeOK
  <2>3. Control'
    BY <1>1 DEF Open, ToStage, PagesTyped, Control, Under
  <2> QED
    BY <2>1, <2>2, <2>3
<1>2. ASSUME Spawn(p) PROVE TInv'
  <2>1. PagesTyped'
    BY <1>2 DEF Spawn, ToStage, PagesTyped, Places
  <2>2. RestTyped'
    BY <1>2 DEF Spawn, RestTyped, cache, CacheTypeOK
  <2>3. Control'
    BY <1>2 DEF Spawn, ToStage, Through, Busy, PagesTyped, Control, Under, Places
  <2> QED
    BY <2>1, <2>2, <2>3
<1>3. ASSUME Gather(p) PROVE TInv'
  <2>1. PagesTyped'
    BY <1>3 DEF Gather, ToStage, PagesTyped
  <2>2. RestTyped'
    BY <1>3 DEF Gather, RestTyped, cache, CacheTypeOK
  <2>3. Control'
    BY <1>3 DEF Gather, ToStage, Through, Busy, PagesTyped, Control, Under, Places
  <2> QED
    BY <2>1, <2>2, <2>3
<1>4. ASSUME Answer(p) PROVE TInv'
  <2>1. PagesTyped'
    BY <1>4 DEF Answer, ToStage, PagesTyped
  <2>2. RestTyped'
    BY <1>4 DEF Answer, RestTyped, cache, CacheTypeOK
  <2>3. Control'
    BY <1>4 DEF Answer, ToStage, Through, Busy, PagesTyped, Control, Under, Places
  <2> QED
    BY <2>1, <2>2, <2>3
<1>5. ASSUME NEW k \in Keys, Ask(p, k) PROVE TInv'
  <2>1. PagesTyped'
    BY <1>5 DEF Ask, PagesTyped, Places
  <2>2. RestTyped'
    <3>1. 1 \in Bodies
      OBVIOUS
    <3> QED
      BY <1>5, <3>1, HistoryType DEF Ask, RestTyped, cache, CacheTypeOK
  <2>3. Control'
    BY <1>5 DEF Ask, PagesTyped, Control, Under, Places
  <2> QED
    BY <2>1, <2>2, <2>3
<1> QED
  BY <1>1, <1>2, <1>3, <1>4, <1>5 DEF PageMoves

-----------------------------------------------------------------------------
(* A lookup moves. *)

LEMMA LookupIsMove ==
  ASSUME TInv, NEW p \in Pages, NEW k \in Keys, Lookup(p, k)
  PROVE  LookupMoves(p, k)
<1>1. CASE Acquire(p, k)
  BY <1>1 DEF Acquire, LookupMoves, At, To, KeepPage, Under, Places
<1>2. CASE LookUp(p, k)
  BY <1>2 DEF LookUp, LookupMoves, Return, Goes, At, To, KeepPage, Under, Places
<1>3. CASE Fetch(p, k)
  BY <1>3 DEF Fetch, Receive, LookupMoves, Return, Goes, At, To, KeepPage, Under, Places
<1>4. CASE FetchAgent(p, k)
  BY <1>4 DEF FetchAgent, Receive, LookupMoves, Return, Goes, At, To, KeepPage, Under, Places
<1>5. CASE Store(p, k)
  BY <1>5 DEF Store, LookupMoves, Return, At, To, KeepPage, Under, Places
<1> QED
  BY <1>1, <1>2, <1>3, <1>4, <1>5 DEF Lookup

LEMMA RestKept ==
  ASSUME RestTyped, UNCHANGED <<cache, upstream, gone>>, seen' \in Histories
  PROVE  RestTyped'
  BY DEF RestTyped, cache, CacheTypeOK

LEMMA PutTyped ==
  ASSUME CacheTypeOK, NEW k \in Keys, NEW b \in Bodies, NEW age \in Nat \ {0}, Put(k, b, age)
  PROVE  CacheTypeOK'
<1>1. Stamp \in Nat
  BY CacheAssumption, Division DEF CacheTypeOK, Stamp
<1> QED
  BY <1>1 DEF CacheTypeOK, Put, Row

LEMMA MoveControl ==
  ASSUME PagesTyped, Control, NEW p \in Pages, NEW k \in Keys, LookupMoves(p, k),
         \A q \in Pages, j \in Keys : got'[q][j] = got[q][j] \/ (q = p /\ j = k),
         look'[p][k] = "store" => got'[p][k] \in Bodies
  PROVE  Control'
<1>1. \A q \in Pages, j \in Keys : (q = p /\ j = k) \/ look'[q][j] = look[q][j]
  BY DEF LookupMoves, PagesTyped
<1>2. \A q \in Pages, j \in Keys : look'[q][j] = "store" => got'[q][j] \in Bodies
  BY <1>1 DEF Control
<1> QED
  BY <1>1, <1>2 DEF Control, LookupMoves, PagesTyped

LEMMA ReturnTyped ==
  ASSUME PagesTyped, NEW p \in Pages, NEW k \in Keys, NEW v \in Bodies \cup {Unknown},
         Return(p, k, v), UNCHANGED <<stage, todo>>,
         got' \in [Pages -> [Keys -> Bodies \cup {Unknown}]]
  PROVE  PagesTyped'
<1>1. look' \in [Pages -> [Keys -> Places]]
  BY DEF Return, To, PagesTyped, Places
<1>2. result' \in [Pages -> [Keys -> Bodies \cup {Unknown}]]
  BY DEF Return, PagesTyped
<1>3. slots' \in Int
  BY DEF Return, PagesTyped
<1> QED
  BY <1>1, <1>2, <1>3 DEF PagesTyped

LEMMA GoesTyped ==
  ASSUME PagesTyped, NEW p \in Pages, NEW k \in Keys, NEW place \in Places,
         Goes(p, k, place), UNCHANGED <<stage, todo>>,
         got' \in [Pages -> [Keys -> Bodies \cup {Unknown}]]
  PROVE  PagesTyped'
  BY DEF Goes, To, PagesTyped

LEMMA LookupTyped ==
  ASSUME TInv, NEW p \in Pages, NEW k \in Keys, Lookup(p, k)
  PROVE  TInv'
<1> USE LookupsAssumption DEF TInv
<1>m. LookupMoves(p, k)
  BY LookupIsMove
<1>b. upstream[k] \in Bodies /\ (Fresh(k) => entries[k].body \in Bodies)
  BY DEF RestTyped, CacheTypeOK, Fresh, Present, Row
<1>g. [got EXCEPT ![p][k] = upstream[k]] \in [Pages -> [Keys -> Bodies \cup {Unknown}]]
  BY <1>b DEF PagesTyped
<1>l. look' \in [Pages -> [Keys -> Places]]
  BY <1>m DEF LookupMoves, PagesTyped, Places
<1>h. \A v \in Bodies : /\ Begun(p, k) \in Histories
                        /\ Returned(k, v) \in Histories
                        /\ Raced(seen, k) \in Histories /\ Raced(Returned(k, v), k) \in Histories
                        /\ [seen EXCEPT !.failed[p] = @ \cup {k}] \in Histories
  BY HistoryType DEF RestTyped
<1>i. seen \in Histories
  BY DEF RestTyped
<1>1. CASE Acquire(p, k)
  <2>1. PagesTyped'
    BY <1>1, <1>l, <1>m DEF Acquire, LookupMoves, PagesTyped
  <2>2. RestTyped'
    BY <1>1, <1>h, <1>b, RestKept DEF Acquire, KeepPage
  <2>3. Control'
    BY <1>1, <1>m, MoveControl DEF Acquire, To, PagesTyped
  <2> QED
    BY <2>1, <2>2, <2>3
<1>2. CASE LookUp(p, k)
  <2>1. PagesTyped'
    <3>1. got' \in [Pages -> [Keys -> Bodies \cup {Unknown}]] /\ UNCHANGED <<stage, todo>>
      BY <1>2 DEF LookUp, KeepPage, PagesTyped
    <3>2. CASE Fresh(k) /\ Return(p, k, entries[k].body)
      BY <3>1, <3>2, <1>b, ReturnTyped
    <3>3. CASE Goes(p, k, "fetch")
      BY <3>1, <3>3, GoesTyped DEF Places
    <3> QED
      BY <1>2, <3>2, <3>3 DEF LookUp
  <2>2. RestTyped'
    BY <1>2, <1>h, <1>i, <1>b, RestKept DEF LookUp, KeepPage
  <2>3. Control'
    BY <1>2, <1>m, MoveControl DEF LookUp, Return, Goes, To, PagesTyped
  <2> QED
    BY <2>1, <2>2, <2>3
<1>3. CASE Fetch(p, k)
  <2>1. PagesTyped'
    <3>1. got' \in [Pages -> [Keys -> Bodies \cup {Unknown}]] /\ UNCHANGED <<stage, todo>>
      <4>1. got' = got \/ got' = [got EXCEPT ![p][k] = upstream[k]]
        BY <1>3 DEF Fetch, Receive
      <4> QED
        BY <1>3, <1>g, <4>1 DEF Fetch, KeepPage, PagesTyped
    <3>2. CASE Return(p, k, Unknown)
      BY <3>1, <3>2, ReturnTyped
    <3>3. CASE Goes(p, k, "store")
      BY <3>1, <3>3, GoesTyped DEF Places
    <3>4. CASE Goes(p, k, "agents")
      BY <3>1, <3>4, GoesTyped DEF Places
    <3> QED
      BY <1>3, <3>2, <3>3, <3>4 DEF Fetch, Receive
  <2>2. RestTyped'
    BY <1>3, <1>h, <1>i, <1>b, RestKept DEF Fetch, Receive, GaveUp, KeepPage
  <2>3. \A q \in Pages, j \in Keys : got'[q][j] = got[q][j] \/ (q = p /\ j = k)
    BY <1>3 DEF Fetch, Receive, PagesTyped
  <2>4. look'[p][k] = "store" => got'[p][k] \in Bodies
    BY <1>3, <1>b DEF Fetch, Receive, Return, Goes, To, PagesTyped
  <2>5. Control'
    BY <2>3, <2>4, <1>m, MoveControl
  <2> QED
    BY <2>1, <2>2, <2>5
<1>4. CASE FetchAgent(p, k)
  <2>1. PagesTyped'
    <3>1. got' \in [Pages -> [Keys -> Bodies \cup {Unknown}]] /\ UNCHANGED <<stage, todo>>
      <4>1. got' = got \/ got' = [got EXCEPT ![p][k] = upstream[k]]
        BY <1>4 DEF FetchAgent, Receive
      <4> QED
        BY <1>4, <1>g, <4>1 DEF FetchAgent, KeepPage, PagesTyped
    <3>2. CASE Return(p, k, Unknown)
      BY <3>1, <3>2, ReturnTyped
    <3>3. CASE Goes(p, k, "store")
      BY <3>1, <3>3, GoesTyped DEF Places
    <3> QED
      BY <1>4, <3>2, <3>3 DEF FetchAgent, Receive
  <2>2. RestTyped'
    BY <1>4, <1>h, <1>i, <1>b, RestKept DEF FetchAgent, Receive, GaveUp, KeepPage
  <2>3. \A q \in Pages, j \in Keys : got'[q][j] = got[q][j] \/ (q = p /\ j = k)
    BY <1>4 DEF FetchAgent, Receive, PagesTyped
  <2>4. look'[p][k] = "store" => got'[p][k] \in Bodies
    BY <1>4, <1>b DEF FetchAgent, Receive, Return, Goes, To, PagesTyped
  <2>5. Control'
    BY <2>3, <2>4, <1>m, MoveControl
  <2> QED
    BY <2>1, <2>2, <2>5
<1>5. CASE Store(p, k)
  <2>0. got[p][k] \in Bodies
    BY <1>5 DEF Store, At, Control
  <2>1. PagesTyped'
    BY <1>5, <1>l, <1>m, <2>0 DEF Store, Return, LookupMoves, PagesTyped
  <2>2. CacheTypeOK'
    <3>1. AgeOf[p][k] \in Nat \ {0}
      OBVIOUS
    <3>2. CASE Put(k, got[p][k], AgeOf[p][k])
      BY <2>0, <3>1, <3>2, PutTyped DEF RestTyped
    <3>3. CASE UNCHANGED cache
      BY <3>3 DEF RestTyped, cache, CacheTypeOK
    <3> QED
      BY <1>5, <3>2, <3>3 DEF Store
  <2>3. RestTyped'
    BY <1>5, <1>h, <2>0, <2>2 DEF Store, KeepPage, RestTyped
  <2>4. \A q \in Pages, j \in Keys : got'[q][j] = got[q][j] \/ (q = p /\ j = k)
    BY <1>5 DEF Store, PagesTyped
  <2>5. look'[p][k] # "store"
    BY <1>5 DEF Store, Return, To, PagesTyped
  <2>6. Control'
    BY <2>4, <2>5, <1>m, MoveControl
  <2> QED
    BY <2>1, <2>3, <2>6
<1> QED
  BY <1>1, <1>2, <1>3, <1>4, <1>5 DEF Lookup

-----------------------------------------------------------------------------
(* The cache, Freshdesk and the clients. *)

LEMMA WithoutTyped ==
  ASSUME CacheTypeOK, NEW S \in SUBSET Keys, Without(S)
  PROVE  CacheTypeOK'
  BY DEF CacheTypeOK, Without

LEMMA CacheMovesTyped ==
  ASSUME CacheTypeOK, CacheMoves
  PROVE  CacheTypeOK'
<1>1. CASE Tick
  BY <1>1 DEF CacheTypeOK, Tick
<1>2. CASE Flush
  BY <1>2, WithoutTyped DEF Flush
<1>3. CASE Cleanup
  BY <1>3, WithoutTyped DEF Cleanup
<1>4. ASSUME NEW k \in Deletable, Delete(k) PROVE CacheTypeOK'
  BY <1>4, WithoutTyped, CacheAssumption DEF Delete
<1> QED
  BY <1>1, <1>2, <1>3, <1>4 DEF CacheMoves

LEMMA AroundTyped ==
  ASSUME TInv, Around
  PROVE  TInv'
<1> USE LookupsAssumption DEF TInv
<1>1. CASE CacheMoves
  <2>1. PagesTyped' /\ Control'
    BY <1>1 DEF CacheMoves, pages, PagesTyped, Control
  <2>2. RestTyped'
    BY <1>1, CacheMovesTyped DEF CacheMoves, RestTyped
  <2> QED
    BY <2>1, <2>2
<1>2. ASSUME NEW k \in Keys, Rename(k) PROVE TInv'
  <2>1. PagesTyped' /\ Control'
    BY <1>2 DEF Rename, pages, PagesTyped, Control
  <2>2. RestTyped'
    BY <1>2 DEF Rename, RestTyped, cache, CacheTypeOK
  <2> QED
    BY <2>1, <2>2
<1>3. ASSUME NEW p \in Pages, HangUp(p) PROVE TInv'
  <2>1. PagesTyped' /\ Control'
    BY <1>3 DEF HangUp, pages, PagesTyped, Control
  <2>2. RestTyped'
    BY <1>3 DEF HangUp, RestTyped, cache, CacheTypeOK
  <2> QED
    BY <2>1, <2>2
<1> QED
  BY <1>1, <1>2, <1>3 DEF Around

LEMMA StutterTyped ==
  ASSUME TInv, UNCHANGED vars
  PROVE  TInv'
  BY DEF TInv, PagesTyped, RestTyped, Control, CacheTypeOK, vars, cache, pages

LEMMA StepTyped ==
  ASSUME TInv, [Next]_vars
  PROVE  TInv'
  BY NextCases, AroundTyped, PageTyped, LookupTyped, StutterTyped

(* The variables keep their types, and what is under way belongs to the     *)
(* stage its page has reached.                                              *)
THEOREM Typing == Spec => []TypeOK
<1>1. Init => TInv
  BY InitTyped
<1>2. TInv /\ [Next]_vars => TInv'
  BY StepTyped
<1>3. TInv => TypeOK
  BY TypeParts DEF TInv
<1> QED
  BY <1>1, <1>2, <1>3, PTL DEF Spec

LEMMA AlwaysTyped == Spec => []TInv
<1>1. Init => TInv
  BY InitTyped
<1>2. TInv /\ [Next]_vars => TInv'
  BY StepTyped
<1> QED
  BY <1>1, <1>2, PTL DEF Spec

-----------------------------------------------------------------------------
(* What a step does to the cache. *)

LEMMA StepOfCache ==
  ASSUME TInv, [Next]_vars
  PROVE  CacheStep
<1>1. CASE UNCHANGED vars
  BY <1>1 DEF vars, CacheStep
<1>2. CASE Around
  BY <1>2 DEF Around, CacheMoves, Rename, HangUp, CacheStep
<1>3. ASSUME NEW p \in Pages, PageMoves(p) PROVE CacheStep
  BY <1>3 DEF PageMoves, Open, Spawn, Gather, Answer, Ask, CacheStep
<1>4. ASSUME NEW p \in Pages, NEW k \in Keys, Lookup(p, k) PROVE CacheStep
  <2>1. CASE Store(p, k)
    <3>1. got[p][k] \in Bodies /\ AgeOf[p][k] \in Nat \ {0}
      BY <2>1, LookupsAssumption DEF TInv, Control, Store, At
    <3> QED
      BY <2>1, <3>1 DEF Store, CacheStep
  <2> QED
    BY <1>4, <2>1 DEF Lookup, Acquire, LookUp, Fetch, FetchAgent, CacheStep
<1> QED
  BY <1>1, <1>2, <1>3, <1>4, NextCases

-----------------------------------------------------------------------------
(* Ages. *)

\* The second a body was stored in is the one its instant lies in.
InItsSecond ==
  \A k \in Keys : Present(k) =>
    /\ entries[k].at * Parts <= stored[k] /\ stored[k] < entries[k].at * Parts + Parts
    /\ stored[k] <= now

LEMMA SecondsKept ==
  ASSUME CacheTypeOK, InItsSecond, CacheStep
  PROVE  InItsSecond'
<1> USE CacheAssumption
<1>1. CASE UNCHANGED cache
  BY <1>1 DEF InItsSecond, Present, cache
<1>2. ASSUME NEW k \in Keys, NEW b \in Bodies, NEW age \in Nat \ {0}, Put(k, b, age)
      PROVE  InItsSecond'
  <2>1. Stamp \in Nat /\ Stamp * Parts <= now /\ now < Stamp * Parts + Parts
    BY Division DEF CacheTypeOK, Stamp
  <2>2. /\ entries'[k].at = Stamp /\ stored'[k] = now /\ now' = now
        /\ \A j \in Keys \ {k} : entries'[j] = entries[j] /\ stored'[j] = stored[j]
    BY <1>2 DEF Put, CacheTypeOK
  <2>3. ASSUME NEW j \in Keys, Present(j)'
        PROVE  /\ entries'[j].at * Parts <= stored'[j] /\ stored'[j] < entries'[j].at * Parts + Parts
               /\ stored'[j] <= now'
    <3>1. CASE j = k
      BY <2>1, <2>2, <3>1 DEF CacheTypeOK
    <3>2. CASE j # k
      BY <2>2, <2>3, <3>2 DEF InItsSecond, Present
    <3> QED
      BY <3>1, <3>2
  <2> QED
    BY <2>3 DEF InItsSecond
<1>3. ASSUME NEW S \in SUBSET Keys, Without(S) PROVE InItsSecond'
  BY <1>3 DEF Without, InItsSecond, Present
<1>4. CASE Tick
  BY <1>4 DEF Tick, InItsSecond, Present, CacheTypeOK
<1>5. Flush \/ Cleanup \/ (\E k \in Deletable : Delete(k)) => \E S \in SUBSET Keys : Without(S)
  BY DEF Flush, Cleanup, Delete
<1> QED
  BY <1>1, <1>2, <1>3, <1>4, <1>5 DEF CacheStep

(* An answer is good for its max age, less at most a second, for any ages,  *)
(* any fineness of the clock and any order of stores and expiries.          *)
THEOREM Ages == Spec => []AgesRight
<1> USE CacheAssumption
<1>1. Init => InItsSecond
  BY DEF Init, CacheInit, InItsSecond, Present
<1>2. TInv /\ InItsSecond /\ [Next]_vars => InItsSecond'
  BY StepOfCache, SecondsKept DEF TInv, RestTyped
<1>3. TInv /\ InItsSecond => AgesRight
  <2> SUFFICES ASSUME TInv, InItsSecond, NEW k \in Keys, Present(k)
               PROVE  /\ Fresh(k) => now < stored[k] + entries[k].maxAge * Parts
                      /\ ~ Fresh(k) => now > stored[k] + (entries[k].maxAge - 1) * Parts
    BY DEF AgesRight
  <2> DEFINE at == entries[k].at
             age == entries[k].maxAge
  <2>1. at \in Nat /\ age \in Nat \ {0} /\ stored[k] \in Nat /\ now \in Nat
    BY DEF TInv, RestTyped, CacheTypeOK, Row, Present
  <2>2. at * Parts <= stored[k] /\ stored[k] < at * Parts + Parts
    BY DEF InItsSecond
  <2>3. Fresh(k) <=> now < (at + age) * Parts
    BY DEF Fresh
  <2> HIDE DEF at, age
  <2>4. at * Parts \in Nat /\ age * Parts \in Nat /\ (at + age) * Parts = at * Parts + age * Parts
    BY <2>1, Product
  <2>5. (age - 1) * Parts = age * Parts - Parts
    BY <2>1
  <2>6. /\ Fresh(k) => now < stored[k] + age * Parts
        /\ ~ Fresh(k) => now > stored[k] + (age - 1) * Parts
    BY <2>1, <2>2, <2>3, <2>4, <2>5
  <2> QED
    BY <2>6 DEF age
<1> QED
  BY <1>1, <1>2, <1>3, AlwaysTyped, PTL DEF Spec

-----------------------------------------------------------------------------
(* The cache keeps the abstract promise. *)

held  == [k \in Keys |-> IF Present(k) THEN entries[k].body ELSE Absent]
fresh == {k \in Keys : Fresh(k)}

LEMMA PutFresh ==
  ASSUME now \in Nat, NEW age \in Nat \ {0}
  PROVE  now < (Stamp + age) * Parts
<1> DEFINE s == now \div Parts
<1>1. s \in Nat /\ now < s * Parts + Parts
  BY CacheAssumption, Division
<1> HIDE DEF s
<1>2. s + 1 <= s + age /\ (s + age) * Parts = s * Parts + age * Parts
  BY <1>1, CacheAssumption, Product
<1>3. 0 * Parts + Parts <= age * Parts
  BY CacheAssumption, Product
<1>4. s * Parts \in Nat /\ age * Parts \in Nat
  BY <1>1, CacheAssumption, Product
<1>5. now < (s + age) * Parts
  BY <1>1, <1>2, <1>3, <1>4, CacheAssumption
<1> QED
  BY <1>5 DEF Stamp, s

LEMMA ExpiredIsStale ==
  ASSUME CacheTypeOK, NEW k \in Keys, Expired(k)
  PROVE  ~ Fresh(k)
<1> DEFINE s == now \div Parts
           end == entries[k].at + entries[k].maxAge
<1>1. s \in Nat /\ s * Parts <= now /\ now \in Nat
  BY CacheAssumption, Division DEF CacheTypeOK
<1>2. end \in Nat /\ end < s
  BY DEF Expired, CacheTypeOK, Row, Present, Stamp
<1>3. Fresh(k) => now < end * Parts
  BY DEF Fresh
<1> HIDE DEF s, end
<1>4. end * Parts + Parts <= s * Parts /\ end * Parts \in Nat /\ s * Parts \in Nat
  BY <1>1, <1>2, CacheAssumption, Product
<1> QED
  BY <1>1, <1>3, <1>4, CacheAssumption

LEMMA WithoutDrops ==
  ASSUME CacheTypeOK, NEW S \in SUBSET Keys, Without(S)
  PROVE  /\ held' = [k \in Keys |-> IF k \in S THEN Absent ELSE held[k]]
         /\ fresh' = fresh \ S
  BY CacheAssumption DEF Without, CacheTypeOK, held, fresh, Fresh, Present

LEMMA StepKeepsPromise ==
  ASSUME TInv, CacheStep
  PROVE  \/ UNCHANGED <<held, fresh>>
         \/ fresh' \subseteq fresh /\ UNCHANGED held
         \/ \E k \in Keys, b \in Bodies : held' = [held EXCEPT ![k] = b] /\ fresh' = fresh \cup {k}
         \/ \E S \in {Keys} \cup {{k} : k \in Deletable} \cup SUBSET (Keys \ fresh) :
              held' = [k \in Keys |-> IF k \in S THEN Absent ELSE held[k]] /\ fresh' = fresh \ S
<1> USE CacheAssumption DEF TInv, RestTyped
<1>1. CASE UNCHANGED cache
  BY <1>1 DEF cache, held, fresh, Fresh, Present
<1>2. ASSUME NEW k \in Keys, NEW b \in Bodies, NEW age \in Nat \ {0}, Put(k, b, age)
      PROVE  held' = [held EXCEPT ![k] = b] /\ fresh' = fresh \cup {k}
  <2> DEFINE row == [body |-> b, at |-> Stamp, maxAge |-> age]
  <2>1. /\ entries' = [entries EXCEPT ![k] = row] /\ now' = now
        /\ row \in Row /\ row.body = b /\ row.at = Stamp /\ row.maxAge = age
    BY <1>2, Division DEF Put, Row, Stamp, CacheTypeOK
  <2>2. row # Absent
    BY <2>1
  <2>3. now < (Stamp + age) * Parts
    BY PutFresh DEF CacheTypeOK
  <2> HIDE DEF row
  <2>4. entries'[k] = row /\ \A j \in Keys \ {k} : entries'[j] = entries[j]
    BY <2>1 DEF CacheTypeOK
  <2>5. Present(k)' /\ Fresh(k)'
    BY <2>1, <2>2, <2>3, <2>4 DEF Present, Fresh
  <2>6. \A j \in Keys \ {k} : (Present(j)' <=> Present(j)) /\ (Fresh(j)' <=> Fresh(j))
    BY <2>1, <2>4 DEF Present, Fresh
  <2>7. held' = [held EXCEPT ![k] = b]
    <3>1. (IF Present(k) THEN entries[k].body ELSE Absent)' = b
      BY <2>1, <2>4, <2>5
    <3>2. \A j \in Keys \ {k} : (IF Present(j) THEN entries[j].body ELSE Absent)'
                                 = IF Present(j) THEN entries[j].body ELSE Absent
      BY <2>4, <2>6
    <3> HIDE DEF Present
    <3> QED
      BY <3>1, <3>2 DEF held
  <2>8. fresh' = fresh \cup {k}
    BY <2>5, <2>6 DEF fresh
  <2> QED
    BY <2>7, <2>8
<1>3. CASE Tick
  <2>1. held' = held
    BY <1>3 DEF Tick, held, Present
  <2>2. ASSUME NEW k \in Keys, Fresh(k)' PROVE Fresh(k)
    <3>1. Present(k) /\ entries' = entries /\ now' = now + 1
      BY <1>3, <2>2 DEF Tick, Fresh, Present
    <3>2. (entries[k].at + entries[k].maxAge) * Parts \in Nat
      BY <3>1, Product DEF Present, CacheTypeOK, Row
    <3> QED
      BY <2>2, <3>1, <3>2 DEF Fresh, CacheTypeOK
  <2> QED
    BY <2>1, <2>2 DEF fresh
<1>4. CASE Flush
  BY <1>4, WithoutDrops DEF Flush
<1>5. ASSUME NEW k \in Deletable, Delete(k)
      PROVE  held' = [j \in Keys |-> IF j \in {k} THEN Absent ELSE held[j]] /\ fresh' = fresh \ {k}
  <2>1. {k} \in SUBSET Keys
    OBVIOUS
  <2> QED
    BY <1>5, <2>1, WithoutDrops DEF Delete
<1>6. CASE Cleanup
  <2> DEFINE S == {k \in Keys : Expired(k)}
  <2>1. S \in SUBSET (Keys \ fresh)
    BY ExpiredIsStale DEF fresh
  <2>2. held' = [k \in Keys |-> IF k \in S THEN Absent ELSE held[k]] /\ fresh' = fresh \ S
    BY <1>6, WithoutDrops DEF Cleanup
  <2> QED
    BY <2>1, <2>2
<1> HIDE DEF TInv, RestTyped
<1> QED
  BY <1>1, <1>2, <1>3, <1>4, <1>5, <1>6 DEF CacheStep

(* The table of answers with their times implements CachePromise: an answer *)
(* stays fresh until it expires, only a new one makes a key fresh again, and *)
(* what is fresh goes away only where a handler deletes it.                  *)
THEOREM Refines == Spec => CacheKeepsPromise
<1>1. Init => Promise!Init
  BY DEF Init, CacheInit, Promise!Init, Present, Fresh
<1>2. TInv /\ [Next]_vars => [Promise!Next]_<<held, fresh>>
  <2> SUFFICES ASSUME TInv, [Next]_vars
               PROVE  Promise!Next \/ UNCHANGED <<held, fresh>>
    OBVIOUS
  <2>1. CacheStep
    BY StepOfCache
  <2>2. CASE UNCHANGED <<held, fresh>>
    BY <2>2
  <2>3. CASE fresh' \subseteq fresh /\ UNCHANGED held
    BY <2>3 DEF Promise!Next, Promise!Expire, held, fresh
  <2>4. ASSUME NEW k \in Keys, NEW b \in Bodies,
               held' = [held EXCEPT ![k] = b] /\ fresh' = fresh \cup {k}
        PROVE  Promise!Next
    BY <2>4 DEF Promise!Next, Promise!Put, held, fresh
  <2>5. ASSUME NEW S \in {Keys} \cup {{k} : k \in Deletable} \cup SUBSET (Keys \ fresh),
               held' = [k \in Keys |-> IF k \in S THEN Absent ELSE held[k]] /\ fresh' = fresh \ S
        PROVE  Promise!Next
    <3>1. Promise!Drop(S)
      BY <2>5 DEF Promise!Drop, held, fresh
    <3>2. CASE S = Keys
      BY <3>1, <3>2 DEF Promise!Next, Promise!Flush
    <3>3. ASSUME NEW k \in Deletable, S = {k} PROVE Promise!Next
      BY <3>1, <3>3 DEF Promise!Next, Promise!Delete
    <3>4. CASE S \in SUBSET (Keys \ fresh)
      BY <3>1, <3>4 DEF Promise!Next, Promise!Sweep, fresh
    <3> QED
      BY <3>2, <3>3, <3>4
  <2> QED
    BY <2>1, <2>2, <2>3, <2>4, <2>5, StepKeepsPromise
<1> QED
  BY <1>1, <1>2, AlwaysTyped, PTL DEF Spec, CacheKeepsPromise, Promise!Spec, held, fresh

-----------------------------------------------------------------------------
(* The slots. *)

\* Only goroutines wait for a slot.
Waiting == \A p \in Pages, k \in Keys : look[p][k] = "wait" => stage[p] = 2
Pool    == IsFiniteSet(Holding) /\ PoolRight

Holds == {"look", "fetch", "agents", "store"}

LEMMA NothingUnderWay ==
  ASSUME TInv, NEW p \in Pages, Through(p)
  PROVE  \A k \in Keys : look[p][k] \notin Under
  BY DEF TInv, Control, Through, Busy, Under, Places

LEMMA WaitingKept ==
  ASSUME TInv, Waiting, [Next]_vars
  PROVE  Waiting'
<1>1. ASSUME NEW p \in Pages, PageMoves(p) PROVE Waiting'
  <2>1. CASE Open(p)
    BY <1>1, <2>1 DEF TInv, PagesTyped, Waiting, Open, ToStage
  <2>2. CASE Spawn(p)
    BY <2>2, NothingUnderWay DEF TInv, PagesTyped, Waiting, Spawn, ToStage, Under, Places
  <2>3. CASE Gather(p)
    BY <2>3, NothingUnderWay DEF TInv, PagesTyped, Waiting, Gather, ToStage, Under, Places
  <2>4. CASE Answer(p)
    BY <2>4, NothingUnderWay DEF TInv, PagesTyped, Waiting, Answer, ToStage, Under, Places
  <2>5. ASSUME NEW k \in Keys, Ask(p, k) PROVE Waiting'
    BY <2>5 DEF TInv, PagesTyped, Waiting, Ask
  <2> QED
    BY <1>1, <2>1, <2>2, <2>3, <2>4, <2>5 DEF PageMoves
<1>2. ASSUME NEW p \in Pages, NEW k \in Keys, LookupMoves(p, k) PROVE Waiting'
  BY <1>2 DEF TInv, PagesTyped, Waiting, LookupMoves
<1>3. CASE Around
  BY <1>3 DEF Around, CacheMoves, Rename, HangUp, pages, Waiting
<1>4. CASE UNCHANGED vars
  BY <1>4 DEF vars, pages, Waiting
<1> QED
  BY <1>1, <1>2, <1>3, <1>4, NextCases, LookupIsMove

LEMMA SameHolding ==
  ASSUME Pool, UNCHANGED slots, Holding' = Holding
  PROVE  Pool'
  BY DEF Pool, PoolRight

LEMMA PageKeepsPool ==
  ASSUME TInv, Pool, NEW p \in Pages, PageMoves(p)
  PROVE  Pool'
<1> USE DEF TInv, PagesTyped
<1>1. CASE Open(p)
  BY <1>1, SameHolding DEF Open, ToStage, Holding, InFan
<1>2. CASE Spawn(p)
  <2>1. \A q \in Pages, k \in Keys :
          (stage'[q] = 2 /\ look'[q][k] \in Holds) <=> (stage[q] = 2 /\ look[q][k] \in Holds)
    BY <1>2, NothingUnderWay DEF Spawn, ToStage, Holds, Under, Places
  <2>2. Holding' = Holding
    BY <2>1 DEF Holding, InFan, Holds
  <2> QED
    BY <1>2, <2>2, SameHolding DEF Spawn
<1>3. CASE Gather(p)
  <2>1. \A q \in Pages, k \in Keys :
          (stage'[q] = 2 /\ look'[q][k] \in Holds) <=> (stage[q] = 2 /\ look[q][k] \in Holds)
    BY <1>3, NothingUnderWay DEF Gather, ToStage, Holds, Under, Places
  <2>2. Holding' = Holding
    BY <2>1 DEF Holding, InFan, Holds
  <2> QED
    BY <1>3, <2>2, SameHolding DEF Gather
<1>4. CASE Answer(p)
  BY <1>4, SameHolding DEF Answer, ToStage, Holding, InFan
<1>5. ASSUME NEW k \in Keys, Ask(p, k) PROVE Pool'
  BY <1>5, SameHolding DEF Ask, Holding, InFan
<1> QED
  BY <1>1, <1>2, <1>3, <1>4, <1>5 DEF PageMoves

LEMMA AcquireKeepsPool ==
  ASSUME TInv, Waiting, Pool, NEW p \in Pages, NEW k \in Keys, Acquire(p, k)
  PROVE  Pool'
<1>1. <<p, k>> \notin Holding /\ stage[p] = 2
  BY DEF Acquire, At, Waiting, Holding
<1>2. Holding' = Holding \cup {<<p, k>>}
  BY <1>1 DEF TInv, PagesTyped, Acquire, To, KeepPage, Holding, InFan
<1>3. IsFiniteSet(Holding') /\ Cardinality(Holding') = Cardinality(Holding) + 1
  BY <1>1, <1>2, FS_AddElement DEF Pool
<1>4. slots' = slots + 1 /\ slots < Cap /\ slots \in Int
  BY DEF Acquire, TInv, PagesTyped
<1> QED
  BY <1>3, <1>4, LookupsAssumption DEF Pool, PoolRight

LEMMA ReturnKeepsPool ==
  ASSUME TInv, Pool, NEW p \in Pages, NEW k \in Keys, NEW v, look[p][k] \in Holds,
         Return(p, k, v), UNCHANGED stage
  PROVE  Pool'
<1>1. look' = [look EXCEPT ![p][k] = "done"]
  BY DEF Return, To
<1>2. CASE InFan(p)
  <2>1. <<p, k>> \in Holding
    BY <1>2 DEF Holding, Holds
  <2>2. Holding' = Holding \ {<<p, k>>}
    BY <1>1, <2>1 DEF TInv, PagesTyped, Holding, InFan
  <2>3. IsFiniteSet(Holding') /\ Cardinality(Holding') = Cardinality(Holding) - 1
    BY <2>1, <2>2, FS_RemoveElement DEF Pool
  <2>4. slots' = slots - 1 /\ slots \in Int
    BY <1>2 DEF Return, TInv, PagesTyped
  <2> QED
    BY <2>3, <2>4, LookupsAssumption DEF Pool, PoolRight
<1>3. CASE ~ InFan(p)
  <2>1. Holding' = Holding
    BY <1>1, <1>3 DEF TInv, PagesTyped, Holding, InFan
  <2> QED
    BY <1>3, <2>1, SameHolding DEF Return
<1> QED
  BY <1>2, <1>3

LEMMA GoesKeepsPool ==
  ASSUME TInv, Pool, NEW p \in Pages, NEW k \in Keys, NEW place \in Holds, look[p][k] \in Holds,
         Goes(p, k, place), UNCHANGED stage
  PROVE  Pool'
<1>1. Holding' = Holding
  BY DEF TInv, PagesTyped, Goes, To, Holding, Holds, InFan
<1> QED
  BY <1>1, SameHolding DEF Goes

LEMMA StepKeepsPool ==
  ASSUME TInv, Waiting, Pool, [Next]_vars
  PROVE  Pool'
<1>1. CASE UNCHANGED vars \/ Around
  <2>1. UNCHANGED pages
    BY <1>1 DEF vars, Around, CacheMoves, Rename, HangUp
  <2> QED
    BY <2>1, SameHolding DEF pages, Holding, InFan
<1>2. ASSUME NEW p \in Pages, PageMoves(p) PROVE Pool'
  BY <1>2, PageKeepsPool
<1>3. ASSUME NEW p \in Pages, NEW k \in Keys, Lookup(p, k) PROVE Pool'
  <2>1. CASE Acquire(p, k)
    BY <2>1, AcquireKeepsPool
  <2>2. CASE LookUp(p, k)
    BY <2>2, ReturnKeepsPool, GoesKeepsPool DEF LookUp, At, Holds, KeepPage
  <2>3. CASE Fetch(p, k)
    BY <2>3, ReturnKeepsPool, GoesKeepsPool DEF Fetch, Receive, At, Holds, KeepPage
  <2>4. CASE FetchAgent(p, k)
    BY <2>4, ReturnKeepsPool, GoesKeepsPool DEF FetchAgent, Receive, At, Holds, KeepPage
  <2>5. CASE Store(p, k)
    BY <2>5, ReturnKeepsPool DEF Store, At, Holds, KeepPage
  <2> QED
    BY <1>3, <2>1, <2>2, <2>3, <2>4, <2>5 DEF Lookup
<1> QED
  BY <1>1, <1>2, <1>3, NextCases

(* Every slot in use belongs to a goroutine that will give it back, and no  *)
(* more are in use than apiSem has, for any number of pages.                *)
THEOREM Slots == Spec => []PoolRight
<1>1. Init => Waiting /\ Pool
  <2> SUFFICES ASSUME Init PROVE Waiting /\ Pool
    OBVIOUS
  <2>1. Holding = {} /\ slots = 0
    BY DEF Init, Holding, InFan
  <2>2. IsFiniteSet(Holding) /\ Cardinality(Holding) = 0
    BY <2>1, FS_EmptySet
  <2> QED
    BY <2>1, <2>2, LookupsAssumption DEF Init, Waiting, Pool, PoolRight
<1>2. TInv /\ Waiting /\ Pool /\ [Next]_vars => (Waiting /\ Pool)'
  BY WaitingKept, StepKeepsPool
<1>3. Pool => PoolRight
  BY DEF Pool
<1> QED
  BY <1>1, <1>2, <1>3, AlwaysTyped, PTL DEF Spec

-----------------------------------------------------------------------------
(* Blanks. *)

\* What a page has gone past it has looked up, and what it found nothing for did not answer.
GonePast ==
  \A p \in Pages, k \in Keys :
    /\ \A i \in 1..3 : stage[p] > i /\ k \in Plan[p][i] => look[p][k] # "none"
    /\ stage[p] \in {1, 3} /\ k \in Plan[p][stage[p]] \ todo[p] => look[p][k] # "none"
    /\ stage[p] = 2 /\ k \in Plan[p][2] => look[p][k] # "none"
Accounted ==
  \A p \in Pages, k \in Keys : look[p][k] = "done" /\ result[p][k] = Unknown => k \in seen.failed[p]

LEMMA GonePastKept ==
  ASSUME TInv, GonePast, [Next]_vars
  PROVE  GonePast'
<1> USE DEF TInv, PagesTyped
<1>1. ASSUME NEW p \in Pages, PageMoves(p) PROVE GonePast'
  <2>1. CASE Open(p)
    BY <2>1 DEF GonePast, Open, ToStage
  <2>2. CASE Spawn(p)
    BY <2>2 DEF GonePast, Spawn, Through, ToStage
  <2>3. CASE Gather(p)
    BY <2>3 DEF GonePast, Gather, Through, ToStage
  <2>4. CASE Answer(p)
    BY <2>4 DEF GonePast, Answer, Through, ToStage
  <2>5. ASSUME NEW k \in Keys, Ask(p, k) PROVE GonePast'
    BY <2>5 DEF GonePast, Ask
  <2> QED
    BY <1>1, <2>1, <2>2, <2>3, <2>4, <2>5 DEF PageMoves
<1>2. ASSUME NEW p \in Pages, NEW k \in Keys, LookupMoves(p, k) PROVE GonePast'
  <2>1. \A q \in Pages, j \in Keys : look[q][j] # "none" => look'[q][j] # "none"
    BY <1>2 DEF LookupMoves
  <2> QED
    BY <1>2, <2>1 DEF GonePast, LookupMoves
<1>3. CASE Around \/ UNCHANGED vars
  BY <1>3 DEF Around, CacheMoves, Rename, HangUp, vars, pages, GonePast
<1> QED
  BY <1>1, <1>2, <1>3, NextCases, LookupIsMove

\* A lookup that does not end, or ends with what was found or what failed.
LEMMA AccountedKept ==
  ASSUME TInv, Accounted, NEW p \in Pages, NEW k \in Keys, LookupMoves(p, k),
         \A q \in Pages : seen.failed[q] \subseteq seen'.failed[q],
         \A q \in Pages, j \in Keys : result'[q][j] = result[q][j] \/ (q = p /\ j = k),
         look'[p][k] = "done" /\ result'[p][k] = Unknown => k \in seen'.failed[p]
  PROVE  Accounted'
  BY DEF TInv, PagesTyped, Accounted, LookupMoves

LEMMA FailuresKept ==
  ASSUME seen \in Histories, NEW p \in Pages, NEW k \in Keys, NEW v,
         \/ seen' \in {seen, Begun(p, k), Returned(k, v), Raced(seen, k), Raced(Returned(k, v), k)}
         \/ GaveUp(p, k)
  PROVE  /\ \A q \in Pages : seen.failed[q] \subseteq seen'.failed[q]
         /\ GaveUp(p, k) => k \in seen'.failed[p]
<1>1. CASE GaveUp(p, k)
  BY <1>1 DEF Histories, GaveUp
<1>2. CASE ~ GaveUp(p, k)
  <2>1. seen'.failed = seen.failed
    BY <1>2 DEF Histories, Begun, Returned, Raced
  <2> QED
    BY <1>2, <2>1
<1> QED
  BY <1>1, <1>2

LEMMA LookupAccounted ==
  ASSUME TInv, Accounted, NEW p \in Pages, NEW k \in Keys, Lookup(p, k)
  PROVE  Accounted'
<1> USE LookupsAssumption
<1>1. LookupMoves(p, k) /\ seen \in Histories
  BY LookupIsMove DEF TInv, RestTyped
<1>2. Fresh(k) => entries[k].body \in Bodies
  BY DEF TInv, RestTyped, CacheTypeOK, Fresh, Present, Row
<1>3. \A q \in Pages : seen.failed[q] \subseteq seen'.failed[q]
  BY <1>1, FailuresKept DEF Lookup, Acquire, LookUp, Fetch, FetchAgent, Receive, Store
<1>4. \A q \in Pages, j \in Keys : result'[q][j] = result[q][j] \/ (q = p /\ j = k)
  BY DEF TInv, PagesTyped, Lookup, Acquire, LookUp, Fetch, FetchAgent, Receive, Store, Return, Goes
<1>5. look'[p][k] = "done" /\ result'[p][k] = Unknown => k \in seen'.failed[p]
  <2> USE DEF TInv, PagesTyped
  <2>1. CASE Acquire(p, k)
    BY <2>1 DEF Acquire, To
  <2>2. CASE LookUp(p, k)
    BY <2>2, <1>2 DEF LookUp, Return, Goes, To
  <2>3. CASE Fetch(p, k)
    <3>1. look'[p][k] = "done" => GaveUp(p, k)
      BY <2>3 DEF Fetch, Receive, Goes, To
    <3>2. GaveUp(p, k) => k \in seen'.failed[p]
      BY <1>1, FailuresKept
    <3> QED
      BY <3>1, <3>2
  <2>4. CASE FetchAgent(p, k)
    <3>1. look'[p][k] = "done" => GaveUp(p, k)
      BY <2>4 DEF FetchAgent, Receive, Goes, To
    <3>2. GaveUp(p, k) => k \in seen'.failed[p]
      BY <1>1, FailuresKept
    <3> QED
      BY <3>1, <3>2
  <2>5. CASE Store(p, k)
    BY <2>5 DEF Store, Control, At, Return, To
  <2> QED
    BY <2>1, <2>2, <2>3, <2>4, <2>5 DEF Lookup
<1> QED
  BY <1>1, <1>3, <1>4, <1>5, AccountedKept

LEMMA StepAccounted ==
  ASSUME TInv, Accounted, [Next]_vars
  PROVE  Accounted'
<1>1. ASSUME NEW p \in Pages, PageMoves(p) PROVE Accounted'
  <2>1. UNCHANGED result /\ seen'.failed = seen.failed
    BY <1>1 DEF TInv, RestTyped, Histories, PageMoves, Open, Spawn, Gather, Answer, Ask, Begun
  <2>2. \A q \in Pages, k \in Keys : look'[q][k] = "done" => look[q][k] = "done"
    <3>1. CASE UNCHANGED look
      BY <3>1
    <3>2. CASE Spawn(p)
      <4>1. look' = [look EXCEPT ![p] = [k \in Keys |-> IF k \in Plan[p][2] THEN "wait" ELSE @[k]]]
        BY <3>2 DEF Spawn
      <4> QED
        BY <4>1 DEF TInv, PagesTyped
    <3>3. ASSUME NEW j \in Keys, Ask(p, j)
          PROVE  \A q \in Pages, k \in Keys : look'[q][k] = "done" => look[q][k] = "done"
      <4>1. look' = [look EXCEPT ![p][j] = "look"]
        BY <3>3 DEF Ask
      <4> QED
        BY <4>1 DEF TInv, PagesTyped
    <3> QED
      BY <1>1, <3>1, <3>2, <3>3 DEF PageMoves, Open, Gather, Answer
  <2> QED
    BY <2>1, <2>2 DEF Accounted
<1>2. CASE Around \/ UNCHANGED vars
  BY <1>2 DEF Around, CacheMoves, Rename, HangUp, vars, pages, Accounted
<1> QED
  BY <1>1, <1>2, LookupAccounted, NextCases

(* A page that is answered has looked up everything it shows, and leaves    *)
(* blank only what Freshdesk did not answer to it.                          *)
THEOREM Blanks == Spec => []BlanksExplained
<1> USE LookupsAssumption
<1>1. Init => GonePast /\ Accounted
  BY DEF Init, GonePast, Accounted
<1>2. TInv /\ GonePast /\ Accounted /\ [Next]_vars => (GonePast /\ Accounted)'
  BY GonePastKept, StepAccounted
<1>3. TInv /\ GonePast /\ Accounted => BlanksExplained
  <2> SUFFICES ASSUME TInv, GonePast, Accounted, NEW p \in Pages, stage[p] = 4, NEW k \in Asked(p)
               PROVE  look[p][k] = "done" /\ (result[p][k] = Unknown => k \in seen.failed[p])
    BY DEF BlanksExplained
  <2>1. k \in Keys /\ look[p][k] # "none"
    BY DEF Asked, GonePast
  <2>2. look[p][k] \in Places
    BY <2>1 DEF TInv, PagesTyped
  <2>3. look[p][k] \notin Under
    BY <2>1 DEF TInv, Control
  <2> QED
    BY <2>1, <2>2, <2>3 DEF Accounted, Under, Places
<1> QED
  BY <1>1, <1>2, <1>3, AlwaysTyped, PTL DEF Spec

-----------------------------------------------------------------------------
(* Older answers. *)

\* Unless k raced: what is fresh and what is on its way to the cache is as new as what was returned,
\* and only one lookup of k has an answer to store.
Ordered(k) ==
  /\ seen.newest[k] <= upstream[k]
  /\ Fresh(k) => seen.newest[k] <= entries[k].body /\ entries[k].body <= upstream[k]
  /\ \A p \in Pages : look[p][k] = "store" =>
       /\ seen.newest[k] <= got[p][k] /\ got[p][k] <= upstream[k]
       /\ Fresh(k) => entries[k].body <= got[p][k]
       /\ \A q \in Pages : look[q][k] = "store" => q = p
Order  == \A k \in Keys \ seen.raced : Ordered(k)
Floors == \A p \in Pages, k \in Keys : seen.floor[p][k] <= seen.newest[k]
OInv   == Order /\ Floors /\ NeverOlder

\* What a lookup of k for p does to the history.
Told(p, k) ==
  \/ seen' \in {seen, Begun(p, k), Raced(seen, k)} \/ GaveUp(p, k)
  \/ \E v \in Bodies : seen' \in {Returned(k, v), Raced(Returned(k, v), k)}

LEMMA LookupTells ==
  ASSUME TInv, NEW p \in Pages, NEW k \in Keys, Lookup(p, k)
  PROVE  Told(p, k)
<1>1. Fresh(k) => entries[k].body \in Bodies
  BY DEF TInv, RestTyped, CacheTypeOK, Fresh, Present, Row
<1>2. look[p][k] = "store" => got[p][k] \in Bodies
  BY DEF TInv, Control
<1>3. CASE Acquire(p, k) \/ LookUp(p, k)
  BY <1>1, <1>3 DEF Told, Acquire, LookUp
<1>4. CASE Fetch(p, k) \/ FetchAgent(p, k)
  BY <1>4 DEF Told, Fetch, FetchAgent, Receive
<1>5. CASE Store(p, k)
  BY <1>2, <1>5 DEF Told, Store, At
<1> QED
  BY <1>3, <1>4, <1>5 DEF Lookup

LEMMA HistoryGrows ==
  ASSUME seen \in Histories, NEW p \in Pages, NEW k \in Keys, Told(p, k)
  PROVE  /\ seen.raced \subseteq seen'.raced /\ seen'.raced \subseteq seen.raced \cup {k}
         /\ \A j \in Keys : seen'.newest[j] >= seen.newest[j] /\ (j # k => seen'.newest[j] = seen.newest[j])
         /\ \A q \in Pages, j \in Keys :
              \/ seen'.floor[q][j] = seen.floor[q][j]
              \/ q = p /\ j = k /\ seen'.floor[q][j] = seen.newest[j] /\ seen'.newest = seen.newest
<1> USE LookupsAssumption
<1>1. CASE seen' = seen
  BY <1>1 DEF Histories
<1>2. CASE seen' = Begun(p, k)
  BY <1>2 DEF Histories, Begun
<1>3. CASE seen' = Raced(seen, k)
  BY <1>3 DEF Histories, Raced
<1>4. CASE GaveUp(p, k)
  BY <1>4 DEF Histories, GaveUp
<1>5. ASSUME NEW v \in Bodies, seen' \in {Returned(k, v), Raced(Returned(k, v), k)}
      PROVE  /\ seen.raced \subseteq seen'.raced /\ seen'.raced \subseteq seen.raced \cup {k}
             /\ \A j \in Keys : seen'.newest[j] >= seen.newest[j] /\ (j # k => seen'.newest[j] = seen.newest[j])
             /\ seen'.floor = seen.floor
  <2>1. seen'.newest = [seen.newest EXCEPT ![k] = IF v > @ THEN v ELSE @] /\ seen'.floor = seen.floor
    <3>1. CASE seen' = Returned(k, v)
      BY <3>1, SMTT(30) DEF Histories, Returned
    <3>2. CASE seen' = Raced(Returned(k, v), k)
      BY <3>2, SMTT(30) DEF Histories, Returned, Raced
    <3> QED
      BY <1>5, <3>1, <3>2
  <2>2. seen.raced \subseteq seen'.raced /\ seen'.raced \subseteq seen.raced \cup {k}
    <3>1. CASE seen' = Returned(k, v)
      BY <3>1, SMTT(30) DEF Histories, Returned
    <3>2. CASE seen' = Raced(Returned(k, v), k)
      BY <3>2, SMTT(30) DEF Histories, Returned, Raced
    <3> QED
      BY <1>5, <3>1, <3>2
  <2>3. seen.newest \in [Keys -> 0..MaxVersion]
    BY DEF Histories
  <2>4. v \in Nat /\ \A j \in Keys : seen.newest[j] \in Nat
    BY <1>5, <2>3
  <2>5. \A j \in Keys : seen'.newest[j] >= seen.newest[j] /\ (j # k => seen'.newest[j] = seen.newest[j])
    BY <2>1, <2>3, <2>4
  <2> QED
    BY <2>1, <2>2, <2>5
<1> QED
  BY <1>1, <1>2, <1>3, <1>4, <1>5 DEF Told

LEMMA OtherKeys ==
  ASSUME TInv, NEW p \in Pages, NEW k \in Keys, Lookup(p, k), NEW j \in Keys \ {k}
  PROVE  /\ (Fresh(j)' <=> Fresh(j)) /\ entries'[j] = entries[j] /\ upstream' = upstream
         /\ \A q \in Pages : look'[q][j] = look[q][j] /\ got'[q][j] = got[q][j] /\ result'[q][j] = result[q][j]
<1> USE DEF TInv, PagesTyped
<1>1. entries'[j] = entries[j] /\ now' = now
  <2>1. UNCHANGED cache \/ Put(k, got[p][k], AgeOf[p][k])
    BY DEF Lookup, Acquire, LookUp, Fetch, FetchAgent, Store
  <2> QED
    BY <2>1 DEF cache, Put, RestTyped, CacheTypeOK
<1>2. upstream' = upstream
  BY DEF Lookup, Acquire, LookUp, Fetch, FetchAgent, Store, KeepPage
<1>3. \E place : look' = [look EXCEPT ![p][k] = place]
  BY LookupIsMove DEF LookupMoves
<1>4. got' = got \/ \E v : got' = [got EXCEPT ![p][k] = v]
  BY DEF Lookup, Acquire, LookUp, Fetch, FetchAgent, Receive, Store
<1>5. result' = result \/ \E v : result' = [result EXCEPT ![p][k] = v]
  BY DEF Lookup, Acquire, LookUp, Fetch, FetchAgent, Receive, Store, Return, Goes
<1>6. \A q \in Pages : look'[q][j] = look[q][j]
  BY <1>3
<1>7. \A q \in Pages : got'[q][j] = got[q][j]
  <2>1. \A v : \A q \in Pages : [got EXCEPT ![p][k] = v][q][j] = got[q][j]
    OBVIOUS
  <2> QED
    BY <1>4, <2>1
<1>8. \A q \in Pages : result'[q][j] = result[q][j]
  <2>1. \A v : \A q \in Pages : [result EXCEPT ![p][k] = v][q][j] = result[q][j]
    OBVIOUS
  <2> QED
    BY <1>5, <2>1
<1>9. Fresh(j)' <=> Fresh(j)
  BY <1>1 DEF Fresh, Present
<1> QED
  BY <1>1, <1>2, <1>6, <1>7, <1>8, <1>9

LEMMA OrderedElsewhere ==
  ASSUME TInv, NEW p \in Pages, NEW k \in Keys, Lookup(p, k), NEW j \in Keys \ {k}, Ordered(j)
  PROVE  Ordered(j)'
<1>1. seen'.newest[j] = seen.newest[j]
  BY LookupTells, HistoryGrows DEF TInv, RestTyped
<1> QED
  BY <1>1, OtherKeys DEF Ordered

\* Whatever is compared is a version.
LEMMA Versions ==
  ASSUME TInv, NEW k \in Keys
  PROVE  /\ upstream[k] \in Nat /\ upstream[k] \in Bodies /\ seen.newest[k] \in Nat
         /\ Fresh(k) => entries[k].body \in Nat
         /\ \A p \in Pages : look[p][k] = "store" => got[p][k] \in Nat /\ got[p][k] \in Bodies
<1> USE LookupsAssumption DEF TInv, RestTyped
<1>1. Fresh(k) => entries[k].body \in Bodies
  BY DEF CacheTypeOK, Fresh, Present, Row
<1>2. seen.newest[k] \in Nat
  BY DEF Histories
<1> QED
  BY <1>1, <1>2 DEF Control

LEMMA ReturnedNewest ==
  ASSUME seen \in Histories, NEW k \in Keys, NEW v \in Bodies, seen.newest[k] <= v,
         seen' \in {Returned(k, v), Raced(Returned(k, v), k)}
  PROVE  seen'.newest[k] = v
<1>1. seen'.newest = [seen.newest EXCEPT ![k] = IF v > @ THEN v ELSE @]
  BY DEF Histories, Returned, Raced
<1>2. seen.newest \in [Keys -> 0..MaxVersion]
  BY DEF Histories
<1> QED
  BY <1>1, <1>2, LookupsAssumption

LEMMA StoreOrdered ==
  ASSUME TInv, NEW p \in Pages, NEW k \in Keys, Ordered(k), Store(p, k), k \notin seen'.raced
  PROVE  Ordered(k)' /\ result'[p][k] = got[p][k] /\ seen.newest[k] <= got[p][k]
<1> DEFINE v == got[p][k]
<1> USE DEF TInv, PagesTyped
<1>1. look[p][k] = "store" /\ v \in Bodies /\ v \in Nat
  BY Versions DEF Store, At
<1>2. seen.newest[k] <= v /\ v <= upstream[k] /\ (Fresh(k) => entries[k].body <= v)
  BY <1>1 DEF Ordered
<1>3. seen' \in {Returned(k, v), Raced(Returned(k, v), k)} /\ upstream' = upstream
  BY DEF Store, KeepPage
<1>4. seen'.newest[k] = v
  BY <1>1, <1>2, <1>3, ReturnedNewest DEF RestTyped
<1>5. \A q \in Pages : look'[q][k] # "store"
  BY <1>1 DEF Ordered, Store, Return, To
<1>6. Fresh(k)' => entries'[k].body = v
  <2>1. CASE Put(k, v, AgeOf[p][k])
    BY <2>1 DEF Put, RestTyped, CacheTypeOK
  <2>2. CASE UNCHANGED cache /\ seen' = IF Fresh(k) THEN Raced(Returned(k, v), k) ELSE Returned(k, v)
    <3>1. k \in Raced(Returned(k, v), k).raced
      BY DEF Raced, Returned, RestTyped, Histories
    <3>2. ~ Fresh(k)
      BY <2>2, <3>1
    <3> QED
      BY <2>2, <3>2 DEF cache, Fresh, Present
  <2> QED
    BY <2>1, <2>2 DEF Store
<1>7. result'[p][k] = v
  BY DEF Store, Return
<1> QED
  BY <1>1, <1>2, <1>3, <1>4, <1>5, <1>6, <1>7 DEF Ordered

LEMMA ReceiveOrdered ==
  ASSUME TInv, NEW p \in Pages, NEW k \in Keys, Ordered(k), Receive(p, k), look[p][k] # "store",
         UNCHANGED <<cache, upstream>>, k \notin seen'.raced
  PROVE  Ordered(k)'
<1> USE DEF TInv, PagesTyped
<1>1. k \in Raced(seen, k).raced
  BY DEF Raced, RestTyped, Histories
<1>2. seen' = seen /\ ~ OtherHas(p, k)
  BY <1>1 DEF Receive
<1>3. \A q \in Pages : look'[q][k] = "store" => q = p
  BY <1>2 DEF Receive, Goes, To, OtherHas, At
<1>4. got'[p][k] = upstream[k]
  BY DEF Receive
<1>5. Fresh(k)' <=> Fresh(k)
  BY DEF cache, Fresh, Present
<1>6. UNCHANGED <<entries, upstream>> /\ seen' = seen
  BY <1>2 DEF cache
<1>7. ASSUME NEW q \in Pages, look'[q][k] = "store"
      PROVE  /\ seen.newest[k] <= got'[q][k] /\ got'[q][k] <= upstream[k]
             /\ Fresh(k) => entries[k].body <= got'[q][k]
             /\ \A o \in Pages : look'[o][k] = "store" => o = q
  <2>1. q = p /\ \A o \in Pages : look'[o][k] = "store" => o = p
    BY <1>3, <1>7
  <2>2. upstream[k] <= upstream[k]
    BY Versions
  <2> QED
    BY <1>4, <2>1, <2>2 DEF Ordered
<1> HIDE DEF TInv, PagesTyped
<1> QED
  BY <1>5, <1>6, <1>7 DEF Ordered

\* Nothing to store appears, and nothing newer is returned.
LEMMA QuietOrdered ==
  ASSUME NEW k \in Keys, Ordered(k), UNCHANGED <<cache, upstream, got>>, seen'.newest[k] = seen.newest[k],
         \A p \in Pages : look'[p][k] = "store" => look[p][k] = "store"
  PROVE  Ordered(k)'
  BY DEF Ordered, cache, Fresh, Present

LEMMA LookUpOrdered ==
  ASSUME TInv, NEW p \in Pages, NEW k \in Keys, Ordered(k), LookUp(p, k)
  PROVE  Ordered(k)' /\ (look'[p][k] = "done" => seen.newest[k] <= result'[p][k])
<1>1. \A q \in Pages : look'[q][k] = "store" => look[q][k] = "store"
  <2>1. look \in [Pages -> [Keys -> Places]]
    BY DEF TInv, PagesTyped
  <2>2. \E place \in {"done", "fetch"} : look' = [look EXCEPT ![p][k] = place]
    BY DEF LookUp, Return, Goes, To
  <2> QED
    BY <2>1, <2>2
<1> USE DEF TInv, PagesTyped
<1>2. UNCHANGED <<cache, upstream, got>>
  BY DEF LookUp, KeepPage
<1>3. CASE Fresh(k) /\ Return(p, k, entries[k].body) /\ seen' = Returned(k, entries[k].body)
  <2> DEFINE b == entries[k].body
  <2>1. b \in Bodies /\ seen.newest[k] <= b
    BY <1>3 DEF Ordered, RestTyped, CacheTypeOK, Fresh, Present, Row
  <2>2. seen'.newest[k] = b
    BY <1>3, <2>1, ReturnedNewest DEF RestTyped
  <2>3. result'[p][k] = b
    BY <1>3 DEF Return
  <2>4. (Fresh(k)' <=> Fresh(k)) /\ entries' = entries /\ upstream' = upstream /\ got' = got
    BY <1>2 DEF cache, Fresh, Present
  <2>5. b \in Nat
    BY <2>1, LookupsAssumption
  <2>6. Ordered(k)'
    BY <1>1, <1>3, <2>2, <2>4, <2>5 DEF Ordered
  <2> QED
    BY <2>1, <2>3, <2>6
<1>4. CASE Goes(p, k, "fetch") /\ seen' \in {seen, Raced(seen, k)}
  <2>1. seen'.newest[k] = seen.newest[k]
    BY <1>4 DEF RestTyped, Histories, Raced
  <2>2. look'[p][k] # "done"
    BY <1>4 DEF Goes, To
  <2> QED
    BY <1>1, <1>2, <2>1, <2>2, QuietOrdered
<1> QED
  BY <1>3, <1>4 DEF LookUp

LEMMA AskingOrdered ==
  ASSUME TInv, NEW p \in Pages, NEW k \in Keys, Ordered(k), k \notin seen'.raced,
         Fetch(p, k) \/ FetchAgent(p, k)
  PROVE  Ordered(k)' /\ (look'[p][k] = "done" => result'[p][k] = Unknown)
<1> USE DEF TInv, PagesTyped
<1>1. look[p][k] # "store" /\ UNCHANGED <<cache, upstream>>
  BY DEF Fetch, FetchAgent, At, KeepPage
<1>2. CASE Receive(p, k)
  <2>1. look'[p][k] # "done"
    BY <1>2 DEF Receive, Goes, To
  <2> QED
    BY <1>1, <1>2, <2>1, ReceiveOrdered
<1>3. CASE UNCHANGED got /\ ((Return(p, k, Unknown) /\ GaveUp(p, k)) \/ (Goes(p, k, "agents") /\ UNCHANGED seen))
  <2>1. seen'.newest[k] = seen.newest[k]
    BY <1>3 DEF RestTyped, Histories, GaveUp
  <2>2. \A q \in Pages : look'[q][k] = "store" => look[q][k] = "store"
    BY <1>3 DEF Return, Goes, To
  <2>3. look'[p][k] = "done" => result'[p][k] = Unknown
    BY <1>3 DEF Return, Goes, To
  <2> QED
    BY <1>1, <1>3, <2>1, <2>2, <2>3, QuietOrdered
<1> QED
  BY <1>2, <1>3 DEF Fetch, FetchAgent

LEMMA LookupOrdered ==
  ASSUME TInv, NEW p \in Pages, NEW k \in Keys, Ordered(k), Lookup(p, k), k \notin seen'.raced
  PROVE  /\ Ordered(k)'
         /\ look'[p][k] = "done" /\ result'[p][k] # Unknown => seen.newest[k] <= result'[p][k]
<1>1. CASE Acquire(p, k)
  <2>1. seen'.newest[k] = seen.newest[k]
    BY <1>1 DEF TInv, RestTyped, Histories, Acquire, Begun
  <2>2. look'[p][k] = "look" /\ \A q \in Pages : look'[q][k] = "store" => look[q][k] = "store"
    BY <1>1 DEF TInv, PagesTyped, Acquire, To
  <2> QED
    BY <1>1, <2>1, <2>2, QuietOrdered DEF Acquire, KeepPage
<1>2. CASE LookUp(p, k)
  BY <1>2, LookUpOrdered
<1>3. CASE Fetch(p, k) \/ FetchAgent(p, k)
  BY <1>3, AskingOrdered
<1>4. CASE Store(p, k)
  BY <1>4, StoreOrdered
<1> QED
  BY <1>1, <1>2, <1>3, <1>4 DEF Lookup

LEMMA FloorsKept ==
  ASSUME seen \in Histories, Floors, NEW p \in Pages, NEW k \in Keys, Told(p, k)
  PROVE  Floors'
<1>1. \A q \in Pages, j \in Keys : seen.floor[q][j] \in Nat /\ seen.newest[j] \in Nat
  BY DEF Histories
<1>2. ASSUME NEW v \in Bodies PROVE v \in Nat
  BY LookupsAssumption
<1>3. seen' \in Histories
  <2>1. 1 \in Bodies
    BY LookupsAssumption
  <2>2. seen' \in {seen, Begun(p, k), Raced(seen, k)} \/ GaveUp(p, k) => seen' \in Histories
    BY <2>1, HistoryType DEF GaveUp
  <2>3. \A v \in Bodies : Returned(k, v) \in Histories /\ Raced(Returned(k, v), k) \in Histories
    BY HistoryType
  <2> QED
    BY <2>2, <2>3 DEF Told
<1>4. \A j \in Keys : seen'.newest[j] \in Nat
  BY <1>3 DEF Histories
<1> QED
  BY <1>1, <1>4, HistoryGrows DEF Floors

LEMMA LookupKeepsOrder ==
  ASSUME TInv, OInv, NEW p \in Pages, NEW k \in Keys, Lookup(p, k)
  PROVE  OInv'
<1>1. Told(p, k) /\ seen \in Histories
  BY LookupTells DEF TInv, RestTyped
<1>2. seen.raced \subseteq seen'.raced
  BY <1>1, HistoryGrows
<1>3. Order'
  <2> SUFFICES ASSUME NEW j \in Keys, j \notin seen'.raced PROVE Ordered(j)'
    BY DEF Order
  <2>1. Ordered(j)
    BY <1>2 DEF OInv, Order
  <2> QED
    BY <2>1, OrderedElsewhere, LookupOrdered
<1>4. Floors'
  BY <1>1, FloorsKept DEF OInv
<1>5. NeverOlder'
  <2> SUFFICES ASSUME NEW q \in Pages, NEW j \in Keys, j \notin seen'.raced,
                      look'[q][j] = "done", result'[q][j] # Unknown
               PROVE  result'[q][j] >= seen'.floor[q][j]
    BY DEF NeverOlder
  <2>1. CASE q = p /\ j = k
    <3>1. Ordered(k) /\ seen.newest[k] <= result'[p][k]
      BY <1>2, <2>1, LookupOrdered DEF OInv, Order
    <3>2. seen'.floor[p][k] <= seen.newest[k]
      BY <1>1, HistoryGrows DEF OInv, Floors, Histories
    <3>3. result'[p][k] \in Int /\ seen'.floor[p][k] \in Int /\ seen.newest[k] \in Int
      <4>1. TInv'
        BY LookupTyped
      <4> QED
        BY <2>1, <4>1, LookupsAssumption DEF TInv, PagesTyped, RestTyped, Histories
    <3> QED
      BY <2>1, <3>1, <3>2, <3>3
  <2>2. CASE ~ (q = p /\ j = k)
    <3>1. look'[q][j] = look[q][j] /\ result'[q][j] = result[q][j]
      <4>1. (\E place : look' = [look EXCEPT ![p][k] = place])
        BY LookupIsMove DEF LookupMoves
      <4>2. result' = result \/ \E v : result' = [result EXCEPT ![p][k] = v]
        BY DEF Lookup, Acquire, LookUp, Fetch, FetchAgent, Receive, Store, Return, Goes
      <4>3. \A v : [result EXCEPT ![p][k] = v][q][j] = result[q][j]
        BY <2>2 DEF TInv, PagesTyped
      <4>4. \A v : [look EXCEPT ![p][k] = v][q][j] = look[q][j]
        BY <2>2 DEF TInv, PagesTyped
      <4> QED
        BY <4>1, <4>2, <4>3, <4>4
    <3>2. seen'.floor[q][j] = seen.floor[q][j]
      BY <1>1, <2>2, HistoryGrows
    <3> QED
      BY <1>2, <3>1, <3>2 DEF OInv, NeverOlder
  <2> QED
    BY <2>1, <2>2
<1> QED
  BY <1>3, <1>4, <1>5 DEF OInv

LEMMA PageKeepsOrder ==
  ASSUME TInv, OInv, NEW p \in Pages, PageMoves(p)
  PROVE  OInv'
<1> USE DEF TInv, PagesTyped
<1>1. UNCHANGED <<cache, upstream, got, result>>
  BY DEF PageMoves, Open, Spawn, Gather, Answer, Ask
<1>2. \A q \in Pages, k \in Keys : look'[q][k] \in {"store", "done"} => look[q][k] = look'[q][k]
  <2>1. CASE UNCHANGED look
    BY <2>1
  <2>2. CASE Spawn(p)
    BY <2>2 DEF Spawn
  <2>3. ASSUME NEW k \in Keys, Ask(p, k)
        PROVE  \A q \in Pages, j \in Keys : look'[q][j] \in {"store", "done"} => look[q][j] = look'[q][j]
    BY <2>3 DEF Ask
  <2> QED
    BY <2>1, <2>2, <2>3 DEF PageMoves, Open, Gather, Answer
<1>3. seen \in Histories /\ (seen' = seen \/ \E k \in Keys : seen' = Begun(p, k))
  BY DEF RestTyped, PageMoves, Open, Spawn, Gather, Answer, Ask
<1>4. seen'.raced = seen.raced /\ seen'.newest = seen.newest
  BY <1>3 DEF Histories, Begun
<1>5. \A q \in Pages, k \in Keys :
        \/ seen'.floor[q][k] = seen.floor[q][k]
        \/ seen'.floor[q][k] = seen.newest[k] /\ look'[q][k] # "done"
  <2>1. CASE seen' = seen
    BY <2>1
  <2>2. ASSUME NEW k \in Keys, Ask(p, k) PROVE \A q \in Pages, j \in Keys :
          \/ seen'.floor[q][j] = seen.floor[q][j]
          \/ seen'.floor[q][j] = seen.newest[j] /\ look'[q][j] # "done"
    <3>1. seen' = Begun(p, k) /\ look' = [look EXCEPT ![p][k] = "look"]
      BY <2>2 DEF Ask
    <3>2. seen'.floor = [seen.floor EXCEPT ![p][k] = seen.newest[k]]
      BY <1>3, <3>1 DEF Histories, Begun
    <3>3. seen.floor \in [Pages -> [Keys -> 0..MaxVersion]]
      BY <1>3 DEF Histories
    <3> QED
      BY <3>1, <3>2, <3>3
  <2> QED
    BY <2>1, <2>2 DEF PageMoves, Open, Spawn, Gather, Answer
<1>6. Order'
  BY <1>1, <1>2, <1>4, QuietOrdered DEF OInv, Order
<1>7. Floors'
  BY <1>3, <1>4, <1>5 DEF OInv, Floors, Histories
<1>8. NeverOlder'
  BY <1>1, <1>2, <1>4, <1>5 DEF OInv, NeverOlder
<1> QED
  BY <1>6, <1>7, <1>8 DEF OInv

LEMMA AroundKeepsOrder ==
  ASSUME TInv, OInv, Around
  PROVE  OInv'
<1>1. UNCHANGED <<look, got, result, seen>>
  BY DEF Around, CacheMoves, Rename, HangUp, pages
<1>2. \A k \in Keys : upstream[k] <= upstream'[k]
  <2>1. \A k \in Keys : upstream[k] \in Nat
    BY Versions
  <2>2. UNCHANGED upstream \/ \E k \in Keys : upstream' = [upstream EXCEPT ![k] = @ + 1]
    BY DEF Around, CacheMoves, Rename, HangUp
  <2>3. upstream \in [Keys -> Bodies]
    BY DEF TInv, RestTyped
  <2> QED
    BY <2>1, <2>2, <2>3
<1>3. \A k \in Keys : Fresh(k)' => Fresh(k) /\ entries'[k] = entries[k]
  <2>1. CASE UNCHANGED cache
    BY <2>1 DEF cache, Fresh, Present
  <2>2. CASE Tick
    <3> SUFFICES ASSUME NEW k \in Keys, Fresh(k)' PROVE Fresh(k)
      BY <2>2 DEF Tick
    <3>1. Present(k) /\ entries' = entries /\ now' = now + 1
      BY <2>2 DEF Tick, Fresh, Present
    <3>2. (entries[k].at + entries[k].maxAge) * Parts \in Nat
      BY <3>1, Product, CacheAssumption DEF TInv, RestTyped, Present, CacheTypeOK, Row
    <3> QED
      BY <3>1, <3>2 DEF Fresh, TInv, RestTyped, CacheTypeOK
  <2>3. ASSUME NEW S \in SUBSET Keys, Without(S) PROVE \A k \in Keys : Fresh(k)' => Fresh(k) /\ entries'[k] = entries[k]
    BY <2>3 DEF Without, Fresh, Present
  <2>4. \/ UNCHANGED cache \/ Tick
        \/ \E S \in SUBSET Keys : Without(S)
    BY CacheAssumption DEF Around, CacheMoves, Rename, HangUp, Flush, Cleanup, Delete
  <2> QED
    BY <2>1, <2>2, <2>3, <2>4
<1>4. \A k \in Keys : Ordered(k) => Ordered(k)'
  <2> SUFFICES ASSUME NEW k \in Keys, Ordered(k) PROVE Ordered(k)'
    OBVIOUS
  <2>1. TInv'
    BY AroundTyped
  <2>2. upstream'[k] \in Nat
    BY <2>1, LookupsAssumption DEF TInv, RestTyped
  <2> QED
    BY <1>1, <1>2, <1>3, <2>2, Versions DEF Ordered
<1> QED
  BY <1>1, <1>4 DEF OInv, Order, Floors, NeverOlder

(* No lookup returns less than another had when it began, for any pages,    *)
(* ages and faults, unless the key raced.                                   *)
THEOREM Fresher == Spec => []NeverOlder
<1>1. Init => OInv
  <2> SUFFICES ASSUME Init PROVE OInv
    OBVIOUS
  <2> QED
    BY LookupsAssumption DEF Init, CacheInit, OInv, Order, Ordered, Floors, NeverOlder, Fresh, Present
<1>2. TInv /\ OInv /\ [Next]_vars => OInv'
  <2>1. CASE UNCHANGED vars
    <3>1. \A k \in Keys : Ordered(k)' <=> Ordered(k)
      BY <2>1 DEF vars, pages, cache, Ordered, Fresh, Present
    <3> QED
      BY <2>1, <3>1 DEF vars, pages, OInv, Order, Floors, NeverOlder
  <2> QED
    BY <2>1, NextCases, LookupKeepsOrder, PageKeepsOrder, AroundKeepsOrder
<1>3. OInv => NeverOlder
  BY DEF OInv
<1> QED
  BY <1>1, <1>2, <1>3, AlwaysTyped, PTL DEF Spec
=============================================================================
