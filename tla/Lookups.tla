------------------------------- MODULE Lookups -------------------------------
(* How pages get what Freshdesk knows about companies, contacts, agents,     *)
(* conversations and status choices: look it up in the cache, otherwise ask  *)
(* Freshdesk and store the answer. A page looks some of it up itself, one    *)
(* after the other, and some in goroutines that share the slots of apiSem.   *)
EXTENDS ApiCache, Integers, FiniteSets

CONSTANTS
  Pages,          \* requests for a board or a ticket page; each is made once
  Plan,           \* Plan[p]: what p looks up before, in, and after its goroutines
  AgeOf,          \* AgeOf[p][k]: the max age with which p stores k, in seconds
  Contacts,       \* keys of contacts; those in AgentIds are agents' and unknown to the contacts API
  AgentIds,
  Changing,       \* keys whose answer at Freshdesk changes
  Cap,            \* capacity of apiSem
  Leaving,        \* pages whose client may hang up
  Faults,         \* which things can fail: a subset of {"api", "read", "write"}
  MaxTime, MaxVersion,  \* bounds of the clock and of the changes at Freshdesk
  Unknown         \* shown where nothing could be found out

ASSUME LookupsAssumption ==
  /\ Plan \in [Pages -> [1..3 -> SUBSET Keys]]
  /\ AgeOf \in [Pages -> [Keys -> Nat \ {0}]]
  /\ AgentIds \subseteq Contacts /\ Contacts \subseteq Keys /\ Changing \subseteq Keys
  /\ Leaving \subseteq Pages
  /\ {Cap, MaxVersion} \subseteq Nat \ {0} /\ MaxTime \in Nat
  /\ Bodies = 1..MaxVersion /\ Unknown \notin Bodies

VARIABLES
  upstream,  \* the version Freshdesk has of each key
  stage,     \* of each page: 0 not asked for, 1..3 as in its plan, 4 answered
  todo,      \* what the page itself still looks up in this stage
  look,      \* look[p][k]: the place of the lookup of k for p
  got,       \* what that lookup got from Freshdesk
  result,    \* what it returned
  slots,     \* of apiSem, in use
  gone,      \* pages whose client has hung up
  seen       \* history: newest[k], the newest version returned; floor[p][k], as it was when p began its
             \* lookup; raced, keys fetched twice at once or past a fresh entry; failed[p], not answered

pages == <<stage, todo, look, got, result, slots>>
vars  == <<cache, upstream, pages, gone, seen>>

Init ==
  /\ CacheInit
  /\ upstream = [k \in Keys |-> 1]
  /\ stage = [p \in Pages |-> 0] /\ todo = [p \in Pages |-> {}]
  /\ look = [p \in Pages |-> [k \in Keys |-> "none"]]
  /\ got = [p \in Pages |-> [k \in Keys |-> Unknown]] /\ result = got
  /\ slots = 0 /\ gone = {}
  /\ seen = [newest |-> [k \in Keys |-> 0], floor |-> [p \in Pages |-> [k \in Keys |-> 0]], raced |-> {},
             failed |-> [p \in Pages |-> {}]]

----------------------------------------------------------------------------
(* The pages.                                                                *)
Asked(p) == UNION {Plan[p][i] : i \in 1..3}
Busy(p)  == \E k \in Plan[p][stage[p]] : look[p][k] \notin {"none", "done"}
Through(p) == stage[p] \in 1..3 /\ todo[p] = {} /\ ~ Busy(p)
Begun(p, k) == [seen EXCEPT !.floor[p][k] = seen.newest[k]]
ToStage(p, n) == stage' = [stage EXCEPT ![p] = n]

Open(p) ==
  /\ stage[p] = 0 /\ ToStage(p, 1)
  /\ todo' = [todo EXCEPT ![p] = Plan[p][1]]
  /\ UNCHANGED <<cache, upstream, look, got, result, slots, gone, seen>>

\* The handler looks one key up itself, without a slot.
Ask(p, k) ==
  /\ stage[p] \in {1, 3} /\ ~ Busy(p) /\ k \in todo[p]
  /\ todo' = [todo EXCEPT ![p] = @ \ {k}]
  /\ look' = [look EXCEPT ![p][k] = "look"] /\ seen' = Begun(p, k)
  /\ UNCHANGED <<cache, upstream, stage, got, result, slots, gone>>

\* One goroutine for each company and conversation of a board, each sender of a ticket page.
Spawn(p) ==
  /\ Through(p) /\ stage[p] = 1 /\ ToStage(p, 2)
  /\ look' = [look EXCEPT ![p] = [k \in Keys |-> IF k \in Plan[p][2] THEN "wait" ELSE @[k]]]
  /\ UNCHANGED <<cache, upstream, todo, got, result, slots, gone, seen>>
\* Slip: the handler goes on without wg.Wait.
GatherEarly(p) ==
  /\ stage[p] = 2 /\ ToStage(p, 3)
  /\ todo' = [todo EXCEPT ![p] = Plan[p][3]]
  /\ UNCHANGED <<cache, upstream, look, got, result, slots, gone, seen>>
\* wg.Wait returns.
Gather(p) ==
  /\ Through(p) /\ stage[p] = 2 /\ ToStage(p, 3)
  /\ todo' = [todo EXCEPT ![p] = Plan[p][3]]
  /\ UNCHANGED <<cache, upstream, look, got, result, slots, gone, seen>>
Answer(p) ==
  /\ Through(p) /\ stage[p] = 3 /\ ToStage(p, 4)
  /\ UNCHANGED <<cache, upstream, todo, look, got, result, slots, gone, seen>>

----------------------------------------------------------------------------
(* A lookup.                                                                 *)
At(p, k, place) == look[p][k] = place
To(p, k, place) == look' = [look EXCEPT ![p][k] = place]
InFan(p) == stage[p] = 2
KeepPage(p) == UNCHANGED <<upstream, stage, todo, gone>>
Goes(p, k, place) == To(p, k, place) /\ UNCHANGED <<result, slots>>

\* Slip: a goroutine does not wait for a slot.
AcquireAnyway(p, k) ==
  /\ At(p, k, "wait")
  /\ slots' = slots + 1 /\ To(p, k, "look") /\ seen' = Begun(p, k)
  /\ UNCHANGED <<cache, got, result>> /\ KeepPage(p)
\* Whether the client is still there plays no part.
Acquire(p, k) ==
  /\ At(p, k, "wait") /\ slots < Cap
  /\ slots' = slots + 1 /\ To(p, k, "look") /\ seen' = Begun(p, k)
  /\ UNCHANGED <<cache, got, result>> /\ KeepPage(p)

\* Slip: a goroutine keeps its slot.
ReturnKeepsSlot(p, k, v) ==
  /\ To(p, k, "done")
  /\ result' = [result EXCEPT ![p][k] = v]
  /\ UNCHANGED slots
\* The lookup returns; a goroutine gives its slot back.
Return(p, k, v) ==
  /\ To(p, k, "done")
  /\ result' = [result EXCEPT ![p][k] = v]
  /\ slots' = IF InFan(p) THEN slots - 1 ELSE slots

Returned(k, v) == [seen EXCEPT !.newest[k] = IF v > @ THEN v ELSE @]
Raced(h, k)    == [h EXCEPT !.raced = @ \cup {k}]
Alive(p)       == p \notin gone
CanFail(p, f)  == f \in Faults \/ ~ Alive(p)
GaveUp(p, k)   == seen' = [seen EXCEPT !.failed[p] = @ \cup {k}]
OtherHas(p, k) == \E q \in Pages \ {p} : At(q, k, "store")

\* GetJSON: an error is a miss.
LookUp(p, k) ==
  /\ At(p, k, "look")
  /\ \/ Alive(p) /\ Fresh(k) /\ Return(p, k, entries[k].body)
        /\ seen' = Returned(k, entries[k].body)
     \/ /\ ~ Fresh(k) \/ CanFail(p, "read")
        /\ Goes(p, k, "fetch")
        /\ seen' = IF Fresh(k) THEN Raced(seen, k) ELSE seen
  /\ UNCHANGED <<cache, got>> /\ KeepPage(p)

Receive(p, k) ==
  /\ got' = [got EXCEPT ![p][k] = upstream[k]] /\ Goes(p, k, "store")
  /\ seen' = IF OtherHas(p, k) THEN Raced(seen, k) ELSE seen
\* GetCompany, GetContact, GetConversations, GetTicketFields.
Fetch(p, k) ==
  /\ At(p, k, "fetch")
  /\ \/ Alive(p) /\ k \notin AgentIds /\ Receive(p, k)
     \/ /\ CanFail(p, "api") \/ k \in AgentIds
        /\ UNCHANGED got
        /\ \/ k \in Contacts /\ Goes(p, k, "agents") /\ UNCHANGED seen
           \/ k \notin Contacts /\ Return(p, k, Unknown) /\ GaveUp(p, k)
  /\ UNCHANGED cache /\ KeepPage(p)
\* Somebody who is no contact may be an agent, and is then stored as a contact.
FetchAgent(p, k) ==
  /\ At(p, k, "agents")
  /\ \/ Alive(p) /\ k \in AgentIds /\ Receive(p, k)
     \/ /\ CanFail(p, "api") \/ k \notin AgentIds
        /\ Return(p, k, Unknown) /\ GaveUp(p, k) /\ UNCHANGED got
  /\ UNCHANGED cache /\ KeepPage(p)

\* SetJSON: an error is logged.
Store(p, k) ==
  /\ At(p, k, "store")
  /\ \/ Alive(p) /\ Put(k, got[p][k], AgeOf[p][k]) /\ seen' = Returned(k, got[p][k])
     \/ /\ CanFail(p, "write") /\ UNCHANGED cache
        /\ seen' = IF Fresh(k) THEN Raced(Returned(k, got[p][k]), k) ELSE Returned(k, got[p][k])
  /\ Return(p, k, got[p][k]) /\ got' = [got EXCEPT ![p][k] = Unknown]
  /\ KeepPage(p)

----------------------------------------------------------------------------
(* What happens around the pages.                                            *)
Rename(k) ==
  /\ k \in Changing /\ upstream[k] < MaxVersion
  /\ upstream' = [upstream EXCEPT ![k] = @ + 1]
  /\ UNCHANGED <<cache, pages, gone, seen>>
HangUp(p) ==
  /\ p \in Leaving /\ stage[p] \in 1..3 /\ Alive(p)
  /\ gone' = gone \cup {p}
  /\ UNCHANGED <<cache, upstream, pages, seen>>
\* Nothing in the program calls Cleanup so far.
CacheMoves ==
  /\ \/ now < MaxTime /\ Tick
     \/ Flush \/ Cleanup \/ \E k \in Deletable : Delete(k)
  /\ UNCHANGED <<upstream, pages, gone, seen>>

Steps(p) ==
  \/ Spawn(p) \/ Gather(p) \/ Answer(p)
  \/ \E k \in Keys : Ask(p, k) \/ LookUp(p, k) \/ Fetch(p, k) \/ FetchAgent(p, k) \/ Store(p, k)
Around == CacheMoves \/ (\E k \in Keys : Rename(k)) \/ (\E p \in Pages : HangUp(p))

Next == Around \/ \E p \in Pages : Open(p) \/ Steps(p) \/ \E k \in Keys : Acquire(p, k)
Spec == Init /\ [][Next]_vars
\* Goroutines run on, and a slot that is free goes to one that waits for it.
FairSpec ==
  /\ Spec
  /\ \A p \in Pages : WF_vars(Steps(p))
  /\ WF_vars(\E p \in Pages, k \in Keys : Acquire(p, k))

----------------------------------------------------------------------------
TypeOK ==
  /\ CacheTypeOK
  /\ upstream \in [Keys -> Bodies]
  /\ stage \in [Pages -> 0..4] /\ todo \in [Pages -> SUBSET Keys]
  /\ look \in [Pages -> [Keys -> {"none", "wait", "look", "fetch", "agents", "store", "done"}]]
  /\ got \in [Pages -> [Keys -> Bodies \cup {Unknown}]]
  /\ result \in [Pages -> [Keys -> Bodies \cup {Unknown}]]
  /\ slots \in Int /\ gone \subseteq Pages
  /\ seen \in [newest : [Keys -> 0..MaxVersion], floor : [Pages -> [Keys -> 0..MaxVersion]], raced : SUBSET Keys,
               failed : [Pages -> SUBSET Keys]]

(* The slots in use are those of the goroutines between their acquire and    *)
(* their return, and never more than apiSem has (dashboard.go:180-204,       *)
(* ticket.go:197-211): none is lost on the way through a failed call.        *)
Holding == {x \in Pages \X Keys : InFan(x[1]) /\ look[x[1]][x[2]] \in {"look", "fetch", "agents", "store"}}
PoolRight == slots = Cardinality(Holding) /\ slots <= Cap

(* A page shows something for all it looked up; a blank only where Freshdesk *)
(* did not answer this very page, and nobody else's failure is remembered.   *)
BlanksExplained ==
  \A p \in Pages : stage[p] = 4 =>
    \A k \in Asked(p) : look[p][k] = "done" /\ (result[p][k] = Unknown => k \in seen.failed[p])

(* A lookup never returns an older answer than one that returned before it   *)
(* began, whatever expires, is deleted or changes, unless two pages had the  *)
(* key fetched at once, which may store the older answer over the newer one  *)
(* (dashboard.go:400), or a fresh entry could not be read or replaced.       *)
NeverOlder ==
  \A p \in Pages, k \in Keys \ seen.raced :
    look[p][k] = "done" /\ result[p][k] # Unknown => result[p][k] >= seen.floor[p][k]

(* Every page that was asked for is answered: goroutines of many pages       *)
(* waiting for the same slots do not block one another for ever, whatever    *)
(* fails and whoever hangs up.                                               *)
EveryPageAnswered == \A p \in Pages : stage[p] # 0 ~> stage[p] = 4
=============================================================================
