----------------------------- MODULE RateLimiter -----------------------------
(***************************************************************************)
(* noteLimiter (srv/ratelimit.go): a mutex and a map from ticket to the    *)
(* time of the last admitted write, asked by handlers running in           *)
(* goroutines of their own.  TicketDesk uses its effect, the set `limited`  *)
(* of tickets whose window is open; here are the lock, the clock and the   *)
(* map.  Each caller stands for one request and calls Allow once.          *)
(***************************************************************************)
EXTENDS Integers

CONSTANTS Callers, Keys,
          Interval,     \* minInterval, 5 s at every call site
          None,
          MaxTime, MaxRestarts   \* bounds

ASSUME LimiterAssumption ==
    /\ Interval \in Nat \ {0}
    /\ None \notin Callers /\ None \notin Keys /\ None \notin Nat
    /\ MaxTime \in Nat /\ MaxRestarts \in Nat

VARIABLES now,    \* the monotonic clock behind time.Now
          last,   \* rl.last; None where the map has no entry
          lock,   \* the goroutine that holds rl.mu
          pc, key, at,  \* of each caller: where it is, its ticket, its `now`
          life,   \* how often the process was restarted
          born    \* the life in which a caller read the clock

vars == <<now, last, lock, pc, key, at, life, born>>

Init ==
    /\ now = 0
    /\ last = [k \in Keys |-> None]
    /\ lock = None
    /\ pc = [c \in Callers |-> "idle"]
    /\ key = [c \in Callers |-> None]
    /\ at = [c \in Callers |-> 0]
    /\ life = 0
    /\ born = [c \in Callers |-> 0]

Tick == /\ now < MaxTime
        /\ now' = now + 1
        /\ UNCHANGED <<last, lock, pc, key, at, life, born>>

\* Slip: Allow does not take the mutex.
LockAnyway(c) ==
    /\ pc[c] = "idle"
    /\ lock' = c
    /\ pc' = [pc EXCEPT ![c] = "locked"]
    /\ \E k \in Keys : key' = [key EXCEPT ![c] = k]
    /\ UNCHANGED <<now, last, at, life, born>>

Lock(c) ==
    /\ pc[c] = "idle" /\ lock = None
    /\ lock' = c
    /\ pc' = [pc EXCEPT ![c] = "locked"]
    /\ \E k \in Keys : key' = [key EXCEPT ![c] = k]
    /\ UNCHANGED <<now, last, at, life, born>>

\* Slip: the window is closed one tick late.
TooSoonByOne(c) == last[key[c]] # None /\ now - last[key[c]] <= Interval

TooSoon(c) == /\ last[key[c]] # None
              /\ now - last[key[c]] < Interval

\* Slip: a refusal returns without the deferred Unlock.
CheckKeepsLock(c) ==
    /\ pc[c] = "locked"
    /\ at' = [at EXCEPT ![c] = now]
    /\ born' = [born EXCEPT ![c] = life]
    /\ pc' = [pc EXCEPT ![c] = IF TooSoon(c) THEN "denied" ELSE "record"]
    /\ UNCHANGED <<now, last, lock, key, life>>

\* The clock is read under the lock; a refusal leaves the map alone.
Check(c) ==
    /\ pc[c] = "locked"
    /\ at' = [at EXCEPT ![c] = now]
    /\ born' = [born EXCEPT ![c] = life]
    /\ IF TooSoon(c)
       THEN pc' = [pc EXCEPT ![c] = "denied"] /\ lock' = None
       ELSE pc' = [pc EXCEPT ![c] = "record"] /\ UNCHANGED lock
    /\ UNCHANGED <<now, last, key, life>>

Record(c) ==
    /\ pc[c] = "record"
    /\ last' = [last EXCEPT ![key[c]] = at[c]]
    /\ pc' = [pc EXCEPT ![c] = "admitted"]
    /\ lock' = None
    /\ UNCHANGED <<now, key, at, life, born>>

\* The map and the mutex are process memory (newRateLimiter).
Restart ==
    /\ life < MaxRestarts
    /\ life' = life + 1
    /\ last' = [k \in Keys |-> None]
    /\ lock' = None
    /\ pc' = [c \in Callers |-> IF pc[c] \in {"locked", "record"} THEN "killed" ELSE pc[c]]
    /\ UNCHANGED <<now, key, at, born>>

Next == Tick \/ Restart \/ \E c \in Callers : Lock(c) \/ Check(c) \/ Record(c)

Spec == Init /\ [][Next]_vars

\* Each caller is a goroutine that has called Allow: it gets rl.mu once the
\* others are through, and goes on while it holds it.
FairSpec == Spec /\ \A c \in Callers : WF_vars(Lock(c)) /\ WF_vars(Check(c) \/ Record(c))

-----------------------------------------------------------------------------
TypeOK ==
    /\ now \in Nat
    /\ last \in [Keys -> Nat \cup {None}]
    /\ lock \in Callers \cup {None}
    /\ pc \in [Callers -> {"idle", "locked", "record", "admitted", "denied", "killed"}]
    /\ key \in [Callers -> Keys \cup {None}]
    /\ at \in [Callers -> Nat]
    /\ life \in Nat
    /\ born \in [Callers -> Nat]

Admitted(c) == pc[c] = "admitted"

(* ticket.go:358: "max 1 note per 5 seconds per ticket": the admissions of *)
(* one ticket are at least Interval apart, in whatever order the handlers  *)
(* reach the mutex, as long as the process lives.                          *)
SpacedInProcess ==
    \A c, d \in Callers :
       c # d /\ Admitted(c) /\ Admitted(d) /\ key[c] = key[d] /\ born[c] = born[d]
       => at[c] >= at[d] + Interval \/ at[d] >= at[c] + Interval

(* ratelimit.go:19-22: a call is refused only within Interval of one that  *)
(* was admitted for the same ticket; refusals do not push the next         *)
(* admission further away.                                                 *)
DenialsJustified ==
    \A d \in Callers : pc[d] = "denied" =>
       \E c \in Callers : /\ Admitted(c) /\ key[c] = key[d] /\ born[c] = born[d]
                          /\ at[c] <= at[d] /\ at[d] < at[c] + Interval

(* Every caller gets an answer: no path through Allow keeps the mutex.     *)
EveryCallerDecided ==
    \A c \in Callers : <>(pc[c] \in {"admitted", "denied", "killed"})
=============================================================================
