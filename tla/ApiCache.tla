------------------------------ MODULE ApiCache ------------------------------
(* The table api_cache and the Store that reads and writes it: bodies with   *)
(* the second they were stored in and how long they are good for.            *)
EXTENDS Naturals

CONSTANTS
  Keys, Bodies,
  Deletable,  \* keys whose entry handlers delete
  Parts,      \* how many instants of the program's clock make one second
  Absent

Row == [body : Bodies, at : Nat, maxAge : Nat \ {0}]
ASSUME CacheAssumption ==
  Deletable \subseteq Keys /\ Parts \in Nat \ {0} /\ Absent \notin Bodies \cup Row

VARIABLES
  now,        \* the clock, in instants
  entries,    \* the table, a row or Absent for each key
  stored      \* history: the instant of the last Set of each key

cache == <<now, entries, stored>>

CacheTypeOK ==
  /\ now \in Nat /\ stored \in [Keys -> Nat]
  /\ entries \in [Keys -> Row \cup {Absent}]

CacheInit == now = 0 /\ entries = [k \in Keys |-> Absent] /\ stored = [k \in Keys |-> 0]

Present(k) == entries[k] # Absent
\* Get compares the exact age with max_age, GetJSON takes only what is fresh.
Fresh(k) == Present(k) /\ now < (entries[k].at + entries[k].maxAge) * Parts

\* Slip: the second is rounded up.
StampUp == (now + Parts - 1) \div Parts
\* Times are stored as RFC 3339, which drops what is below a second.
Stamp == now \div Parts

\* Slip: the upsert leaves the body out.
PutKeepsBody(k, b, age) ==
  /\ entries' = [entries EXCEPT ![k] = [body |-> IF Present(k) THEN entries[k].body ELSE b,
                                        at |-> Stamp, maxAge |-> age]]
  /\ stored' = [stored EXCEPT ![k] = now] /\ UNCHANGED now
Put(k, b, age) ==
  /\ entries' = [entries EXCEPT ![k] = [body |-> b, at |-> Stamp, maxAge |-> age]]
  /\ stored' = [stored EXCEPT ![k] = now] /\ UNCHANGED now

Without(S) ==
  /\ entries' = [k \in Keys |-> IF k \in S THEN Absent ELSE entries[k]]
  /\ stored'  = [k \in Keys |-> IF k \in S THEN 0 ELSE stored[k]]
  /\ UNCHANGED now
Delete(k) == Without({k})
Flush     == Without(Keys)

\* Slip: the age an answer is good for is forgotten.
Old(k)     == Present(k) /\ entries[k].at < Stamp
\* SQLite's datetime() counts in whole seconds.
Expired(k) == Present(k) /\ entries[k].at + entries[k].maxAge < Stamp
Cleanup == Without({k \in Keys : Expired(k)})

Tick == now' = now + 1 /\ UNCHANGED <<entries, stored>>

(* An answer is good for at most its max age from the instant it was stored, *)
(* and for at most a second less, because the stored time is cut to seconds  *)
(* (cache.go:58-59, 79).                                                     *)
AgesRight ==
  \A k \in Keys : Present(k) =>
    /\ Fresh(k) => now < stored[k] + entries[k].maxAge * Parts
    /\ ~ Fresh(k) => now > stored[k] + (entries[k].maxAge - 1) * Parts

(* The Store implements CachePromise: freshness is the comparison of times.  *)
Promise == INSTANCE CachePromise WITH
  held  <- [k \in Keys |-> IF Present(k) THEN entries[k].body ELSE Absent],
  fresh <- {k \in Keys : Fresh(k)}
CacheKeepsPromise == Promise!Spec
=============================================================================
