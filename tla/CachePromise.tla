---------------------------- MODULE CachePromise ----------------------------
(* What the cache of Freshdesk answers promises, without times: an answer is *)
(* fresh from when it is stored until it expires, is still there for a stale *)
(* read afterwards, and nothing that is fresh goes away unless it is deleted. *)
CONSTANTS Keys, Deletable, Bodies, Absent   \* Deletable: keys whose answer a handler makes untrue
VARIABLES held, fresh   \* what is stored under each key; the keys whose answer is fresh

Init == held = [k \in Keys |-> Absent] /\ fresh = {}

Put(k, b) == held' = [held EXCEPT ![k] = b] /\ fresh' = fresh \cup {k}
\* Once expired, only a new answer makes a key fresh again.
Expire    == fresh' \subseteq fresh /\ UNCHANGED held
Drop(S)   == held' = [k \in Keys |-> IF k \in S THEN Absent ELSE held[k]] /\ fresh' = fresh \ S
Delete(k) == Drop({k})
Flush     == Drop(Keys)
Sweep     == \E S \in SUBSET (Keys \ fresh) : Drop(S)

Next ==
  \/ Expire \/ Flush \/ Sweep
  \/ \E k \in Deletable : Delete(k)
  \/ \E k \in Keys, b \in Bodies : Put(k, b)
Spec == Init /\ [][Next]_<<held, fresh>>
=============================================================================
