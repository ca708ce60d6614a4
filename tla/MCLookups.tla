------------------------------ MODULE MCLookups ------------------------------
(* A small instance of Lookups for TLC: a board with a deferred ticket,      *)
(* whose conversations are asked for in a goroutine and once again, and the  *)
(* page of that ticket, with a note of an agent.                             *)
EXTENDS Lookups, TLC

CONSTANTS p1, p2, convs, me

Plans == (p1 :> <<{}, {convs}, {convs}>>) @@ (p2 :> <<{convs}, {me}, {}>>)
Ages  == [p \in Pages |-> [k \in Keys |-> IF p = p2 /\ k = convs THEN 1 ELSE 2]]
=============================================================================
