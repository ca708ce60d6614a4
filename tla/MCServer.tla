------------------------------ MODULE MCServer ------------------------------
(* A small instance of Server for TLC. *)
EXTENDS Server, TLC

CONSTANTS r1, r2, r3, b1, b2, u1, u2, k1, k2, p1, p2, a1, a2, before

Asks(kind) == [kind |-> kind, url |-> None, key |-> None, password |-> None]
Owners  == (k1 :> a1) @@ (k2 :> a2)
LogIn1  == [Asks("login") EXCEPT !.password = p1]
Save2   == [Asks("save") EXCEPT !.url = u2, !.key = k2]
Lock1   == [Asks("save") EXCEPT !.url = u1, !.password = p1]
Work    == (r1 :> {Asks("page"), LogIn1, Save2})
           @@ (r2 :> {Asks("page"), Asks("refresh"), LogIn1, Lock1})
           @@ (r3 :> {Asks("page"), Asks("login_page"), Asks("logout")})
EnvGiven == [url |-> u1, key |-> k1, password |-> p1]
Saved   == [url |-> u1, key |-> k1, password |-> None, hmac |-> None]
SomeSettings == {Saved, [Saved EXCEPT !.password = p1]}
Blank    == [session |-> None, csrf |-> None, tabs |-> {}]
SomeJars == {Blank, [Blank EXCEPT !.session = [key |-> before, old |-> FALSE]]}
=============================================================================
