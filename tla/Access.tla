------------------------------- MODULE Access -------------------------------
(* What every request passes (authMiddleware, then csrfMiddleware), logging  *)
(* in and out, and what browsers do with cookies and open pages.             *)
EXTENDS Site

OnlyAccess == NoProcessStep /\ UNCHANGED <<memory, agentMe>>

\* A browser asks: a form is submitted from an open page and carries that page's token.
Start(r) ==
  /\ pc[r] = "idle" /\ phase = "serve"
  /\ \E b \in Browsers, j \in Workload[r] :
       \E form \in IF j.kind \in Safe THEN {None} ELSE jar[b].tabs :
         /\ sent' = [sent EXCEPT ![r] = [job |-> j, b |-> b, form |-> form,
                                         cookie |-> jar[b].session, csrf |-> jar[b].csrf]]
         /\ seen' = IF /\ jar[b].csrf = None
                       /\ \E o \in Requests : InFlight(o) /\ sent[o].b = b /\ sent[o].csrf = None
                    THEN [seen EXCEPT !.doubled = @ \cup {b}]
                    ELSE seen
  /\ Goto(r, "guard")
  /\ UNCHANGED <<table, jar, token, got, resp>> /\ OnlyAccess

Handler == [page |-> "agent", login_page |-> "show", login |-> "password", logout |-> "leave",
            refresh |-> "flush", save |-> "save_url"]

\* Slip: every request gets a token of its own, whatever its cookie says.
AdmitAfresh(r) ==
  LET t == r
      ok == Kind(r) \in Safe \/ sent[r].form = t
  IN /\ token' = [token EXCEPT ![r] = t]
     /\ Goto(r, IF ok THEN Handler[Kind(r)] ELSE "forbid")
     /\ UNCHANGED <<sent, got, resp, jar>>
\* csrfMiddleware: a request without the cookie gets a new token; an unsafe one must submit its own.
Admit(r) ==
  LET t == IF sent[r].csrf = None THEN r ELSE sent[r].csrf
      ok == Kind(r) \in Safe \/ sent[r].form = t
  IN /\ token' = [token EXCEPT ![r] = t]
     /\ Goto(r, IF ok THEN Handler[Kind(r)] ELSE "forbid")
     /\ UNCHANGED <<sent, got, resp, jar>>
Forbid(r) == pc[r] = "forbid" /\ Reply(r, "forbidden") /\ UNCHANGED <<table, seen>> /\ OnlyAccess

\* authMiddleware: without a password everybody may enter, and anybody may ask for the login page.
Guard(r) ==
  /\ pc[r] = "guard"
  /\ \/ /\ DbOk
        /\ \/ (table.password = None \/ Kind(r) \in Public) /\ Admit(r)
           \/ /\ table.password # None /\ Kind(r) \notin Public
              /\ \/ sent[r].cookie = None /\ Reply(r, "refused")
                 \/ /\ sent[r].cookie # None /\ Continue(r, "auth_key")
     \/ DbFails /\ Reply(r, "error")
  /\ UNCHANGED <<table, seen>> /\ OnlyAccess

\* validateSessionCookie, then the rest of the chain.
Validate(r, k) ==
  \/ sent[r].cookie.key = k /\ ~ sent[r].cookie.old /\ Admit(r)
  \/ (sent[r].cookie.key # k \/ sent[r].cookie.old) /\ Reply(r, "refused")
LogIn(r, k) == Answer(r, "ok", [Dressed(r) EXCEPT !.session = [key |-> k, old |-> FALSE]])

\* ensureHMACKey, asked by the middleware and by the login: the stored key is used ...
AuthKey(r) ==
  /\ pc[r] = "auth_key"
  /\ \/ DbOk /\ table.hmac # None /\ Validate(r, table.hmac)
     \/ DbOk /\ table.hmac = None /\ Continue(r, "auth_store")
     \/ DbFails /\ Reply(r, "refused")
  /\ UNCHANGED <<table, seen>> /\ OnlyAccess
LoginKey(r) ==
  /\ pc[r] = "login_key"
  /\ \/ DbOk /\ table.hmac # None /\ LogIn(r, table.hmac)
     \/ DbOk /\ table.hmac = None /\ Continue(r, "login_store")
     \/ DbFails /\ Reply(r, "error")
  /\ UNCHANGED <<table, seen>> /\ OnlyAccess
\* Slip: the key is used without being stored.
ForgetKey(r) == seen' = [seen EXCEPT !.keys = @ \cup {r}] /\ UNCHANGED table
\* ... or a new one is stored over whatever is there by now.
StoreKey(r) ==
  /\ table' = [table EXCEPT !.hmac = r]
  /\ seen' = [seen EXCEPT !.keys = @ \cup {r}]
AuthStore(r) ==
  /\ pc[r] = "auth_store"
  /\ \/ DbOk /\ StoreKey(r) /\ Validate(r, r)
     \/ DbFails /\ Reply(r, "refused") /\ UNCHANGED <<table, seen>>
  /\ OnlyAccess
LoginStore(r) ==
  /\ pc[r] = "login_store"
  /\ \/ DbOk /\ StoreKey(r) /\ LogIn(r, r)
     \/ DbFails /\ Reply(r, "error") /\ UNCHANGED <<table, seen>>
  /\ OnlyAccess

LoginPage(r) == pc[r] = "show" /\ Show(r, "ok") /\ UNCHANGED <<table, seen>> /\ OnlyAccess
\* HandleLoginSubmit: without a stored password there is nothing to log in to (an error).
Password(r) ==
  /\ pc[r] = "password"
  /\ \/ DbOk /\ table.password = None /\ Reply(r, "error")
     \/ /\ DbOk /\ table.password # None /\ table.password # sent[r].job.password
        /\ Show(r, "wrong")
     \/ /\ DbOk /\ table.password # None /\ table.password = sent[r].job.password
        /\ Continue(r, "login_key")
     \/ DbFails /\ Reply(r, "error")
  /\ UNCHANGED <<table, seen>> /\ OnlyAccess
\* HandleLogout takes the cookie out of the browser; the server remembers no sessions.
Logout(r) ==
  /\ pc[r] = "leave"
  /\ Answer(r, "ok", [Dressed(r) EXCEPT !.session = None])
  /\ UNCHANGED <<table, seen>> /\ OnlyAccess

\* Thirty days pass.
CookieAges(b) ==
  /\ jar[b].session # None /\ ~ jar[b].session.old
  /\ jar' = [jar EXCEPT ![b].session.old = TRUE]
  /\ UNCHANGED <<table, flow, seen>> /\ OnlyAccess
\* The browser is closed: its pages are gone, and the CSRF cookie, which has no age.
\* Nobody is left to receive an answer that is still to come.
BrowserCloses(b) ==
  /\ jar[b].csrf # None
  /\ \A r \in Requests : InFlight(r) => sent[r].b # b
  /\ jar' = [jar EXCEPT ![b].csrf = None, ![b].tabs = {}]
  /\ UNCHANGED <<table, flow, seen>> /\ OnlyAccess
=============================================================================
