-------------------------------- MODULE Site --------------------------------
(* What the processes of DeskTriage have in common, whatever ticket they are *)
(* asked about: the process itself, the settings in the database and in      *)
(* memory, the browsers with their cookies, and the requests in progress.    *)
EXTENDS Naturals

CONSTANTS
  Requests,        \* requests; each is made once, and names the key and the token it generates
  Browsers,        \* cookie jars
  Urls, ApiKeys, Passwords,  \* values of the settings
  Agents, Owner,   \* Owner[k]: the Freshdesk agent API key k belongs to
  Earlier,         \* CSRF tokens and session keys from before: of an earlier database, say
  Env,             \* the .env file: a value or None for each setting it can seed
  Workload,        \* Workload[r]: what request r may ask for, a set of jobs
  InitSettings,    \* contents of the table config at start
  InitJars,        \* cookie jars at start
  Faults,          \* which things can fail: a subset of {"db", "api"}
  MaxStops,        \* how often the process is stopped, or a start goes wrong
  None

Job == [kind : {"page", "login_page", "login", "logout", "refresh", "save"},
        url : Urls \cup {None}, key : ApiKeys \cup {None},
        password : Passwords \cup {None}]
Settings == [url : Urls \cup {None}, key : ApiKeys \cup {None},
             password : Passwords \cup {None}, hmac : Requests \cup {None}]
EnvKeys  == {"url", "key", "password"}
EnvFile  == [url : Urls \cup {None}, key : ApiKeys \cup {None},
             password : Passwords \cup {None}]
Running  == [url : Urls, key : ApiKeys]
Secret   == Requests \cup Earlier
Cookie   == [key : Secret, old : BOOLEAN]
Jar      == [session : Cookie \cup {None}, csrf : Secret \cup {None}, tabs : SUBSET Secret]

ASSUME SiteAssumption ==
  /\ Owner \in [ApiKeys -> Agents]
  /\ Env \in EnvFile
  /\ Workload \in [Requests -> SUBSET Job]
  /\ InitSettings \subseteq Settings
  /\ InitJars \subseteq Jar
  /\ \A j \in InitJars : /\ j.session \in [key : Earlier, old : BOOLEAN] \cup {None}
                        /\ j.csrf \in Earlier \cup {None} /\ j.tabs \subseteq {j.csrf} \ {None}
  /\ \A s \in InitSettings : s.hmac = None
  /\ Requests \cap Earlier = {}
  /\ MaxStops \in Nat
  /\ None \notin Secret \cup Urls \cup ApiKeys \cup Passwords \cup Agents
  /\ None \notin Cookie \cup Running /\ None # "forbidden"

VARIABLES
  phase,       \* of the process: down, migrate, seed, serve, closing (listener gone), closed (database too)
  created,     \* migrations whose tables or column exist
  recorded,    \* migrations in the table migrations
  unpaired,    \* some row has a review date and no deferral time
  at, stmt,    \* the migration the process has got to, and its next statement
  seeded,      \* settings of the .env file this start has looked at
  stops,       \* how often it was stopped, or a start went wrong
  table,       \* the table config
  config,      \* Server.Config
  client,      \* what Server.Freshdesk was built from
  agent,       \* Server.AgentID
  agentMe,     \* cache entry agent:me
  jar,         \* cookies and open pages of each browser
  pc, sent, token, got, resp,  \* of each request: place, what was sent, CSRF token, what it has read, answer
  seen         \* history: keys stored, browsers that doubled a first page, a torn save, a changed account

process  == <<phase, at, stmt, seeded, stops>>
database == <<created, recorded, unpaired>>
memory   == <<config, client, agent>>
flow     == <<pc, sent, token, got, resp>>
vars     == <<process, database, table, memory, agentMe, jar, flow, seen>>

----------------------------------------------------------------------------
(* Requests. *)
Public == {"login_page", "login"}
Safe   == {"page", "login_page"}
Kind(r) == sent[r].job.kind
Mine(r) == sent[r].b

Goto(r, p) == pc' = [pc EXCEPT ![r] = p]
Continue(r, p) == Goto(r, p) /\ UNCHANGED <<sent, token, got, resp, jar>>
NoProcessStep == UNCHANGED <<process, database>>
InFlight(r) == pc[r] \notin {"idle", "done"}

\* An SQL statement of a handler works while the database is open, and may fail.
DbOk    == phase \in {"serve", "closing"}
DbFails == "db" \in Faults \/ phase = "closed"

\* What the middleware has put in the answer: a CSRF cookie if the request brought none.
Dressed(r) == [jar[Mine(r)] EXCEPT
  !.csrf = IF sent[r].csrf = None /\ token[r] # None THEN token[r] ELSE @]

\* The answer of r, and the jar of its browser after it.
Answer(r, a, j) ==
  /\ Goto(r, "done")
  /\ resp' = [resp EXCEPT ![r] = a]
  /\ jar' = [jar EXCEPT ![Mine(r)] = j]
  /\ UNCHANGED <<sent, token, got>>
Reply(r, a)   == Answer(r, a, Dressed(r))
\* A page carries the token of its request for the forms on it.
Show(r, a) == Answer(r, a, [Dressed(r) EXCEPT !.tabs = @ \cup {token[r]}])

\* The process and everything in its memory ends; requests in progress are cut.
Die(p) ==
  /\ phase' = p
  /\ config' = None /\ client' = None /\ agent' = None
  /\ pc'   = [r \in Requests |-> IF InFlight(r) THEN "done" ELSE pc[r]]
  /\ resp' = [r \in Requests |-> IF InFlight(r) THEN "cut" ELSE resp[r]]
  /\ UNCHANGED <<at, stmt, seeded, sent, token, got, jar, table, agentMe>>
=============================================================================
