---------------------------- MODULE Server_proofs ----------------------------
(***************************************************************************)
(* What the process promises around its pages, for any requests, browsers, *)
(* settings, faults and interruptions: it serves only on a migrated        *)
(* database, and logins, forms and the agent of the board hold across      *)
(* restarts. A step is one of the process, of a browser or of a request.   *)
(***************************************************************************)
EXTENDS Server, FiniteSetTheorems, TLAPS

Asking(r) == Start(r) \/ Handle(r)

LEMMA NextCases ==
  ASSUME Next
  PROVE  RunProcess \/ Interrupt \/ Browse \/ \E r \in Requests : Asking(r)
  BY DEF Next, Asking

-----------------------------------------------------------------------------
(* Migrations. *)

\* What is recorded was executed, in order, and the fourth migration has filled its column.
MInv ==
  /\ phase \in {"down", "migrate", "seed", "serve", "closing", "closed"}
  /\ at \in 1..6 /\ stmt \in {"check", "create", "alter", "fill", "record"}
  /\ recorded \subseteq created /\ created \subseteq Migrations /\ unpaired \in BOOLEAN
  /\ 4 \in recorded => ~ unpaired
  /\ phase = "migrate" =>
       /\ \A n \in Migrations : n < at => n \in recorded
       /\ stmt # "check" => at \in Migrations
       /\ stmt = "create" => at # 4
       /\ stmt \in {"alter", "fill"} => at = 4
       /\ stmt \in {"fill", "record"} => at \in created
       /\ stmt = "record" /\ at = 4 => ~ unpaired
  /\ phase \in {"seed", "serve", "closing", "closed"} => recorded = Migrations

LEMMA RequestsKeepProcess ==
  ASSUME Browse \/ \E r \in Requests : Asking(r)
  PROVE  UNCHANGED <<process, database>>
  BY DEF Browse, CookieAges, BrowserCloses, OnlyAccess, NoProcessStep, Asking, Start, Handle, Guard, Forbid,
     AuthKey, AuthStore, LoginPage, Password, LoginKey, LoginStore, Logout, LookUpAgent, FetchAgent,
     SetAgent, CacheAgent, FlushCache, SaveUrl, SaveKey, SavePassword, Reload, SetConfig, SetClient

LEMMA MigrationKept ==
  ASSUME MInv, [Next]_vars
  PROVE  MInv'
<1> USE DEF MInv, Migrations
<1>1. CASE UNCHANGED <<process, database>>
  BY <1>1 DEF process, database
<1>2. CASE Boot
  BY <1>2 DEF Boot, database
<1>3. CASE CheckMigration
  BY <1>3 DEF CheckMigration, Migrating, MigrationStep, Script, database
<1>4. CASE CreateTables
  BY <1>4 DEF CreateTables, Migrating, MigrationStep
<1>5. CASE AddColumn
  BY <1>5 DEF AddColumn, Migrating, MigrationStep
<1>6. CASE FillColumn
  BY <1>6 DEF FillColumn, Migrating, MigrationStep
<1>7. CASE RecordMigration
  BY <1>7 DEF RecordMigration, Migrating, MigrationStep
<1>8. CASE Migrated
  <2>1. at = 6 /\ phase' = "seed" /\ UNCHANGED <<at, stmt, database>>
    BY <1>8 DEF Migrated
  <2>2. recorded = Migrations
    <3>1. \A n \in Migrations : n < 6 /\ n \in recorded
      BY <1>8, <2>1 DEF Migrated
    <3>2. recorded \subseteq Migrations
      OBVIOUS
    <3> HIDE DEF Migrations
    <3> QED
      BY <3>1, <3>2
  <2> QED
    BY <2>1, <2>2 DEF database
<1>9. CASE AddColumnAgain \/ LoadFails \/ Exec \/ Stop
  <2>1. phase' = "down" /\ UNCHANGED <<at, stmt, database>>
    BY <1>9 DEF AddColumnAgain, LoadFails, Exec, Stop, Die
  <2> QED
    BY <2>1 DEF database
<1>10. CASE (\E k \in EnvKeys : Seed(k)) \/ SeedFails
  BY <1>10 DEF Seed, SeedFails, SeedingStep, database
<1>11. CASE Load \/ Hangup \/ CloseDb
  BY <1>11 DEF Load, Hangup, CloseDb, database
<1>12. UNCHANGED vars => UNCHANGED <<process, database>>
  BY DEF vars
<1> QED
  BY <1>1, <1>2, <1>3, <1>4, <1>5, <1>6, <1>7, <1>8, <1>9, <1>10, <1>11, <1>12,
     NextCases, RequestsKeepProcess DEF RunProcess, Interrupt

LEMMA InitMigrating ==
  ASSUME Init
  PROVE  MInv
<1>1. PICK m \in {0} \cup Migrations : recorded = 1..m
  BY DEF Init
<1>2. recorded \subseteq Migrations
  BY <1>1 DEF Migrations
<1>3. unpaired \in BOOLEAN /\ (4 \in recorded => ~ unpaired)
  BY DEF Init
<1> QED
  BY <1>2, <1>3 DEF Init, MInv

LEMMA AlwaysMigrating == Spec => []MInv
<1>1. Init => MInv
  BY InitMigrating
<1>2. MInv /\ [Next]_vars => MInv'
  BY MigrationKept
<1> QED
  BY <1>1, <1>2, PTL DEF Spec

(* A process that serves has every table, column and deferral time, however *)
(* often the starts before it were interrupted, and wherever.               *)
THEOREM Migration == Spec => []ServingIsMigrated
<1>1. MInv => ServingIsMigrated
  <2> SUFFICES ASSUME MInv, Up PROVE created = Migrations /\ recorded = Migrations /\ ~ unpaired
    BY DEF ServingIsMigrated
  <2>1. recorded = Migrations /\ 4 \in Migrations
    BY DEF MInv, Up, Migrations
  <2> QED
    BY <2>1 DEF MInv
<1> QED
  BY <1>1, AlwaysMigrating, PTL

-----------------------------------------------------------------------------
(* Types. *)

Message == [job : Job, b : Browsers, form : Secret \cup {None},
            cookie : Cookie \cup {None}, csrf : Secret \cup {None}]
Reads   == [agent : Agents \cup {None}, load : Running \cup {None}]
\* Past the middleware.
Admitted == Places \ {"idle", "guard", "auth_key", "auth_store", "done"}

\* What a request has by the place it has got to.
Shape(r) ==
  /\ pc[r] # "idle" => sent[r] \in Message
  /\ pc[r] \in Admitted => token[r] \in Secret
  /\ pc[r] \in {"auth_key", "auth_store"} => sent[r].cookie \in Cookie
  /\ pc[r] \in {"set_config", "set_client"} => got[r].load \in Running
  /\ pc[r] \in {"agent_set", "agent_cache"} => got[r].agent \in Agents
FlowTyped ==
  /\ pc \in [Requests -> Places] /\ sent \in [Requests -> Message \cup {None}]
  /\ token \in [Requests -> Secret \cup {None}] /\ got \in [Requests -> Reads]
  /\ resp \in [Requests -> Answers \cup {None}] /\ jar \in [Browsers -> Jar]
  /\ \A r \in Requests : Shape(r)

Histories == [keys : SUBSET Requests, doubled : SUBSET Browsers, torn : BOOLEAN, rekeyed : BOOLEAN]
\* Requests are in progress, and settings loaded, only while the process is up.
SiteTyped ==
  /\ seeded \subseteq EnvKeys /\ stops \in 0..MaxStops /\ table \in Settings
  /\ config \in Running \cup {None} /\ client \in Running \cup {None}
  /\ agent \in Agents \cup {None} /\ agentMe \in Agents \cup {None}
  /\ seen \in Histories
  /\ Up => config \in Running /\ client \in Running
  /\ \A r \in Requests : InFlight(r) => Up

TInv == MInv /\ FlowTyped /\ SiteTyped

LEMMA TypeParts ==
  ASSUME TInv
  PROVE  TypeOK
  BY DEF TInv, MInv, FlowTyped, SiteTyped, TypeOK, Reads, Histories

LEMMA DressedTyped ==
  ASSUME FlowTyped, NEW r \in Requests, pc[r] # "idle"
  PROVE  Mine(r) \in Browsers /\ Dressed(r) \in Jar
<1>1. sent[r] \in Message /\ Mine(r) \in Browsers
  BY DEF FlowTyped, Shape, Message, Mine
<1>2. jar[Mine(r)] \in Jar /\ token[r] \in Secret \cup {None}
  BY <1>1 DEF FlowTyped
<1> QED
  BY <1>1, <1>2 DEF Dressed, Jar

LEMMA AnswerTyped ==
  ASSUME FlowTyped, NEW r \in Requests, pc[r] # "idle", NEW a \in Answers, NEW j \in Jar, Answer(r, a, j)
  PROVE  FlowTyped'
<1>1. Mine(r) \in Browsers
  BY DressedTyped
<1>2. pc' = [pc EXCEPT ![r] = "done"] /\ UNCHANGED <<sent, token, got>>
  BY DEF Answer, Goto
<1>3. resp' \in [Requests -> Answers \cup {None}] /\ jar' \in [Browsers -> Jar]
  BY <1>1 DEF Answer, FlowTyped
<1>4. pc' \in [Requests -> Places]
  BY <1>2 DEF FlowTyped, Places
<1>5. ASSUME NEW q \in Requests PROVE Shape(q)'
  BY <1>2 DEF FlowTyped, Shape, Admitted
<1> QED
  BY <1>2, <1>3, <1>4, <1>5 DEF FlowTyped

LEMMA ReplyTyped ==
  ASSUME FlowTyped, NEW r \in Requests, pc[r] # "idle", NEW a \in Answers, Reply(r, a)
  PROVE  FlowTyped'
  BY DressedTyped, AnswerTyped DEF Reply

LEMMA ShowTyped ==
  ASSUME FlowTyped, NEW r \in Requests, pc[r] \in Admitted, NEW a \in Answers, Show(r, a)
  PROVE  FlowTyped'
<1>1. pc[r] # "idle" /\ token[r] \in Secret
  BY DEF FlowTyped, Shape, Admitted
<1>2. [Dressed(r) EXCEPT !.tabs = @ \cup {token[r]}] \in Jar
  BY <1>1, DressedTyped DEF Jar
<1> QED
  BY <1>1, <1>2, AnswerTyped DEF Show

LEMMA ContinueTyped ==
  ASSUME FlowTyped, NEW r \in Requests, pc[r] # "idle", NEW p \in Places, Continue(r, p),
         p \in Admitted => pc[r] \in Admitted,
         p \in {"auth_key", "auth_store"} => sent[r].cookie \in Cookie,
         p \in {"set_config", "set_client"} => got[r].load \in Running,
         p \in {"agent_set", "agent_cache"} => got[r].agent \in Agents
  PROVE  FlowTyped'
<1>1. pc' = [pc EXCEPT ![r] = p] /\ UNCHANGED <<sent, token, got, resp, jar>>
  BY DEF Continue, Goto
<1>2. ASSUME NEW q \in Requests PROVE Shape(q)'
  BY <1>1 DEF FlowTyped, Shape
<1> QED
  BY <1>1, <1>2 DEF FlowTyped

LEMMA AdmitTyped ==
  ASSUME FlowTyped, NEW r \in Requests, pc[r] # "idle", Admit(r)
  PROVE  FlowTyped'
<1> DEFINE t == IF sent[r].csrf = None THEN r ELSE sent[r].csrf
<1>1. sent[r] \in Message /\ t \in Secret
  BY DEF FlowTyped, Shape, Message, Secret
<1>2. Kind(r) \in {"page", "login_page", "login", "logout", "refresh", "save"}
  BY <1>1 DEF Kind, Message, Job
<1>3. Handler[Kind(r)] \in Admitted \ {"agent_set", "agent_cache", "set_config", "set_client"}
  BY <1>2 DEF Handler, Admitted, Places
<1> HIDE DEF t
<1>4. PICK p \in Admitted \ {"agent_set", "agent_cache", "set_config", "set_client"} : pc' = [pc EXCEPT ![r] = p]
  BY <1>3 DEF Admit, Goto, Admitted, Places
<1>5. token' = [token EXCEPT ![r] = t] /\ UNCHANGED <<sent, got, resp, jar>>
  BY DEF Admit, t
<1>6. pc' \in [Requests -> Places] /\ token' \in [Requests -> Secret \cup {None}]
  BY <1>1, <1>4, <1>5 DEF FlowTyped, Admitted
<1>7. ASSUME NEW q \in Requests PROVE Shape(q)'
  BY <1>1, <1>4, <1>5 DEF FlowTyped, Shape, Admitted
<1> QED
  BY <1>5, <1>6, <1>7 DEF FlowTyped

\* The session of whoever logs in is made with a key that is a secret.
LEMMA LogInTyped ==
  ASSUME FlowTyped, NEW r \in Requests, pc[r] # "idle", NEW k \in Secret, LogIn(r, k)
  PROVE  FlowTyped'
<1>1. [Dressed(r) EXCEPT !.session = [key |-> k, old |-> FALSE]] \in Jar
  BY DressedTyped DEF Jar, Cookie
<1> QED
  BY <1>1, AnswerTyped DEF LogIn, Answers

LEMMA StartTyped ==
  ASSUME FlowTyped, NEW r \in Requests, Start(r)
  PROVE  FlowTyped'
<1>1. PICK b \in Browsers, j \in Workload[r] :
        \E form \in IF j.kind \in Safe THEN {None} ELSE jar[b].tabs :
          sent' = [sent EXCEPT ![r] = [job |-> j, b |-> b, form |-> form,
                                       cookie |-> jar[b].session, csrf |-> jar[b].csrf]]
  BY DEF Start
<1>2. PICK form \in IF j.kind \in Safe THEN {None} ELSE jar[b].tabs :
        sent' = [sent EXCEPT ![r] = [job |-> j, b |-> b, form |-> form,
                                     cookie |-> jar[b].session, csrf |-> jar[b].csrf]]
  BY <1>1
<1> DEFINE m == [job |-> j, b |-> b, form |-> form, cookie |-> jar[b].session, csrf |-> jar[b].csrf]
<1>3. m \in Message
  BY SiteAssumption DEF FlowTyped, Jar, Message
<1> HIDE DEF m
<1>4. sent' = [sent EXCEPT ![r] = m]
  BY <1>2 DEF m
<1>5. pc' = [pc EXCEPT ![r] = "guard"] /\ UNCHANGED <<jar, token, got, resp>>
  BY DEF Start, Goto
<1>6. sent' \in [Requests -> Message \cup {None}] /\ pc' \in [Requests -> Places]
  BY <1>3, <1>4, <1>5 DEF FlowTyped, Places
<1>7. ASSUME NEW q \in Requests PROVE Shape(q)'
  BY <1>3, <1>4, <1>5 DEF FlowTyped, Shape, Admitted
<1> QED
  BY <1>5, <1>6, <1>7 DEF FlowTyped

Accesses(r) ==
  \/ Guard(r) \/ Forbid(r) \/ AuthKey(r) \/ AuthStore(r) \/ LoginPage(r) \/ Password(r)
  \/ LoginKey(r) \/ LoginStore(r) \/ Logout(r)
AgentSteps(r) == LookUpAgent(r) \/ FetchAgent(r) \/ SetAgent(r) \/ CacheAgent(r) \/ FlushCache(r)
Saves(r) ==
  SaveUrl(r) \/ SaveKey(r) \/ SavePassword(r) \/ Reload(r) \/ SetConfig(r) \/ SetClient(r)

LEMMA HandleCases ==
  ASSUME NEW r, Handle(r)
  PROVE  Accesses(r) \/ AgentSteps(r) \/ Saves(r)
  BY DEF Handle, Accesses, AgentSteps, Saves

LEMMA AccessFlow ==
  ASSUME FlowTyped, table \in Settings, NEW r \in Requests, Accesses(r)
  PROVE  FlowTyped'
<1> USE DEF Answers
<1>0. table.hmac # None => table.hmac \in Secret
  BY DEF Settings, Secret
<1>r. r \in Secret
  BY DEF Secret
<1>m. pc[r] # "idle" => sent[r] \in Message
  BY DEF FlowTyped, Shape
<1>1. CASE Guard(r)
  <2>1. pc[r] # "idle"
    BY <1>1 DEF Guard
  <2>2. CASE Admit(r)
    BY <2>1, <2>2, AdmitTyped
  <2>3. CASE Reply(r, "refused") \/ Reply(r, "error")
    BY <2>1, <2>3, ReplyTyped
  <2>4. CASE sent[r].cookie # None /\ Continue(r, "auth_key")
    BY <1>m, <2>1, <2>4, ContinueTyped DEF Message, Admitted, Places
  <2> QED
    BY <1>1, <2>2, <2>3, <2>4 DEF Guard
<1>2. CASE Forbid(r)
  BY <1>2, ReplyTyped DEF Forbid
<1>3. ASSUME NEW k, Validate(r, k), pc[r] # "idle" PROVE FlowTyped'
  BY <1>3, AdmitTyped, ReplyTyped DEF Validate
<1>4. CASE AuthKey(r)
  <2>1. pc[r] = "auth_key"
    BY <1>4 DEF AuthKey
  <2>2. CASE Continue(r, "auth_store")
    <3>1. sent[r].cookie \in Cookie
      BY <2>1 DEF FlowTyped, Shape
    <3> QED
      BY <2>1, <2>2, <3>1, ContinueTyped DEF Admitted, Places
  <2> QED
    BY <1>3, <1>4, <2>1, <2>2, ReplyTyped DEF AuthKey
<1>5. CASE AuthStore(r)
  BY <1>3, <1>5, ReplyTyped DEF AuthStore
<1>6. CASE LoginPage(r)
  BY <1>6, ShowTyped DEF LoginPage, Admitted, Places
<1>7. CASE Password(r)
  <2>1. pc[r] = "password"
    BY <1>7 DEF Password
  <2>2. CASE Continue(r, "login_key")
    BY <2>1, <2>2, ContinueTyped DEF Admitted, Places
  <2>3. CASE Show(r, "wrong")
    BY <2>1, <2>3, ShowTyped DEF Admitted, Places
  <2> QED
    BY <1>7, <2>1, <2>2, <2>3, ReplyTyped DEF Password
<1>8. CASE LoginKey(r)
  <2>1. pc[r] = "login_key"
    BY <1>8 DEF LoginKey
  <2>2. CASE Continue(r, "login_store")
    BY <2>1, <2>2, ContinueTyped DEF Admitted, Places
  <2> QED
    BY <1>0, <1>8, <2>1, <2>2, LogInTyped, ReplyTyped DEF LoginKey
<1>9. CASE LoginStore(r)
  BY <1>r, <1>9, LogInTyped, ReplyTyped DEF LoginStore
<1>10. CASE Logout(r)
  <2>1. pc[r] # "idle"
    BY <1>10 DEF Logout
  <2>2. [Dressed(r) EXCEPT !.session = None] \in Jar
    BY <2>1, DressedTyped DEF Jar
  <2> QED
    BY <1>10, <2>1, <2>2, AnswerTyped DEF Logout
<1> QED
  BY <1>1, <1>2, <1>4, <1>5, <1>6, <1>7, <1>8, <1>9, <1>10 DEF Accesses

\* A request reads something that has the shape its next place asks for.
LEMMA ReadTyped ==
  ASSUME FlowTyped, NEW r \in Requests, NEW g \in Reads, NEW p \in {"agent_set", "set_config"},
         pc[r] \in Admitted, got' = [got EXCEPT ![r] = g], Goto(r, p), UNCHANGED <<sent, token, resp, jar>>,
         p = "agent_set" => g.agent \in Agents, p = "set_config" => g.load \in Running
  PROVE  FlowTyped'
<1>1. pc' = [pc EXCEPT ![r] = p]
  BY DEF Goto
<1>2. pc' \in [Requests -> Places] /\ got' \in [Requests -> Reads]
  BY <1>1 DEF FlowTyped, Places
<1>3. ASSUME NEW q \in Requests PROVE Shape(q)'
  BY <1>1 DEF FlowTyped, Shape, Admitted, Places
<1> QED
  BY <1>2, <1>3 DEF FlowTyped

LEMMA ClientThere ==
  ASSUME SiteTyped, NEW r \in Requests, InFlight(r)
  PROVE  Up /\ client \in Running /\ Owner[client.key] \in Agents
  BY SiteAssumption DEF SiteTyped, Running

LEMMA AgentFlow ==
  ASSUME FlowTyped, SiteTyped, NEW r \in Requests, AgentSteps(r)
  PROVE  FlowTyped'
<1> USE DEF Answers
<1>g. got[r] \in Reads
  BY DEF FlowTyped
<1>1. CASE LookUpAgent(r)
  <2>1. pc[r] = "agent"
    BY <1>1 DEF LookUpAgent
  <2>2. CASE Show(r, "ok")
    BY <2>1, <2>2, ShowTyped DEF Admitted, Places
  <2>3. CASE Continue(r, "agent_fetch")
    BY <2>1, <2>3, ContinueTyped DEF Admitted, Places
  <2> QED
    BY <1>1, <2>2, <2>3 DEF LookUpAgent
<1>2. CASE FetchAgent(r)
  <2>1. pc[r] = "agent_fetch" /\ pc[r] \in Admitted
    BY <1>2 DEF FetchAgent, Admitted, Places
  <2>2. CASE Reply(r, "error")
    BY <2>1, <2>2, ReplyTyped DEF Admitted, Answers
  <2>3. CASE /\ got' = [got EXCEPT ![r].agent = Owner[client.key]] /\ Goto(r, "agent_set")
             /\ UNCHANGED <<sent, token, resp, jar>>
    <3> DEFINE g == [got[r] EXCEPT !.agent = Owner[client.key]]
    <3>1. Owner[client.key] \in Agents
      BY <2>1, ClientThere DEF InFlight
    <3>2. g \in Reads /\ g.agent \in Agents
      BY <1>g, <3>1 DEF Reads
    <3>3. got' = [got EXCEPT ![r] = g]
      BY <2>3
    <3> HIDE DEF g
    <3> QED
      BY <2>1, <2>3, <3>2, <3>3, ReadTyped
  <2> QED
    BY <1>2, <2>2, <2>3 DEF FetchAgent
<1>3. CASE SetAgent(r)
  <2>1. pc[r] = "agent_set" /\ got[r].agent \in Agents
    BY <1>3 DEF SetAgent, FlowTyped, Shape
  <2> QED
    BY <1>3, <2>1, ContinueTyped DEF SetAgent, Admitted, Places
<1>4. CASE CacheAgent(r)
  BY <1>4, ShowTyped DEF CacheAgent, Admitted, Places
<1>5. CASE FlushCache(r)
  BY <1>5, ReplyTyped DEF FlushCache
<1> QED
  BY <1>1, <1>2, <1>3, <1>4, <1>5 DEF AgentSteps

LEMMA SaveFlow ==
  ASSUME FlowTyped, SiteTyped, NEW r \in Requests, Saves(r)
  PROVE  FlowTyped'
<1> USE DEF Answers
<1>g. got[r] \in Reads
  BY DEF FlowTyped
<1>1. CASE SaveUrl(r)
  <2>1. pc[r] = "save_url" /\ pc[r] \in Admitted
    BY <1>1 DEF SaveUrl, Admitted, Places
  <2>2. CASE Continue(r, "save_key")
    BY <2>1, <2>2, ContinueTyped DEF Places
  <2> QED
    BY <1>1, <2>1, <2>2, ShowTyped, ReplyTyped DEF SaveUrl
<1>2. CASE SaveKey(r)
  <2>1. pc[r] = "save_key" /\ pc[r] \in Admitted
    BY <1>2 DEF SaveKey, Admitted, Places
  <2>2. CASE Continue(r, "save_password")
    BY <2>1, <2>2, ContinueTyped DEF Places
  <2> QED
    BY <1>2, <2>1, <2>2, ShowTyped, ReplyTyped DEF SaveKey
<1>3. CASE SavePassword(r)
  <2>1. pc[r] = "save_password" /\ pc[r] \in Admitted
    BY <1>3 DEF SavePassword, Admitted, Places
  <2>2. CASE Continue(r, "reload")
    BY <2>1, <2>2, ContinueTyped DEF Places
  <2> QED
    BY <1>3, <2>1, <2>2, ReplyTyped DEF SavePassword
<1>4. CASE Reload(r)
  <2>1. pc[r] = "reload" /\ pc[r] \in Admitted
    BY <1>4 DEF Reload, Admitted, Places
  <2>2. CASE /\ table.url # None /\ table.key # None
             /\ got' = [got EXCEPT ![r].load = [url |-> table.url, key |-> table.key]]
             /\ Goto(r, "set_config") /\ UNCHANGED <<sent, token, resp, jar>>
    <3> DEFINE l == [url |-> table.url, key |-> table.key]
               g == [got[r] EXCEPT !.load = l]
    <3>1. l \in Running
      BY <2>2 DEF SiteTyped, Settings, Running
    <3> HIDE DEF l
    <3>2. g \in Reads /\ g.load \in Running
      BY <1>g, <3>1 DEF Reads
    <3>3. got' = [got EXCEPT ![r] = g]
      BY <2>2 DEF l
    <3> HIDE DEF g
    <3> QED
      BY <2>1, <2>2, <3>2, <3>3, ReadTyped
  <2> QED
    BY <1>4, <2>1, <2>2, ReplyTyped DEF Reload
<1>5. CASE SetConfig(r)
  <2>1. pc[r] = "set_config" /\ got[r].load \in Running
    BY <1>5 DEF SetConfig, FlowTyped, Shape
  <2> QED
    BY <1>5, <2>1, ContinueTyped DEF SetConfig, Admitted, Places
<1>6. CASE SetClient(r)
  BY <1>6, ReplyTyped DEF SetClient
<1> QED
  BY <1>1, <1>2, <1>3, <1>4, <1>5, <1>6 DEF Saves

\* What a request changes outside its own flow keeps its type.
LEMMA SiteKept ==
  ASSUME SiteTyped, UNCHANGED process,
         \A r \in Requests : InFlight(r)' => InFlight(r),
         table' \in Settings, seen' \in Histories,
         config' \in Running \cup {None}, client' \in Running \cup {None},
         Up => config' \in Running /\ client' \in Running,
         agent' \in Agents \cup {None}, agentMe' \in Agents \cup {None}
  PROVE  SiteTyped'
  BY DEF SiteTyped, process, Up

LEMMA HandlerInFlight ==
  ASSUME FlowTyped, NEW r \in Requests, Handle(r)
  PROVE  InFlight(r) /\ \A q \in Requests : InFlight(q)' => InFlight(q)
<1>1. InFlight(r)
  BY DEF Handle, InFlight, Guard, Forbid, AuthKey, AuthStore, LoginPage, Password, LoginKey, LoginStore, Logout,
     LookUpAgent, FetchAgent, SetAgent, CacheAgent, FlushCache, SaveUrl, SaveKey, SavePassword, Reload,
     SetConfig, SetClient
<1>2. \E p : pc' = [pc EXCEPT ![r] = p]
  BY DEF Handle, Guard, Forbid, AuthKey, AuthStore, LoginPage, Password, LoginKey, LoginStore, Logout,
     LookUpAgent, FetchAgent, SetAgent, CacheAgent, FlushCache, SaveUrl, SaveKey, SavePassword, Reload,
     SetConfig, SetClient, Validate, LogIn, Admit, Continue, Goto, Reply, Show, Answer
<1> QED
  BY <1>1, <1>2 DEF FlowTyped, InFlight

LEMMA HandlerSite ==
  ASSUME FlowTyped, SiteTyped, NEW r \in Requests, Handle(r),
         table' \in Settings, seen' \in Histories,
         config' \in Running \cup {None}, client' \in Running \cup {None},
         Up => config' \in Running /\ client' \in Running,
         agent' \in Agents \cup {None}, agentMe' \in Agents \cup {None}
  PROVE  SiteTyped'
<1>1. UNCHANGED process
  BY RequestsKeepProcess DEF Asking
<1> QED
  BY <1>1, SiteKept, HandlerInFlight

LEMMA AccessSite ==
  ASSUME FlowTyped, SiteTyped, NEW r \in Requests, Accesses(r)
  PROVE  SiteTyped'
<1>1. table' \in Settings /\ seen' \in Histories
  <2>1. CASE StoreKey(r)
    BY <2>1 DEF StoreKey, SiteTyped, Settings, Histories
  <2>2. CASE UNCHANGED <<table, seen>>
    BY <2>2 DEF SiteTyped
  <2> QED
    BY <2>1, <2>2 DEF Accesses, Guard, Forbid, AuthKey, AuthStore, LoginPage, Password, LoginKey, LoginStore, Logout
<1>2. UNCHANGED <<config, client, agent, agentMe>>
  BY DEF Accesses, Guard, Forbid, AuthKey, AuthStore, LoginPage, Password, LoginKey, LoginStore, Logout,
     OnlyAccess, memory
<1>3. Handle(r)
  BY DEF Accesses, Handle
<1> QED
  BY <1>1, <1>2, <1>3, HandlerSite DEF SiteTyped

LEMMA AgentSite ==
  ASSUME FlowTyped, SiteTyped, NEW r \in Requests, AgentSteps(r)
  PROVE  SiteTyped'
<1>1. UNCHANGED <<table, seen, config, client>>
  BY DEF AgentSteps, LookUpAgent, FetchAgent, SetAgent, CacheAgent, FlushCache, memory
<1>2. got[r].agent \in Agents \cup {None}
  BY DEF FlowTyped, Reads
<1>3. agent' \in Agents \cup {None} /\ agentMe' \in Agents \cup {None}
  BY <1>2 DEF AgentSteps, LookUpAgent, FetchAgent, SetAgent, CacheAgent, FlushCache, memory, SiteTyped
<1>4. Handle(r)
  BY DEF AgentSteps, Handle
<1> QED
  BY <1>1, <1>3, <1>4, HandlerSite DEF SiteTyped

LEMMA SaveSite ==
  ASSUME FlowTyped, SiteTyped, NEW r \in Requests, Saves(r)
  PROVE  SiteTyped'
<1>1. UNCHANGED <<agent, agentMe>>
  BY DEF Saves, SaveUrl, SaveKey, SavePassword, Reload, SetConfig, SetClient, memory
<1>2. sent[r] \in Message
  BY DEF Saves, SaveUrl, SaveKey, SavePassword, Reload, SetConfig, SetClient, FlowTyped, Shape
<1>3. sent[r].job \in Job
  BY <1>2 DEF Message
<1>4. Torn \in Histories /\ [seen EXCEPT !.rekeyed = @ \/ Owner[got[r].load.key] # Owner[client.key]] \in Histories
  BY DEF SiteTyped, Torn, Histories
<1>5. seen' \in Histories
  BY <1>4 DEF Saves, SaveUrl, SaveKey, SavePassword, Reload, SetConfig, SetClient, SiteTyped
<1>6. table' \in Settings
  <2>1. table \in Settings
    BY DEF SiteTyped
  <2>2. CASE Stored("url", sent[r].job.url)
    BY <1>3, <2>1, <2>2 DEF Stored, Settings, Job
  <2>3. CASE Stored("key", sent[r].job.key)
    BY <1>3, <2>1, <2>3 DEF Stored, Settings, Job
  <2>4. CASE Stored("password", sent[r].job.password)
    BY <1>3, <2>1, <2>4 DEF Stored, Settings, Job
  <2> QED
    BY <2>1, <2>2, <2>3, <2>4 DEF Saves, SaveUrl, SaveKey, SavePassword, Reload, SetConfig, SetClient
<1>7. /\ config' = config \/ (pc[r] = "set_config" /\ config' = got[r].load)
      /\ client' = client \/ (pc[r] = "set_client" /\ client' = got[r].load)
  BY DEF Saves, SaveUrl, SaveKey, SavePassword, Reload, SetConfig, SetClient, memory
<1>8. pc[r] \in {"set_config", "set_client"} => got[r].load \in Running
  BY DEF FlowTyped, Shape
<1>9. Handle(r)
  BY DEF Saves, Handle
<1> QED
  BY <1>1, <1>5, <1>6, <1>7, <1>8, <1>9, HandlerSite DEF SiteTyped

LEMMA StartSite ==
  ASSUME FlowTyped, SiteTyped, NEW r \in Requests, Start(r)
  PROVE  SiteTyped'
<1>1. seen' \in Histories
  <2>1. \A b \in Browsers : [seen EXCEPT !.doubled = @ \cup {b}] \in Histories
    BY DEF SiteTyped, Histories
  <2> QED
    BY <2>1 DEF Start, SiteTyped
<1>2. UNCHANGED <<phase, seeded, stops, table, config, client, agent, agentMe>> /\ Up
  BY DEF Start, OnlyAccess, NoProcessStep, process, memory, Up
<1> QED
  BY <1>1, <1>2 DEF SiteTyped, Up

LEMMA BrowseTyped ==
  ASSUME FlowTyped, SiteTyped, Browse
  PROVE  FlowTyped' /\ SiteTyped'
<1>1. UNCHANGED <<flow, table, seen, process, memory, agentMe>>
  BY DEF Browse, CookieAges, BrowserCloses, OnlyAccess, NoProcessStep
<1>2. jar' \in [Browsers -> Jar]
  <2>1. ASSUME NEW b \in Browsers, CookieAges(b) PROVE jar' \in [Browsers -> Jar]
    <3>1. jar[b] \in Jar /\ jar[b].session \in Cookie
      BY <2>1 DEF CookieAges, FlowTyped, Jar
    <3>2. [jar[b] EXCEPT !.session.old = TRUE] \in Jar
      BY <3>1 DEF Jar, Cookie
    <3> QED
      BY <2>1, <3>2 DEF CookieAges, FlowTyped
  <2>2. ASSUME NEW b \in Browsers, BrowserCloses(b) PROVE jar' \in [Browsers -> Jar]
    <3>1. jar \in [Browsers -> Jar]
      BY DEF FlowTyped
    <3>2. [jar[b] EXCEPT !.csrf = None, !.tabs = {}] \in Jar
      BY <3>1 DEF Jar
    <3>3. jar' = [jar EXCEPT ![b] = [jar[b] EXCEPT !.csrf = None, !.tabs = {}]]
      BY <2>2, <3>1 DEF BrowserCloses
    <3> QED
      BY <3>1, <3>2, <3>3
  <2> QED
    BY <2>1, <2>2 DEF Browse
<1>3. FlowTyped'
  BY <1>1, <1>2 DEF flow, FlowTyped, Shape
<1>4. SiteTyped'
  BY <1>1, SiteKept DEF flow, memory, process, SiteTyped, InFlight
<1> QED
  BY <1>3, <1>4

LEMMA DieTyped ==
  ASSUME FlowTyped, SiteTyped, Die("down"), seen' = seen, stops' \in 0..MaxStops
  PROVE  FlowTyped' /\ SiteTyped'
<1>1. pc' = [r \in Requests |-> IF InFlight(r) THEN "done" ELSE pc[r]]
  BY DEF Die
<1>2. pc' \in [Requests -> Places] /\ \A r \in Requests : ~ InFlight(r)'
  BY <1>1 DEF FlowTyped, Places, InFlight
<1>3. \A r \in Requests : pc'[r] = pc[r] \/ (pc'[r] = "done" /\ pc[r] # "idle")
  BY <1>1 DEF InFlight
<1>4. UNCHANGED <<sent, token, got, jar, table, agentMe, seeded>> /\ phase' = "down"
      /\ config' = None /\ client' = None /\ agent' = None
  BY DEF Die
<1>5. resp' \in [Requests -> Answers \cup {None}]
  BY DEF Die, FlowTyped, Answers
<1>6. ASSUME NEW r \in Requests PROVE Shape(r)'
  BY <1>3, <1>4 DEF FlowTyped, Shape, Admitted
<1>7. FlowTyped'
  BY <1>2, <1>4, <1>5, <1>6 DEF FlowTyped
<1>8. SiteTyped'
  BY <1>2, <1>4 DEF SiteTyped, Up
<1> QED
  BY <1>7, <1>8

LEMMA ProcessTyped ==
  ASSUME FlowTyped, SiteTyped, RunProcess \/ Interrupt
  PROVE  FlowTyped' /\ SiteTyped'
<1>s. stops \in 0..MaxStops /\ stops \in Nat /\ (stops < MaxStops => stops + 1 \in 0..MaxStops)
  BY SiteAssumption DEF SiteTyped
<1>1. CASE AddColumnAgain \/ LoadFails \/ Exec \/ Stop
  <2>1. Die("down") /\ seen' = seen
    BY <1>1 DEF AddColumnAgain, LoadFails, Exec, Stop
  <2>2. stops' \in 0..MaxStops
    BY <1>s, <1>1 DEF AddColumnAgain, LoadFails, Exec, Stop
  <2> QED
    BY <2>1, <2>2, DieTyped
<1>2. UNCHANGED <<flow, jar>> => FlowTyped'
  BY DEF flow, FlowTyped, Shape
<1>3. CASE \/ Boot \/ CheckMigration \/ CreateTables \/ AddColumn \/ FillColumn \/ RecordMigration \/ Migrated
           \/ Hangup \/ CloseDb
  <2>1. UNCHANGED <<flow, jar, table, memory, agentMe, seen>> /\ seeded' \subseteq EnvKeys /\ (Up => Up') /\ (Up' => Up)
    BY <1>3 DEF Boot, CheckMigration, CreateTables, AddColumn, FillColumn, RecordMigration, Migrated,
       Hangup, CloseDb, MigrationStep, Up, SiteTyped
  <2>2. stops' \in 0..MaxStops
    BY <1>3, <1>s DEF Boot, CheckMigration, CreateTables, AddColumn, FillColumn, RecordMigration, Migrated,
       Hangup, CloseDb, MigrationStep
  <2> QED
    BY <1>2, <2>1, <2>2 DEF flow, memory, SiteTyped, InFlight
<1>4. ASSUME NEW k \in EnvKeys, Seed(k) PROVE FlowTyped' /\ SiteTyped'
  <2>1. UNCHANGED <<flow, jar, phase, memory, agentMe, seen, stops>> /\ seeded' \subseteq EnvKeys
    BY <1>4 DEF Seed, SeedingStep, SiteTyped
  <2>2. table' = table \/ table' = [table EXCEPT ![k] = Env[k]]
    BY <1>4 DEF Seed, SiteTyped, Settings
  <2>3. [table EXCEPT ![k] = Env[k]] \in Settings
    <3>1. table \in Settings /\ Env \in EnvFile
      BY SiteAssumption DEF SiteTyped
    <3>2. k \in {"url", "key", "password"}
      BY DEF EnvKeys
    <3>3. CASE k = "url"
      BY <3>1, <3>3 DEF Settings, EnvFile
    <3>4. CASE k = "key"
      BY <3>1, <3>4 DEF Settings, EnvFile
    <3>5. CASE k = "password"
      BY <3>1, <3>5 DEF Settings, EnvFile
    <3> QED
      BY <3>2, <3>3, <3>4, <3>5
  <2> QED
    BY <1>2, <2>1, <2>2, <2>3 DEF flow, memory, SiteTyped, InFlight, Up
<1>5. CASE SeedFails
  <2>1. UNCHANGED <<flow, jar, phase, memory, agentMe, seen, table>> /\ seeded' \subseteq EnvKeys
        /\ stops' \in 0..MaxStops
    BY <1>5, <1>s DEF SeedFails, SeedingStep
  <2> QED
    BY <1>2, <2>1 DEF flow, memory, SiteTyped, InFlight, Up
<1>6. CASE Load
  <2> DEFINE l == [url |-> table.url, key |-> table.key]
  <2>1. l \in Running
    BY <1>6 DEF Load, SiteTyped, Settings, Running
  <2>2. UNCHANGED <<flow, jar, agent, agentMe, table, stops, seeded>> /\ config' = l /\ client' = l /\ Up'
    BY <1>6 DEF Load, Up
  <2>3. seen' \in Histories
    BY <1>6 DEF Load, SiteTyped, Histories
  <2> HIDE DEF l
  <2>4. SiteTyped'
    BY <2>1, <2>2, <2>3 DEF flow, SiteTyped, InFlight
  <2> QED
    BY <1>2, <2>2, <2>4
<1> QED
  BY <1>1, <1>3, <1>4, <1>5, <1>6 DEF RunProcess, Interrupt

LEMMA InitTyped ==
  ASSUME Init
  PROVE  FlowTyped /\ SiteTyped
<1> USE SiteAssumption
<1>1. FlowTyped
  <2>1. jar \in [Browsers -> Jar]
    BY DEF Init
  <2>2. \A r \in Requests : Shape(r)
    BY DEF Init, Shape, Admitted
  <2> QED
    BY <2>1, <2>2 DEF Init, FlowTyped, Places, Reads
<1>2. table \in Settings
  BY DEF Init, Settings
<1>3. SiteTyped
  BY <1>2 DEF Init, SiteTyped, Histories, Up, InFlight
<1> QED
  BY <1>1, <1>3

LEMMA StepTyped ==
  ASSUME TInv, [Next]_vars
  PROVE  TInv'
<1>1. MInv'
  BY MigrationKept DEF TInv
<1>2. ASSUME NEW r \in Requests, Asking(r) PROVE FlowTyped' /\ SiteTyped'
  <2>1. table \in Settings
    BY DEF TInv, SiteTyped
  <2> QED
    BY <1>2, <2>1, HandleCases, StartTyped, StartSite, AccessFlow, AccessSite, AgentFlow, AgentSite, SaveFlow, SaveSite
       DEF Asking, TInv
<1>3. ASSUME UNCHANGED vars PROVE FlowTyped' /\ SiteTyped'
  <2>1. FlowTyped'
    BY <1>3 DEF vars, flow, TInv, FlowTyped, Shape
  <2>2. SiteTyped'
    BY <1>3 DEF vars, process, memory, flow, TInv, SiteTyped, InFlight, Up
  <2> QED
    BY <2>1, <2>2
<1> QED
  BY <1>1, <1>2, <1>3, NextCases, ProcessTyped, BrowseTyped DEF TInv

LEMMA AlwaysTyped == Spec => []TInv
<1>1. Init => FlowTyped /\ SiteTyped
  BY InitTyped
<1>2. Init => MInv
  <2> SUFFICES ASSUME Init PROVE MInv
    OBVIOUS
  <2> QED
    BY InitMigrating
<1>3. Init => TInv
  BY <1>1, <1>2 DEF TInv
<1>4. TInv /\ [Next]_vars => TInv'
  BY StepTyped
<1> QED
  BY <1>3, <1>4, PTL DEF Spec

(* Every variable keeps its type, for any settings, requests and faults. *)
THEOREM Typing == Spec => []TypeOK
<1>1. TInv => TypeOK
  BY TypeParts
<1> QED
  BY <1>1, AlwaysTyped, PTL

-----------------------------------------------------------------------------
(* Sessions. *)

\* The stored key is one of the keys that were stored, and sessions are made with no other.
KInv ==
  /\ IsFiniteSet(seen.keys)
  /\ (table.hmac = None /\ seen.keys = {}) \/ table.hmac \in seen.keys
  /\ \A b \in Browsers : jar[b].session # None => jar[b].session.key \in seen.keys \cup Earlier

SameKeys     == seen'.keys = seen.keys /\ table'.hmac = table.hmac
SameSessions == \A b \in Browsers : jar'[b].session = jar[b].session

LEMMA KInvQuiet ==
  ASSUME KInv, SameKeys, SameSessions
  PROVE  KInv'
  BY DEF KInv, SameKeys, SameSessions

\* How an answer changes the jar of its browser.
LEMMA AnsweredSessions ==
  ASSUME FlowTyped, NEW r \in Requests, pc[r] # "idle", NEW a
  PROVE  Reply(r, a) \/ Show(r, a) => SameSessions
<1>1. Mine(r) \in Browsers /\ Dressed(r) \in Jar /\ jar \in [Browsers -> Jar]
  BY DressedTyped DEF FlowTyped
<1>2. Dressed(r).session = jar[Mine(r)].session
  BY <1>1 DEF Dressed, Jar
<1>3. [Dressed(r) EXCEPT !.tabs = @ \cup {token[r]}].session = Dressed(r).session
  BY <1>1 DEF Jar
<1> QED
  BY <1>1, <1>2, <1>3 DEF Reply, Show, Answer, SameSessions

Logs(r) == LoginKey(r) \/ LoginStore(r) \/ Logout(r)

LEMMA SessionsKept ==
  ASSUME FlowTyped, NEW r \in Requests, Handle(r)
  PROVE  SameSessions \/ Logs(r)
<1>1. InFlight(r) /\ pc[r] # "idle"
  BY HandlerInFlight DEF InFlight
<1>2. UNCHANGED jar \/ (\E a : Reply(r, a) \/ Show(r, a)) \/ Logs(r)
  BY DEF Handle, Logs, Guard, Forbid, AuthKey, AuthStore, LoginPage, Password,
     LookUpAgent, FetchAgent, SetAgent, CacheAgent, FlushCache, SaveUrl, SaveKey, SavePassword, Reload,
     SetConfig, SetClient, Validate, Admit, Continue
<1>3. UNCHANGED jar => SameSessions
  BY DEF SameSessions
<1> QED
  BY <1>1, <1>2, <1>3, AnsweredSessions

\* Settings and history without the keys.
LEMMA OtherFields ==
  ASSUME TInv
  PROVE  /\ \A b : [seen EXCEPT !.doubled = @ \cup {b}].keys = seen.keys
         /\ Torn.keys = seen.keys
         /\ \A x : /\ [seen EXCEPT !.rekeyed = x].keys = seen.keys
                   /\ [seen EXCEPT !.torn = FALSE, !.rekeyed = x].keys = seen.keys
         /\ \A k \in EnvKeys : \A v : [table EXCEPT ![k] = v].hmac = table.hmac
<1>1. seen \in Histories /\ table \in Settings
  BY DEF TInv, SiteTyped
<1>2. \A b : [seen EXCEPT !.doubled = @ \cup {b}].keys = seen.keys
  BY <1>1 DEF Histories
<1>3. /\ Torn.keys = seen.keys
      /\ \A x : /\ [seen EXCEPT !.rekeyed = x].keys = seen.keys
                /\ [seen EXCEPT !.torn = FALSE, !.rekeyed = x].keys = seen.keys
  BY <1>1 DEF Histories, Torn
<1>4. \A k \in EnvKeys : \A v : [table EXCEPT ![k] = v].hmac = table.hmac
  <2> SUFFICES ASSUME NEW k \in EnvKeys, NEW v PROVE [table EXCEPT ![k] = v].hmac = table.hmac
    OBVIOUS
  <2>1. CASE k = "url"
    BY <1>1, <2>1 DEF Settings
  <2>2. CASE k = "key"
    BY <1>1, <2>2 DEF Settings
  <2>3. CASE k = "password"
    BY <1>1, <2>3 DEF Settings
  <2> QED
    BY <2>1, <2>2, <2>3 DEF EnvKeys
<1> QED
  BY <1>2, <1>3, <1>4

LEMMA ProcessKeys ==
  ASSUME TInv, RunProcess \/ Interrupt
  PROVE  SameKeys /\ UNCHANGED jar
<1>1. \/ UNCHANGED <<table, seen>>
      \/ UNCHANGED seen /\ \E k \in EnvKeys : \E v : table' = [table EXCEPT ![k] = v]
      \/ UNCHANGED table /\ \E x : seen' = [seen EXCEPT !.torn = FALSE, !.rekeyed = x]
  BY DEF RunProcess, Interrupt, Boot, CheckMigration, CreateTables, AddColumn, AddColumnAgain, FillColumn,
     RecordMigration, Migrated, Seed, SeedFails, SeedingStep, Load, LoadFails, Hangup, CloseDb, Exec, Stop,
     MigrationStep, Die
<1>2. UNCHANGED jar
  BY DEF RunProcess, Interrupt, Boot, CheckMigration, CreateTables, AddColumn, AddColumnAgain, FillColumn,
     RecordMigration, Migrated, Seed, SeedFails, SeedingStep, Load, LoadFails, Hangup, CloseDb, Exec, Stop,
     MigrationStep, Die
<1> QED
  BY <1>1, <1>2, OtherFields DEF SameKeys

LEMMA HandlerKeys ==
  ASSUME TInv, NEW r \in Requests, Handle(r)
  PROVE  SameKeys \/ (StoreKey(r) /\ (AuthStore(r) \/ LoginStore(r)))
<1>1. CASE Saves(r)
  <2>1. UNCHANGED seen \/ seen' = Torn \/ \E x : seen' = [seen EXCEPT !.rekeyed = x]
    BY <1>1 DEF Saves, SaveUrl, SaveKey, SavePassword, Reload, SetConfig, SetClient
  <2>2. UNCHANGED table \/ \E k \in EnvKeys : \E v : table' = [table EXCEPT ![k] = v]
    BY <1>1 DEF Saves, SaveUrl, SaveKey, SavePassword, Reload, SetConfig, SetClient, Stored, EnvKeys
  <2>3. seen'.keys = seen.keys
    <3>1. ASSUME NEW x, seen' = [seen EXCEPT !.rekeyed = x] PROVE seen'.keys = seen.keys
      <4>1. [seen EXCEPT !.rekeyed = x].keys = seen.keys
        BY OtherFields
      <4> QED
        BY <3>1, <4>1
    <3>2. CASE seen' = Torn
      BY <3>2, OtherFields
    <3> QED
      BY <2>1, <3>1, <3>2
  <2>4. table'.hmac = table.hmac
    BY <2>2, OtherFields
  <2> QED
    BY <2>3, <2>4 DEF SameKeys
<1>2. CASE Accesses(r) \/ AgentSteps(r)
  BY <1>2 DEF Accesses, Guard, Forbid, AuthKey, AuthStore, LoginPage, Password, LoginKey, LoginStore, Logout,
     AgentSteps, LookUpAgent, FetchAgent, SetAgent, CacheAgent, FlushCache, SameKeys
<1> QED
  BY <1>1, <1>2, HandleCases

\* Logging in makes a session with a key that is stored; nothing else makes one.
LEMMA LogInSessions ==
  ASSUME FlowTyped, NEW r \in Requests, pc[r] # "idle", NEW k, NEW S,
         \A b \in Browsers : jar[b].session # None => jar[b].session.key \in S,
         LogIn(r, k), k \in S
  PROVE  \A b \in Browsers : jar'[b].session # None => jar'[b].session.key \in S
<1> DEFINE j == [Dressed(r) EXCEPT !.session = [key |-> k, old |-> FALSE]]
<1>1. Mine(r) \in Browsers /\ Dressed(r) \in Jar /\ jar \in [Browsers -> Jar]
  BY DressedTyped DEF FlowTyped
<1>2. j.session.key = k
  BY <1>1 DEF Jar
<1>3. jar' = [jar EXCEPT ![Mine(r)] = j]
  BY DEF LogIn, Answer
<1> HIDE DEF j
<1> QED
  BY <1>1, <1>2, <1>3

LEMMA StoredKey ==
  ASSUME KInv, seen \in Histories, table \in Settings, NEW r \in Requests, StoreKey(r)
  PROVE  /\ IsFiniteSet(seen'.keys) /\ seen'.keys = seen.keys \cup {r} /\ table'.hmac = r
         /\ \A b \in Browsers : jar[b].session # None => jar[b].session.key \in seen'.keys \cup Earlier
<1>1. seen'.keys = seen.keys \cup {r} /\ table'.hmac = r
  BY DEF StoreKey, Histories, Settings
<1>2. IsFiniteSet(seen.keys \cup {r})
  BY FS_AddElement DEF KInv
<1> QED
  BY <1>1, <1>2 DEF KInv

LEMMA KeysInvariant ==
  ASSUME TInv, KInv, [Next]_vars
  PROVE  KInv'
<1>t. FlowTyped /\ SiteTyped /\ seen \in Histories /\ table \in Settings
  BY DEF TInv, SiteTyped
<1>1. CASE UNCHANGED vars
  BY <1>1 DEF vars, KInv
<1>2. CASE RunProcess \/ Interrupt
  BY <1>2, ProcessKeys, KInvQuiet DEF SameSessions
<1>3. CASE Browse
  <2>1. UNCHANGED <<table, seen>>
    BY <1>3 DEF Browse, CookieAges, BrowserCloses
  <2>2. \A b \in Browsers : jar'[b].session # None =>
          jar[b].session # None /\ jar'[b].session.key = jar[b].session.key
    <3>1. jar \in [Browsers -> Jar]
      BY <1>t DEF FlowTyped
    <3>2. ASSUME NEW b \in Browsers, CookieAges(b)
          PROVE  \A c \in Browsers : jar'[c].session # None =>
                   jar[c].session # None /\ jar'[c].session.key = jar[c].session.key
      <4>1. jar[b].session \in Cookie
        BY <3>1, <3>2 DEF CookieAges, Jar
      <4>2. [jar[b] EXCEPT !.session.old = TRUE].session.key = jar[b].session.key
        BY <3>1, <4>1 DEF Jar, Cookie
      <4> QED
        BY <3>1, <3>2, <4>2 DEF CookieAges
    <3>3. ASSUME NEW b \in Browsers, BrowserCloses(b) PROVE SameSessions
      <4>1. jar' = [jar EXCEPT ![b] = [jar[b] EXCEPT !.csrf = None, !.tabs = {}]]
        BY <3>1, <3>3 DEF BrowserCloses
      <4>2. [jar[b] EXCEPT !.csrf = None, !.tabs = {}].session = jar[b].session
        BY <3>1 DEF Jar
      <4> QED
        BY <3>1, <4>1, <4>2 DEF SameSessions
    <3> QED
      BY <1>3, <3>2, <3>3 DEF Browse, SameSessions
  <2> QED
    BY <2>1, <2>2 DEF KInv
<1>4. ASSUME NEW r \in Requests, Start(r) PROVE KInv'
  <2>1. UNCHANGED <<jar, table>> /\ pc[r] = "idle"
    BY <1>4 DEF Start
  <2>2. seen'.keys = seen.keys
    BY <1>4, <1>t DEF Start, Histories
  <2> QED
    BY <2>1, <2>2 DEF KInv
<1>5. ASSUME NEW r \in Requests, Handle(r) PROVE KInv'
  <2>0. InFlight(r) /\ pc[r] # "idle"
    BY <1>t, <1>5, HandlerInFlight DEF InFlight
  <2>1. CASE LoginKey(r)
    <3>1. UNCHANGED <<table, seen>>
      BY <2>1 DEF LoginKey
    <3>2. CASE table.hmac # None /\ LogIn(r, table.hmac)
      <4>1. table.hmac \in seen.keys \cup Earlier
        BY <3>2 DEF KInv
      <4> QED
        BY <1>t, <2>0, <3>1, <3>2, <4>1, LogInSessions DEF KInv
    <3>3. CASE ~ (table.hmac # None /\ LogIn(r, table.hmac))
      <4>1. UNCHANGED jar \/ Reply(r, "error")
        BY <2>1, <3>3 DEF LoginKey, Continue
      <4> QED
        BY <1>t, <2>0, <3>1, <4>1, AnsweredSessions, KInvQuiet DEF SameKeys, SameSessions
    <3> QED
      BY <3>2, <3>3
  <2>2. CASE Logout(r)
    <3> DEFINE j == [Dressed(r) EXCEPT !.session = None]
    <3>1. Mine(r) \in Browsers /\ Dressed(r) \in Jar /\ jar \in [Browsers -> Jar]
      BY <1>t, <2>0, DressedTyped DEF FlowTyped
    <3>2. j.session = None
      BY <3>1 DEF Jar
    <3>3. jar' = [jar EXCEPT ![Mine(r)] = j] /\ UNCHANGED <<table, seen>>
      BY <2>2 DEF Logout, Answer
    <3> HIDE DEF j
    <3> QED
      BY <3>1, <3>2, <3>3 DEF KInv
  <2>3. CASE StoreKey(r) /\ (AuthStore(r) \/ LoginStore(r))
    <3>1. /\ IsFiniteSet(seen'.keys) /\ r \in seen'.keys /\ table'.hmac = r
          /\ \A b \in Browsers : jar[b].session # None => jar[b].session.key \in seen'.keys \cup Earlier
      BY <1>t, <2>3, StoredKey
    <3>2. CASE LogIn(r, r)
      BY <1>t, <2>0, <3>1, <3>2, LogInSessions DEF KInv
    <3>3. CASE ~ LogIn(r, r)
      <4>1. UNCHANGED jar \/ (\E a : Reply(r, a) \/ Show(r, a))
        BY <2>3, <3>3 DEF AuthStore, LoginStore, Validate, Admit
      <4>2. SameSessions
        BY <1>t, <2>0, <4>1, AnsweredSessions DEF SameSessions
      <4> QED
        BY <3>1, <4>2 DEF KInv, SameSessions
    <3> QED
      BY <3>2, <3>3
  <2>4. CASE LoginStore(r) /\ ~ StoreKey(r)
    <3>1. Reply(r, "error") /\ UNCHANGED <<table, seen>>
      BY <2>4 DEF LoginStore
    <3> QED
      BY <1>t, <2>0, <3>1, AnsweredSessions, KInvQuiet DEF SameKeys
  <2>5. CASE SameSessions /\ SameKeys
    BY <2>5, KInvQuiet
  <2>6. SameKeys \/ (StoreKey(r) /\ (AuthStore(r) \/ LoginStore(r)))
    BY <1>t, <1>5, HandlerKeys
  <2> QED
    BY <1>t, <1>5, <2>1, <2>2, <2>3, <2>4, <2>5, <2>6, SessionsKept DEF Logs
<1> QED
  BY <1>1, <1>2, <1>3, <1>4, <1>5, NextCases DEF Asking

(* A session that a login has handed out is made with the key that is still *)
(* stored, unless two requests each stored one, over any restarts.          *)
THEOREM Logins == Spec => []LoginLasts
<1>1. Init => KInv
  <2> SUFFICES ASSUME Init PROVE KInv
    OBVIOUS
  <2>1. seen.keys = {} /\ table.hmac = None /\ jar \in [Browsers -> InitJars]
    BY SiteAssumption DEF Init
  <2>2. \A b \in Browsers : jar[b].session # None => jar[b].session.key \in Earlier
    BY <2>1, SiteAssumption
  <2> QED
    BY <2>1, <2>2, FS_EmptySet DEF KInv
<1>2. TInv /\ KInv /\ [Next]_vars => KInv'
  BY KeysInvariant
<1>3. KInv => LoginLasts
  <2> SUFFICES ASSUME KInv, Cardinality(seen.keys) <= 1, NEW b \in Browsers, jar[b].session # None,
                      jar[b].session.key \notin Earlier
               PROVE  jar[b].session.key = table.hmac
    BY DEF LoginLasts
  <2>1. jar[b].session.key \in seen.keys /\ table.hmac \in seen.keys
    BY DEF KInv
  <2>2. Cardinality(seen.keys) = 1
    BY <2>1, FS_EmptySet, FS_CardinalityType DEF KInv
  <2>3. PICK x : seen.keys = {x}
    BY <2>2, FS_Singleton DEF KInv
  <2> QED
    BY <2>1, <2>3
<1> QED
  BY <1>1, <1>2, <1>3, AlwaysTyped, PTL DEF Spec

-----------------------------------------------------------------------------
(* The agent of the board. *)

Fetched == {"agent_set", "agent_cache"}

\* Until the account changes, every agent known or about to be known is the owner of the client's key.
AInv ==
  /\ ~ Up => agent = None
  /\ Up /\ ~ seen.rekeyed =>
       /\ {agent, agentMe} \subseteq {None, Owner[client.key]}
       /\ \A r \in Requests : pc[r] \in Fetched => got[r].agent = Owner[client.key]

LEMMA AgentQuiet ==
  ASSUME AInv, UNCHANGED <<agent, agentMe, client>>, Up' <=> Up, seen'.rekeyed = seen.rekeyed,
         \A r \in Requests : pc'[r] \in Fetched => pc[r] \in Fetched /\ got'[r].agent = got[r].agent
  PROVE  AInv'
  BY DEF AInv

LEMMA HistoryFields ==
  ASSUME seen \in Histories
  PROVE  /\ \A b : [seen EXCEPT !.doubled = @ \cup {b}].rekeyed = seen.rekeyed
         /\ \A r : [seen EXCEPT !.keys = @ \cup {r}].rekeyed = seen.rekeyed
         /\ Torn.rekeyed = seen.rekeyed
         /\ \A x : [seen EXCEPT !.rekeyed = x].rekeyed = x
         /\ \A x : [seen EXCEPT !.torn = FALSE, !.rekeyed = x].rekeyed = x
  BY DEF Histories, Torn

LEMMA AdmitPlace ==
  ASSUME FlowTyped, NEW r \in Requests, pc[r] # "idle", Admit(r)
  PROVE  \E p \in {"agent", "show", "password", "leave", "flush", "save_url", "forbid"} : pc' = [pc EXCEPT ![r] = p]
<1>1. Kind(r) \in {"page", "login_page", "login", "logout", "refresh", "save"}
  BY DEF FlowTyped, Shape, Message, Kind, Job
<1>2. Handler[Kind(r)] \in {"agent", "show", "password", "leave", "flush", "save_url"}
  BY <1>1 DEF Handler
<1> QED
  BY <1>2 DEF Admit, Goto

LEMMA OthersFetchNothing ==
  ASSUME FlowTyped, NEW r \in Requests, Accesses(r) \/ Saves(r)
  PROVE  \A q \in Requests : pc'[q] \in Fetched => pc[q] \in Fetched /\ got'[q].agent = got[q].agent
<1>0. pc[r] # "idle" /\ pc \in [Requests -> Places] /\ got \in [Requests -> Reads]
  BY HandlerInFlight DEF Accesses, Saves, Handle, InFlight, FlowTyped
<1>1. \E p \in Places \ Fetched : pc' = [pc EXCEPT ![r] = p]
  <2>1. Admit(r) => \E p \in Places \ Fetched : pc' = [pc EXCEPT ![r] = p]
    BY <1>0, AdmitPlace DEF Places, Fetched
  <2>2. CASE Saves(r)
    BY <2>2 DEF Saves, SaveUrl, SaveKey, SavePassword, Reload, SetConfig, SetClient, Show, Reply, Answer, Goto,
       Continue, Places, Fetched
  <2>3. CASE Accesses(r) /\ ~ Admit(r)
    BY <2>3 DEF Accesses, Guard, Forbid, AuthKey, AuthStore, LoginPage, Password, LoginKey, LoginStore, Logout,
       Validate, LogIn, Show, Reply, Answer, Goto, Continue, Places, Fetched
  <2> QED
    BY <2>1, <2>2, <2>3
<1>2. got' = got \/ \E l : got' = [got EXCEPT ![r].load = l]
  BY DEF Accesses, Guard, Forbid, AuthKey, AuthStore, LoginPage, Password, LoginKey, LoginStore, Logout,
     Validate, LogIn, Admit, Show, Reply, Answer, Continue,
     Saves, SaveUrl, SaveKey, SavePassword, Reload, SetConfig, SetClient
<1>3. \A q \in Requests : got'[q].agent = got[q].agent
  <2>1. ASSUME NEW l, NEW q \in Requests PROVE [got EXCEPT ![r].load = l][q].agent = got[q].agent
    BY <1>0 DEF Reads
  <2>2. CASE got' = got
    BY <2>2
  <2>3. ASSUME NEW l, got' = [got EXCEPT ![r].load = l] PROVE \A q \in Requests : got'[q].agent = got[q].agent
    BY <2>1, <2>3
  <2> QED
    BY <1>2, <2>2, <2>3
<1> QED
  BY <1>0, <1>1, <1>3

LEMMA AgentStepsKeep ==
  ASSUME TInv, AInv, NEW r \in Requests, AgentSteps(r)
  PROVE  AInv'
<1>0. FlowTyped /\ SiteTyped /\ pc \in [Requests -> Places] /\ got \in [Requests -> Reads]
  BY DEF TInv, FlowTyped
<1>1. Handle(r) /\ InFlight(r) /\ Up
  BY <1>0, HandlerInFlight, ClientThere DEF AgentSteps, Handle
<1>2. UNCHANGED <<seen, client, phase>> /\ (Up' <=> Up)
  BY DEF AgentSteps, LookUpAgent, FetchAgent, SetAgent, CacheAgent, FlushCache, memory, NoProcessStep, process, Up
<1>3. CASE seen.rekeyed
  BY <1>1, <1>2, <1>3 DEF AInv
<1>4. CASE ~ seen.rekeyed
  <2> DEFINE o == Owner[client.key]
  <2>1. {agent, agentMe} \subseteq {None, o} /\ \A q \in Requests : pc[q] \in Fetched => got[q].agent = o
    BY <1>1, <1>4 DEF AInv
  <2>2. Owner[client.key]' = o
    BY <1>2
  <2> HIDE DEF o
  <2>3. {agent', agentMe'} \subseteq {None, o}
    <3>1. pc[r] \in Fetched => got[r].agent = o
      BY <2>1
    <3> QED
      BY <2>1, <3>1 DEF AgentSteps, LookUpAgent, FetchAgent, SetAgent, CacheAgent, FlushCache, memory, Fetched
  <2>4. \A q \in Requests : pc'[q] \in Fetched => got'[q].agent = o
    <3>1. CASE FetchAgent(r) /\ got' = [got EXCEPT ![r].agent = Owner[client.key]] /\ Goto(r, "agent_set")
      <4>1. got'[r].agent = o /\ \A q \in Requests \ {r} : got'[q] = got[q] /\ pc'[q] = pc[q]
        BY <1>0, <3>1 DEF Reads, Goto, o
      <4> QED
        BY <2>1, <4>1
    <3>2. CASE SetAgent(r)
      BY <1>0, <2>1, <3>2 DEF SetAgent, Continue, Goto, Fetched
    <3>3. CASE (\E p \in {"done", "agent_fetch"} : pc' = [pc EXCEPT ![r] = p]) /\ UNCHANGED got
      BY <1>0, <2>1, <3>3 DEF Fetched
    <3> QED
      BY <3>1, <3>2, <3>3 DEF AgentSteps, LookUpAgent, FetchAgent, CacheAgent, FlushCache, Show, Reply, Answer,
         Continue, Goto
  <2> QED
    BY <1>1, <1>2, <2>2, <2>3, <2>4 DEF AInv
<1> QED
  BY <1>3, <1>4

LEMMA SavesKeep ==
  ASSUME TInv, AInv, NEW r \in Requests, Saves(r)
  PROVE  AInv'
<1>0. FlowTyped /\ SiteTyped /\ seen \in Histories
  BY DEF TInv, SiteTyped
<1>1. UNCHANGED <<agent, agentMe, phase>> /\ (Up' <=> Up)
  BY DEF Saves, SaveUrl, SaveKey, SavePassword, Reload, SetConfig, SetClient, memory, NoProcessStep, process, Up
<1>2. \A q \in Requests : pc'[q] \in Fetched => pc[q] \in Fetched /\ got'[q].agent = got[q].agent
  BY <1>0, OthersFetchNothing
<1>3. CASE SetClient(r)
  <2>1. seen'.rekeyed = (seen.rekeyed \/ Owner[got[r].load.key] # Owner[client.key]) /\ client' = got[r].load
    BY <1>0, <1>3, HistoryFields DEF SetClient
  <2>2. ~ seen'.rekeyed => ~ seen.rekeyed /\ Owner[client'.key] = Owner[client.key]
    BY <2>1
  <2> QED
    BY <1>1, <1>2, <2>2 DEF AInv
<1>4. CASE ~ SetClient(r)
  <2>1. UNCHANGED client /\ seen' \in {seen, Torn}
    BY <1>4 DEF Saves, SaveUrl, SaveKey, SavePassword, Reload, SetConfig, memory
  <2>2. seen'.rekeyed = seen.rekeyed
    BY <1>0, <2>1, HistoryFields
  <2> QED
    BY <1>1, <1>2, <2>1, <2>2, AgentQuiet
<1> QED
  BY <1>3, <1>4

LEMMA AccessKeeps ==
  ASSUME TInv, AInv, NEW r \in Requests, Accesses(r)
  PROVE  AInv'
<1>0. FlowTyped /\ seen \in Histories
  BY DEF TInv, SiteTyped
<1>1. UNCHANGED <<agent, agentMe, client>> /\ (Up' <=> Up)
  BY DEF Accesses, Guard, Forbid, AuthKey, AuthStore, LoginPage, Password, LoginKey, LoginStore, Logout,
     OnlyAccess, memory, NoProcessStep, process, Up
<1>2. seen' \in {seen, [seen EXCEPT !.keys = @ \cup {r}]}
  BY DEF Accesses, Guard, Forbid, AuthKey, AuthStore, LoginPage, Password, LoginKey, LoginStore, Logout, StoreKey
<1>3. seen'.rekeyed = seen.rekeyed
  BY <1>0, <1>2, HistoryFields
<1> QED
  BY <1>0, <1>1, <1>3, OthersFetchNothing, AgentQuiet

LEMMA ProcessKeepsAgent ==
  ASSUME TInv, AInv, RunProcess \/ Interrupt
  PROVE  AInv'
<1>0. SiteTyped /\ seen \in Histories
  BY DEF TInv, SiteTyped
<1>1. CASE AddColumnAgain \/ LoadFails \/ Exec \/ Stop
  <2>1. phase' = "down" /\ agent' = None
    BY <1>1 DEF AddColumnAgain, LoadFails, Exec, Stop, Die
  <2> QED
    BY <2>1 DEF AInv, Up
<1>2. CASE \/ Boot \/ CheckMigration \/ CreateTables \/ AddColumn \/ FillColumn \/ RecordMigration \/ Migrated
           \/ Hangup \/ CloseDb \/ (\E k \in EnvKeys : Seed(k)) \/ SeedFails
  <2>1. UNCHANGED <<agent, agentMe, client, seen, pc, got>> /\ (Up' <=> Up)
    BY <1>2 DEF Boot, CheckMigration, CreateTables, AddColumn, FillColumn, RecordMigration, Migrated, Hangup, CloseDb,
       Seed, SeedFails, SeedingStep, MigrationStep, Up, memory, flow
  <2> QED
    BY <2>1, AgentQuiet
<1>3. CASE Load
  <2>1. ~ Up /\ UNCHANGED <<agent, agentMe, pc, got>> /\ client' = [url |-> table.url, key |-> table.key] /\ Up'
    BY <1>3 DEF Load, Up, flow
  <2>2. agent = None /\ \A r \in Requests : pc[r] \notin Fetched
    BY <1>0, <2>1 DEF AInv, SiteTyped, InFlight, Fetched
  <2>3. seen'.rekeyed = (agentMe \notin {None, Owner[table.key]})
    BY <1>0, <1>3, HistoryFields DEF Load
  <2>4. client'.key = table.key
    BY <2>1
  <2> QED
    BY <2>1, <2>2, <2>3, <2>4 DEF AInv
<1> QED
  BY <1>1, <1>2, <1>3 DEF RunProcess, Interrupt

(* Until the account changes, the agent the server takes for its own, and   *)
(* the one it remembers in the cache over restarts, own the key of its      *)
(* client.                                                                  *)
THEOREM BoardAgent == Spec => []AgentIsClients
<1>1. Init => AInv
  BY DEF Init, AInv, Up
<1>2. TInv /\ AInv /\ [Next]_vars => AInv'
  <2> SUFFICES ASSUME TInv, AInv, [Next]_vars PROVE AInv'
    OBVIOUS
  <2>0. FlowTyped /\ seen \in Histories
    BY DEF TInv, SiteTyped
  <2>1. CASE UNCHANGED vars \/ Browse
    <3>1. UNCHANGED <<agent, agentMe, client, seen, pc, got, phase>>
      BY <2>1 DEF vars, process, memory, flow, Browse, CookieAges, BrowserCloses, OnlyAccess, NoProcessStep
    <3> QED
      BY <3>1 DEF AInv, Up
  <2>2. ASSUME NEW r \in Requests, Start(r) PROVE AInv'
    <3>1. UNCHANGED <<agent, agentMe, client, got, phase>> /\ pc' = [pc EXCEPT ![r] = "guard"]
      BY <2>2 DEF Start, Goto, OnlyAccess, NoProcessStep, process, memory
    <3>2. seen'.rekeyed = seen.rekeyed
      BY <2>0, <2>2, HistoryFields DEF Start
    <3>3. \A q \in Requests : pc'[q] \in Fetched => pc[q] \in Fetched
      BY <2>0, <3>1 DEF FlowTyped, Fetched
    <3> QED
      BY <3>1, <3>2, <3>3, AgentQuiet DEF Up
  <2> QED
    BY <2>1, <2>2, NextCases, HandleCases, AgentStepsKeep, SavesKeep, AccessKeeps, ProcessKeepsAgent DEF Asking
<1>3. AInv => AgentIsClients
  BY DEF AInv, AgentIsClients
<1> QED
  BY <1>1, <1>2, <1>3, AlwaysTyped, PTL DEF Spec

-----------------------------------------------------------------------------
(* Forms. *)

\* Unless b doubled a first page: its open pages have the token of its cookie, its forms too, and
\* a request without the cookie is the only one in progress.
Sent(r, b) == pc[r] # "idle" /\ sent[r].b = b
FormsOf(b, r) ==
  /\ Kind(r) \notin Safe => sent[r].form = sent[r].csrf /\ sent[r].csrf # None
  /\ pc[r] \in Admitted /\ sent[r].csrf # None => token[r] = sent[r].csrf
  /\ InFlight(r) => sent[r].csrf = jar[b].csrf
  /\ InFlight(r) /\ sent[r].csrf = None =>
       \A q \in Requests : InFlight(q) /\ Sent(q, b) /\ sent[q].csrf = None => q = r
Forms(b) == jar[b].tabs \subseteq {jar[b].csrf} /\ \A r \in Requests : Sent(r, b) => FormsOf(b, r)
FInv ==
  /\ \A b \in Browsers \ seen.doubled : Forms(b)
  /\ \A r \in Requests : pc[r] = "forbid" => sent[r].b \in seen.doubled
  /\ \A r \in Requests : resp[r] = "forbidden" => pc[r] = "done" /\ sent[r].b \in seen.doubled

LEMMA FormsAnswer ==
  ASSUME FlowTyped, FInv, NEW r \in Requests, InFlight(r), NEW a, NEW j \in Jar, Answer(r, a, j),
         j.csrf = Dressed(r).csrf,
         j.tabs = jar[Mine(r)].tabs \/ (pc[r] \in Admitted /\ j.tabs = jar[Mine(r)].tabs \cup {token[r]}),
         a = "forbidden" => pc[r] = "forbid", seen'.doubled = seen.doubled
  PROVE  FInv'
<1> DEFINE m == Mine(r)
<1>0. pc[r] # "idle" /\ m \in Browsers /\ sent[r] \in Message /\ m = sent[r].b /\ jar \in [Browsers -> Jar]
  BY DressedTyped DEF InFlight, FlowTyped, Shape, Mine
<1>1. pc' = [pc EXCEPT ![r] = "done"] /\ UNCHANGED <<sent, token>> /\ resp' = [resp EXCEPT ![r] = a]
      /\ jar' = [jar EXCEPT ![m] = j]
  BY DEF Answer, Goto
<1>2. \A q \in Requests : pc'[q] = IF q = r THEN "done" ELSE pc[q]
  BY <1>1 DEF FlowTyped
<1>3. \A q \in Requests : (InFlight(q)' <=> InFlight(q) /\ q # r) /\ \A b : Sent(q, b)' <=> Sent(q, b)
  BY <1>0, <1>1, <1>2 DEF InFlight, Sent
<1>4. ASSUME NEW b \in Browsers \ seen.doubled, b # m PROVE Forms(b)'
  <2>1. jar'[b] = jar[b] /\ Forms(b)
    BY <1>0, <1>1, <1>4 DEF FInv
  <2>2. \A q \in Requests : Sent(q, b) => q # r
    BY <1>0, <1>4 DEF Sent
  <2> QED
    BY <1>1, <1>2, <1>3, <2>1, <2>2 DEF Forms, FormsOf, Kind
<1>5. ASSUME NEW b \in Browsers \ seen.doubled, b = m PROVE Forms(b)'
  <2>1. Forms(b) /\ FormsOf(b, r) /\ jar'[b] = j
    BY <1>0, <1>1, <1>5 DEF FInv, Forms, Sent
  <2>2. jar[b].tabs \subseteq Secret /\ None \notin Secret
    BY <1>0, SiteAssumption DEF Jar
  <2>3. pc[r] \in Admitted => token[r] \in Secret
    BY DEF FlowTyped, Shape
  <2>4. j.csrf = IF sent[r].csrf = None /\ token[r] # None THEN token[r] ELSE jar[b].csrf
    BY <1>0, <1>5 DEF Dressed, Jar
  <2>5. j.tabs \subseteq {j.csrf}
    <3>1. CASE sent[r].csrf = None
      <4>1. jar[b].tabs = {}
        BY <2>1, <2>2, <3>1 DEF Forms, FormsOf
      <4> QED
        BY <1>5, <2>2, <2>3, <2>4, <3>1, <4>1
    <3>2. CASE sent[r].csrf # None
      BY <1>5, <2>1, <2>4, <3>2 DEF Forms, FormsOf
    <3> QED
      BY <3>1, <3>2
  <2>6. ASSUME NEW q \in Requests, InFlight(q), Sent(q, b), q # r PROVE sent[q].csrf = j.csrf
    <3>1. FormsOf(b, q)
      BY <2>1, <2>6 DEF Forms
    <3>2. sent[r].csrf # None
      BY <1>0, <1>5, <2>1, <2>6, <3>1 DEF FormsOf, Sent
    <3> QED
      BY <2>4, <2>6, <3>1, <3>2 DEF FormsOf
  <2>7. ASSUME NEW q \in Requests, Sent(q, b) PROVE FormsOf(b, q)'
    <3>1. FormsOf(b, q)
      BY <2>1, <2>7 DEF Forms
    <3>2. pc'[q] \in Admitted => pc[q] \in Admitted
      BY <1>2 DEF Admitted
    <3> QED
      BY <1>1, <1>3, <2>1, <2>6, <2>7, <3>1, <3>2 DEF FormsOf, Kind
  <2> QED
    BY <1>1, <1>3, <2>1, <2>5, <2>7 DEF Forms
<1>6. \A q \in Requests : resp'[q] = IF q = r THEN a ELSE resp[q]
  BY <1>1 DEF FlowTyped
<1>7. \A b \in Browsers \ seen'.doubled : Forms(b)'
  BY <1>4, <1>5
<1>8. \A q \in Requests : pc'[q] = "forbid" => sent'[q].b \in seen'.doubled
  BY <1>1, <1>2 DEF FInv
<1>9. \A q \in Requests : resp'[q] = "forbidden" => pc'[q] = "done" /\ sent'[q].b \in seen'.doubled
  BY <1>1, <1>2, <1>6 DEF FInv
<1> QED
  BY <1>7, <1>8, <1>9 DEF FInv

LEMMA FormsReply ==
  ASSUME FlowTyped, FInv, NEW r \in Requests, InFlight(r), NEW a, Reply(r, a) \/ (Show(r, a) /\ pc[r] \in Admitted),
         a = "forbidden" => pc[r] = "forbid", seen'.doubled = seen.doubled
  PROVE  FInv'
<1>0. Dressed(r) \in Jar /\ Mine(r) \in Browsers /\ jar[Mine(r)] \in Jar
  BY DressedTyped DEF InFlight, FlowTyped
<1>1. Dressed(r).tabs = jar[Mine(r)].tabs
  BY <1>0 DEF Dressed, Jar
<1>2. CASE Reply(r, a)
  BY <1>0, <1>1, <1>2, FormsAnswer DEF Reply
<1>3. CASE Show(r, a) /\ pc[r] \in Admitted
  <2> DEFINE j == [Dressed(r) EXCEPT !.tabs = @ \cup {token[r]}]
  <2>1. token[r] \in Secret
    BY <1>3 DEF FlowTyped, Shape
  <2>2. j \in Jar /\ j.csrf = Dressed(r).csrf /\ j.tabs = jar[Mine(r)].tabs \cup {token[r]}
    BY <1>0, <1>1, <2>1 DEF Jar
  <2>3. Answer(r, a, j)
    BY <1>3 DEF Show
  <2> HIDE DEF j
  <2> QED
    BY <1>3, <2>2, <2>3, FormsAnswer
<1> QED
  BY <1>2, <1>3

LEMMA FormsLog ==
  ASSUME FlowTyped, FInv, NEW r \in Requests, InFlight(r), NEW s \in Cookie \cup {None},
         Answer(r, "ok", [Dressed(r) EXCEPT !.session = s]), seen'.doubled = seen.doubled
  PROVE  FInv'
<1> DEFINE j == [Dressed(r) EXCEPT !.session = s]
<1>0. Dressed(r) \in Jar /\ Mine(r) \in Browsers /\ jar[Mine(r)] \in Jar
  BY DressedTyped DEF InFlight, FlowTyped
<1>1. Dressed(r).tabs = jar[Mine(r)].tabs
  BY <1>0 DEF Dressed, Jar
<1>2. j \in Jar /\ j.csrf = Dressed(r).csrf /\ j.tabs = jar[Mine(r)].tabs
  BY <1>0, <1>1 DEF Jar
<1> HIDE DEF j
<1>3. Answer(r, "ok", j)
  BY DEF j
<1> QED
  BY <1>2, <1>3, FormsAnswer

\* A request goes on to a place after the middleware, or has just asked.
LEMMA FormsGo ==
  ASSUME FlowTyped, FInv, NEW r \in Requests, InFlight(r), NEW p \in Places \ {"idle", "done", "forbid"}, Goto(r, p),
         UNCHANGED <<sent, token, resp, jar>>, seen'.doubled = seen.doubled,
         p \in Admitted => pc[r] \in Admitted
  PROVE  FInv'
<1>1. \A q \in Requests : pc'[q] = IF q = r THEN p ELSE pc[q]
  BY DEF Goto, FlowTyped
<1>2. \A q \in Requests : (InFlight(q)' <=> InFlight(q)) /\ (pc'[q] \in Admitted => pc[q] \in Admitted)
                          /\ \A b : Sent(q, b)' <=> Sent(q, b)
  BY <1>1 DEF InFlight, Sent
<1>3. ASSUME NEW b \in Browsers \ seen.doubled PROVE Forms(b)'
  BY <1>2, <1>3 DEF FInv, Forms, FormsOf, Kind
<1>4. \A q \in Requests : pc'[q] = "forbid" => sent'[q].b \in seen'.doubled
  BY <1>1 DEF FInv
<1>5. \A q \in Requests : resp'[q] = "forbidden" => pc'[q] = "done" /\ sent'[q].b \in seen'.doubled
  BY <1>1 DEF FInv, InFlight
<1> QED
  BY <1>3, <1>4, <1>5 DEF FInv

LEMMA FormsAdmit ==
  ASSUME FlowTyped, FInv, NEW r \in Requests, InFlight(r), Admit(r), seen'.doubled = seen.doubled
  PROVE  FInv'
<1> DEFINE t == IF sent[r].csrf = None THEN r ELSE sent[r].csrf
           m == Mine(r)
<1>0. pc[r] # "idle" /\ m \in Browsers /\ m = sent[r].b /\ sent[r] \in Message
  BY DressedTyped DEF InFlight, FlowTyped, Shape, Mine
<1>1. PICK p \in {"agent", "show", "password", "leave", "flush", "save_url", "forbid"} : pc' = [pc EXCEPT ![r] = p]
  BY <1>0, AdmitPlace
<1>2. \A q \in Requests : pc'[q] = IF q = r THEN p ELSE pc[q]
  BY <1>1 DEF FlowTyped
<1>3. token' = [token EXCEPT ![r] = t] /\ UNCHANGED <<sent, resp, jar>>
  BY DEF Admit
<1>4. \A q \in Requests : token'[q] = IF q = r THEN t ELSE token[q]
  BY <1>3 DEF FlowTyped
<1>5. \A q \in Requests : (InFlight(q)' <=> InFlight(q)) /\ \A b : Sent(q, b)' <=> Sent(q, b)
  BY <1>2, <1>3 DEF InFlight, Sent
<1>6. ASSUME NEW b \in Browsers \ seen.doubled PROVE Forms(b)'
  <2>1. ASSUME NEW q \in Requests, Sent(q, b) PROVE FormsOf(b, q)'
    <3>1. FormsOf(b, q)
      BY <1>6, <2>1 DEF FInv, Forms
    <3> QED
      BY <1>2, <1>3, <1>4, <1>5, <3>1 DEF FormsOf, Kind
  <2> QED
    BY <1>3, <1>5, <1>6, <2>1 DEF FInv, Forms
<1>7. pc'[r] = "forbid" => m \in seen.doubled
  <2> SUFFICES ASSUME m \notin seen.doubled PROVE pc'[r] # "forbid"
    OBVIOUS
  <2>1. Kind(r) \in Safe \/ sent[r].form = t
    BY <1>0 DEF FInv, Forms, FormsOf, Sent
  <2>2. Kind(r) \in {"page", "login_page", "login", "logout", "refresh", "save"}
    BY <1>0 DEF Message, Kind, Job
  <2>3. Handler[Kind(r)] # "forbid"
    BY <2>2 DEF Handler
  <2>4. pc'[r] = Handler[Kind(r)]
    BY <2>1 DEF Admit, Goto, FlowTyped
  <2> QED
    BY <2>3, <2>4
<1>8. \A q \in Requests : pc'[q] = "forbid" => sent'[q].b \in seen'.doubled
  BY <1>0, <1>2, <1>3, <1>7 DEF FInv
<1>9. \A q \in Requests : resp'[q] = "forbidden" => pc'[q] = "done" /\ sent'[q].b \in seen'.doubled
  BY <1>2, <1>3 DEF FInv, InFlight
<1> QED
  BY <1>6, <1>8, <1>9 DEF FInv

LEMMA FormsHandle ==
  ASSUME TInv, FInv, NEW r \in Requests, Handle(r)
  PROVE  FInv'
<1>0. FlowTyped /\ InFlight(r)
  BY HandlerInFlight DEF TInv
<1>1. seen'.doubled = seen.doubled
  <2>1. seen \in Histories
    BY DEF TInv, SiteTyped
  <2>2. \/ seen' = seen \/ seen' = Torn \/ seen' = [seen EXCEPT !.keys = @ \cup {r}]
        \/ seen' = [seen EXCEPT !.rekeyed = @ \/ Owner[got[r].load.key] # Owner[client.key]]
    BY DEF Handle, Guard, Forbid, AuthKey, AuthStore, LoginPage, Password, LoginKey, LoginStore, Logout,
       LookUpAgent, FetchAgent, SetAgent, CacheAgent, FlushCache, SaveUrl, SaveKey, SavePassword, Reload,
       SetConfig, SetClient, StoreKey
  <2> QED
    BY <2>1, <2>2 DEF Histories, Torn
<1>2. \/ Admit(r)
      \/ \E a : a # "forbidden" /\ Reply(r, a)
      \/ pc[r] = "forbid" /\ Reply(r, "forbidden")
      \/ \E a : a # "forbidden" /\ Show(r, a) /\ pc[r] \in Admitted
      \/ \E p \in Places \ {"idle", "done", "forbid"} :
           /\ Goto(r, p) /\ UNCHANGED <<sent, token, resp, jar>>
           /\ p \in Admitted => pc[r] \in Admitted
      \/ LoginKey(r) \/ LoginStore(r) \/ Logout(r)
  <2>1. CASE Guard(r) \/ Forbid(r) \/ AuthKey(r) \/ AuthStore(r)
    BY <2>1 DEF Guard, Forbid, AuthKey, AuthStore, Validate, Continue, Places, Admitted
  <2>2. CASE LoginPage(r) \/ Password(r)
    BY <2>2 DEF LoginPage, Password, Continue, Places, Admitted
  <2>3. CASE AgentSteps(r)
    BY <2>3 DEF AgentSteps, LookUpAgent, FetchAgent, SetAgent, CacheAgent, FlushCache, Continue, Places, Admitted
  <2>4. CASE Saves(r)
    BY <2>4 DEF Saves, SaveUrl, SaveKey, SavePassword, Reload, SetConfig, SetClient, Continue, Places, Admitted
  <2> QED
    BY <2>1, <2>2, <2>3, <2>4, HandleCases DEF Accesses
<1>3. ASSUME NEW k \in Secret, LogIn(r, k) PROVE FInv'
  <2>1. [key |-> k, old |-> FALSE] \in Cookie
    BY DEF Cookie
  <2> QED
    BY <1>0, <1>1, <1>3, <2>1, FormsLog DEF LogIn
<1>4. CASE LoginKey(r)
  <2>1. table.hmac # None => table.hmac \in Secret
    BY DEF TInv, SiteTyped, Settings, Secret
  <2>2. pc[r] = "login_key" /\ pc[r] \in Admitted
    BY <1>4 DEF LoginKey, Admitted, Places
  <2>3. CASE Continue(r, "login_store")
    BY <1>0, <1>1, <2>2, <2>3, FormsGo DEF Continue, Places
  <2> QED
    BY <1>0, <1>1, <1>3, <1>4, <2>1, <2>3, FormsReply DEF LoginKey
<1>5. CASE LoginStore(r)
  BY <1>0, <1>1, <1>3, <1>5, FormsReply DEF LoginStore, Secret
<1>6. CASE Logout(r)
  BY <1>0, <1>1, <1>6, FormsLog DEF Logout
<1>7. ASSUME NEW a, Reply(r, a) \/ (Show(r, a) /\ pc[r] \in Admitted), a = "forbidden" => pc[r] = "forbid"
      PROVE  FInv'
  BY <1>0, <1>1, <1>7, FormsReply
<1>8. ASSUME NEW p \in Places \ {"idle", "done", "forbid"}, Goto(r, p), UNCHANGED <<sent, token, resp, jar>>,
             p \in Admitted => pc[r] \in Admitted
      PROVE  FInv'
  BY <1>0, <1>1, <1>8, FormsGo
<1>9. CASE Admit(r)
  BY <1>0, <1>1, <1>9, FormsAdmit
<1> QED
  BY <1>2, <1>4, <1>5, <1>6, <1>7, <1>8, <1>9

LEMMA FormsStart ==
  ASSUME TInv, FInv, NEW r \in Requests, Start(r)
  PROVE  FInv'
<1>0. FlowTyped /\ seen \in Histories /\ pc[r] = "idle"
  BY DEF TInv, SiteTyped, Start
<1>1. PICK b \in Browsers, job \in Workload[r] : \E form \in IF job.kind \in Safe THEN {None} ELSE jar[b].tabs :
         /\ sent' = [sent EXCEPT ![r] = [job |-> job, b |-> b, form |-> form,
                                         cookie |-> jar[b].session, csrf |-> jar[b].csrf]]
         /\ seen' = IF /\ jar[b].csrf = None
                       /\ \E o \in Requests : InFlight(o) /\ sent[o].b = b /\ sent[o].csrf = None
                    THEN [seen EXCEPT !.doubled = @ \cup {b}] ELSE seen
  BY DEF Start
<1>2. PICK form \in IF job.kind \in Safe THEN {None} ELSE jar[b].tabs :
         sent' = [sent EXCEPT ![r] = [job |-> job, b |-> b, form |-> form,
                                      cookie |-> jar[b].session, csrf |-> jar[b].csrf]]
  BY <1>1
<1>3. /\ sent'[r].job = job /\ sent'[r].b = b /\ sent'[r].form = form /\ sent'[r].csrf = jar[b].csrf
      /\ \A q \in Requests \ {r} : sent'[q] = sent[q]
  BY <1>0, <1>2 DEF FlowTyped
<1>4. UNCHANGED <<jar, token, resp>> /\ \A q \in Requests : pc'[q] = IF q = r THEN "guard" ELSE pc[q]
  BY <1>0 DEF Start, Goto, FlowTyped
<1>5. seen.doubled \subseteq seen'.doubled
  BY <1>0, <1>1 DEF Histories
<1>6. b \notin seen'.doubled /\ jar[b].csrf = None =>
        \A o \in Requests : ~ (InFlight(o) /\ sent[o].b = b /\ sent[o].csrf = None)
  BY <1>0, <1>1 DEF Histories
<1>7. \A q \in Requests \ {r} : (InFlight(q)' <=> InFlight(q)) /\ \A c : Sent(q, c)' <=> Sent(q, c)
  BY <1>3, <1>4 DEF InFlight, Sent
<1>8. InFlight(r)' /\ (\A c : Sent(r, c)' <=> c = b) /\ \A c : ~ Sent(r, c)
  BY <1>0, <1>3, <1>4 DEF InFlight, Sent
<1>9. ASSUME NEW c \in Browsers, c \notin seen'.doubled PROVE Forms(c)'
  <2>1. Forms(c)
    BY <1>5, <1>9 DEF FInv
  <2>2. ASSUME NEW q \in Requests \ {r}, Sent(q, c) PROVE FormsOf(c, q)'
    <3>1. FormsOf(c, q)
      BY <2>1, <2>2 DEF Forms
    <3>2. InFlight(q) /\ sent[q].csrf = None =>
            \A o \in Requests : InFlight(o)' /\ Sent(o, c)' /\ sent'[o].csrf = None => o = q
      BY <1>3, <1>6, <1>7, <1>8, <1>9, <2>2, <3>1 DEF FormsOf, Sent
    <3> QED
      BY <1>3, <1>4, <1>7, <3>1, <3>2 DEF FormsOf, Kind
  <2>3. c = b => FormsOf(c, r)'
    <3> SUFFICES ASSUME c = b PROVE FormsOf(c, r)'
      OBVIOUS
    <3>1. Kind(r)' \notin Safe => form = jar[b].csrf /\ form # None
      <4>1. Kind(r)' = job.kind
        BY <1>3 DEF Kind
      <4>2. jar[b].tabs \subseteq Secret /\ jar[b].tabs \subseteq {jar[b].csrf}
        BY <1>0, <2>1 DEF FlowTyped, Jar, Forms
      <4> QED
        BY <4>1, <4>2, SiteAssumption
    <3>2. \A o \in Requests : InFlight(o)' /\ Sent(o, c)' /\ sent'[o].csrf = None /\ sent'[r].csrf = None => o = r
      BY <1>3, <1>6, <1>7, <1>9 DEF Sent
    <3> QED
      BY <1>3, <1>4, <3>1, <3>2 DEF FormsOf, Admitted
  <2> QED
    BY <1>4, <1>7, <1>8, <2>1, <2>2, <2>3 DEF Forms
<1>10. \A q \in Requests : pc'[q] = "forbid" => sent'[q].b \in seen'.doubled
  BY <1>3, <1>4, <1>5 DEF FInv
<1>11. \A q \in Requests : resp'[q] = "forbidden" => pc'[q] = "done" /\ sent'[q].b \in seen'.doubled
  BY <1>0, <1>3, <1>4, <1>5 DEF FInv
<1> QED
  BY <1>9, <1>10, <1>11 DEF FInv

LEMMA FormsBrowse ==
  ASSUME TInv, FInv, Browse
  PROVE  FInv'
<1>0. jar \in [Browsers -> Jar]
  BY DEF TInv, FlowTyped
<1>1. UNCHANGED <<pc, sent, token, resp, seen>>
  BY DEF Browse, CookieAges, BrowserCloses, flow
<1>2. ASSUME NEW b \in Browsers PROVE
        \/ jar'[b].tabs = jar[b].tabs /\ jar'[b].csrf = jar[b].csrf
        \/ jar'[b].tabs = {} /\ \A r \in Requests : InFlight(r) => sent[r].b # b
  <2>1. ASSUME NEW c \in Browsers, CookieAges(c)
        PROVE  jar'[b].tabs = jar[b].tabs /\ jar'[b].csrf = jar[b].csrf
    <3>1. [jar[c] EXCEPT !.session.old = TRUE].tabs = jar[c].tabs /\ [jar[c] EXCEPT !.session.old = TRUE].csrf = jar[c].csrf
      BY <1>0 DEF Jar
    <3> QED
      BY <1>0, <2>1, <3>1 DEF CookieAges
  <2>2. ASSUME NEW c \in Browsers, BrowserCloses(c)
        PROVE  \/ jar'[b] = jar[b]
               \/ jar'[b].tabs = {} /\ \A r \in Requests : InFlight(r) => sent[r].b # b
    <3>1. jar' = [jar EXCEPT ![c] = [jar[c] EXCEPT !.csrf = None, !.tabs = {}]]
      BY <1>0, <2>2 DEF BrowserCloses
    <3>2. [jar[c] EXCEPT !.csrf = None, !.tabs = {}].tabs = {}
      BY <1>0 DEF Jar
    <3> QED
      BY <1>0, <2>2, <3>1, <3>2 DEF BrowserCloses
  <2> QED
    BY <2>1, <2>2 DEF Browse
<1>3. ASSUME NEW b \in Browsers \ seen.doubled PROVE Forms(b)'
  <2>1. Forms(b) /\ \A q \in Requests : (Sent(q, b)' <=> Sent(q, b)) /\ (InFlight(q)' <=> InFlight(q))
    BY <1>1, <1>3 DEF FInv, Sent, InFlight
  <2> QED
    BY <1>1, <1>2, <2>1 DEF Forms, FormsOf, Kind, Sent
<1> QED
  BY <1>1, <1>3 DEF FInv

LEMMA FormsDie ==
  ASSUME FlowTyped, FInv, Die("down"), UNCHANGED seen
  PROVE  FInv'
<1>1. UNCHANGED <<sent, token, jar>> /\ \A r \in Requests : pc'[r] = (IF InFlight(r) THEN "done" ELSE pc[r])
                                      /\ resp'[r] = (IF InFlight(r) THEN "cut" ELSE resp[r])
  BY DEF Die
<1>2. \A r \in Requests : ~ InFlight(r)' /\ pc'[r] \notin Admitted /\ pc'[r] # "forbid" /\ \A b : Sent(r, b)' <=> Sent(r, b)
  BY <1>1 DEF InFlight, Sent, Admitted
<1>3. ASSUME NEW b \in Browsers \ seen.doubled PROVE Forms(b)'
  BY <1>1, <1>2, <1>3 DEF FInv, Forms, FormsOf, Kind
<1>4. \A r \in Requests : resp'[r] = "forbidden" => pc'[r] = "done" /\ sent'[r].b \in seen'.doubled
  BY <1>1 DEF FInv
<1> QED
  BY <1>2, <1>3, <1>4 DEF FInv

(* No form of a page is refused, and every open page has the token of the   *)
(* cookie, for any number of browsers, pages and restarts, unless a browser *)
(* doubled its first page.                                                  *)
THEOREM FormTokens == Spec => []FormsAccepted
<1>1. Init => FInv
  <2> SUFFICES ASSUME Init PROVE FInv
    OBVIOUS
  <2>1. \A b \in Browsers : jar[b].tabs \subseteq {jar[b].csrf}
    BY SiteAssumption DEF Init
  <2> QED
    BY <2>1, SiteAssumption DEF Init, FInv, Forms, Sent
<1>2. TInv /\ FInv /\ [Next]_vars => FInv'
  <2> SUFFICES ASSUME TInv, FInv, [Next]_vars PROVE FInv'
    OBVIOUS
  <2>1. CASE AddColumnAgain \/ LoadFails \/ Exec \/ Stop
    BY <2>1, FormsDie DEF AddColumnAgain, LoadFails, Exec, Stop, TInv
  <2>2. CASE UNCHANGED <<flow, jar>> /\ seen'.doubled = seen.doubled
    <3>1. \A b \in Browsers : Forms(b)' <=> Forms(b)
      BY <2>2 DEF flow, Forms, FormsOf, Sent, Kind, InFlight
    <3> QED
      BY <2>2, <3>1 DEF flow, FInv
  <2>3. CASE (RunProcess \/ Interrupt) /\ ~ (AddColumnAgain \/ LoadFails \/ Exec \/ Stop)
    <3>1. UNCHANGED <<flow, jar>>
      BY <2>3 DEF RunProcess, Interrupt, Boot, CheckMigration, CreateTables, AddColumn, FillColumn,
         RecordMigration, Migrated, Seed, SeedFails, SeedingStep, Load, Hangup, CloseDb, MigrationStep
    <3>2. UNCHANGED seen \/ \E x : seen' = [seen EXCEPT !.torn = FALSE, !.rekeyed = x]
      BY <2>3 DEF RunProcess, Interrupt, Boot, CheckMigration, CreateTables, AddColumn, FillColumn,
         RecordMigration, Migrated, Seed, SeedFails, SeedingStep, Load, Hangup, CloseDb, MigrationStep
    <3>3. seen'.doubled = seen.doubled
      BY <3>2 DEF TInv, SiteTyped, Histories
    <3> QED
      BY <2>2, <3>1, <3>3
  <2>4. UNCHANGED vars => UNCHANGED <<flow, jar>> /\ seen'.doubled = seen.doubled
    BY DEF vars
  <2> QED
    BY <2>1, <2>2, <2>3, <2>4, NextCases, FormsHandle, FormsStart, FormsBrowse DEF Asking
<1>3. TInv /\ FInv => FormsAccepted
  <2> SUFFICES ASSUME TInv, FInv PROVE FormsAccepted
    OBVIOUS
  <2> QED
    BY DEF FInv, Forms, FormsAccepted
<1> QED
  BY <1>1, <1>2, <1>3, AlwaysTyped, PTL DEF Spec

-----------------------------------------------------------------------------
(* Settings. *)

SavePlaces == {"save_key", "save_password", "reload", "set_config", "set_client"}
OnFile == [url |-> table.url, key |-> table.key]

\* Unless a save tore: one at a time, and what it has read is what is stored.
RInv ==
  Up /\ ~ seen.torn =>
    /\ \A q, r \in Requests : pc[q] \in SavePlaces /\ pc[r] \in SavePlaces => q = r
    /\ (\A r \in Requests : pc[r] \notin SavePlaces) => config = OnFile /\ client = OnFile
    /\ \A r \in Requests : pc[r] = "set_config" => got[r].load = OnFile
    /\ \A r \in Requests : pc[r] = "set_client" => got[r].load = OnFile /\ config = OnFile

LEMMA SavedQuiet ==
  ASSUME RInv, UNCHANGED <<config, client>>, table'.url = table.url, table'.key = table.key,
         Up' => Up, seen.torn => seen'.torn, seen.torn \in BOOLEAN, seen'.torn \in BOOLEAN,
         \A q \in Requests : pc'[q] \in SavePlaces \/ pc[q] \in SavePlaces =>
                               pc'[q] = pc[q] /\ got'[q].load = got[q].load
  PROVE  RInv'
<1>1. OnFile' = OnFile
  BY DEF OnFile
<1> QED
  BY <1>1 DEF RInv, SavePlaces

\* The parts of the settings and the history that are not about a save.
LEMMA SettingFields ==
  ASSUME TInv
  PROVE  /\ \A v : /\ [table EXCEPT !.password = v].url = table.url /\ [table EXCEPT !.password = v].key = table.key
                   /\ [table EXCEPT !.hmac = v].url = table.url /\ [table EXCEPT !.hmac = v].key = table.key
         /\ \A b : [seen EXCEPT !.doubled = @ \cup {b}].torn = seen.torn
         /\ \A r : [seen EXCEPT !.keys = @ \cup {r}].torn = seen.torn
         /\ \A x : [seen EXCEPT !.rekeyed = x].torn = seen.torn
         /\ Torn.torn = TRUE /\ seen.torn \in BOOLEAN
  BY DEF TInv, SiteTyped, Settings, Histories, Torn

LEMMA OthersSaveNothing ==
  ASSUME TInv, NEW r \in Requests, Accesses(r) \/ AgentSteps(r)
  PROVE  /\ UNCHANGED <<config, client>> /\ (Up' => Up)
         /\ \A q \in Requests : pc'[q] \in SavePlaces \/ pc[q] \in SavePlaces =>
                                  pc'[q] = pc[q] /\ got'[q].load = got[q].load
<1>0. FlowTyped /\ pc[r] # "idle" /\ pc \in [Requests -> Places] /\ got \in [Requests -> Reads]
  BY HandlerInFlight DEF Accesses, AgentSteps, Handle, InFlight, TInv, FlowTyped
<1>1. pc[r] \notin SavePlaces /\ \E p \in Places \ SavePlaces : pc' = [pc EXCEPT ![r] = p]
  <2>1. Admit(r) => \E p \in Places \ SavePlaces : pc' = [pc EXCEPT ![r] = p]
    BY <1>0, AdmitPlace DEF Places, SavePlaces
  <2>2. CASE AgentSteps(r)
    BY <2>2 DEF AgentSteps, LookUpAgent, FetchAgent, SetAgent, CacheAgent, FlushCache, Show, Reply, Answer, Goto,
       Continue, Places, SavePlaces
  <2>3. CASE Accesses(r)
    <3>1. pc[r] \notin SavePlaces
      BY <2>3 DEF Accesses, Guard, Forbid, AuthKey, AuthStore, LoginPage, Password, LoginKey, LoginStore, Logout,
         SavePlaces
    <3>2. CASE ~ Admit(r)
      BY <2>3, <3>1, <3>2 DEF Accesses, Guard, Forbid, AuthKey, AuthStore, LoginPage, Password, LoginKey, LoginStore,
         Logout, Validate, LogIn, Show, Reply, Answer, Goto, Continue, Places, SavePlaces
    <3> QED
      BY <2>1, <3>1, <3>2
  <2> QED
    BY <2>2, <2>3
<1>2. UNCHANGED <<config, client, phase>>
  BY DEF Accesses, Guard, Forbid, AuthKey, AuthStore, LoginPage, Password, LoginKey, LoginStore, Logout, OnlyAccess,
     AgentSteps, LookUpAgent, FetchAgent, SetAgent, CacheAgent, FlushCache, memory, NoProcessStep, process
<1>3. got' = got \/ \E a : got' = [got EXCEPT ![r].agent = a]
  BY DEF Accesses, Guard, Forbid, AuthKey, AuthStore, LoginPage, Password, LoginKey, LoginStore, Logout,
     Validate, LogIn, Admit, Show, Reply, Answer, Continue,
     AgentSteps, LookUpAgent, FetchAgent, SetAgent, CacheAgent, FlushCache
<1>4. \A q \in Requests \ {r} : got'[q] = got[q]
  <2>1. CASE got' = got
    BY <2>1
  <2>2. ASSUME NEW a, got' = [got EXCEPT ![r].agent = a] PROVE \A q \in Requests \ {r} : got'[q] = got[q]
    BY <1>0, <2>2
  <2> QED
    BY <1>3, <2>1, <2>2
<1> QED
  BY <1>0, <1>1, <1>2, <1>4 DEF Up

LEMMA OthersKeepSettings ==
  ASSUME TInv, NEW r \in Requests, Accesses(r) \/ AgentSteps(r)
  PROVE  table'.url = table.url /\ table'.key = table.key /\ seen'.torn = seen.torn
<1>1. UNCHANGED <<table, seen>> \/ StoreKey(r)
  BY DEF Accesses, Guard, Forbid, AuthKey, AuthStore, LoginPage, Password, LoginKey, LoginStore, Logout,
     AgentSteps, LookUpAgent, FetchAgent, SetAgent, CacheAgent, FlushCache
<1>2. CASE UNCHANGED <<table, seen>>
  BY <1>2
<1>3. CASE StoreKey(r)
  <2>1. table' = [table EXCEPT !.hmac = r] /\ seen' = [seen EXCEPT !.keys = @ \cup {r}]
    BY <1>3 DEF StoreKey
  <2> QED
    BY <2>1, SettingFields
<1> QED
  BY <1>1, <1>2, <1>3

LEMMA SaveRuns ==
  ASSUME TInv, RInv, NEW r \in Requests, Saves(r)
  PROVE  RInv'
<1> USE DEF SavePlaces
<1>0. FlowTyped /\ SiteTyped /\ table \in Settings /\ got \in [Requests -> Reads] /\ pc \in [Requests -> Places]
  BY DEF TInv, SiteTyped, FlowTyped
<1>1. UNCHANGED phase /\ (Up' <=> Up)
  BY DEF Saves, SaveUrl, SaveKey, SavePassword, Reload, SetConfig, SetClient, NoProcessStep, process, Up
<1>2. CASE seen' = Torn
  BY <1>2, SettingFields DEF RInv
<1>3. CASE SaveUrl(r) /\ seen' # Torn
  <2>1. CASE UNCHANGED <<table, seen, config, client, got>> /\ pc' = [pc EXCEPT ![r] = "done"] /\ pc[r] = "save_url"
    BY <1>0, <1>1, <2>1, SavedQuiet, SettingFields
  <2>2. CASE /\ pc' = [pc EXCEPT ![r] = "save_key"] /\ UNCHANGED <<seen, got>>
             /\ \A o \in Requests : pc[o] \notin SavePlaces
    BY <1>0, <1>1, <2>2 DEF RInv
  <2> QED
    BY <1>3, <2>1, <2>2 DEF SaveUrl, Show, Reply, Answer, Continue, Goto, memory, Saving
<1>4. CASE SaveKey(r) /\ seen' # Torn
  <2>1. pc[r] = "save_key" /\ pc' = [pc EXCEPT ![r] = "save_password"] /\ UNCHANGED <<seen, got>>
    BY <1>4 DEF SaveKey, Continue, Goto
  <2> QED
    BY <1>0, <1>1, <2>1 DEF RInv
<1>5. CASE SavePassword(r) /\ seen' # Torn
  <2>1. pc[r] = "save_password" /\ pc' = [pc EXCEPT ![r] = "reload"] /\ UNCHANGED <<seen, got, config>>
    BY <1>5 DEF SavePassword, Continue, Goto, memory
  <2> QED
    BY <1>0, <1>1, <2>1 DEF RInv
<1>6. CASE Reload(r) /\ seen' # Torn
  <2>1. /\ pc[r] = "reload" /\ pc' = [pc EXCEPT ![r] = "set_config"] /\ UNCHANGED <<seen, table>>
        /\ got' = [got EXCEPT ![r].load = OnFile]
    BY <1>6 DEF Reload, Goto, OnFile
  <2>2. got'[r].load = OnFile /\ OnFile' = OnFile
    BY <1>0, <2>1 DEF Reads, OnFile
  <2> QED
    BY <1>0, <1>1, <2>1, <2>2 DEF RInv
<1>7. CASE SetConfig(r)
  <2>1. /\ pc[r] = "set_config" /\ pc' = [pc EXCEPT ![r] = "set_client"] /\ UNCHANGED <<seen, table, got>>
        /\ config' = got[r].load
    BY <1>7 DEF SetConfig, Continue, Goto
  <2>2. OnFile' = OnFile
    BY <2>1 DEF OnFile
  <2> QED
    BY <1>0, <1>1, <2>1, <2>2 DEF RInv
<1>8. CASE SetClient(r)
  <2>1. /\ pc[r] = "set_client" /\ pc' = [pc EXCEPT ![r] = "done"] /\ UNCHANGED <<table, got, config>>
        /\ client' = got[r].load
    BY <1>8 DEF SetClient, Reply, Answer, Goto
  <2>2. OnFile' = OnFile /\ seen'.torn = seen.torn
    BY <1>8, <2>1, SettingFields DEF OnFile, SetClient
  <2> QED
    BY <1>0, <1>1, <2>1, <2>2 DEF RInv
<1> QED
  BY <1>2, <1>3, <1>4, <1>5, <1>6, <1>7, <1>8 DEF Saves

LEMMA ProcessRuns ==
  ASSUME TInv, RInv, RunProcess \/ Interrupt
  PROVE  RInv'
<1>1. CASE AddColumnAgain \/ LoadFails \/ Exec \/ Stop
  BY <1>1 DEF AddColumnAgain, LoadFails, Exec, Stop, Die, RInv, Up
<1>2. CASE \/ Boot \/ CheckMigration \/ CreateTables \/ AddColumn \/ FillColumn \/ RecordMigration \/ Migrated
           \/ (\E k \in EnvKeys : Seed(k)) \/ SeedFails
  <2>1. ~ Up'
    BY <1>2 DEF Boot, CheckMigration, CreateTables, AddColumn, FillColumn, RecordMigration, Migrated, Migrating,
       Seed, SeedFails, SeedingStep, MigrationStep, Up
  <2> QED
    BY <2>1 DEF RInv
<1>3. CASE Hangup \/ CloseDb
  <2>1. UNCHANGED <<table, config, client, seen, pc, got>> /\ Up
    BY <1>3 DEF Hangup, CloseDb, memory, flow, Up
  <2> QED
    BY <2>1, SavedQuiet, SettingFields
<1>4. CASE Load
  <2>1. ~ Up /\ UNCHANGED <<table, pc>> /\ config' = OnFile /\ client' = OnFile
    BY <1>4 DEF Load, Up, flow, OnFile
  <2>2. \A r \in Requests : pc[r] \notin SavePlaces
    BY <2>1 DEF TInv, SiteTyped, InFlight, SavePlaces
  <2>3. OnFile' = OnFile
    BY <2>1 DEF OnFile
  <2> QED
    BY <2>1, <2>2, <2>3 DEF RInv, SavePlaces
<1> QED
  BY <1>1, <1>2, <1>3, <1>4 DEF RunProcess, Interrupt

(* Between saves the server works with the settings that are stored, in any *)
(* interleaving of any number of saves and restarts, unless one tore.       *)
THEOREM SavedSettings == Spec => []RunningIsSaved
<1>1. Init => RInv
  BY DEF Init, RInv, Up
<1>2. TInv /\ RInv /\ [Next]_vars => RInv'
  <2> SUFFICES ASSUME TInv, RInv, [Next]_vars PROVE RInv'
    OBVIOUS
  <2>1. CASE UNCHANGED vars \/ Browse
    <3>1. UNCHANGED <<table, config, client, seen, pc, got, phase>>
      BY <2>1 DEF vars, process, memory, flow, Browse, CookieAges, BrowserCloses, OnlyAccess, NoProcessStep
    <3> QED
      BY <3>1, SavedQuiet, SettingFields DEF Up
  <2>2. ASSUME NEW r \in Requests, Start(r) PROVE RInv'
    <3>1. UNCHANGED <<table, config, client, got, phase>> /\ pc[r] = "idle" /\ pc' = [pc EXCEPT ![r] = "guard"]
      BY <2>2 DEF Start, Goto, OnlyAccess, NoProcessStep, process, memory
    <3>2. seen'.torn = seen.torn
      BY <2>2, SettingFields DEF Start
    <3>3. \A q \in Requests : pc'[q] \in SavePlaces \/ pc[q] \in SavePlaces => pc'[q] = pc[q]
      BY <3>1 DEF TInv, FlowTyped, SavePlaces
    <3> QED
      BY <3>1, <3>2, <3>3, SavedQuiet, SettingFields DEF Up
  <2>3. ASSUME NEW r \in Requests, Accesses(r) \/ AgentSteps(r) PROVE RInv'
    BY <2>3, OthersSaveNothing, OthersKeepSettings, SavedQuiet, SettingFields
  <2> QED
    BY <2>1, <2>2, <2>3, NextCases, HandleCases, SaveRuns, ProcessRuns DEF Asking
<1>3. RInv => RunningIsSaved
  BY DEF RInv, RunningIsSaved, Saving, SavePlaces, OnFile
<1> QED
  BY <1>1, <1>2, <1>3, AlwaysTyped, PTL DEF Spec
=============================================================================
