------------------------------- MODULE Server -------------------------------
(* The server of DeskTriage around its ticket pages: start and restart,      *)
(* settings, sessions and CSRF tokens, all sharing one process and one       *)
(* database. The pages of TicketDesk are one kind of request here.           *)
EXTENDS Startup, Access, Account, FiniteSets

Init ==
  /\ phase = "down" /\ at = 1 /\ stmt = "check" /\ seeded = {} /\ stops = 0
  \* A new database, or one an earlier version migrated up to some point.
  /\ \E m \in {0} \cup Migrations : recorded = 1..m
  /\ created = recorded
  /\ unpaired \in IF recorded # {} /\ 4 \notin recorded THEN BOOLEAN ELSE {FALSE}
  /\ table \in IF 2 \in recorded THEN InitSettings
                                 ELSE {[url |-> None, key |-> None, password |-> None, hmac |-> None]}
  /\ config = None /\ client = None /\ agent = None
  /\ agentMe = None
  /\ jar \in [Browsers -> InitJars]
  /\ pc = [r \in Requests |-> "idle"]
  /\ sent = [r \in Requests |-> None] /\ token = [r \in Requests |-> None]
  /\ got = [r \in Requests |-> [agent |-> None, load |-> None]]
  /\ resp = [r \in Requests |-> None]
  /\ seen = [keys |-> {}, doubled |-> {}, torn |-> FALSE, rekeyed |-> FALSE]

Handle(r) ==
  \/ Guard(r) \/ Forbid(r) \/ AuthKey(r) \/ AuthStore(r) \/ LoginPage(r) \/ Password(r)
  \/ LoginKey(r) \/ LoginStore(r) \/ Logout(r) \/ LookUpAgent(r) \/ FetchAgent(r) \/ SetAgent(r)
  \/ CacheAgent(r) \/ FlushCache(r) \/ SaveUrl(r) \/ SaveKey(r) \/ SavePassword(r) \/ Reload(r)
  \/ SetConfig(r) \/ SetClient(r)
Browse == \E b \in Browsers : CookieAges(b) \/ BrowserCloses(b)

Next == RunProcess \/ Interrupt \/ Browse \/ \E r \in Requests : Start(r) \/ Handle(r)
Spec == Init /\ [][Next]_vars
FairSpec == Spec /\ WF_vars(RunProcess)

----------------------------------------------------------------------------
Up == phase \in {"serve", "closing", "closed"}
Places ==
  {"idle", "guard", "auth_key", "auth_store", "forbid", "show", "password", "login_key", "login_store", "leave",
   "agent", "agent_fetch", "agent_set", "agent_cache", "flush", "save_url", "save_key", "save_password",
   "reload", "set_config", "set_client", "done"}
Answers == {"ok", "wrong", "invalid", "refused", "forbidden", "error", "cut"}

TypeOK ==
  /\ phase \in {"down", "migrate", "seed", "serve", "closing", "closed"}
  /\ at \in 1..6 /\ stmt \in {"check", "create", "alter", "fill", "record"}
  /\ seeded \subseteq EnvKeys /\ stops \in 0..MaxStops
  /\ created \subseteq Migrations /\ recorded \subseteq Migrations /\ unpaired \in BOOLEAN
  /\ table \in Settings
  /\ config \in Running \cup {None} /\ client \in Running \cup {None}
  /\ agent \in Agents \cup {None} /\ agentMe \in Agents \cup {None}
  /\ jar \in [Browsers -> Jar]
  /\ pc \in [Requests -> Places] /\ resp \in [Requests -> Answers \cup {None}]
  /\ got \in [Requests -> [agent : Agents \cup {None}, load : Running \cup {None}]]
  /\ token \in [Requests -> Secret \cup {None}]
  /\ seen \in [keys : SUBSET Requests, doubled : SUBSET Browsers, torn : BOOLEAN, rekeyed : BOOLEAN]

(* A process that serves finds every table and column there, and every       *)
(* deferred row with a deferral time, however often earlier starts were      *)
(* interrupted between the statements of a migration (db.go:99).             *)
ServingIsMigrated ==
  Up => created = Migrations /\ recorded = Migrations /\ ~ unpaired

(* A session cookie a login handed out is one the stored key verifies,       *)
(* across restarts and changes of the password, unless two requests each     *)
(* generated a key because neither found one (auth.go:61-90).                *)
LoginLasts ==
  Cardinality(seen.keys) <= 1 =>
    \A b \in Browsers : jar[b].session # None =>
      jar[b].session.key \in {table.hmac} \cup Earlier

(* Every form a browser can submit carries the token of its cookie, so       *)
(* csrfMiddleware refuses none, unless the browser asked for two first pages *)
(* at once and each was given a token of its own (csrf.go:34-83).            *)
FormsAccepted ==
  /\ \A b \in Browsers \ seen.doubled : jar[b].tabs \subseteq {jar[b].csrf}
  /\ \A r \in Requests : resp[r] = "forbidden" => sent[r].b \in seen.doubled

(* Between saves the running server works with the settings that are saved,  *)
(* unless a save failed half way or two of them overlapped since the start   *)
(* (admin.go:49-97).                                                         *)
RunningIsSaved ==
  Up /\ ~ seen.torn /\ (\A r \in Requests : ~ Saving(r)) =>
    /\ config = [url |-> table.url, key |-> table.key]
    /\ client = config

(* The agent whose tickets the board shows is the owner of the API key the   *)
(* server uses, until a save changes the account: AgentID and agent:me do    *)
(* not follow (admin.go:91-93, dashboard.go:483).                            *)
AgentIsClients ==
  Up /\ ~ seen.rekeyed => {agent, agentMe} \subseteq {None, Owner[client.key]}

(* A process that is down, or starting, comes to serve, unless the database  *)
(* is one nothing can start on: a required setting is missing, or migration  *)
(* 4 was interrupted between adding its column and recording itself.         *)
Startable ==
  /\ \A k \in {"url", "key"} : table[k] # None \/ Env[k] # None
  /\ 4 \in created \ recorded => Migrating("fill") \/ Migrating("record")
ComesUp == Startable /\ ~ Up ~> Up \/ ~ Startable
=============================================================================
