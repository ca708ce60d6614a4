------------------------------- MODULE Account -------------------------------
(* The Freshdesk account the server works with: the settings form of the     *)
(* administrator, which replaces it in a running server, and ensureAgentID,  *)
(* which remembers whose account it is.                                      *)
EXTENDS Site

\* ensureAgentID: memory first, then the cache (an error counts as a miss), then Freshdesk.
LookUpAgent(r) ==
  /\ pc[r] = "agent"
  /\ \/ agent # None /\ Show(r, "ok") /\ UNCHANGED agent
     \/ agent = None /\ DbOk /\ agentMe # None /\ agent' = agentMe /\ Show(r, "ok")
     \/ agent = None /\ (DbFails \/ agentMe = None) /\ Continue(r, "agent_fetch") /\ UNCHANGED agent
  /\ UNCHANGED <<config, client, agentMe, table, seen>> /\ NoProcessStep
\* Slip: the account of the settings instead of the client's.
FetchConfigured(r) ==
  /\ pc[r] = "agent_fetch"
  /\ got' = [got EXCEPT ![r].agent = Owner[config.key]] /\ Goto(r, "agent_set")
  /\ UNCHANGED <<sent, token, resp, jar>>
  /\ UNCHANGED <<table, memory, agentMe, seen>> /\ NoProcessStep
\* GetCurrentAgent, with whatever client the server has; without an answer there is no page.
FetchAgent(r) ==
  /\ pc[r] = "agent_fetch"
  /\ \/ got' = [got EXCEPT ![r].agent = Owner[client.key]] /\ Goto(r, "agent_set")
        /\ UNCHANGED <<sent, token, resp, jar>>
     \/ "api" \in Faults /\ Reply(r, "error")
  /\ UNCHANGED <<table, memory, agentMe, seen>> /\ NoProcessStep
SetAgent(r) ==
  /\ pc[r] = "agent_set"
  /\ agent' = got[r].agent /\ Continue(r, "agent_cache")
  /\ UNCHANGED <<config, client, agentMe, table, seen>> /\ NoProcessStep
CacheAgent(r) ==
  /\ pc[r] = "agent_cache"
  /\ \/ DbOk /\ agentMe' = got[r].agent
     \/ DbFails /\ UNCHANGED agentMe
  /\ Show(r, "ok")
  /\ UNCHANGED <<table, memory, seen>> /\ NoProcessStep

\* HandleRefresh empties the cache. The agent in memory stays.
FlushCache(r) ==
  /\ pc[r] = "flush"
  /\ \/ DbOk /\ agentMe' = None
     \/ DbFails /\ UNCHANGED agentMe
  /\ Reply(r, "ok")
  /\ UNCHANGED <<table, memory, seen>> /\ NoProcessStep

----------------------------------------------------------------------------
\* A save that has stored something and has not yet brought it into the running server.
Saving(r) == pc[r] \in {"save_key", "save_password", "reload", "set_config", "set_client"}
Torn == [seen EXCEPT !.torn = TRUE]
Stored(k, v) == table' = [table EXCEPT ![k] = v]

\* HandleAdminConfigSave goes through the settings one after the other.
SaveUrl(r) ==
  /\ pc[r] = "save_url"
  /\ \/ sent[r].job.url = None /\ Show(r, "invalid") /\ UNCHANGED <<table, seen>>
     \/ /\ sent[r].job.url # None /\ DbOk
        /\ Stored("url", sent[r].job.url) /\ Continue(r, "save_key")
        /\ seen' = IF \E o \in Requests : Saving(o) THEN Torn ELSE seen
     \/ sent[r].job.url # None /\ DbFails /\ Reply(r, "error") /\ UNCHANGED <<table, seen>>
  /\ UNCHANGED <<memory, agentMe>> /\ NoProcessStep
\* A blank or failed second setting leaves the first one saved.
SaveKey(r) ==
  /\ pc[r] = "save_key"
  /\ \/ sent[r].job.key = None /\ Show(r, "invalid") /\ seen' = Torn /\ UNCHANGED table
     \/ /\ sent[r].job.key # None /\ DbOk
        /\ Stored("key", sent[r].job.key) /\ Continue(r, "save_password") /\ UNCHANGED seen
     \/ sent[r].job.key # None /\ DbFails /\ Reply(r, "error") /\ seen' = Torn /\ UNCHANGED table
  /\ UNCHANGED <<memory, agentMe>> /\ NoProcessStep
\* A blank password is deleted; that this failed is only logged.
SavePassword(r) ==
  /\ pc[r] = "save_password"
  /\ \/ DbOk /\ Stored("password", sent[r].job.password) /\ Continue(r, "reload") /\ UNCHANGED seen
     \/ DbFails /\ sent[r].job.password = None /\ Continue(r, "reload") /\ UNCHANGED <<table, seen>>
     \/ DbFails /\ sent[r].job.password # None /\ Reply(r, "error") /\ seen' = Torn /\ UNCHANGED table
  /\ UNCHANGED <<memory, agentMe>> /\ NoProcessStep
\* LoadFromDB; an error is logged and the administrator told that all is saved.
Reload(r) ==
  /\ pc[r] = "reload"
  /\ \/ /\ DbOk /\ table.url # None /\ table.key # None
        /\ got' = [got EXCEPT ![r].load = [url |-> table.url, key |-> table.key]]
        /\ Goto(r, "set_config") /\ UNCHANGED <<sent, token, resp, jar, seen>>
     \/ /\ DbFails \/ table.url = None \/ table.key = None
        /\ Reply(r, "ok") /\ seen' = Torn
  /\ UNCHANGED <<table, memory, agentMe>> /\ NoProcessStep
SetConfig(r) ==
  /\ pc[r] = "set_config"
  /\ config' = got[r].load /\ Continue(r, "set_client")
  /\ UNCHANGED <<client, agent, agentMe, table, seen>> /\ NoProcessStep
\* Slip: the client keeps the old settings until the next start.
KeepClient(r) ==
  /\ pc[r] = "set_client"
  /\ Reply(r, "ok")
  /\ UNCHANGED <<memory, agentMe, table, seen>> /\ NoProcessStep
\* A client for the new settings. AgentID and agent:me stay as they are.
SetClient(r) ==
  /\ pc[r] = "set_client"
  /\ client' = got[r].load /\ Reply(r, "ok")
  /\ seen' = [seen EXCEPT !.rekeyed = @ \/ Owner[got[r].load.key] # Owner[client.key]]
  /\ UNCHANGED <<config, agent, agentMe, table>> /\ NoProcessStep
=============================================================================
