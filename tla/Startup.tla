------------------------------- MODULE Startup -------------------------------
(* The life of the process: main.run with its migrations and its seeding,    *)
(* the restart on SIGHUP, and systemd, which starts it again whenever it is  *)
(* down.                                                                     *)
EXTENDS Site

Migrations == 1..5
Script == [n \in Migrations |-> IF n = 4 THEN "alter" ELSE "create"]

\* systemd starts the process (Restart=always), which opens the database.
Boot ==
  /\ phase = "down"
  /\ phase' = "migrate" /\ at' = 1 /\ stmt' = "check" /\ seeded' = {}
  /\ UNCHANGED <<stops, database, table, memory, agentMe, jar, flow, seen>>

Migrating(s) == phase = "migrate" /\ at \in Migrations /\ stmt = s
MigrationStep == UNCHANGED <<phase, seeded, stops, table, memory, agentMe, jar, flow, seen>>

\* Slip: a migration is skipped once its tables exist, whether or not it was recorded.
CheckCreated ==
  /\ Migrating("check")
  /\ IF at \in created THEN at' = at + 1 /\ UNCHANGED stmt
                       ELSE stmt' = Script[at] /\ UNCHANGED at
  /\ UNCHANGED database /\ MigrationStep
\* Slip: every migration is executed at every start.
ExecuteAlways ==
  /\ Migrating("check")
  /\ stmt' = Script[at]
  /\ UNCHANGED <<at, database>> /\ MigrationStep
\* What the table migrations lists is skipped, everything else is executed in order.
CheckMigration ==
  /\ Migrating("check")
  /\ IF at \in recorded THEN at' = at + 1 /\ UNCHANGED stmt
                        ELSE stmt' = Script[at] /\ UNCHANGED at
  /\ UNCHANGED database /\ MigrationStep

\* CREATE TABLE IF NOT EXISTS leaves a table that is there alone.
CreateTables ==
  /\ Migrating("create")
  /\ created' = created \cup {at} /\ stmt' = "record"
  /\ UNCHANGED <<at, recorded, unpaired>> /\ MigrationStep

AddColumn ==
  /\ Migrating("alter") /\ at \notin created
  /\ created' = created \cup {at} /\ stmt' = "fill"
  /\ UNCHANGED <<at, recorded, unpaired>> /\ MigrationStep
\* ALTER TABLE fails on a column that is there: RunMigrations fails and the process exits.
AddColumnAgain ==
  /\ Migrating("alter") /\ at \in created
  /\ Die("down")
  /\ UNCHANGED <<stops, database, seen>>

\* The rows deferred before get their deferral time.
FillColumn ==
  /\ Migrating("fill")
  /\ unpaired' = FALSE /\ stmt' = "record"
  /\ UNCHANGED <<at, created, recorded>> /\ MigrationStep

RecordMigration ==
  /\ Migrating("record")
  /\ recorded' = recorded \cup {at} /\ at' = at + 1 /\ stmt' = "check"
  /\ UNCHANGED <<created, unpaired>> /\ MigrationStep

Migrated ==
  /\ phase = "migrate" /\ at \notin Migrations
  /\ phase' = "seed"
  /\ UNCHANGED <<at, stmt, seeded, stops, database, table, memory, agentMe, jar, flow, seen>>

----------------------------------------------------------------------------
SeedingStep ==
  UNCHANGED <<phase, at, stmt, database, memory, agentMe, jar, flow, seen>>

\* One setting of the .env file, in the order of a Go map: none. Nobody else is running.
Seed(k) ==
  /\ phase = "seed" /\ k \notin seeded
  /\ seeded' = seeded \cup {k}
  /\ table' = [table EXCEPT ![k] = IF @ = None THEN Env[k] ELSE @]
  /\ UNCHANGED stops /\ SeedingStep
\* An SQL error ends the seeding; main only warns.
SeedFails ==
  /\ phase = "seed" /\ seeded # EnvKeys /\ stops < MaxStops
  /\ seeded' = EnvKeys /\ stops' = stops + 1
  /\ UNCHANGED table /\ SeedingStep

\* Both required settings are there: the server is built from them and listens.
Load ==
  /\ phase = "seed" /\ seeded = EnvKeys
  /\ table.url # None /\ table.key # None
  /\ phase' = "serve"
  /\ config' = [url |-> table.url, key |-> table.key] /\ client' = config'
  /\ seen' = [seen EXCEPT !.torn = FALSE, !.rekeyed = agentMe \notin {None, Owner[table.key]}]
  /\ UNCHANGED <<at, stmt, seeded, stops, database, table, agent, agentMe, jar, flow>>
\* One is missing: the process exits.
LoadFails ==
  /\ phase = "seed" /\ seeded = EnvKeys
  /\ table.url = None \/ table.key = None
  /\ Die("down")
  /\ UNCHANGED <<stops, database, seen>>

----------------------------------------------------------------------------
\* SIGHUP: the context is cancelled and the goroutine in ServeWithContext shuts
\* the listener down. ListenAndServe returns at once, whatever is in progress.
Hangup ==
  /\ phase = "serve" /\ stops < MaxStops
  /\ stops' = stops + 1 /\ phase' = "closing"
  /\ UNCHANGED <<at, stmt, seeded, database, table, memory, agentMe, jar, flow, seen>>
\* run closes the database under the handlers ...
CloseDb ==
  /\ phase = "closing"
  /\ phase' = "closed"
  /\ UNCHANGED <<at, stmt, seeded, stops, database, table, memory, agentMe, jar, flow, seen>>
\* ... and becomes the new program, which starts as from the beginning.
Exec ==
  /\ phase = "closed"
  /\ Die("down")
  /\ UNCHANGED <<stops, database, seen>>

\* The process is killed, crashes, or exits because a statement of its start failed.
Stop ==
  /\ phase # "down" /\ stops < MaxStops
  /\ stops' = stops + 1
  /\ Die("down")
  /\ UNCHANGED <<database, seen>>

RunProcess ==
  \/ Boot \/ CheckMigration \/ CreateTables \/ AddColumn \/ AddColumnAgain \/ FillColumn
  \/ RecordMigration \/ Migrated \/ (\E k \in EnvKeys : Seed(k)) \/ Load \/ LoadFails
  \/ CloseDb \/ Exec
Interrupt == SeedFails \/ Hangup \/ Stop
=============================================================================
