---------------------------- MODULE IndexerProcess ----------------------------
(***************************************************************************)
(* The life of an indexer process (apps/indexer/src/cli/run.ts and         *)
(* cli.ts) over many restarts: it opens and migrates the database          *)
(* (SchemaMigrations), listens, starts its daemon (DaemonLifecycle) and    *)
(* ends, by a shutdown or a crash; then the service manager starts it      *)
(* again.  Other processes may open the same file, and the operator may    *)
(* roll it back.                                                           *)
(***************************************************************************)
EXTENDS DaemonLifecycle, SchemaMigrations

CONSTANTS
  Indexer      \* the process whose daemon is modelled: of the latest release

ASSUME IndexerAssumption == Indexer \in Instances

processVars == <<vars, schemaVars>>

(* The database is open, so there are a daemon and an API.                 *)
Opened == opener[Indexer].phase = "open"

ProcessInit == Init /\ SchemaInit

OpenDatabase ==
  /\ Open(Indexer, CURRENT_SCHEMA_VERSION)
  /\ UNCHANGED vars

MigrateDatabase ==
  /\ Migrate(Indexer) \/ MigrateFails(Indexer)
  /\ UNCHANGED vars

(* What the daemon and its callers do, the start and the shutdown included.*)
Run ==
  /\ Opened
  /\ Next
  /\ UNCHANGED schemaVars

(* The process is gone: the next one starts with a new daemon.             *)
Renewed ==
  /\ Leave(Indexer)
  /\ state' = "stopped"
  /\ stopping' = FALSE
  /\ websocketConnected' = FALSE
  /\ link' = "none"
  /\ starting' = "no"
  /\ tail' = <<>>
  /\ periodicTimer' = FALSE
  /\ backfill' = [state |-> "idle", complete |-> FALSE, ended |-> FALSE, failing |-> FALSE]
  /\ busy' = FALSE
  /\ accepting' = TRUE
  /\ awaited' = FALSE
  /\ closing' = "no"
  /\ late' = FALSE
  /\ UNCHANGED calm

(* process.exit, when shutdown has closed the database.                    *)
Exit ==
  /\ closing = "closed"
  /\ Renewed

(* The process dies, or gives up on opening the database.                  *)
Crash ==
  /\ ~calm
  /\ Renewed

(* What another process does with the file; and the operator, who would    *)
(* not roll back for ever.                                                 *)
OthersDo ==
  /\ \/ \E p \in Instances \ {Indexer} :
          \/ \E release \in Releases : Open(p, release)
          \/ Migrate(p) \/ MigrateFails(p) \/ Leave(p)
     \/ ~calm /\ RollBack
  /\ UNCHANGED vars

ProcessNext ==
  \/ OpenDatabase \/ MigrateDatabase \/ Run \/ Exit \/ Crash
  \/ OthersDo
  \/ Calm /\ UNCHANGED schemaVars

ProcessSpec == ProcessInit /\ [][ProcessNext]_processVars

(***************************************************************************)
(* The service manager restarts a process that has ended.  It migrates     *)
(* without waiting for anything but the file.                              *)
(***************************************************************************)
FairProcessSpec ==
  /\ ProcessSpec
  /\ Fairness
  /\ WF_processVars(OpenDatabase)
  /\ WF_processVars(MigrateDatabase)
  /\ WF_processVars(Run /\ closing = "no" /\ Start)
  /\ WF_processVars(Exit)

-----------------------------------------------------------------------------
(***************************************************************************)
(* docs/confirmed-backfill-rollout.md: "a later redeploy safely adopts the *)
(* retained table".  Once nothing fails any more and nobody sends signals  *)
(* the service becomes ready and remains so, however it was left: by a     *)
(* crash between two migrations, a second process in the same file, a      *)
(* rollback, a shutdown, a start that failed, outages or reconciliations   *)
(* that failed.                                                            *)
(***************************************************************************)
BecomesReady == calm ~> []Ready
=============================================================================
