--------------------------- MODULE SchemaMigrations ---------------------------
(***************************************************************************)
(* How a process opens the database file and brings its schema up to date  *)
(* (apps/indexer/src/db/database.ts and migrations.ts), while other        *)
(* processes, of this release or of an older one, do the same, and the     *)
(* rollback of docs/confirmed-backfill-rollout.md.                         *)
(*                                                                         *)
(* SQLite is external: a transaction happens at once or not at all.  What  *)
(* a migration creates is one object, named by the migration's version.    *)
(***************************************************************************)
EXTENDS Integers, FiniteSets

CONSTANTS
  Instances    \* the processes that may open the file

CURRENT_SCHEMA_VERSION == 5

(* Every release so far supports one of these.                             *)
Releases == 1 .. CURRENT_SCHEMA_VERSION

(* The migrations whose statements all say IF NOT EXISTS.                  *)
(* Mutant: none does. *)
IdempotentNone == {}

Idempotent == {5}

VARIABLES
  schema,    \* of the file: PRAGMA user_version, and the objects that exist
  opener     \* of each process: its release and where openIndexerDatabase is

schemaVars == <<schema, opener>>

Closed == [phase |-> "closed", release |-> CURRENT_SCHEMA_VERSION, next |-> 1]

SchemaInit ==
  /\ schema = [version |-> 0, objects |-> {}]
  /\ opener = [p \in Instances |-> Closed]

-----------------------------------------------------------------------------
(* openIndexerDatabase: readUserVersion is read once, outside of the       *)
(* transactions.  A file of a newer version is refused.                    *)
Open(p, release) ==
  /\ opener[p].phase = "closed"
  /\ schema.version <= release
  /\ opener' = [opener EXCEPT ![p] =
       [phase |-> IF schema.version = release THEN "open" ELSE "migrating",
        release |-> release, next |-> schema.version + 1]]
  /\ UNCHANGED schema

(* Mutant: the pragma names the release's version. *)
AppliedInOne(m) == [version |-> CURRENT_SCHEMA_VERSION, objects |-> schema.objects \cup {m}]

Applied(m) == [version |-> m, objects |-> schema.objects \cup {m}]

(* One transaction of runMigrations.                                       *)
Migrate(p) ==
  LET m == opener[p].next
  IN  /\ opener[p].phase = "migrating"
      /\ m \in schema.objects => m \in Idempotent
      /\ schema' = Applied(m)
      /\ opener' = [opener EXCEPT ![p] =
           [phase |-> IF m = opener[p].release THEN "open" ELSE "migrating",
            release |-> opener[p].release, next |-> m + 1]]

(* A statement of it fails, because its object exists: the transaction is  *)
(* rolled back and the connection closed.                                  *)
MigrateFails(p) ==
  /\ opener[p].phase = "migrating"
  /\ opener[p].next \in schema.objects \ Idempotent
  /\ opener' = [opener EXCEPT ![p] = Closed]
  /\ UNCHANGED schema

(* The process ends, dies, or gives up on a locked database: between any   *)
(* two transactions.                                                       *)
Leave(p) ==
  /\ opener[p].phase # "closed"
  /\ opener' = [opener EXCEPT ![p] = Closed]
  /\ UNCHANGED schema

(* The rollback: with the indexer stopped the operator sets user_version   *)
(* to 4, deploys the previous release and keeps the table of version 5.    *)
RollBack ==
  /\ \A p \in Instances : opener[p].phase = "closed"
  /\ schema.version = 5
  /\ schema' = [schema EXCEPT !.version = 4]
  /\ UNCHANGED opener

SchemaNext ==
  \/ \E p \in Instances, release \in Releases : Open(p, release)
  \/ \E p \in Instances : Migrate(p) \/ MigrateFails(p) \/ Leave(p)
  \/ RollBack

SchemaSpec == SchemaInit /\ [][SchemaNext]_schemaVars

-----------------------------------------------------------------------------
SchemaTypeOK ==
  /\ schema \in [version : 0 .. CURRENT_SCHEMA_VERSION, objects : SUBSET Releases]
  /\ opener \in [Instances -> [phase : {"closed", "migrating", "open"}, release : Releases,
                               next : 1 .. CURRENT_SCHEMA_VERSION + 1]]

(***************************************************************************)
(* docs/indexer-core.md: migrations "run in ascending order, and each      *)
(* migration is wrapped in a SQLite transaction".  user_version tells what *)
(* the file holds, whoever migrated it, at once or after a crash: all that *)
(* the migrations up to it create, and beyond it only what a rollback left *)
(* and a later release can adopt.  So a process that has opened the file   *)
(* finds all that its release uses, whatever others do to it after.        *)
(***************************************************************************)
VersionTellsSchema ==
  /\ 1 .. schema.version \subseteq schema.objects
  /\ schema.objects \ (1 .. schema.version) \subseteq {CURRENT_SCHEMA_VERSION}
  /\ \A p \in Instances :
       opener[p].phase = "open" => 1 .. opener[p].release \subseteq schema.objects
=============================================================================
