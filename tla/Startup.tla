-------------------------------- MODULE Startup --------------------------------
(***************************************************************************)
(* How the processes come up on one PostgreSQL database: migrations, the   *)
(* repair of the sequences, reference data, the first operator             *)
(* (backend/internal/db/db.go, backend/internal/store/admin.go,            *)
(* backend/cmd/api/main.go, backend/cmd/worker/main.go), and what a start  *)
(* does to the inserts of the processes that run already.                  *)
(*                                                                         *)
(* docker-compose.yml starts api and worker together and restarts whichever*)
(* exits.  A statement or a transaction is one step; a transaction that    *)
(* holds an id no other session can see takes two.  One table with a       *)
(* BIGSERIAL id stands for the four of the schema.                         *)
(***************************************************************************)
EXTENDS Integers, FiniteSets, FiniteSetsExt

CONSTANTS
  Processes,   \* api and worker containers
  Apis,        \* those of them that run cmd/api
  Migrations,  \* number of migration files
  MaySeed,     \* whether an operator may be seeded: a hash is set, or dev mode
  MaxId,       \* bound: ids the sequence hands out
  MaxFaults,   \* bound: crashes and failed statements in a behaviour
  MaxLoads     \* bound: restores or bulk loads in a behaviour

ASSUME StartupAssumption ==
  /\ Migrations \in Nat /\ MaySeed \in BOOLEAN
  /\ MaxId \in Nat /\ MaxFaults \in Nat /\ MaxLoads \in Nat

VARIABLES
  place,     \* where each process is in its main, or in an insert
  version,   \* the migration it looks at
  held,      \* the id it drew, or the maximum it read
  \* the database
  applied,   \* schema_migrations
  effects,   \* how often the statements of a migration were committed
  operators, \* rows of admin_users
  rows,      \* ids of the table
  next,      \* what nextval returns next
  \* history
  met,       \* an insert or a load met the repair this process is making
  suspect,   \* rows were loaded, or an insert crossed the last repair
  faults, loads

memory   == <<version, held, met>>
schema   == <<applied, effects, operators>>
serial   == <<rows, next, suspect>>
startupVars == <<place, memory, schema, serial, faults, loads>>

Stages == {"down", "checking", "missing", "applying", "syncing", "setting",
           "seeding", "counting", "founding", "serving", "inserting"}

Largest == IF rows = {} THEN 0 ELSE Max(rows)

Go(p, stage) == place' = [place EXCEPT ![p] = stage]

\* os.Exit(1): Docker starts the container again.
Exit(p) == Go(p, "down")

(***************************************************************************)
(* Migrate                                                                 *)
(***************************************************************************)
StartupInit ==
  /\ place = [p \in Processes |-> "down"] /\ version = [p \in Processes |-> 1]
  /\ held = [p \in Processes |-> 0]
  /\ applied = {} /\ effects = [v \in 1..Migrations |-> 0] /\ operators = 0
  /\ rows = {} /\ next = 1
  /\ met = [p \in Processes |-> FALSE] /\ suspect = FALSE
  /\ faults = MaxFaults /\ loads = MaxLoads

Start(p) ==
  /\ place[p] = "down"
  /\ Go(p, "checking")
  /\ version' = [version EXCEPT ![p] = 1]
  /\ held' = [held EXCEPT ![p] = 0] /\ met' = [met EXCEPT ![p] = FALSE]
  /\ UNCHANGED <<schema, serial, faults, loads>>

\* A start that runs every migration it finds, applied or not.
CheckBlindly(p) ==
  /\ place[p] = "checking"
  /\ IF version[p] > Migrations THEN Go(p, "syncing") ELSE Go(p, "missing")
  /\ UNCHANGED <<memory, schema, serial, faults, loads>>

\* SELECT EXISTS, outside any transaction: another process may be applying it.
Check(p) ==
  /\ place[p] = "checking"
  /\ \/ version[p] > Migrations /\ Go(p, "syncing") /\ UNCHANGED version
     \/ version[p] \in applied /\ version' = [version EXCEPT ![p] = @ + 1] /\ UNCHANGED place
     \/ version[p] \in 1..Migrations \ applied /\ Go(p, "missing") /\ UNCHANGED version
  /\ UNCHANGED <<held, met, schema, serial, faults, loads>>

\* The statements of the transaction. They wait for a transaction that creates the
\* same tables; once the version is recorded the INSERT into schema_migrations, at
\* the latest, violates the primary key and the process exits.
Apply(p) ==
  /\ place[p] = "missing"
  /\ \A q \in Processes : place[q] # "applying"
  /\ IF version[p] \in applied THEN Exit(p) ELSE Go(p, "applying")
  /\ UNCHANGED <<memory, schema, serial, faults, loads>>

\* Statements and version are committed together.
CommitMigration(p) ==
  /\ place[p] = "applying"
  /\ applied' = applied \cup {version[p]}
  /\ effects' = [effects EXCEPT ![version[p]] = @ + 1]
  /\ version' = [version EXCEPT ![p] = @ + 1]
  /\ Go(p, "checking")
  /\ UNCHANGED <<held, met, operators, serial, faults, loads>>

(***************************************************************************)
(* SyncSequences: SELECT setval(seq, GREATEST(MAX(id), 1), ...) FROM table *)
(* reads the committed rows of its snapshot and then moves the sequence,   *)
(* which obeys no transaction.                                             *)
(***************************************************************************)
ReadMax(p) ==
  /\ place[p] = "syncing"
  /\ held' = [held EXCEPT ![p] = Largest]
  /\ met' = [met EXCEPT ![p] = \E q \in Processes : place[q] = "inserting"]
  /\ Go(p, "setting")
  /\ UNCHANGED <<version, schema, serial, faults, loads>>

\* A repair that leaves the sequence at the largest id as if it were not used yet.
SetValUncalled(p) ==
  /\ place[p] = "setting"
  /\ next' = IF held[p] = 0 THEN 1 ELSE held[p]
  /\ suspect' = met[p]
  /\ held' = [held EXCEPT ![p] = 0] /\ met' = [met EXCEPT ![p] = FALSE]
  /\ Go(p, "seeding")
  /\ UNCHANGED <<version, schema, rows, faults, loads>>

\* The next id follows the maximum read, or is 1 for an empty table.
SetVal(p) ==
  /\ place[p] = "setting"
  /\ next' = held[p] + 1
  /\ suspect' = met[p]
  /\ held' = [held EXCEPT ![p] = 0] /\ met' = [met EXCEPT ![p] = FALSE]
  /\ Go(p, "seeding")
  /\ UNCHANGED <<version, schema, rows, faults, loads>>

\* SyncSequences fails: that is only logged, and the start goes on.
SyncFails(p) ==
  /\ place[p] \in {"syncing", "setting"} /\ faults > 0
  /\ faults' = faults - 1
  /\ held' = [held EXCEPT ![p] = 0] /\ met' = [met EXCEPT ![p] = FALSE]
  /\ Go(p, "seeding")
  /\ UNCHANGED <<version, schema, serial, loads>>

(***************************************************************************)
(* SeedReference upserts fixed rows: any number of processes may. Then the *)
(* API looks for operators (EnsureAdminSeed), in two statements.           *)
(***************************************************************************)
SeedReference(p) ==
  /\ place[p] = "seeding"
  /\ Go(p, IF p \in Apis THEN "counting" ELSE "serving")
  /\ UNCHANGED <<memory, schema, serial, faults, loads>>

CountOperators(p) ==
  /\ place[p] = "counting"
  /\ Go(p, IF operators = 0 /\ MaySeed THEN "founding" ELSE "serving")
  /\ UNCHANGED <<memory, schema, serial, faults, loads>>

\* The id is derived from the configured name: a second insert violates the key.
FoundOperator(p) ==
  /\ place[p] = "founding"
  /\ \/ operators = 0 /\ operators' = 1 /\ Go(p, "serving")
     \/ operators > 0 /\ UNCHANGED operators /\ Exit(p)
  /\ UNCHANGED <<memory, applied, effects, serial, faults, loads>>

(***************************************************************************)
(* Inserts of a running process: the health events, fetch runs, imports    *)
(* and audit entries                                                       *)
(***************************************************************************)
\* nextval, in a transaction nobody else sees yet; it spoils the repairs under way.
Draw(p) ==
  /\ place[p] = "serving" /\ next <= MaxId
  /\ held' = [held EXCEPT ![p] = next] /\ next' = next + 1
  /\ met' = [q \in Processes |-> met[q] \/ place[q] = "setting"]
  /\ Go(p, "inserting")
  /\ UNCHANGED <<version, schema, rows, suspect, faults, loads>>

Collides(p) == place[p] = "inserting" /\ held[p] \in rows

\* The commit, or the violation of the primary key: then what else the transaction
\* wrote (the failure count and next poll of MarkFeedFailure) is lost with it.
StoreRow(p) ==
  /\ place[p] = "inserting"
  /\ rows' = rows \cup {held[p]}
  /\ held' = [held EXCEPT ![p] = 0]
  /\ Go(p, "serving")
  /\ UNCHANGED <<version, met, schema, next, suspect, faults, loads>>

\* The process dies and its transaction with it, or a statement of its start fails
\* and main exits.
Crash(p) ==
  /\ place[p] # "down" /\ faults > 0
  /\ faults' = faults - 1
  /\ Exit(p)
  /\ held' = [held EXCEPT ![p] = 0] /\ met' = [met EXCEPT ![p] = FALSE]
  /\ UNCHANGED <<version, schema, serial, loads>>

\* A restore or bulk load brings rows with ids of their own past the sequence.
Load ==
  /\ Cardinality(applied) = Migrations /\ loads > 0
  /\ loads' = loads - 1
  /\ \E id \in next..MaxId : rows' = rows \cup {id}
  /\ suspect' = TRUE
  /\ met' = [q \in Processes |-> met[q] \/ place[q] = "setting"]
  /\ UNCHANGED <<place, version, held, schema, next, faults>>

ComeUp(p) ==
  \/ Start(p) \/ Check(p) \/ Apply(p) \/ CommitMigration(p) \/ ReadMax(p) \/ SetVal(p)
  \/ SeedReference(p) \/ CountOperators(p) \/ FoundOperator(p)

StartupNext ==
  \/ \E p \in Processes : ComeUp(p) \/ SyncFails(p) \/ Draw(p) \/ StoreRow(p) \/ Crash(p)
  \/ Load

StartupSpec == StartupInit /\ [][StartupNext]_startupVars

(***************************************************************************)
(* Properties                                                              *)
(***************************************************************************)
\* Columns and places hold what they should, the statements of a migration were
\* committed once if its version is recorded and never otherwise, and there is one
\* seeded operator at most.
StartupTypeOK ==
  /\ place \in [Processes -> Stages] /\ version \in [Processes -> 1..Migrations + 1]
  /\ held \in [Processes -> 0..MaxId] /\ met \in [Processes -> BOOLEAN]
  /\ applied \subseteq 1..Migrations
  /\ effects = [v \in 1..Migrations |-> IF v \in applied THEN 1 ELSE 0]
  /\ operators \in 0..1
  /\ rows \subseteq 1..MaxId /\ next \in 1..MaxId + 1
  /\ suspect \in BOOLEAN /\ faults \in 0..MaxFaults /\ loads \in 0..MaxLoads

\* An insert collides only if rows were loaded that no start has seen, or if the last
\* repair ran while another process was inserting: SyncSequences "guarantees that every
\* sequence is ahead of the data it serves" (db.go:291) when nobody inserts meanwhile.
CollisionsExplained == \A p \in Processes : Collides(p) => suspect

\* Every process comes to serve, whoever it races for the migrations and the operator:
\* the loser exits and finds the work done when it is started again.
EveryoneServes == \A p \in Processes : []<>(place[p] \in {"serving", "inserting"})
================================================================================
