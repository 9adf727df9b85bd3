---------------------------- MODULE SchemaMigrations ---------------------------
(***************************************************************************)
(* `sdl-control migrate` (control/store/migrations.go, main.go).  The SQL  *)
(* files embedded in the binary are applied in the order of their names in *)
(* one transaction, which also records their versions and checksums.  The  *)
(* service itself changes no schema: RequireMigration lets it start only   *)
(* when the newest control migration of its own binary is recorded.        *)
(*                                                                         *)
(* Version v is the number in a file's name; a binary carries the versions *)
(* 1..known.  Running a file's SQL and recording it are one step.          *)
(***************************************************************************)
EXTENDS Integers, FiniteSets

CONSTANTS
    MaxVersion,
    Control,   \* versions whose name contains "_control_"
    Sums,      \* checksums
    NoSum,
    Builds,    \* binaries: the versions they carry, with their checksums
    NoTx

Versions == 1..MaxVersion

ASSUME SchemaAssumption ==
    /\ MaxVersion \in Nat
    /\ Control \subseteq Versions
    /\ NoSum \notin Sums
    /\ Builds # {}
    /\ \A b \in Builds :
        /\ b \in [known : Versions, sum : [Versions -> Sums]]
        /\ \E v \in Control : v <= b.known
    /\ NoTx \notin [next : Nat, rows : [Versions -> Sums \cup {NoSum}]]

VARIABLES
    build,      \* the installed binary
    schema,     \* table schema_migrations
    migrating   \* the open transaction of a migrate command, or NoTx

schemaVars == <<build, schema, migrating>>

SchemaInit ==
    /\ build \in Builds
    /\ schema = [v \in Versions |-> NoSum]
    /\ migrating = NoTx

Deploy(b) ==
    /\ migrating = NoTx /\ build' = b
    /\ UNCHANGED <<schema, migrating>>

BeginMigrations ==
    /\ migrating = NoTx
    /\ migrating' = [next |-> 1, rows |-> schema]
    /\ UNCHANGED <<build, schema>>

\* One turn of the loop of ApplyMigrations: a recorded version is skipped when
\* its checksum is the file's, and the command fails when it is not.
ApplyMigration ==
    /\ migrating # NoTx /\ migrating.next <= build.known
    /\ LET v == migrating.next
           applied == migrating.rows[v]
       IN  migrating' =
               IF applied \notin {NoSum, build.sum[v]}
               THEN NoTx
               ELSE [next |-> v + 1, rows |-> [migrating.rows EXCEPT ![v] = build.sum[v]]]
    /\ UNCHANGED <<build, schema>>

CommitMigrations ==
    /\ migrating # NoTx /\ migrating.next > build.known
    /\ schema' = migrating.rows
    /\ migrating' = NoTx
    /\ UNCHANGED build

\* An SQL error, or the end of the process: the transaction is rolled back.
RollbackMigrations ==
    /\ migrating # NoTx
    /\ migrating' = NoTx
    /\ UNCHANGED <<build, schema>>

\* Mutant: the first control migration is required.
LatestMigrationVersionFirst(b) ==
    CHOOSE v \in Control : v <= b.known /\ \A w \in Control : v <= w

LatestMigrationVersion(b) ==
    CHOOSE v \in Control : v <= b.known /\ \A w \in Control : w <= b.known => w <= v

RequireMigration(b) == schema[LatestMigrationVersion(b)] # NoSum

SchemaNext ==
    \/ \E b \in Builds : Deploy(b)
    \/ BeginMigrations \/ ApplyMigration \/ CommitMigrations \/ RollbackMigrations

================================================================================
