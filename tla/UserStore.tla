-------------------------------- MODULE UserStore -------------------------------
(***************************************************************************)
(* The stores of UserManager and the start of the service on them:         *)
(* PostgresUMStore (control/user_store_postgres.go), JSONUMStore           *)
(* (control/user_store.go), newUserManagerFromStore and                    *)
(* loadUMSnapshotForPostgresStore (control/controller.go), and UserManager *)
(* as their caller (control/user.go: saveLocked, restore, CreateUser).     *)
(*                                                                         *)
(* A Save runs under UserManager.mu, one statement per step; the process   *)
(* may stop between any two, and any statement may fail.  PostgreSQL has   *)
(* committed or dropped the transaction of a process that stopped by the   *)
(* time the next one starts.  Files survive a stop of the process.         *)
(*                                                                         *)
(* A table is a function from keys to rows.  The two counters are written  *)
(* and read alike, and only user_seq decides an id: one stands for both.   *)
(***************************************************************************)
EXTENDS SchemaMigrations, Sequences

CONSTANTS
    MaxKey,       \* bound on the keys of a table; user k is "u-k"
    Rows,         \* what a row may hold
    NoRow,
    Column,       \* [Rows -> Rows]: a row after a round trip through its columns
    BasicPolicy,  \* generateBasicPolicyLocked
    NewUser,      \* the row of a user CreateUser makes
    Operations,   \* the rows the other operations of UserManager write or delete
    Seeds,        \* snapshots the file of UM_STORE_MIGRATION_JSON_PATH may hold
    NoSeed,       \* the path is not set
    BadSeed,      \* the file cannot be read or parsed
    Backends,     \* {"postgres", "json"} or one of them
    Torn,         \* a file that was not written to its end
    Down, Idle

Keys == 1..MaxKey
Tables == {"users", "enrollments", "devices", "certified", "policies", "tickets"}
LoadOrder == <<"users", "policies", "enrollments", "devices", "certified", "tickets">>
SaveOrder == <<"users", "enrollments", "devices", "certified", "policies", "tickets">>

Contents == [Tables -> [Keys -> Rows \cup {NoRow}]]
Snapshots == [rows : Contents, seq : 0..MaxKey]
Empty == [t \in Tables |-> [k \in Keys |-> NoRow]]
EmptySnapshot == [rows |-> Empty, seq |-> 0]

SaveCalls == [snap : Snapshots, next : 1..8, upserted : BOOLEAN, tx : Snapshots]

ASSUME StoreAssumption ==
    /\ MaxKey \in Nat
    /\ NoRow \notin Rows
    /\ Column \in [Rows -> Rows]
    /\ BasicPolicy \in Rows /\ NewUser \in Rows
    /\ Operations \subseteq UNION {[D -> Rows \cup {NoRow}] :
                               D \in SUBSET ((Tables \ {"users", "policies"}) \X Keys)}
    /\ Seeds \subseteq Snapshots
    /\ NoSeed \notin Seeds /\ BadSeed \notin Seeds
    /\ Backends \subseteq {"postgres", "json"}
    /\ Torn \notin Snapshots
    /\ Down \notin Contents /\ Idle \notin Contents /\ Idle \notin SaveCalls

VARIABLES
    backend,   \* DATABASE_URL is set, or not
    seed,      \* the seed file
    disk,      \* the committed rows of the um_ tables, or the JSON file
    tmp,       \* the temporary file
    phase,     \* of the process: "down", "loading", "seeding", "up"
    running,   \* the binary of the process
    attached,  \* UserManager.store # nil
    mem,       \* the maps and userSeq of UserManager
    part,      \* what Load has read so far
    next,      \* the next query of Load
    saving,    \* the Save call under way, or Idle
    result     \* of the last operation's Save call

processVars == <<phase, running, attached, mem, part, next, saving, result>>
storeVars == <<backend, seed, disk, tmp, processVars>>
userStoreVars == <<storeVars, schemaVars>>

StoreInit ==
    /\ SchemaInit
    /\ backend \in Backends
    /\ seed \in Seeds \cup {NoSeed, BadSeed}
    /\ disk = EmptySnapshot /\ tmp = EmptySnapshot
    /\ phase = "down" /\ running = build /\ attached = FALSE
    /\ mem = EmptySnapshot /\ part = EmptySnapshot /\ next = 1
    /\ saving = Idle /\ result = "none"

\* isEmptyUMSnapshot
IsEmpty(s) == s.seq = 0 /\ s.rows = Empty

Importable == {s \in Seeds : ~IsEmpty(s)}

\* Mutant: users keep the policies the store had for them.
RestoredAsStored(rows) == rows

\* UserManager.restore: a user without a policy is given the basic one.
Restored(rows) ==
    [rows EXCEPT !["policies"] =
        [k \in Keys |-> IF rows["users"][k] # NoRow /\ @[k] = NoRow THEN BasicPolicy ELSE @[k]]]

RestoredSnapshot(s) == [rows |-> Restored(s.rows), seq |-> s.seq]

\* The process ends: a failed start, or a crash at any point.
Exit == 
    /\ phase' = "down" /\ attached' = FALSE
    /\ mem' = EmptySnapshot /\ part' = EmptySnapshot /\ next' = 1
    /\ saving' = Idle /\ result' = "none"
    /\ UNCHANGED running

Serve(s, store) ==
    /\ phase' = "up" /\ attached' = store
    /\ mem' = RestoredSnapshot(s)
    /\ part' = EmptySnapshot /\ next' = 1
    /\ saving' = Idle /\ result' = "none"
    /\ UNCHANGED running

\* PostgresUMStore.Save begins its transaction, JSONUMStore.Save its file.
SaveCall(s) == [snap |-> s, next |-> 1, upserted |-> FALSE, tx |-> disk]

--------------------------------------------------------------------------------
(* Starting *)

StartPostgres ==
    /\ phase = "down" /\ backend = "postgres"
    /\ RequireMigration(build)
    /\ phase' = "loading" /\ running' = build
    /\ UNCHANGED <<backend, seed, disk, tmp, attached, mem, part, next, saving, result>>

\* One of the six queries of Load.
LoadTable ==
    /\ phase = "loading" /\ next <= Len(LoadOrder)
    /\ part' = [part EXCEPT !.rows[LoadOrder[next]] = disk.rows[LoadOrder[next]]]
    /\ next' = next + 1
    /\ UNCHANGED <<backend, seed, disk, tmp, phase, running, attached, mem, saving, result>>

LoadFails ==
    /\ phase = "loading"
    /\ Exit
    /\ UNCHANGED <<backend, seed, disk, tmp>>

\* The sequence is read last, and stays 0 when its query fails.  Then
\* loadUMSnapshotForPostgresStore decides whether to import the seed.
LoadSequence(seq) ==
    /\ phase = "loading" /\ next > Len(LoadOrder)
    /\ LET s == [part EXCEPT !.seq = seq]
       IN  \/ /\ ~(IsEmpty(s) /\ seed \in Importable \cup {BadSeed})
              /\ Serve(s, TRUE)
           \/ /\ IsEmpty(s) /\ seed = BadSeed
              /\ Exit
           \/ /\ IsEmpty(s) /\ seed \in Importable
              /\ phase' = "seeding"
              /\ saving' = SaveCall(seed)
              /\ part' = EmptySnapshot /\ next' = 1
              /\ UNCHANGED <<running, attached, mem, result>>
    /\ UNCHANGED <<backend, seed, disk, tmp>>

\* newUserManagerFromStore on the JSON file: when the file cannot be read or
\* parsed the manager starts empty and without a store.
StartJSON(ok) ==
    /\ phase = "down" /\ backend = "json"
    /\ IF ok THEN Serve(disk, TRUE) ELSE Serve(EmptySnapshot, FALSE)
    /\ UNCHANGED <<backend, seed, disk, tmp>>

--------------------------------------------------------------------------------
(* Operations of UserManager *)

\* The maps are m, and saveLocked is called.
SaveLocked(m) ==
    /\ mem' = m
    /\ saving' = IF attached THEN SaveCall(m) ELSE Idle
    /\ result' = IF attached THEN "none" ELSE "ok"
    /\ UNCHANGED <<backend, seed, disk, tmp, phase, running, attached, part, next>>

\* Mutant: the counter alone makes the id.
NextUserIdCounted(m) == m.seq + 1

\* The loop of CreateUser.
NextUserId(m) ==
    CHOOSE k \in Keys : /\ k > m.seq /\ m.rows["users"][k] = NoRow
                        /\ \A j \in Keys : j > m.seq /\ m.rows["users"][j] = NoRow => k <= j

CreateUser ==
    /\ phase = "up" /\ saving = Idle
    /\ \E k \in Keys : k > mem.seq /\ mem.rows["users"][k] = NoRow
    /\ LET id == NextUserId(mem)
       IN  SaveLocked([rows |-> [mem.rows EXCEPT !["users"][id] = NewUser,
                                                 !["policies"][id] = BasicPolicy],
                       seq |-> id])

\* An operation that writes or deletes the rows of op.
Applied(rows, op) ==
    [t \in Tables |-> [k \in Keys |->
        IF <<t, k>> \in DOMAIN op THEN op[<<t, k>>] ELSE rows[t][k]]]

Operate(op) ==
    /\ phase = "up" /\ saving = Idle
    /\ SaveLocked([mem EXCEPT !.rows = Applied(mem.rows, op)])

--------------------------------------------------------------------------------
(* PostgresUMStore.Save *)

Saving(kind) == saving # Idle /\ backend = kind

UpsertedRows(old, new) ==
    [k \in Keys |-> IF new[k] # NoRow THEN Column[new[k]] ELSE old[k]]

\* Mutant: the statements run outside the transaction.
UpsertUnprotected ==
    /\ Saving("postgres") /\ saving.next <= Len(SaveOrder) /\ ~saving.upserted
    /\ LET t == SaveOrder[saving.next]
           rows == UpsertedRows(saving.tx.rows[t], saving.snap.rows[t])
       IN  /\ saving' = [saving EXCEPT !.upserted = TRUE, !.tx.rows[t] = rows]
           /\ disk' = [disk EXCEPT !.rows[t] = rows]
    /\ UNCHANGED <<backend, seed, tmp, phase, running, attached, mem, part, next, result>>

\* The INSERT ... ON CONFLICT DO UPDATE statements for one table.
Upsert ==
    /\ Saving("postgres") /\ saving.next <= Len(SaveOrder) /\ ~saving.upserted
    /\ LET t == SaveOrder[saving.next]
       IN  saving' = [saving EXCEPT !.upserted = TRUE,
                        !.tx.rows[t] = UpsertedRows(@, saving.snap.rows[t])]
    /\ UNCHANGED <<backend, seed, disk, tmp, phase, running, attached, mem, part, next, result>>

\* Mutant: rows that left the maps stay in the table.
RemainingRowsAll(old, new) == old

\* deleteMissingStringKeys, deleteMissingCertifiedDevices
RemainingRows(old, new) == [k \in Keys |-> IF new[k] = NoRow THEN NoRow ELSE old[k]]

DeleteMissing ==
    /\ Saving("postgres") /\ saving.next <= Len(SaveOrder) /\ saving.upserted
    /\ LET t == SaveOrder[saving.next]
       IN  saving' = [saving EXCEPT !.upserted = FALSE, !.next = @ + 1,
                        !.tx.rows[t] = RemainingRows(@, saving.snap.rows[t])]
    /\ UNCHANGED <<backend, seed, disk, tmp, phase, running, attached, mem, part, next, result>>

SaveSequence ==
    /\ Saving("postgres") /\ saving.next = Len(SaveOrder) + 1
    /\ saving' = [saving EXCEPT !.next = @ + 1, !.tx.seq = saving.snap.seq]
    /\ UNCHANGED <<backend, seed, disk, tmp, phase, running, attached, mem, part, next, result>>

\* The Save call returns.  While seeding, newUserManagerFromStore then serves the
\* seed, or gives up the start.
Return(ok) ==
    IF phase = "seeding"
    THEN IF ok THEN Serve(saving.snap, TRUE) ELSE Exit
    ELSE /\ saving' = Idle
         /\ result' = IF ok THEN "ok" ELSE "error"
         /\ UNCHANGED <<phase, running, attached, mem, part, next>>

\* A commit may take effect though its reply is lost.
Commit(ok) ==
    /\ Saving("postgres") /\ saving.next = Len(SaveOrder) + 2
    /\ disk' = saving.tx
    /\ Return(ok)
    /\ UNCHANGED <<backend, seed, tmp>>

\* A statement, or the commit, fails: the deferred Rollback.
SaveFails ==
    /\ saving # Idle
    /\ Return(FALSE)
    /\ UNCHANGED <<backend, seed, disk, tmp>>

--------------------------------------------------------------------------------
(* JSONUMStore.Save *)

\* os.WriteFile(tmp): a failed write leaves part of the data.
WriteTmp(ok) ==
    /\ Saving("json") /\ saving.next = 1
    /\ tmp' = IF ok THEN saving.snap ELSE Torn
    /\ IF ok THEN /\ saving' = [saving EXCEPT !.next = 2]
                  /\ UNCHANGED <<phase, running, attached, mem, part, next, result>>
             ELSE Return(FALSE)
    /\ UNCHANGED <<backend, seed, disk>>

Rename ==
    /\ Saving("json") /\ saving.next = 2
    /\ disk' = tmp /\ tmp' = EmptySnapshot
    /\ Return(TRUE)
    /\ UNCHANGED <<backend, seed>>

--------------------------------------------------------------------------------
\* The process stops; a commit it had sent may still take effect.
Crash ==
    /\ phase # "down"
    /\ Exit
    /\ disk' \in {disk} \cup (IF Saving("postgres") /\ saving.next = Len(SaveOrder) + 2
                              THEN {saving.tx} ELSE {})
    /\ UNCHANGED <<backend, seed, tmp>>

StoreStep ==
    \/ StartPostgres \/ LoadTable \/ LoadFails
    \/ \E seq \in {disk.seq, 0} : LoadSequence(seq)
    \/ \E ok \in BOOLEAN : StartJSON(ok) \/ Commit(ok) \/ WriteTmp(ok)
    \/ CreateUser
    \/ \E op \in Operations : Operate(op)
    \/ Upsert \/ DeleteMissing \/ SaveSequence \/ SaveFails
    \/ Rename \/ Crash

\* `sdl-control migrate` needs DATABASE_URL.
StoreNext ==
    \/ StoreStep /\ UNCHANGED schemaVars
    \/ backend = "postgres" /\ SchemaNext /\ UNCHANGED storeVars

StoreSpec == StoreInit /\ [][StoreNext]_userStoreVars

--------------------------------------------------------------------------------
(* Properties *)

\* The maps hold rows, the process is in one of its phases, and a Save call is
\* under way only while the process imports the seed or serves with a store.
StoreTypeOK ==
    /\ backend \in Backends /\ seed \in Seeds \cup {NoSeed, BadSeed}
    /\ disk \in Snapshots /\ tmp \in Snapshots \cup {Torn}
    /\ phase \in {"down", "loading", "seeding", "up"}
    /\ running \in Builds /\ attached \in BOOLEAN
    /\ mem \in Snapshots /\ part \in Snapshots /\ next \in 1..7
    /\ saving \in SaveCalls \cup {Idle}
    /\ result \in {"none", "ok", "error"}
    /\ saving # Idle => phase = "seeding" \/ (phase = "up" /\ attached)
    /\ phase \in {"loading", "seeding"} => backend = "postgres"

\* What reading the store gives for rows that were saved.
ReadBack(kind, rows) ==
    IF kind = "json" THEN rows
    ELSE [t \in Tables |-> [k \in Keys |->
            IF rows[t][k] = NoRow THEN NoRow ELSE Column[rows[t][k]]]]

\* An operation that UserManager answered with success is on disk, every row of
\* every table of it, until the next operation: no statement of Save was skipped
\* or left to a later save.
SuccessIsDurable ==
    (phase = "up" /\ attached /\ result = "ok") => disk.rows = ReadBack(backend, mem.rows)

\* The service never serves a user without a policy, whatever the database, the
\* file or the seed had (restore, user.go:917).
EveryUserHasPolicy ==
    phase = "up" =>
        \A k \in Keys : mem.rows["users"][k] # NoRow => mem.rows["policies"][k] # NoRow

\* While the service runs no user is overwritten by a new one, although userSeq
\* may have been read as 0 or saved without its user.
UsersKept ==
    [][phase = "up" /\ phase' = "up" =>
        \A k \in Keys : mem.rows["users"][k] # NoRow =>
            mem'.rows["users"][k] = mem.rows["users"][k]]_userStoreVars

\* A service on PostgreSQL has every control migration of its binary in the
\* schema: checking the newest one is enough (main.go:86).
ServedSchema ==
    (backend = "postgres" /\ phase # "down") =>
        \A v \in Control : v <= running.known => schema[v] # NoSum

SeedRows == {s.rows : s \in Seeds}

Store == INSTANCE SnapshotStore WITH
    Seeds <- SeedRows,
    seed <- IF seed \in Seeds THEN seed.rows ELSE seed,
    mem <- IF phase = "up" /\ attached THEN mem.rows ELSE Down,
    saved <- disk.rows,
    saving <- IF saving = Idle THEN Idle ELSE saving.snap.rows,
    result <- IF attached THEN result ELSE "none"

\* Both stores keep the promise of SnapshotStore: through failed statements, lost
\* replies, crashes and restarts a snapshot is replaced as a whole or not at all.
\* In particular the JSON file is imported only "when the um_* tables are empty"
\* (README.md:153), although a failed query of the sequences reads as 0.
ImplementsStore == Store!AbstractSpec

================================================================================
