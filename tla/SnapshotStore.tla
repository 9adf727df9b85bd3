----------------------------- MODULE SnapshotStore -----------------------------
(***************************************************************************)
(* What UserManager expects of its store (UMStore, control/user_store.go): *)
(* it holds one whole snapshot.  A save that reports success has replaced  *)
(* it, a save that fails or is cut off by a crash has replaced it or left  *)
(* it alone, and a start of the service gets back the snapshot it holds.   *)
(* The import of a seed file happens only when nothing is held.            *)
(*                                                                         *)
(* UserStore implements this specification.                                *)
(***************************************************************************)

CONSTANTS
    Contents,        \* the rows of a snapshot
    Empty,           \* the snapshot without rows
    ReadBack(_, _),  \* what the kind of store returns for saved rows
    Restored(_),     \* UserManager.restore
    Seeds,           \* what UM_STORE_MIGRATION_JSON_PATH may hold
    Down, Idle

VARIABLES
    backend,  \* the kind of store
    seed,     \* the seed file
    mem,      \* the maps of the running UserManager, or Down
    saved,    \* the snapshot held
    saving,   \* the snapshot of the Save call under way, or Idle
    result    \* of the last operation's Save call

abstractVars == <<backend, seed, mem, saved, saving, result>>

AbstractInit ==
    /\ mem = Down /\ saved = Empty /\ saving = Idle /\ result = "none"

Open ==
    /\ mem = Down /\ saving = Idle
    /\ mem' = Restored(saved)
    /\ result' = "none"
    /\ UNCHANGED <<backend, seed, saved, saving>>

Import ==
    /\ mem = Down /\ saving = Idle /\ saved = Empty /\ seed \in Seeds
    /\ saving' = seed
    /\ result' = "none"
    /\ UNCHANGED <<backend, seed, mem, saved>>

\* An operation of UserManager changes the maps and calls Save.
Write ==
    /\ mem # Down /\ saving = Idle
    /\ mem' \in Contents /\ saving' = mem' /\ result' = "none"
    /\ UNCHANGED <<backend, seed, saved>>

Succeed ==
    /\ saving # Idle
    /\ saved' = ReadBack(backend, saving)
    /\ mem' = IF mem = Down THEN Restored(saving) ELSE mem
    /\ result' = IF mem = Down THEN "none" ELSE "ok"
    /\ saving' = Idle
    /\ UNCHANGED <<backend, seed>>

\* (A service whose import fails does not start: that is Stop.)
Fail ==
    /\ mem # Down /\ saving # Idle
    /\ saved' \in {saved, ReadBack(backend, saving)}
    /\ saving' = Idle /\ result' = "error"
    /\ UNCHANGED <<backend, seed, mem>>

Stop ==
    /\ mem' = Down /\ saving' = Idle /\ result' = "none"
    /\ \/ saved' = saved
       \/ saving # Idle /\ saved' = ReadBack(backend, saving)
    /\ UNCHANGED <<backend, seed>>

AbstractNext ==
    Open \/ Import \/ Write \/ Succeed \/ Fail \/ Stop

AbstractSpec == AbstractInit /\ [][AbstractNext]_abstractVars

================================================================================
