---------------------------- MODULE UserStoreProofs ----------------------------
(***************************************************************************)
(* TLAPS proofs about UserStore, for any rows, seeds, binaries and bounds. *)
(* A Load that has read some tables has read what is committed, because    *)
(* no Save is under way while the service starts; a Save that has come to  *)
(* a statement has brought the tables before it in line with the snapshot. *)
(* So a commit, or a rename, replaces one whole snapshot by another, which *)
(* is what SnapshotStore promises.                                         *)
(***************************************************************************)
EXTENDS UserStore, WellFoundedInduction, TLAPS

\* The rows of a table that a Save leaves there.
Columns(rows) == [k \in Keys |-> IF rows[k] = NoRow THEN NoRow ELSE Column[rows[k]]]

\* Load has read the tables before the next query as they are.
LoadedSoFar ==
    /\ phase # "loading" => next = 1
    /\ phase = "loading" =>
          \A i \in 1..6 : i < next => part.rows[LoadOrder[i]] = disk.rows[LoadOrder[i]]

\* Save has brought the tables before the next statement in line with the snapshot.
SavedSoFar ==
    Saving("postgres") =>
        /\ \A i \in 1..6 : i < saving.next =>
              saving.tx.rows[SaveOrder[i]] = Columns(saving.snap.rows[SaveOrder[i]])
        /\ saving.upserted =>
              /\ saving.next \in 1..6
              /\ \A k \in Keys : saving.snap.rows[SaveOrder[saving.next]][k] # NoRow =>
                    saving.tx.rows[SaveOrder[saving.next]][k]
                        = Column[saving.snap.rows[SaveOrder[saving.next]][k]]

\* The temporary file holds the snapshot when it is renamed.
TmpWritten ==
    Saving("json") => saving.next \in {1, 2} /\ (saving.next = 2 => tmp = saving.snap)

\* What a Save call saves, and when one is under way.
SavesMaps ==
    /\ saving # Idle /\ phase = "up" => saving.snap = mem
    /\ saving # Idle => result = "none"
    /\ phase # "up" => result = "none" /\ ~attached
    /\ phase = "seeding" => saving # Idle

StoreInv ==
    /\ StoreTypeOK /\ LoadedSoFar /\ SavedSoFar /\ TmpWritten /\ SavesMaps
    /\ SuccessIsDurable /\ EveryUserHasPolicy

--------------------------------------------------------------------------------
(* Operators *)

\* Least: a set of naturals that is not empty has a least element.
LEMMA Least ==
    ASSUME NEW S, S \subseteq Nat, S # {}
    PROVE  \E x \in S : \A y \in S : x <= y
<1>1. PICK x \in S : \A y \in S : <<y, x>> \notin OpToRel(<, Nat)
  BY NatLessThanWellFounded, WFMin, Zenon
<1>2. \A y \in S : y \in Nat /\ x \in Nat /\ ~(y < x)
  BY <1>1, Zenon DEF OpToRel
<1>3. \A y \in S : x <= y
  BY <1>2
<1> QED
  BY <1>3

\* Greatest: a bounded set of naturals that is not empty has a greatest element.
LEMMA Greatest ==
    ASSUME NEW N \in Nat, NEW S, S \subseteq 1..N, S # {}
    PROVE  \E x \in S : \A y \in S : y <= x
<1> DEFINE T == {N - x : x \in S}
<1>1. \A x \in S : x \in Nat /\ N - x \in Nat
  OBVIOUS
<1>2. T \subseteq Nat /\ T # {} /\ \A x \in S : N - x \in T
  BY <1>1, Zenon
<1>3. \A t \in T : \E x \in S : t = N - x
  OBVIOUS
<1> HIDE DEF T
<1>4. PICK t \in T : \A u \in T : t <= u
  BY <1>2, Least, Zenon
<1>5. PICK x \in S : t = N - x
  BY <1>3, <1>4
<1>6. \A y \in S : N - x <= N - y
  BY <1>2, <1>4, <1>5
<1>7. \A y \in S : y <= x
  BY <1>1, <1>6
<1> QED
  BY <1>7

\* NextUserIdFree: CreateUser gives an id that no user has.
LEMMA NextUserIdFree ==
    ASSUME NEW m \in Snapshots, \E k \in Keys : k > m.seq /\ m.rows["users"][k] = NoRow
    PROVE  NextUserId(m) \in Keys /\ m.rows["users"][NextUserId(m)] = NoRow
<1> DEFINE S == {k \in Keys : k > m.seq /\ m.rows["users"][k] = NoRow}
<1>1. S \subseteq Nat /\ S # {}
  BY DEF Keys
<1>2. PICK k \in S : \A j \in S : k <= j
  BY <1>1, Least, Zenon
<1>3. k \in Keys /\ k > m.seq /\ m.rows["users"][k] = NoRow
      /\ \A j \in Keys : j > m.seq /\ m.rows["users"][j] = NoRow => k <= j
  BY <1>2
<1> QED
  BY <1>3 DEF NextUserId

\* Orders: the orders of Load and Save name every table.
LEMMA Orders ==
    /\ Len(LoadOrder) = 6 /\ Len(SaveOrder) = 6
    /\ \A i \in 1..6 : LoadOrder[i] \in Tables /\ SaveOrder[i] \in Tables
    /\ \A t \in Tables : (\E i \in 1..6 : LoadOrder[i] = t) /\ (\E i \in 1..6 : SaveOrder[i] = t)
    /\ \A i, j \in 1..6 : SaveOrder[i] = SaveOrder[j] => i = j
<1>1. Len(LoadOrder) = 6 /\ Len(SaveOrder) = 6
  BY DEF LoadOrder, SaveOrder
<1>2. \A i \in 1..6 : LoadOrder[i] \in Tables /\ SaveOrder[i] \in Tables
  BY DEF LoadOrder, SaveOrder, Tables
<1>3. /\ LoadOrder[1] = "users" /\ LoadOrder[2] = "policies" /\ LoadOrder[3] = "enrollments"
      /\ LoadOrder[4] = "devices" /\ LoadOrder[5] = "certified" /\ LoadOrder[6] = "tickets"
      /\ SaveOrder[1] = "users" /\ SaveOrder[2] = "enrollments" /\ SaveOrder[3] = "devices"
      /\ SaveOrder[4] = "certified" /\ SaveOrder[5] = "policies" /\ SaveOrder[6] = "tickets"
  BY DEF LoadOrder, SaveOrder
<1>4. \A t \in Tables : (\E i \in 1..6 : LoadOrder[i] = t) /\ (\E i \in 1..6 : SaveOrder[i] = t)
  BY <1>3 DEF Tables
<1>5. \A i, j \in 1..6 : SaveOrder[i] = SaveOrder[j] => i = j
  BY <1>3
<1> QED
  BY <1>1, <1>2, <1>4, <1>5

\* EmptyTypes: the empty snapshot is one.
LEMMA EmptyTypes == EmptySnapshot \in Snapshots /\ Empty \in Contents
BY StoreAssumption DEF EmptySnapshot, Empty, Snapshots, Contents

\* RestoredTypes: restore keeps the type and the users, and leaves none without a policy.
LEMMA RestoredTypes ==
    ASSUME NEW s \in Snapshots
    PROVE  /\ RestoredSnapshot(s) \in Snapshots
           /\ RestoredSnapshot(s).rows = Restored(s.rows)
           /\ \A k \in Keys : Restored(s.rows)["users"][k] # NoRow => Restored(s.rows)["policies"][k] # NoRow
<1>1. s.rows \in Contents /\ s.seq \in 0..MaxKey
  BY DEF Snapshots
<1>2. "policies" \in Tables /\ "users" \in Tables
  BY DEF Tables
<1> DEFINE p == [k \in Keys |-> IF s.rows["users"][k] # NoRow /\ s.rows["policies"][k] = NoRow
                                THEN BasicPolicy ELSE s.rows["policies"][k]]
<1>3. Restored(s.rows) = [s.rows EXCEPT !["policies"] = p]
  BY DEF Restored
<1>4. p \in [Keys -> Rows \cup {NoRow}]
  BY <1>1, <1>2, StoreAssumption DEF Contents
<1>5. \A k \in Keys : s.rows["users"][k] # NoRow => p[k] # NoRow
  BY StoreAssumption
<1> HIDE DEF p
<1>6. /\ Restored(s.rows) \in Contents /\ Restored(s.rows)["policies"] = p
      /\ Restored(s.rows)["users"] = s.rows["users"]
  BY <1>1, <1>2, <1>3, <1>4 DEF Contents
<1>7. RestoredSnapshot(s) \in Snapshots /\ RestoredSnapshot(s).rows = Restored(s.rows)
  BY <1>1, <1>6 DEF RestoredSnapshot, Snapshots
<1> QED
  BY <1>5, <1>6, <1>7

\* WholeLoad: once the six queries are done Load has the committed rows.
LEMMA WholeLoad ==
    ASSUME StoreInv, phase = "loading", next > 6
    PROVE  part.rows = disk.rows
<1>1. part.rows \in Contents /\ disk.rows \in Contents
  BY DEF StoreInv, StoreTypeOK, Snapshots
<1>2. next \in 1..7
  BY DEF StoreInv, StoreTypeOK
<1>3. \A t \in Tables : part.rows[t] = disk.rows[t]
  BY <1>2, Orders DEF StoreInv, LoadedSoFar
<1> QED
  BY <1>1, <1>3 DEF Contents

\* WholeSave: once the statements are done the transaction holds the snapshot.
LEMMA WholeSave ==
    ASSUME StoreInv, Saving("postgres"), saving.next > 6
    PROVE  saving.tx.rows = ReadBack("postgres", saving.snap.rows)
<1>1. saving.tx.rows \in Contents /\ saving.next \in 1..8
  BY DEF StoreInv, StoreTypeOK, SaveCalls, Snapshots, Saving
<1>2. \A t \in Tables : saving.tx.rows[t] = Columns(saving.snap.rows[t])
  <2>1. \A i \in 1..6 : i < saving.next
    BY <1>1
  <2>2. \A i \in 1..6 : saving.tx.rows[SaveOrder[i]] = Columns(saving.snap.rows[SaveOrder[i]])
    BY <2>1 DEF StoreInv, SavedSoFar
  <2> QED
    BY <2>2, Orders
<1>3. ReadBack("postgres", saving.snap.rows) = [t \in Tables |-> Columns(saving.snap.rows[t])]
  BY DEF ReadBack, Columns
<1> QED
  BY <1>1, <1>2, <1>3 DEF Contents

--------------------------------------------------------------------------------
(* Steps *)

\* ExitKeeps: the process ends; what is on disk is a snapshot.
LEMMA ExitKeeps ==
    ASSUME StoreInv, Exit, disk' \in Snapshots, tmp' \in Snapshots \cup {Torn}, UNCHANGED <<backend, seed>>
    PROVE  StoreInv'
<1>1. phase' = "down" /\ attached' = FALSE /\ saving' = Idle /\ result' = "none" /\ next' = 1
  BY DEF Exit
<1>2. StoreTypeOK'
  <2>1. attached' \in BOOLEAN
    BY <1>1, Zenon
  <2>2. /\ mem' = EmptySnapshot /\ part' = EmptySnapshot /\ next' = 1 /\ running' = running
    BY DEF Exit
  <2> QED
    BY <1>1, <2>1, <2>2, EmptyTypes DEF StoreInv, StoreTypeOK
<1> QED
  BY <1>1, <1>2 DEF StoreInv, LoadedSoFar, SavedSoFar, TmpWritten, SavesMaps, Saving,
                    SuccessIsDurable, EveryUserHasPolicy

\* ServeKeeps: the service starts with a snapshot.
LEMMA ServeKeeps ==
    ASSUME StoreInv, NEW s \in Snapshots, NEW store \in BOOLEAN, Serve(s, store),
           disk' \in Snapshots, tmp' \in Snapshots \cup {Torn}, UNCHANGED <<backend, seed>>
    PROVE  StoreInv'
<1>1. /\ phase' = "up" /\ attached' = store /\ saving' = Idle /\ result' = "none" /\ next' = 1
      /\ mem' = RestoredSnapshot(s)
  BY DEF Serve
<1>2. StoreTypeOK'
  BY <1>1, EmptyTypes, RestoredTypes DEF StoreInv, StoreTypeOK, Serve
<1>3. EveryUserHasPolicy'
  BY <1>1, RestoredTypes DEF EveryUserHasPolicy
<1> QED
  BY <1>1, <1>2, <1>3 DEF StoreInv, LoadedSoFar, SavedSoFar, TmpWritten, SavesMaps, Saving,
                          SuccessIsDurable

\* SaveCallTypes: a Save call that begins.
LEMMA SaveCallTypes ==
    ASSUME StoreInv, NEW s \in Snapshots
    PROVE  /\ SaveCall(s) \in SaveCalls /\ SaveCall(s) # Idle /\ SaveCall(s).snap = s
           /\ SaveCall(s).next = 1 /\ ~SaveCall(s).upserted
<1>1. disk \in Snapshots
  BY DEF StoreInv, StoreTypeOK
<1>2. SaveCall(s) \in SaveCalls
  BY <1>1 DEF SaveCall, SaveCalls
<1> QED
  BY <1>2, StoreAssumption, Zenon DEF SaveCall

\* CallBegins: a Save call that begins has done nothing yet.
LEMMA CallBegins ==
    ASSUME saving' = Idle \/ (saving'.next = 1 /\ ~saving'.upserted)
    PROVE  SavedSoFar' /\ TmpWritten'
<1>1. CASE saving' = Idle
  BY <1>1 DEF SavedSoFar, TmpWritten, Saving
<1>2. CASE saving'.next = 1 /\ ~saving'.upserted
  <2>1. \A i \in 1..6 : ~(i < 1)
    OBVIOUS
  <2>2. SavedSoFar'
    BY <1>2, <2>1 DEF SavedSoFar
  <2>3. TmpWritten'
    BY <1>2 DEF TmpWritten
  <2> QED
    BY <2>2, <2>3
<1> QED
  BY <1>1, <1>2

\* SaveLockedKeeps: an operation changes the maps and calls Save.
LEMMA SaveLockedKeeps ==
    ASSUME StoreInv, phase = "up", saving = Idle, NEW m \in Snapshots,
           \A k \in Keys : m.rows["users"][k] # NoRow => m.rows["policies"][k] # NoRow,
           SaveLocked(m)
    PROVE  StoreInv'
<1>1. /\ mem' = m /\ saving' = (IF attached THEN SaveCall(m) ELSE Idle)
      /\ result' = (IF attached THEN "none" ELSE "ok")
      /\ UNCHANGED <<backend, seed, disk, tmp, phase, running, attached, part, next>>
  BY DEF SaveLocked
<1>2. StoreTypeOK'
  <2>1. CASE attached
    <3>1. saving' = SaveCall(m) /\ result' = "none" /\ attached'
      BY <1>1, <2>1
    <3> QED
      BY <1>1, <3>1, SaveCallTypes DEF StoreInv, StoreTypeOK
  <2>2. CASE ~attached
    <3>1. saving' = Idle /\ result' = "ok"
      BY <1>1, <2>2
    <3> QED
      BY <1>1, <3>1 DEF StoreInv, StoreTypeOK
  <2> QED
    BY <2>1, <2>2
<1>3. SavedSoFar' /\ TmpWritten' /\ SavesMaps'
  <2>1. saving' = Idle \/ (saving' = SaveCall(m) /\ result' = "none")
    BY <1>1
  <2>2. SavesMaps'
    BY <1>1, <2>1, SaveCallTypes DEF SavesMaps
  <2>3. SavedSoFar' /\ TmpWritten'
    BY <2>1, SaveCallTypes, CallBegins
  <2> QED
    BY <2>2, <2>3
<1>4. LoadedSoFar' /\ SuccessIsDurable' /\ EveryUserHasPolicy'
  BY <1>1 DEF StoreInv, LoadedSoFar, SuccessIsDurable, EveryUserHasPolicy
<1> QED
  BY <1>2, <1>3, <1>4 DEF StoreInv

\* ReturnKeeps: a Save call returns; if it succeeded its snapshot is on disk.
LEMMA ReturnKeeps ==
    ASSUME StoreInv, saving # Idle, NEW ok \in BOOLEAN, Return(ok),
           disk' \in Snapshots, tmp' \in Snapshots \cup {Torn}, UNCHANGED <<backend, seed>>,
           ok => disk'.rows = ReadBack(backend, saving.snap.rows)
    PROVE  StoreInv'
<1>1. saving \in SaveCalls /\ saving.snap \in Snapshots
  BY DEF StoreInv, StoreTypeOK, SaveCalls
<1>2. CASE phase = "seeding"
  BY <1>1, <1>2, ExitKeeps, ServeKeeps, Zenon DEF Return
<1>3. CASE phase # "seeding"
  <2>1. phase = "up" /\ attached
    BY <1>3 DEF StoreInv, StoreTypeOK
  <2>2. /\ saving' = Idle /\ result' = (IF ok THEN "ok" ELSE "error")
        /\ UNCHANGED <<phase, running, attached, mem, part, next>>
    BY <1>3 DEF Return
  <2>3. StoreTypeOK'
    BY <2>2 DEF StoreInv, StoreTypeOK
  <2>4. SuccessIsDurable'
    BY <2>1, <2>2 DEF SuccessIsDurable, StoreInv, SavesMaps
  <2>5. EveryUserHasPolicy'
    BY <2>2 DEF StoreInv, EveryUserHasPolicy
  <2> QED
    BY <2>1, <2>2, <2>3, <2>4, <2>5, Zenon DEF StoreInv, LoadedSoFar, SavedSoFar, TmpWritten, SavesMaps, Saving
<1> QED
  BY <1>2, <1>3

\* StatementKeeps: a statement of Save is carried out.
LEMMA StatementKeeps ==
    ASSUME StoreInv, saving # Idle, NEW c \in SaveCalls, saving' = c, c.snap = saving.snap,
           tmp' \in Snapshots \cup {Torn}, SavedSoFar', TmpWritten',
           UNCHANGED <<backend, seed, disk, phase, running, attached, mem, part, next, result>>
    PROVE  StoreInv'
<1>1. c # Idle
  BY StoreAssumption
<1>2. StoreTypeOK'
  BY DEF StoreInv, StoreTypeOK
<1>3. SavesMaps'
  BY <1>1 DEF StoreInv, SavesMaps
<1>4. LoadedSoFar' /\ SuccessIsDurable' /\ EveryUserHasPolicy'
  BY DEF StoreInv, LoadedSoFar, SuccessIsDurable, EveryUserHasPolicy
<1> QED
  BY <1>2, <1>3, <1>4 DEF StoreInv

\* UpsertKeeps: the rows of the snapshot are in the table.
LEMMA UpsertKeeps == ASSUME StoreInv, Upsert PROVE StoreInv' /\ saving' \in SaveCalls
<1> DEFINE t == SaveOrder[saving.next]
           rows == UpsertedRows(saving.tx.rows[t], saving.snap.rows[t])
           c == [saving EXCEPT !.upserted = TRUE, !.tx.rows[t] = rows]
<1>1. /\ saving \in SaveCalls /\ saving # Idle /\ backend = "postgres" /\ saving.next \in 1..6
      /\ saving' = c
      /\ UNCHANGED <<backend, seed, disk, tmp, phase, running, attached, mem, part, next, result>>
  BY Orders DEF Upsert, Saving, StoreInv, StoreTypeOK, SaveCalls
<1>2. /\ saving.snap.rows \in Contents /\ saving.tx \in Snapshots /\ saving.tx.rows \in Contents
      /\ t \in Tables
  BY <1>1, Orders DEF SaveCalls, Snapshots
<1>3. rows \in [Keys -> Rows \cup {NoRow}]
  <2>1. \A k \in Keys : /\ saving.tx.rows[t][k] \in Rows \cup {NoRow}
                       /\ saving.snap.rows[t][k] \in Rows \cup {NoRow}
    BY <1>2 DEF Contents
  <2>2. \A k \in Keys : saving.snap.rows[t][k] # NoRow => Column[saving.snap.rows[t][k]] \in Rows
    BY <2>1, StoreAssumption
  <2> QED
    BY <2>1, <2>2, Zenon DEF UpsertedRows
<1>4. \A k \in Keys : saving.snap.rows[t][k] # NoRow => rows[k] = Column[saving.snap.rows[t][k]]
  BY DEF UpsertedRows
<1> HIDE DEF rows
<1>5. [saving.tx.rows EXCEPT ![t] = rows] \in Contents
  BY <1>2, <1>3 DEF Contents
<1>6. /\ c \in SaveCalls /\ c.snap = saving.snap /\ c.next = saving.next
      /\ c.tx.rows = [saving.tx.rows EXCEPT ![t] = rows]
  BY <1>1, <1>2, <1>5, Zenon DEF SaveCalls, Snapshots
<1> HIDE DEF c
<1>7. SavedSoFar'
  <2>1. c.tx.rows[t] = rows /\ \A i \in 1..6 : i < c.next => c.tx.rows[SaveOrder[i]] = saving.tx.rows[SaveOrder[i]]
    <3>1. \A i \in 1..6 : i < c.next => SaveOrder[i] \in Tables /\ SaveOrder[i] # t
      BY <1>1, <1>6, Orders
    <3>2. DOMAIN saving.tx.rows = Tables
      BY <1>2 DEF Contents
    <3> HIDE DEF t
    <3> QED
      BY <1>2, <1>6, <3>1, <3>2
  <2>2. \A i \in 1..6 : i < saving.next =>
          saving.tx.rows[SaveOrder[i]] = Columns(saving.snap.rows[SaveOrder[i]])
    BY <1>1 DEF StoreInv, SavedSoFar, Saving
  <2>3. \A i \in 1..6 : i < c.next => c.tx.rows[SaveOrder[i]] = Columns(c.snap.rows[SaveOrder[i]])
    BY <1>6, <2>1, <2>2
  <2>4. \A k \in Keys : c.snap.rows[SaveOrder[c.next]][k] # NoRow =>
          c.tx.rows[SaveOrder[c.next]][k] = Column[c.snap.rows[SaveOrder[c.next]][k]]
    BY <1>4, <1>6, <2>1
  <2>5. c.next \in 1..6
    BY <1>1, <1>6
  <2> QED
    BY <1>1, <2>3, <2>4, <2>5, Zenon DEF SavedSoFar
<1>8. TmpWritten'
  BY <1>1 DEF TmpWritten, Saving
<1> QED
  BY <1>1, <1>6, <1>7, <1>8, StatementKeeps DEF StoreInv, StoreTypeOK

\* DeleteKeeps: rows that the snapshot does not have are out of the table.
LEMMA DeleteKeeps == ASSUME StoreInv, DeleteMissing PROVE StoreInv' /\ saving' \in SaveCalls
<1> DEFINE t == SaveOrder[saving.next]
           rows == RemainingRows(saving.tx.rows[t], saving.snap.rows[t])
           c == [saving EXCEPT !.upserted = FALSE, !.next = @ + 1, !.tx.rows[t] = rows]
<1>1. /\ saving \in SaveCalls /\ saving # Idle /\ backend = "postgres" /\ saving.next \in 1..6
      /\ saving' = c /\ saving.upserted
      /\ UNCHANGED <<backend, seed, disk, tmp, phase, running, attached, mem, part, next, result>>
  BY Orders DEF DeleteMissing, Saving, StoreInv, StoreTypeOK, SaveCalls
<1>2. /\ saving.snap.rows \in Contents /\ saving.tx \in Snapshots /\ saving.tx.rows \in Contents
      /\ t \in Tables
  BY <1>1, Orders DEF SaveCalls, Snapshots
<1>3. rows = Columns(saving.snap.rows[t])
  BY <1>1, <1>2, Zenon DEF RemainingRows, Columns, StoreInv, SavedSoFar, Saving
<1>4. rows \in [Keys -> Rows \cup {NoRow}]
  <2>1. \A k \in Keys : saving.tx.rows[t][k] \in Rows \cup {NoRow}
    BY <1>2 DEF Contents
  <2> QED
    BY <2>1 DEF RemainingRows
<1> HIDE DEF rows
<1>5. [saving.tx.rows EXCEPT ![t] = rows] \in Contents
  BY <1>2, <1>4 DEF Contents
<1>6. /\ c \in SaveCalls /\ c.snap = saving.snap /\ c.next = saving.next + 1
      /\ c.tx.rows = [saving.tx.rows EXCEPT ![t] = rows]
  <2> DEFINE x == [saving.tx EXCEPT !.rows[t] = rows]
             n == saving.next + 1
  <2>1. x \in Snapshots /\ x.rows = [saving.tx.rows EXCEPT ![t] = rows]
    BY <1>2, <1>5 DEF Snapshots
  <2>2. n \in 1..8
    BY <1>1
  <2>3. c = [saving EXCEPT !.upserted = FALSE, !.next = n, !.tx = x]
    BY <1>1 DEF SaveCalls
  <2> HIDE DEF x, n
  <2>4. c \in SaveCalls /\ c.snap = saving.snap /\ c.next = n /\ c.tx = x
    BY <1>1, <2>1, <2>2, <2>3, Zenon DEF SaveCalls
  <2> QED
    BY <2>1, <2>4 DEF n
<1>9. ~c.upserted
  BY <1>1 DEF SaveCalls
<1> HIDE DEF c
<1>7. SavedSoFar'
  <2>1. c.tx.rows[t] = rows /\ \A i \in 1..6 : i < saving.next => c.tx.rows[SaveOrder[i]] = saving.tx.rows[SaveOrder[i]]
    <3>1. \A i \in 1..6 : i < saving.next => SaveOrder[i] \in Tables /\ SaveOrder[i] # t
      BY <1>1, Orders
    <3>2. DOMAIN saving.tx.rows = Tables
      BY <1>2 DEF Contents
    <3> HIDE DEF t
    <3> QED
      BY <1>2, <1>6, <3>1, <3>2
  <2>2. \A i \in 1..6 : i < saving.next =>
          saving.tx.rows[SaveOrder[i]] = Columns(saving.snap.rows[SaveOrder[i]])
    BY <1>1 DEF StoreInv, SavedSoFar, Saving
  <2>3. \A i \in 1..6 : i < c.next => i < saving.next \/ i = saving.next
    BY <1>1, <1>6
  <2>4. \A i \in 1..6 : i < c.next => c.tx.rows[SaveOrder[i]] = Columns(c.snap.rows[SaveOrder[i]])
    BY <1>3, <1>6, <2>1, <2>2, <2>3
  <2> QED
    BY <1>1, <1>9, <2>4, Zenon DEF SavedSoFar
<1>8. TmpWritten'
  BY <1>1 DEF TmpWritten, Saving
<1> QED
  BY <1>1, <1>6, <1>7, <1>8, StatementKeeps DEF StoreInv, StoreTypeOK

\* SequenceKeeps: the counter is saved last.
LEMMA SequenceKeeps == ASSUME StoreInv, SaveSequence PROVE StoreInv' /\ saving' \in SaveCalls
<1> DEFINE c == [saving EXCEPT !.next = @ + 1, !.tx.seq = saving.snap.seq]
<1>1. /\ saving \in SaveCalls /\ saving # Idle /\ backend = "postgres" /\ saving.next = 7
      /\ saving' = c
      /\ UNCHANGED <<backend, seed, disk, tmp, phase, running, attached, mem, part, next, result>>
  BY Orders DEF SaveSequence, Saving, StoreInv, StoreTypeOK
<1>2. saving.snap \in Snapshots /\ saving.tx \in Snapshots
  BY <1>1 DEF SaveCalls
<1>3. /\ c \in SaveCalls /\ c.snap = saving.snap /\ c.next = 8 /\ c.tx.rows = saving.tx.rows
  <2> DEFINE y == [saving EXCEPT !.next = @ + 1]
  <2>1. saving.next + 1 = 8
    BY <1>1
  <2>2. y \in SaveCalls /\ y.snap = saving.snap /\ y.tx = saving.tx /\ y.next = 8
    BY <1>1, <2>1 DEF SaveCalls
  <2>3. c = [y EXCEPT !.tx.seq = saving.snap.seq]
    OBVIOUS
  <2> HIDE DEF y, c
  <2>4. [y.tx EXCEPT !.seq = saving.snap.seq] \in Snapshots
        /\ [y.tx EXCEPT !.seq = saving.snap.seq].rows = saving.tx.rows
    BY <1>2, <2>2 DEF Snapshots
  <2> QED
    BY <2>2, <2>3, <2>4, Zenon DEF SaveCalls
<1>6. ~saving.upserted
  BY <1>1 DEF StoreInv, SavedSoFar, Saving
<1>7. ~c.upserted
  BY <1>1, <1>6 DEF SaveCalls
<1> HIDE DEF c
<1>4. SavedSoFar'
  <2>1. \A i \in 1..6 : i < 7 /\ i < 8
    OBVIOUS
  <2>2. \A i \in 1..6 : saving.tx.rows[SaveOrder[i]] = Columns(saving.snap.rows[SaveOrder[i]])
    BY <1>1, <2>1, Zenon DEF StoreInv, SavedSoFar, Saving
  <2>3. \A i \in 1..6 : c.tx.rows[SaveOrder[i]] = Columns(c.snap.rows[SaveOrder[i]])
    BY <1>3, <2>2
  <2> QED
    BY <1>1, <1>7, <2>3, Zenon DEF SavedSoFar
<1>5. TmpWritten'
  BY <1>1 DEF TmpWritten, Saving
<1> QED
  BY <1>1, <1>3, <1>4, <1>5, StatementKeeps DEF StoreInv, StoreTypeOK

\* LoadKeeps: a query of Load reads one table as it is committed.
LEMMA LoadKeeps == ASSUME StoreInv, LoadTable PROVE StoreInv'
<1> DEFINE t == LoadOrder[next]
           p == [part EXCEPT !.rows[t] = disk.rows[t]]
<1>1. /\ phase = "loading" /\ next \in 1..6 /\ part' = p /\ next' = next + 1
      /\ UNCHANGED <<backend, seed, disk, tmp, phase, running, attached, mem, saving, result>>
  BY Orders DEF LoadTable, StoreInv, StoreTypeOK
<1>2. part \in Snapshots /\ part.rows \in Contents /\ disk.rows \in Contents /\ t \in Tables
  BY <1>1, Orders DEF StoreInv, StoreTypeOK, Snapshots
<1>3. [part.rows EXCEPT ![t] = disk.rows[t]] \in Contents
  BY <1>2 DEF Contents
<1>4. p \in Snapshots /\ p.rows = [part.rows EXCEPT ![t] = disk.rows[t]]
  BY <1>2, <1>3 DEF Snapshots
<1> HIDE DEF p
<1>5. \A u \in Tables : p.rows[u] = part.rows[u] \/ p.rows[u] = disk.rows[u]
  BY <1>2, <1>4 DEF Contents
<1>6. p.rows[t] = disk.rows[t]
  BY <1>2, <1>4 DEF Contents
<1>7. \A i \in 1..6 : i < next => part.rows[LoadOrder[i]] = disk.rows[LoadOrder[i]]
  BY <1>1 DEF StoreInv, LoadedSoFar
<1>8. \A i \in 1..6 : i < next' => i < next \/ i = next
  BY <1>1
<1>9. LoadedSoFar'
  <2>1. \A i \in 1..6 : i < next' => p.rows[LoadOrder[i]] = disk.rows[LoadOrder[i]]
    BY <1>5, <1>6, <1>7, <1>8, Orders
  <2> QED
    BY <1>1, <2>1 DEF LoadedSoFar
<1>10. StoreTypeOK'
  <2>1. next' \in 1..7
    BY <1>1
  <2> QED
    BY <1>1, <1>4, <2>1 DEF StoreInv, StoreTypeOK
<1>11. SavedSoFar' /\ TmpWritten' /\ SavesMaps' /\ SuccessIsDurable' /\ EveryUserHasPolicy'
  <2>1. saving = Idle
    BY <1>1 DEF StoreInv, StoreTypeOK
  <2> QED
    BY <1>1, <2>1 DEF StoreInv, SavedSoFar, TmpWritten, SavesMaps, SuccessIsDurable,
                      EveryUserHasPolicy, Saving
<1> QED
  BY <1>9, <1>10, <1>11 DEF StoreInv

\* StartKeeps: the service begins to load.
LEMMA StartKeeps == ASSUME StoreInv, build \in Builds, StartPostgres PROVE StoreInv'
<1>1. /\ phase = "down" /\ backend = "postgres" /\ phase' = "loading" /\ running' = build
      /\ UNCHANGED <<backend, seed, disk, tmp, attached, mem, part, next, saving, result>>
  BY DEF StartPostgres
<1>2. saving = Idle /\ next = 1
  BY <1>1 DEF StoreInv, StoreTypeOK, LoadedSoFar
<1>3. StoreTypeOK'
  BY <1>1, <1>2 DEF StoreInv, StoreTypeOK
<1>4. LoadedSoFar'
  BY <1>1, <1>2 DEF LoadedSoFar
<1>5. SavedSoFar' /\ TmpWritten' /\ SavesMaps' /\ SuccessIsDurable' /\ EveryUserHasPolicy'
  BY <1>1, <1>2 DEF StoreInv, SavedSoFar, TmpWritten, SavesMaps, SuccessIsDurable,
                    EveryUserHasPolicy, Saving
<1> QED
  BY <1>3, <1>4, <1>5 DEF StoreInv

\* LoadEndKeeps: the service serves what it has loaded, or imports the seed.
LEMMA LoadEndKeeps ==
    ASSUME StoreInv, NEW seq \in {disk.seq, 0}, LoadSequence(seq)
    PROVE  StoreInv'
<1> DEFINE s == [part EXCEPT !.seq = seq]
<1>1. /\ phase = "loading" /\ part \in Snapshots /\ disk \in Snapshots /\ tmp \in Snapshots \cup {Torn}
      /\ disk.seq \in 0..MaxKey /\ 0 \in 0..MaxKey
      /\ UNCHANGED <<backend, seed, disk, tmp>>
  BY StoreAssumption DEF LoadSequence, StoreInv, StoreTypeOK, Snapshots
<1>2. s \in Snapshots
  BY <1>1 DEF Snapshots
<1>3. ASSUME Serve(s, TRUE) PROVE StoreInv'
  <2> HIDE DEF s
  <2> QED
    BY <1>1, <1>2, <1>3, ServeKeeps, Zenon
<1>4. ASSUME Exit PROVE StoreInv'
  BY <1>1, <1>4, ExitKeeps
<1>5. ASSUME seed \in Importable, phase' = "seeding", saving' = SaveCall(seed),
             part' = EmptySnapshot, next' = 1, UNCHANGED <<running, attached, mem, result>>
      PROVE  StoreInv'
  <2>1. seed \in Snapshots
    BY <1>5, StoreAssumption DEF Importable
  <2>2. backend = "postgres" /\ ~attached /\ result = "none"
    BY <1>1 DEF StoreInv, StoreTypeOK, SavesMaps
  <2>3. StoreTypeOK'
    <3>1. saving' \in SaveCalls /\ part' \in Snapshots /\ next' \in 1..7
      BY <1>5, <2>1, EmptyTypes, SaveCallTypes
    <3>2. /\ backend' \in Backends /\ seed' \in Seeds \cup {NoSeed, BadSeed}
          /\ disk' \in Snapshots /\ tmp' \in Snapshots \cup {Torn}
          /\ running' \in Builds /\ attached' \in BOOLEAN /\ mem' \in Snapshots
          /\ result' \in {"none", "ok", "error"}
      BY <1>1, <1>5 DEF StoreInv, StoreTypeOK
    <3> QED
      BY <1>1, <1>5, <2>2, <3>1, <3>2 DEF StoreTypeOK
  <2>4. SavedSoFar' /\ TmpWritten' /\ SavesMaps'
    <3>1. ~attached' /\ result' = "none" /\ saving' # Idle
      BY <1>5, <2>1, <2>2, SaveCallTypes
    <3>2. SavesMaps'
      BY <1>5, <3>1 DEF SavesMaps
    <3> QED
      BY <1>5, <2>1, <3>2, SaveCallTypes, CallBegins
  <2>5. LoadedSoFar' /\ SuccessIsDurable' /\ EveryUserHasPolicy'
    BY <1>5 DEF LoadedSoFar, SuccessIsDurable, EveryUserHasPolicy
  <2> QED
    BY <2>3, <2>4, <2>5 DEF StoreInv
<1> QED
  BY <1>3, <1>4, <1>5, Zenon DEF LoadSequence

\* JSONKeeps: the service starts on the file, or without a store.
LEMMA JSONKeeps == ASSUME StoreInv, NEW ok \in BOOLEAN, StartJSON(ok) PROVE StoreInv'
<1>1. disk \in Snapshots /\ tmp \in Snapshots \cup {Torn} /\ UNCHANGED <<backend, seed, disk, tmp>>
  BY DEF StartJSON, StoreInv, StoreTypeOK
<1>2. Serve(disk, TRUE) \/ Serve(EmptySnapshot, FALSE)
  BY Zenon DEF StartJSON
<1> QED
  BY <1>1, <1>2, EmptyTypes, ServeKeeps, Zenon

\* CreateKeeps: a user is created.
LEMMA CreateKeeps ==
    ASSUME StoreInv, CreateUser
    PROVE  StoreInv' /\ \A k \in Keys : mem.rows["users"][k] # NoRow =>
                           mem'.rows["users"][k] = mem.rows["users"][k]
<1> DEFINE id == NextUserId(mem)
           r == [mem.rows EXCEPT !["users"][id] = NewUser, !["policies"][id] = BasicPolicy]
           m == [rows |-> r, seq |-> id]
<1>1. phase = "up" /\ saving = Idle /\ mem \in Snapshots /\ mem.rows \in Contents
      /\ \E k \in Keys : k > mem.seq /\ mem.rows["users"][k] = NoRow
  BY DEF CreateUser, StoreInv, StoreTypeOK, Snapshots
<1>2. id \in Keys /\ mem.rows["users"][id] = NoRow
  BY <1>1, NextUserIdFree
<1>3. SaveLocked(m)
  BY DEF CreateUser
<1>4. "users" \in Tables /\ "policies" \in Tables
  BY DEF Tables
<1>5. NewUser \in Rows /\ BasicPolicy \in Rows /\ NoRow \notin Rows /\ id \in 0..MaxKey
  BY <1>2, StoreAssumption DEF Keys
<1> HIDE DEF id
<1>6. r \in Contents
  BY <1>1, <1>2, <1>4, <1>5 DEF Contents
<1>7. /\ r["users"][id] = NewUser /\ r["policies"][id] = BasicPolicy
      /\ \A k \in Keys \ {id} : /\ r["users"][k] = mem.rows["users"][k]
                                /\ r["policies"][k] = mem.rows["policies"][k]
  BY <1>1, <1>2, <1>4 DEF Contents
<1> HIDE DEF r
<1>8. m \in Snapshots /\ m.rows = r
  BY <1>5, <1>6 DEF Snapshots
<1>9. \A k \in Keys : r["users"][k] # NoRow => r["policies"][k] # NoRow
  BY <1>1, <1>5, <1>7 DEF StoreInv, EveryUserHasPolicy
<1> HIDE DEF m
<1>10. StoreInv'
  BY <1>1, <1>3, <1>8, <1>9, SaveLockedKeeps
<1> QED
  BY <1>2, <1>3, <1>7, <1>8, <1>10 DEF SaveLocked

\* OperateKeeps: another operation leaves users and policies alone.
LEMMA OperateKeeps ==
    ASSUME StoreInv, NEW op \in Operations, Operate(op)
    PROVE  StoreInv' /\ mem'.rows["users"] = mem.rows["users"]
<1> DEFINE r == Applied(mem.rows, op)
           m == [mem EXCEPT !.rows = r]
<1>1. phase = "up" /\ saving = Idle /\ mem \in Snapshots /\ mem.rows \in Contents
  BY DEF Operate, StoreInv, StoreTypeOK, Snapshots
<1>2. SaveLocked(m)
  BY DEF Operate
<1>3. PICK D \in SUBSET ((Tables \ {"users", "policies"}) \X Keys) : op \in [D -> Rows \cup {NoRow}]
  <2>1. Operations \subseteq UNION {[D -> Rows \cup {NoRow}] :
                             D \in SUBSET ((Tables \ {"users", "policies"}) \X Keys)}
    BY StoreAssumption
  <2> QED
    BY <2>1
<1>4. r \in Contents
  BY <1>1, <1>3 DEF Applied, Contents
<1>5. \A k \in Keys : <<"users", k>> \notin DOMAIN op /\ <<"policies", k>> \notin DOMAIN op
  BY <1>3
<1>6. "users" \in Tables /\ "policies" \in Tables
  BY DEF Tables
<1>7. r["users"] = mem.rows["users"] /\ r["policies"] = mem.rows["policies"]
  BY <1>1, <1>5, <1>6, Zenon DEF Applied, Contents
<1> HIDE DEF r
<1>8. m \in Snapshots /\ m.rows = r
  BY <1>1, <1>4 DEF Snapshots
<1>9. \A k \in Keys : r["users"][k] # NoRow => r["policies"][k] # NoRow
  BY <1>1, <1>7 DEF StoreInv, EveryUserHasPolicy
<1> HIDE DEF m
<1>10. StoreInv'
  BY <1>1, <1>2, <1>8, <1>9, SaveLockedKeeps
<1> QED
  BY <1>2, <1>7, <1>8, <1>10 DEF SaveLocked

\* SaveEndKeeps: a Save call ends with a commit, a rename or a failure, or is cut off.
LEMMA SaveEndKeeps ==
    ASSUME StoreInv,
           \/ \E ok \in BOOLEAN : Commit(ok) \/ WriteTmp(ok)
           \/ SaveFails \/ Rename \/ Crash \/ LoadFails
    PROVE  StoreInv'
<1>0. /\ disk \in Snapshots /\ tmp \in Snapshots \cup {Torn} /\ saving \in SaveCalls \cup {Idle}
      /\ saving # Idle => saving.snap \in Snapshots /\ saving.tx \in Snapshots
  BY DEF StoreInv, StoreTypeOK, SaveCalls
<1>1. ASSUME NEW ok \in BOOLEAN, Commit(ok) PROVE StoreInv'
  <2>1. /\ saving # Idle /\ backend = "postgres" /\ saving.next > 6 /\ Saving("postgres")
        /\ disk' = saving.tx /\ Return(ok) /\ UNCHANGED <<backend, seed, tmp>>
    BY <1>1, Orders DEF Commit, Saving
  <2>2. disk'.rows = ReadBack(backend, saving.snap.rows)
    BY <2>1, WholeSave
  <2> QED
    BY <1>0, <1>1, <2>1, <2>2, ReturnKeeps
<1>2. ASSUME NEW ok \in BOOLEAN, WriteTmp(ok) PROVE StoreInv'
  <2>1. /\ saving # Idle /\ backend = "json" /\ saving.next = 1
        /\ UNCHANGED <<backend, seed, disk>>
        /\ tmp' = IF ok THEN saving.snap ELSE Torn
    BY <1>2 DEF WriteTmp, Saving
  <2>2. CASE ok
    <3> DEFINE c == [saving EXCEPT !.next = 2]
    <3>1. saving' = c /\ tmp' = saving.snap
          /\ UNCHANGED <<phase, running, attached, mem, part, next, result>>
      BY <1>2, <2>1, <2>2 DEF WriteTmp
    <3>2. c \in SaveCalls /\ c.snap = saving.snap /\ c.next = 2
      BY <1>0, <2>1 DEF SaveCalls
    <3> HIDE DEF c
    <3>3. SavedSoFar' /\ TmpWritten'
      BY <2>1, <3>1, <3>2 DEF SavedSoFar, TmpWritten, Saving
    <3> QED
      BY <1>0, <2>1, <3>1, <3>2, <3>3, StatementKeeps
  <2>3. CASE ~ok
    <3>1. Return(FALSE) /\ tmp' = Torn
      BY <1>2, <2>1, <2>3, Zenon DEF WriteTmp
    <3> QED
      BY <1>0, <2>1, <3>1, ReturnKeeps, Zenon
  <2> QED
    BY <2>2, <2>3
<1>3. ASSUME SaveFails PROVE StoreInv'
  BY <1>0, <1>3, ReturnKeeps, Zenon DEF SaveFails
<1>4. ASSUME Rename PROVE StoreInv'
  <2>1. /\ saving # Idle /\ backend = "json" /\ Saving("json") /\ saving.next = 2 /\ disk' = tmp
        /\ tmp' = EmptySnapshot /\ Return(TRUE) /\ UNCHANGED <<backend, seed>>
    BY <1>4, Zenon DEF Rename, Saving
  <2>2. tmp = saving.snap
    BY <2>1 DEF StoreInv, TmpWritten
  <2>3. disk'.rows = ReadBack(backend, saving.snap.rows)
    BY <2>1, <2>2 DEF ReadBack
  <2> QED
    BY <1>0, <2>1, <2>2, <2>3, EmptyTypes, ReturnKeeps, Zenon
<1>5. ASSUME Crash PROVE StoreInv'
  <2>1. disk' \in Snapshots
    BY <1>0, <1>5 DEF Crash, Saving
  <2> QED
    BY <1>0, <1>5, <2>1, ExitKeeps DEF Crash
<1>6. ASSUME LoadFails PROVE StoreInv'
  BY <1>0, <1>6, ExitKeeps DEF LoadFails
<1> QED
  BY <1>1, <1>2, <1>3, <1>4, <1>5, <1>6

--------------------------------------------------------------------------------
(* Migrations *)

\* Versions are recorded from the first on, without gaps.
Gapless(rows) == \A v, w \in Versions : v <= w /\ rows[w] # NoSum => rows[v] # NoSum

\* The transaction of a migrate command has recorded the versions before the next one,
\* and loses none.
SchemaInv ==
    /\ build \in Builds
    /\ schema \in [Versions -> Sums \cup {NoSum}] /\ Gapless(schema)
    /\ migrating # NoTx =>
          /\ migrating \in [next : Nat \ {0}, rows : [Versions -> Sums \cup {NoSum}]]
          /\ Gapless(migrating.rows)
          /\ \A v \in Versions : v < migrating.next => migrating.rows[v] # NoSum
          /\ \A v \in Versions : schema[v] # NoSum => migrating.rows[v] # NoSum

\* LatestIsGreatest: a binary's newest control migration.
LEMMA LatestIsGreatest ==
    ASSUME NEW b \in Builds
    PROVE  /\ LatestMigrationVersion(b) \in Control
           /\ \A v \in Control : v <= b.known => v <= LatestMigrationVersion(b)
<1> DEFINE S == {v \in Control : v <= b.known}
<1>1. MaxVersion \in Nat /\ S \subseteq 1..MaxVersion /\ S # {}
  BY SchemaAssumption, Zenon DEF Versions
<1>2. PICK v \in S : \A w \in S : w <= v
  BY <1>1, Greatest, Zenon
<1>3. v \in Control /\ v <= b.known /\ \A w \in Control : w <= b.known => w <= v
  BY <1>2
<1> QED
  BY <1>3 DEF LatestMigrationVersion

\* RequiredIsEnough: a schema without gaps that has the newest control migration of a
\* binary has all of them.
LEMMA RequiredIsEnough ==
    ASSUME SchemaInv, NEW b \in Builds, RequireMigration(b)
    PROVE  \A v \in Control : v <= b.known => schema[v] # NoSum
BY LatestIsGreatest, SchemaAssumption DEF SchemaInv, RequireMigration, Gapless

\* MigrateKeeps: migrations keep the schema without gaps and take nothing out of it.
LEMMA MigrateKeeps ==
    ASSUME SchemaInv, SchemaNext
    PROVE  SchemaInv' /\ \A v \in Versions : schema[v] # NoSum => schema'[v] # NoSum
<1>0. \A b \in Builds : b.known \in Versions /\ b.sum \in [Versions -> Sums]
  BY SchemaAssumption
<1>1. ASSUME NEW b \in Builds, Deploy(b)
      PROVE  SchemaInv' /\ \A v \in Versions : schema[v] # NoSum => schema'[v] # NoSum
  BY <1>1 DEF Deploy, SchemaInv
<1>2. CASE BeginMigrations
  <2> DEFINE x == [next |-> 1, rows |-> schema]
  <2>1. migrating' = x /\ build' = build /\ schema' = schema
    BY <1>2 DEF BeginMigrations
  <2>2. x \in [next : Nat \ {0}, rows : [Versions -> Sums \cup {NoSum}]] /\ x.next = 1 /\ x.rows = schema
    BY DEF SchemaInv
  <2> HIDE DEF x
  <2>3. \A v \in Versions : ~(v < 1)
    BY DEF Versions
  <2> QED
    BY <2>1, <2>2, <2>3 DEF SchemaInv
<1>3. CASE ApplyMigration
  <2> DEFINE v == migrating.next
             x == [next |-> v + 1, rows |-> [migrating.rows EXCEPT ![v] = build.sum[v]]]
  <2>1. /\ migrating # NoTx /\ v <= build.known /\ build' = build /\ schema' = schema
        /\ migrating' = NoTx \/ migrating' = x
    BY <1>3 DEF ApplyMigration
  <2>2. migrating.rows \in [Versions -> Sums \cup {NoSum}] /\ v \in Nat \ {0}
    BY <2>1 DEF SchemaInv
  <2>3. v \in Versions /\ build.sum[v] \in Sums /\ build.sum[v] # NoSum
    <3>1. build \in Builds
      BY DEF SchemaInv
    <3>2. v \in Versions
      BY <1>0, <2>1, <2>2, <3>1, SchemaAssumption DEF Versions
    <3> QED
      BY <1>0, <3>1, <3>2, SchemaAssumption
  <2> DEFINE r == [migrating.rows EXCEPT ![v] = build.sum[v]]
  <2>4. /\ r \in [Versions -> Sums \cup {NoSum}] /\ r[v] # NoSum
        /\ \A w \in Versions \ {v} : r[w] = migrating.rows[w]
    BY <2>2, <2>3
  <2>5. x = [next |-> v + 1, rows |-> r]
    OBVIOUS
  <2> HIDE DEF r, x
  <2>6. x \in [next : Nat \ {0}, rows : [Versions -> Sums \cup {NoSum}]] /\ x.next = v + 1 /\ x.rows = r
    BY <2>2, <2>4, <2>5
  <2>7. \A w \in Versions : w < v + 1 => r[w] # NoSum
    <3>1. \A w \in Versions : w < v + 1 => w < v \/ w = v
      BY <2>2 DEF Versions
    <3> QED
      BY <2>1, <2>4, <3>1 DEF SchemaInv
  <2>8. Gapless(r)
    <3>1. ASSUME NEW u \in Versions, NEW w \in Versions, u <= w, r[w] # NoSum
          PROVE  r[u] # NoSum
      <4>1. CASE w = v
        <5>1. u < v \/ u = v
          BY <2>2, <3>1, <4>1 DEF Versions
        <5> QED
          BY <2>1, <2>4, <5>1 DEF SchemaInv
      <4>2. CASE w # v
        BY <2>1, <2>4, <3>1, <4>2 DEF SchemaInv, Gapless
      <4> QED
        BY <4>1, <4>2
    <3> QED
      BY <3>1 DEF Gapless
  <2>9. \A w \in Versions : schema[w] # NoSum => r[w] # NoSum
    BY <2>1, <2>4 DEF SchemaInv
  <2>10. migrating' # NoTx => migrating' = x
    BY <2>1
  <2> QED
    BY <2>1, <2>6, <2>7, <2>8, <2>9, <2>10 DEF SchemaInv
<1>4. CASE CommitMigrations \/ RollbackMigrations
  BY <1>4 DEF CommitMigrations, RollbackMigrations, SchemaInv
<1> QED
  BY <1>1, <1>2, <1>3, <1>4 DEF SchemaNext

--------------------------------------------------------------------------------
(* Theorems *)

UserStoreInv == StoreInv /\ SchemaInv /\ ServedSchema

\* UserStoreInitInv: the invariant holds initially.
LEMMA UserStoreInitInv == StoreInit => UserStoreInv
<1> SUFFICES ASSUME StoreInit PROVE UserStoreInv
  OBVIOUS
<1>1. /\ phase = "down" /\ attached = FALSE /\ saving = Idle /\ result = "none" /\ next = 1
      /\ build \in Builds /\ running = build /\ migrating = NoTx
      /\ schema = [v \in Versions |-> NoSum]
  BY DEF StoreInit, SchemaInit
<1>2. attached \in BOOLEAN
  BY <1>1, Zenon
<1>3. StoreTypeOK
  BY <1>1, <1>2, EmptyTypes DEF StoreInit, StoreTypeOK
<1>4. StoreInv
  BY <1>1, <1>3 DEF StoreInv, LoadedSoFar, SavedSoFar, TmpWritten, SavesMaps, Saving,
                    SuccessIsDurable, EveryUserHasPolicy
<1>5. SchemaInv
  BY <1>1 DEF SchemaInv, Gapless
<1>6. ServedSchema
  BY <1>1 DEF ServedSchema
<1> QED
  BY <1>4, <1>5, <1>6 DEF UserStoreInv

\* StoreStepInv: the steps of the service.
LEMMA StoreStepInv ==
    ASSUME StoreInv, build \in Builds, StoreStep
    PROVE  StoreInv'
BY UpsertKeeps, DeleteKeeps, SequenceKeeps, LoadKeeps, StartKeeps, LoadEndKeeps, JSONKeeps,
   CreateKeeps, OperateKeeps, SaveEndKeeps, Zenon
   DEF StoreStep

\* StartsOnce: only StartPostgres makes the service run on another binary.
LEMMA StartsOnce ==
    ASSUME StoreInv, StoreStep, backend' = "postgres", phase' # "down"
    PROVE  /\ backend = "postgres"
           /\ StartPostgres \/ (phase # "down" /\ running' = running)
<1>1. saving # Idle => phase # "down"
  BY DEF StoreInv, StoreTypeOK
<1> QED
  BY <1>1, Zenon DEF StoreStep, StartPostgres, LoadTable, LoadFails, LoadSequence, StartJSON, Commit, WriteTmp,
         CreateUser, Operate, SaveLocked, Upsert, DeleteMissing, SaveSequence, SaveFails, Rename,
         Crash, Return, Serve, Exit, Saving

\* UserStoreNextInv: the invariant is inductive.
LEMMA UserStoreNextInv == UserStoreInv /\ [StoreNext]_userStoreVars => UserStoreInv'
<1> SUFFICES ASSUME UserStoreInv, [StoreNext]_userStoreVars PROVE UserStoreInv'
  OBVIOUS
<1>0. StoreInv /\ SchemaInv /\ ServedSchema /\ build \in Builds
  BY DEF UserStoreInv, SchemaInv
<1>1. ASSUME StoreStep, UNCHANGED schemaVars PROVE UserStoreInv'
  <2>1. StoreInv'
    BY <1>0, <1>1, StoreStepInv
  <2>2. SchemaInv' /\ schema' = schema
    BY <1>0, <1>1 DEF SchemaInv, schemaVars
  <2>3. ServedSchema'
    <3>1. ASSUME backend' = "postgres", phase' # "down"
          PROVE  \A v \in Control : v <= running'.known => schema'[v] # NoSum
      <4>1. CASE StartPostgres
        BY <1>0, <2>2, <4>1, RequiredIsEnough DEF StartPostgres
      <4>2. CASE backend = "postgres" /\ phase # "down" /\ running' = running
        BY <1>0, <2>2, <4>2 DEF ServedSchema
      <4> QED
        BY <1>0, <1>1, <3>1, <4>1, <4>2, StartsOnce
    <3> QED
      BY <3>1 DEF ServedSchema
  <2> QED
    BY <2>1, <2>2, <2>3 DEF UserStoreInv
<1>2. ASSUME UNCHANGED storeVars, SchemaInv',
             \A v \in Versions : schema[v] # NoSum => schema'[v] # NoSum
      PROVE  UserStoreInv'
  <2>1. UNCHANGED <<backend, seed, disk, tmp, phase, running, attached, mem, part, next, saving, result>>
    BY <1>2 DEF storeVars, processVars
  <2>2. StoreTypeOK'
    BY <1>0, <2>1 DEF StoreInv, StoreTypeOK
  <2>3. LoadedSoFar' /\ SavedSoFar' /\ TmpWritten' /\ SavesMaps' /\ SuccessIsDurable' /\ EveryUserHasPolicy'
    BY <1>0, <2>1, Zenon DEF StoreInv, LoadedSoFar, SavedSoFar, TmpWritten, SavesMaps, SuccessIsDurable,
                      EveryUserHasPolicy, Saving
  <2>4. ServedSchema'
    BY <1>0, <1>2, <2>1, SchemaAssumption, Zenon DEF ServedSchema
  <2> QED
    BY <1>2, <2>2, <2>3, <2>4 DEF UserStoreInv, StoreInv
<1>3. ASSUME SchemaNext, UNCHANGED storeVars PROVE UserStoreInv'
  BY <1>0, <1>2, <1>3, MigrateKeeps
<1>4. ASSUME UNCHANGED userStoreVars PROVE UserStoreInv'
  <2>1. UNCHANGED storeVars /\ UNCHANGED <<build, schema, migrating>>
    BY <1>4 DEF userStoreVars, schemaVars
  <2>2. SchemaInv'
    BY <1>0, <2>1 DEF SchemaInv
  <2> QED
    BY <1>2, <2>1, <2>2
<1> QED
  BY <1>1, <1>3, <1>4 DEF StoreNext

\* UserStoreInvariant: the inductive invariant holds of every behaviour.
THEOREM UserStoreInvariant == StoreSpec => []UserStoreInv
BY UserStoreInitInv, UserStoreNextInv, PTL DEF StoreSpec

\* StoreTypeCorrect: the state always has its type.
THEOREM StoreTypeCorrect == StoreSpec => []StoreTypeOK
<1>1. UserStoreInv => StoreTypeOK
  BY DEF UserStoreInv, StoreInv
<1> QED
  BY <1>1, UserStoreInvariant, PTL

\* SuccessDurable: what an operation of UserManager reported as saved is on disk, in
\* all its tables (PostgresUMStore.Save, JSONUMStore.Save).
THEOREM SuccessDurable == StoreSpec => []SuccessIsDurable
<1>1. UserStoreInv => SuccessIsDurable
  BY DEF UserStoreInv, StoreInv
<1> QED
  BY <1>1, UserStoreInvariant, PTL

\* UsersHavePolicies: the service serves no user without a policy (restore, CreateUser).
THEOREM UsersHavePolicies == StoreSpec => []EveryUserHasPolicy
<1>1. UserStoreInv => EveryUserHasPolicy
  BY DEF UserStoreInv, StoreInv
<1> QED
  BY <1>1, UserStoreInvariant, PTL

\* SchemaComplete: the check of the newest control migration at start is enough for
\* every control migration of the binary that runs (RequireMigration, ApplyMigrations).
THEOREM SchemaComplete == StoreSpec => []ServedSchema
<1>1. UserStoreInv => ServedSchema
  BY DEF UserStoreInv
<1> QED
  BY <1>1, UserStoreInvariant, PTL

\* UsersStay: no user is lost or overwritten while the service runs (CreateUser).
THEOREM UsersStay == StoreSpec => UsersKept
<1>1. ASSUME StoreInv, StoreStep, phase = "up", phase' = "up"
      PROVE  \A k \in Keys : mem.rows["users"][k] # NoRow =>
                mem'.rows["users"][k] = mem.rows["users"][k]
  <2>1. mem' = mem \/ CreateUser \/ \E op \in Operations : Operate(op)
    BY <1>1 DEF StoreStep, StartPostgres, LoadTable, LoadFails, LoadSequence, StartJSON, Commit,
                WriteTmp, Upsert, DeleteMissing, SaveSequence, SaveFails, Rename, Crash, Return, Exit
  <2> QED
    BY <1>1, <2>1, CreateKeeps, OperateKeeps
<1>2. ASSUME UserStoreInv, [StoreNext]_userStoreVars
      PROVE  [phase = "up" /\ phase' = "up" =>
                \A k \in Keys : mem.rows["users"][k] # NoRow =>
                    mem'.rows["users"][k] = mem.rows["users"][k]]_userStoreVars
  BY <1>1, <1>2 DEF UserStoreInv, StoreNext, storeVars, processVars
<1> QED
  BY <1>2, UserStoreInvariant, PTL DEF StoreSpec, UsersKept

--------------------------------------------------------------------------------
(* Refinement *)

\* AbstractStart: an initial state is one of SnapshotStore.
LEMMA AbstractStart == StoreInit => Store!AbstractInit
BY DEF StoreInit, Store!AbstractInit, EmptySnapshot

\* The variables of SnapshotStore.
absSeed == IF seed \in Seeds THEN seed.rows ELSE seed
absMem == IF phase = "up" /\ attached THEN mem.rows ELSE Down
absSaving == IF saving = Idle THEN Idle ELSE saving.snap.rows
absResult == IF attached THEN result ELSE "none"

AbstractStep == Store!AbstractNext \/ UNCHANGED Store!abstractVars

\* AbstractTypes: the maps and the snapshot that is saved are rows, not Down or Idle.
LEMMA AbstractTypes ==
    ASSUME StoreInv
    PROVE  /\ phase = "up" /\ attached => absMem = mem.rows /\ absMem # Down
           /\ phase # "up" \/ ~attached => absMem = Down
           /\ saving # Idle => absSaving = saving.snap.rows /\ absSaving # Idle
           /\ saving = Idle => absSaving = Idle
<1>1. mem.rows \in Contents /\ (saving # Idle => saving.snap.rows \in Contents)
  BY DEF StoreInv, StoreTypeOK, SaveCalls, Snapshots
<1> QED
  BY <1>1, StoreAssumption DEF absMem, absSaving

\* StopRefines: the process ends, and a Save call is done or not.
LEMMA StopRefines ==
    ASSUME StoreInv, Exit, UNCHANGED <<backend, seed>>,
           \/ disk'.rows = disk.rows
           \/ saving # Idle /\ disk'.rows = ReadBack(backend, saving.snap.rows)
    PROVE  AbstractStep
<1>1. phase' = "down" /\ ~attached' /\ saving' = Idle
  BY DEF Exit
<1>2. absMem' = Down /\ absSaving' = Idle /\ absResult' = "none" /\ absSeed' = absSeed
  BY <1>1 DEF absMem, absSaving, absResult, absSeed
<1>3. \/ disk'.rows = disk.rows
      \/ absSaving # Idle /\ disk'.rows = ReadBack(backend, absSaving)
  BY AbstractTypes
<1>4. Store!Stop
  BY <1>2, <1>3 DEF Store!Stop, absMem, absSaving, absResult, absSeed
<1> QED
  BY <1>4 DEF AbstractStep, Store!AbstractNext

\* OpenRefines: the service starts with what the store holds.
LEMMA OpenRefines ==
    ASSUME StoreInv, phase # "up", saving = Idle, NEW s \in Snapshots, s.rows = disk.rows,
           Serve(s, TRUE), UNCHANGED <<backend, seed, disk>>
    PROVE  AbstractStep
<1>1. /\ phase' = "up" /\ attached' /\ saving' = Idle /\ result' = "none"
      /\ mem' = RestoredSnapshot(s)
  BY DEF Serve
<1>2. mem'.rows = Restored(disk.rows)
  BY <1>1, RestoredTypes
<1>3. /\ absMem' = Restored(disk.rows) /\ absSaving' = Idle /\ absResult' = "none" /\ absSeed' = absSeed
      /\ absMem = Down /\ absSaving = Idle
  BY <1>1, <1>2, AbstractTypes DEF absMem, absSaving, absResult, absSeed
<1>4. Store!Open
  BY <1>3 DEF Store!Open, absMem, absSaving, absResult, absSeed
<1> QED
  BY <1>4 DEF AbstractStep, Store!AbstractNext

\* ReturnRefines: a Save call returns.
LEMMA ReturnRefines ==
    ASSUME StoreInv, saving # Idle, NEW ok \in BOOLEAN, Return(ok), UNCHANGED <<backend, seed>>,
           disk'.rows = disk.rows \/ disk'.rows = ReadBack(backend, saving.snap.rows),
           ok => disk'.rows = ReadBack(backend, saving.snap.rows)
    PROVE  AbstractStep
<1>1. saving.snap \in Snapshots
  BY DEF StoreInv, StoreTypeOK, SaveCalls
<1>2. absSaving = saving.snap.rows /\ absSaving # Idle /\ absSeed' = absSeed
  BY AbstractTypes DEF absSeed
<1>3. CASE phase = "seeding" /\ ok
  <2>1. /\ phase' = "up" /\ attached' /\ saving' = Idle /\ result' = "none"
        /\ mem' = RestoredSnapshot(saving.snap)
    BY <1>3, Zenon DEF Return, Serve
  <2>2. mem'.rows = Restored(absSaving)
    BY <1>1, <1>2, <2>1, RestoredTypes
  <2>3. /\ absMem' = Restored(absSaving) /\ absSaving' = Idle /\ absResult' = "none"
        /\ absMem = Down /\ disk'.rows = ReadBack(backend, absSaving)
    BY <1>2, <1>3, <2>1, <2>2, AbstractTypes DEF absMem, absSaving, absResult
  <2>4. Store!Succeed
    BY <1>2, <2>3 DEF Store!Succeed, absMem, absSaving, absResult, absSeed
  <2> QED
    BY <2>4, Zenon DEF AbstractStep, Store!AbstractNext
<1>4. CASE phase = "seeding" /\ ~ok
  <2>1. Exit
    BY <1>4 DEF Return
  <2> QED
    BY <2>1, StopRefines
<1>5. CASE phase # "seeding"
  <2>1. phase = "up" /\ attached
    BY <1>5 DEF StoreInv, StoreTypeOK
  <2>2. /\ saving' = Idle /\ result' = (IF ok THEN "ok" ELSE "error")
        /\ UNCHANGED <<phase, attached, mem>>
    BY <1>5 DEF Return
  <2>3. /\ absMem' = absMem /\ absMem # Down /\ absSaving' = Idle
        /\ absResult' = (IF ok THEN "ok" ELSE "error")
    BY <2>1, <2>2, AbstractTypes DEF absMem, absSaving, absResult
  <2>4. CASE ok
    <3>1. absResult' = "ok" /\ disk'.rows = ReadBack(backend, absSaving)
      BY <1>2, <2>3, <2>4
    <3>2. Store!Succeed
      BY <1>2, <2>3, <3>1 DEF Store!Succeed, absMem, absSaving, absResult, absSeed
    <3> QED
      BY <3>2 DEF AbstractStep, Store!AbstractNext
  <2>5. CASE ~ok
    <3>1. absResult' = "error" /\ disk'.rows \in {disk.rows, ReadBack(backend, absSaving)}
      BY <1>2, <2>3, <2>5
    <3>2. Store!Fail
      BY <1>2, <2>3, <3>1 DEF Store!Fail, absMem, absSaving, absResult, absSeed
    <3> QED
      BY <3>2 DEF AbstractStep, Store!AbstractNext
  <2> QED
    BY <2>4, <2>5
<1> QED
  BY <1>3, <1>4, <1>5

\* StatementRefines: a step that leaves the committed rows and the snapshot alone.
LEMMA StatementRefines ==
    ASSUME StoreInv, saving # Idle, saving' # Idle, saving'.snap = saving.snap,
           UNCHANGED <<backend, seed, disk, phase, attached, mem, result>>
    PROVE  AbstractStep
<1>1. absMem' = absMem /\ absSaving' = absSaving /\ absResult' = absResult /\ absSeed' = absSeed
  BY DEF absMem, absSaving, absResult, absSeed
<1>2. UNCHANGED Store!abstractVars
  BY <1>1 DEF Store!abstractVars, absMem, absSaving, absResult, absSeed
<1> QED
  BY <1>2 DEF AbstractStep

\* WriteRefines: an operation changes the maps and calls Save.
LEMMA WriteRefines ==
    ASSUME StoreInv, StoreInv', phase = "up", saving = Idle, NEW m \in Snapshots, SaveLocked(m)
    PROVE  AbstractStep
<1>1. /\ mem' = m /\ saving' = (IF attached THEN SaveCall(m) ELSE Idle)
      /\ result' = (IF attached THEN "none" ELSE "ok")
      /\ UNCHANGED <<backend, seed, disk, phase, attached>>
  BY DEF SaveLocked
<1>2. absSeed' = absSeed /\ m.rows \in Contents
  BY <1>1 DEF absSeed, Snapshots
<1>3. CASE attached
  <2>1. /\ absMem' = m.rows /\ absSaving' = m.rows /\ absResult' = "none"
        /\ absMem # Down /\ absSaving = Idle
    BY <1>1, <1>3, AbstractTypes, SaveCallTypes DEF absMem, absSaving, absResult
  <2>2. Store!Write
    BY <1>1, <1>2, <2>1 DEF Store!Write, absMem, absSaving, absResult, absSeed
  <2> QED
    BY <2>2 DEF AbstractStep, Store!AbstractNext
<1>4. CASE ~attached
  <2>1. absMem' = absMem /\ absSaving' = absSaving /\ absResult' = absResult
    BY <1>1, <1>4 DEF absMem, absSaving, absResult
  <2>2. UNCHANGED Store!abstractVars
    BY <1>1, <1>2, <2>1 DEF Store!abstractVars, absMem, absSaving, absResult, absSeed
  <2> QED
    BY <2>2 DEF AbstractStep
<1> QED
  BY <1>3, <1>4

\* StepRefines: every step of the service is one of SnapshotStore, or none.
LEMMA StepRefines ==
    ASSUME StoreInv, StoreInv', StoreStep
    PROVE  AbstractStep
<1>0. /\ part \in Snapshots /\ disk \in Snapshots /\ (saving # Idle => saving.snap \in Snapshots)
      /\ phase \in {"down", "loading"} => saving = Idle
      /\ phase # "up" => ~attached /\ result = "none"
  BY DEF StoreInv, StoreTypeOK, SaveCalls, SavesMaps
<1>1. ASSUME UNCHANGED <<backend, seed, disk, attached, mem, saving, result>>, phase # "up", phase' # "up"
      PROVE  AbstractStep
  <2>1. absMem' = absMem /\ absSaving' = absSaving /\ absResult' = absResult /\ absSeed' = absSeed
    BY <1>1 DEF absMem, absSaving, absResult, absSeed
  <2>2. UNCHANGED Store!abstractVars
    BY <1>1, <2>1 DEF Store!abstractVars, absMem, absSaving, absResult, absSeed
  <2> QED
    BY <2>2 DEF AbstractStep
<1>2. ASSUME StartPostgres \/ LoadTable PROVE AbstractStep
  BY <1>1, <1>2 DEF StartPostgres, LoadTable
<1>3. ASSUME LoadFails PROVE AbstractStep
  BY <1>3, StopRefines DEF LoadFails
<1>4. ASSUME NEW seq \in {disk.seq, 0}, LoadSequence(seq) PROVE AbstractStep
  <2> DEFINE s == [part EXCEPT !.seq = seq]
  <2>1. phase = "loading" /\ next > 6 /\ UNCHANGED <<backend, seed, disk, tmp>>
    BY <1>4, Orders DEF LoadSequence
  <2>2. disk.seq \in 0..MaxKey /\ 0 \in 0..MaxKey
    BY <1>0, StoreAssumption DEF Snapshots
  <2>3. s \in Snapshots /\ s.rows = disk.rows
    BY <1>0, <2>1, <2>2, WholeLoad DEF Snapshots
  <2>4. ASSUME Serve(s, TRUE) PROVE AbstractStep
    <3> HIDE DEF s
    <3> QED
      BY <1>0, <2>1, <2>3, <2>4, OpenRefines, Zenon
  <2>5. ASSUME Exit PROVE AbstractStep
    BY <2>1, <2>5, StopRefines
  <2>6. ASSUME IsEmpty(s), seed \in Importable, phase' = "seeding", saving' = SaveCall(seed),
               UNCHANGED <<running, attached, mem, result>>
        PROVE  AbstractStep
    <3>1. disk.rows = Empty /\ seed \in Seeds /\ seed \in Snapshots
      BY <2>3, <2>6, StoreAssumption DEF IsEmpty, Importable
    <3>2. /\ absSeed = seed.rows /\ absSeed \in SeedRows /\ absSeed' = absSeed
      BY <2>1, <3>1 DEF absSeed, SeedRows
    <3>3. /\ absSaving = Idle /\ absSaving' = seed.rows /\ absMem = Down /\ absMem' = Down
      BY <1>0, <2>1, <2>6, <3>1, AbstractTypes, SaveCallTypes DEF absSaving, absMem
    <3>4. absResult' = "none"
      BY <1>0, <2>1, <2>6 DEF absResult
    <3>5. Store!Import
      BY <2>1, <3>1, <3>2, <3>3, <3>4 DEF Store!Import, absMem, absSaving, absResult, absSeed
    <3> QED
      BY <3>5 DEF AbstractStep, Store!AbstractNext
  <2> QED
    BY <1>4, <2>4, <2>5, <2>6, Zenon DEF LoadSequence
<1>5. ASSUME NEW ok \in BOOLEAN, StartJSON(ok) PROVE AbstractStep
  <2>1. phase = "down" /\ UNCHANGED <<backend, seed, disk, tmp>>
    BY <1>5 DEF StartJSON
  <2>2. ASSUME Serve(disk, TRUE) PROVE AbstractStep
    BY <1>0, <2>1, <2>2, OpenRefines, Zenon
  <2>3. ASSUME Serve(EmptySnapshot, FALSE) PROVE AbstractStep
    <3>1. ~attached' /\ saving' = Idle
      BY <2>3 DEF Serve
    <3>2. absMem' = absMem /\ absSaving' = absSaving /\ absResult' = absResult /\ absSeed' = absSeed
      BY <1>0, <2>1, <3>1 DEF absMem, absSaving, absResult, absSeed
    <3>3. UNCHANGED Store!abstractVars
      BY <2>1, <3>2 DEF Store!abstractVars, absMem, absSaving, absResult, absSeed
    <3> QED
      BY <3>3 DEF AbstractStep
  <2> QED
    BY <1>5, <2>2, <2>3, Zenon DEF StartJSON
<1>6. ASSUME CreateUser \/ \E op \in Operations : Operate(op) PROVE AbstractStep
  <2>1. PICK m : SaveLocked(m)
    BY <1>6, Zenon DEF CreateUser, Operate
  <2>2. m \in Snapshots /\ phase = "up" /\ saving = Idle
    BY <1>6, <2>1, Zenon DEF SaveLocked, StoreInv, StoreTypeOK, CreateUser, Operate
  <2> QED
    BY <2>1, <2>2, WriteRefines
<1>7. ASSUME Upsert \/ DeleteMissing \/ SaveSequence PROVE AbstractStep
  <2>1. /\ saving # Idle /\ saving \in SaveCalls
        /\ UNCHANGED <<backend, seed, disk, phase, attached, mem, result>>
    BY <1>7 DEF Upsert, DeleteMissing, SaveSequence, Saving, StoreInv, StoreTypeOK
  <2>2. saving'.snap = saving.snap
    BY <1>7, <2>1, Zenon DEF Upsert, DeleteMissing, SaveSequence, SaveCalls
  <2>3. saving' # Idle
    BY <1>7, UpsertKeeps, DeleteKeeps, SequenceKeeps, StoreAssumption
  <2> QED
    BY <2>1, <2>2, <2>3, StatementRefines
<1>8. ASSUME NEW ok \in BOOLEAN, Commit(ok) PROVE AbstractStep
  <2>1. /\ saving # Idle /\ backend = "postgres" /\ saving.next > 6 /\ Saving("postgres")
        /\ disk' = saving.tx /\ Return(ok) /\ UNCHANGED <<backend, seed, tmp>>
    BY <1>8, Orders DEF Commit, Saving
  <2>2. disk'.rows = ReadBack(backend, saving.snap.rows)
    BY <2>1, WholeSave
  <2> QED
    BY <2>1, <2>2, ReturnRefines
<1>9. ASSUME NEW ok \in BOOLEAN, WriteTmp(ok) PROVE AbstractStep
  <2>1. saving # Idle /\ saving \in SaveCalls /\ UNCHANGED <<backend, seed, disk>>
    BY <1>9 DEF WriteTmp, Saving, StoreInv, StoreTypeOK
  <2>2. CASE ok
    <3> DEFINE c == [saving EXCEPT !.next = 2]
    <3>1. saving' = c /\ UNCHANGED <<phase, attached, mem, result>>
      BY <1>9, <2>2 DEF WriteTmp
    <3>2. c \in SaveCalls /\ c.snap = saving.snap
      BY <2>1 DEF SaveCalls
    <3> HIDE DEF c
    <3> QED
      BY <2>1, <3>1, <3>2, StatementRefines, StoreAssumption
  <2>3. CASE ~ok
    <3>1. Return(FALSE)
      BY <1>9, <2>3, Zenon DEF WriteTmp
    <3> QED
      BY <2>1, <3>1, ReturnRefines, Zenon
  <2> QED
    BY <2>2, <2>3
<1>10. ASSUME SaveFails PROVE AbstractStep
  BY <1>10, ReturnRefines, Zenon DEF SaveFails
<1>11. ASSUME Rename PROVE AbstractStep
  <2>1. /\ saving # Idle /\ backend = "json" /\ Saving("json") /\ saving.next = 2 /\ disk' = tmp
        /\ Return(TRUE) /\ UNCHANGED <<backend, seed>>
    BY <1>11, Zenon DEF Rename, Saving
  <2>2. disk'.rows = ReadBack(backend, saving.snap.rows)
    BY <2>1 DEF StoreInv, TmpWritten, ReadBack
  <2> QED
    BY <2>1, <2>2, ReturnRefines, Zenon
<1>12. ASSUME Crash PROVE AbstractStep
  <2>1. \/ disk'.rows = disk.rows
        \/ saving # Idle /\ disk'.rows = ReadBack(backend, saving.snap.rows)
    <3>1. disk' = disk \/ (Saving("postgres") /\ saving.next > 6 /\ disk' = saving.tx)
      BY <1>12, Orders DEF Crash
    <3> QED
      BY <3>1, WholeSave DEF Saving
  <2> QED
    BY <1>12, <2>1, StopRefines DEF Crash
<1> QED
  BY <1>2, <1>3, <1>4, <1>5, <1>6, <1>7, <1>8, <1>9, <1>10, <1>11, <1>12 DEF StoreStep

\* StoreIsSnapshotStore: both stores implement SnapshotStore, through failed statements,
\* lost replies, crashes, restarts and migrations.
THEOREM StoreIsSnapshotStore == StoreSpec => ImplementsStore
<1>1. ASSUME UserStoreInv, UserStoreInv', [StoreNext]_userStoreVars
      PROVE  [Store!AbstractNext]_Store!abstractVars
  <2>1. CASE StoreStep
    BY <1>1, <2>1, StepRefines DEF UserStoreInv, AbstractStep
  <2>2. CASE UNCHANGED storeVars
    <3>1. UNCHANGED <<backend, seed, disk, phase, attached, mem, saving, result>>
      BY <2>2 DEF storeVars, processVars
    <3>2. absMem' = absMem /\ absSaving' = absSaving /\ absResult' = absResult /\ absSeed' = absSeed
      BY <3>1 DEF absMem, absSaving, absResult, absSeed
    <3> QED
      BY <3>1, <3>2 DEF Store!abstractVars, absMem, absSaving, absResult, absSeed
  <2> QED
    BY <1>1, <2>1, <2>2 DEF StoreNext, userStoreVars
<1> QED
  BY <1>1, AbstractStart, UserStoreInvariant, PTL DEF StoreSpec, ImplementsStore, Store!AbstractSpec
================================================================================
