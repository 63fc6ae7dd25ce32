--------------------------- MODULE EdgeMigration ---------------------------
(***************************************************************************)
(* The migration that gives the summary tables of a Pi their change_seq,   *)
(* and the triggers it installs: apply.py against the ingestion services   *)
(* that write the same SQLite file, a migration that is interrupted and    *)
(* run again, the documented rollback and full revert, and the sync worker *)
(* that depends on every write getting a position above its cursor.        *)
(*                                                                         *)
(* One summary table: the tables are migrated one after the other and      *)
(* share nothing.  Rows are numbered in the order of their natural key     *)
(* (minute_utc, source, device).  A step of apply.py is what SQLite commits *)
(* at once: executescript commits statement by statement, the SELECTs of   *)
(* the backfill come before its transaction begins.                        *)
(***************************************************************************)
EXTENDS Integers, FiniteSets

CONSTANTS
  NumKeys,   \* rows the table may have
  Live,      \* TRUE: the services write while the migration runs
  Reverts,   \* documented reverts run on a table in use: "rollback", and "backup",
             \* the restoring of the backup of a re-run; what is always possible
             \* is a rollback before the first position has been given out, and
             \* the restoring of a bootstrap's backup
  MaxVer,    \* bound: versions of a row
  MaxSeq,    \* bound: positions given out
  MaxEpoch   \* bound: identities given out

ASSUME MigrationConstantsOK ==
  NumKeys \in Nat /\ MaxVer \in Nat \ {0} /\ MaxSeq \in Nat /\ MaxEpoch \in Nat
    /\ Live \in BOOLEAN /\ Reverts \subseteq {"rollback", "backup"}

Key == 1..NumKeys

VARIABLES
  ver,      \* version of each row; 0: there is no such row
  seq,      \* change_seq of each row; 0: NULL
  counter,  \* the table's row in change_seq_counter, or NoRow
  insTrigger, updTrigger,  \* whether the two triggers exist
  pc,       \* the migration: off, or the step it has reached
  todo,     \* rows the backfill has selected
  base,     \* the counter the backfill has read
  applied,  \* the migration has run to its end and has not been rolled back
  identity, \* meta.db_epoch; 0: there is none
  epochs,   \* identities given out so far
  backup,   \* the file as a backup has kept it, or none
  cursor,   \* sync_state.last_change_seq
  sent,     \* the version of each row the server holds
  srvCursor \* the server's cursor: the identity it belongs to and its value

table     == <<ver, seq, counter>>
triggers  == <<insTrigger, updTrigger>>
migration == <<pc, todo, base>>
meta      == <<identity, epochs>>
sync      == <<cursor, sent, srvCursor>>
vars == <<table, triggers, migration, applied, meta, backup, sync>>

NoRow == -1

\* A missing counter row taken as it is (a mutant).
ValueOrNone(c) == c

Value(c) == IF c = NoRow THEN 0 ELSE c

-----------------------------------------------------------------------------
(* apply.py                                                                *)

\* What a backup keeps of the file; sent is what the server holds of it.
File == [ver |-> ver, seq |-> seq, counter |-> counter, ins |-> insTrigger,
         upd |-> updTrigger, identity |-> identity, cursor |-> cursor, sent |-> sent]

\* Backup, 0001, the counter table, ADD COLUMN if it is missing: a new column is
\* NULL in every row, which is what it was taken to be before.  Backups have a time
\* stamp: an earlier one is still there.
Prepare ==
  /\ pc = "off" /\ pc' = "select"
  /\ backup' \in {backup} \cup (IF identity = 0 \/ "backup" \in Reverts THEN {{File}} ELSE {})
  /\ UNCHANGED <<table, triggers, todo, base, applied, meta, sync>>

\* SELECT rowid ... WHERE change_seq IS NULL; no such row, no backfill.
SelectNull ==
  /\ pc = "select"
  /\ todo' = {k \in Key : ver[k] > 0 /\ seq[k] = 0}
  /\ pc' = IF todo' = {} THEN "counter" ELSE "read"
  /\ UNCHANGED <<table, triggers, base, applied, meta, backup, sync>>

ReadCounter ==
  /\ pc = "read" /\ pc' = "fill"
  /\ base' = Value(counter)
  /\ UNCHANGED <<table, triggers, todo, applied, meta, backup, sync>>

Rank(k) == Cardinality({j \in todo : j <= k})

\* The numbering begins at 1 each time (a mutant).
FilledFromOne == [k \in Key |-> IF k \in todo THEN Rank(k) ELSE seq[k]]

\* Positions from base + 1 on, in the order of the natural key.
Filled == [k \in Key |-> IF k \in todo THEN base + Rank(k) ELSE seq[k]]

\* The counter is left alone (a mutant).
CounterNotRaised == counter

\* The last position given, whatever the counter has become since it was read.
LastFilled == base + Cardinality(todo)

\* The UPDATEs and the new counter value commit together.  The update trigger, if
\* it exists, does not fire: the UPDATE changes change_seq.
Backfill ==
  /\ pc = "fill" /\ pc' = "counter"
  /\ seq' = Filled /\ counter' = LastFilled
  /\ todo' = {} /\ base' = 0
  /\ UNCHANGED <<ver, triggers, applied, meta, backup, sync>>

\* INSERT OR REPLACE in the place of OR IGNORE (a mutant).
InitCounterReplaces ==
  /\ pc = "counter" /\ pc' = "insert"
  /\ counter' = 0
  /\ UNCHANGED <<ver, seq, triggers, todo, base, applied, meta, backup, sync>>

\* 0002, first statements: INSERT OR IGNORE of the counter row.
InitCounter ==
  /\ pc = "counter" /\ pc' = "insert"
  /\ counter' = Value(counter)
  /\ UNCHANGED <<ver, seq, triggers, todo, base, applied, meta, backup, sync>>

CreateInsertTrigger ==
  /\ pc = "insert" /\ pc' = "update" /\ insTrigger' = TRUE
  /\ UNCHANGED <<table, updTrigger, todo, base, applied, meta, backup, sync>>

\* The last object of 0002.
CreateUpdateTrigger ==
  /\ pc = "update" /\ pc' = "identity" /\ updTrigger' = TRUE
  /\ UNCHANGED <<table, insTrigger, todo, base, applied, meta, backup, sync>>

\* _ensure_identity: a new db_epoch, unless the file has one.
EnsureIdentity ==
  /\ pc = "identity" /\ pc' = "off" /\ applied' = TRUE
  /\ IF identity # 0 THEN UNCHANGED meta
     ELSE epochs < MaxEpoch /\ epochs' = epochs + 1 /\ identity' = epochs'
  /\ UNCHANGED <<table, triggers, todo, base, backup, sync>>

\* The migration is interrupted, or fails on a lock: what is committed stays.
Interrupt ==
  /\ pc # "off" /\ pc' = "off" /\ todo' = {} /\ base' = 0
  /\ UNCHANGED <<table, triggers, applied, meta, backup, sync>>

\* The rollback of docs/edge-migration.md: triggers, counter, sync_state and meta
\* are dropped, the column and its values stay.
RollBack ==
  /\ pc = "off" /\ applied /\ ("rollback" \in Reverts \/ \A k \in Key : seq[k] = 0)
  /\ insTrigger' = FALSE /\ updTrigger' = FALSE /\ counter' = NoRow
  /\ cursor' = 0 /\ identity' = 0 /\ applied' = FALSE
  /\ UNCHANGED <<ver, seq, migration, epochs, backup, sent, srvCursor>>

\* The full revert of docs/edge-deploy.md: with timer and services stopped, a
\* backup takes the place of the file.  The server keeps what it has.
Restore ==
  /\ pc = "off" /\ \E file \in backup :
       /\ ver' = file.ver /\ seq' = file.seq /\ counter' = file.counter
       /\ insTrigger' = file.ins /\ updTrigger' = file.upd
       /\ identity' = file.identity /\ cursor' = file.cursor /\ sent' = file.sent
       /\ applied' = (file.identity # 0)
  /\ UNCHANGED <<migration, epochs, backup, srvCursor>>

-----------------------------------------------------------------------------
(* The ingestion services and the triggers.                                *)

MayWrite == (pc = "off" \/ Live) /\ counter < MaxSeq

\* The counter is bumped and the row takes its value.
Bump(k) == counter' = counter + 1 /\ seq' = [seq EXCEPT ![k] = counter + 1]

Insert(k) ==
  /\ MayWrite /\ ver[k] = 0
  /\ ver' = [ver EXCEPT ![k] = 1]
  /\ IF insTrigger THEN Bump(k) ELSE UNCHANGED <<seq, counter>>
  /\ UNCHANGED <<triggers, migration, applied, meta, backup, sync>>

\* The trigger fires on rows without a position only (a mutant).
BumpNull(k) ==
  IF updTrigger /\ seq[k] = 0 THEN Bump(k) ELSE UNCHANGED <<seq, counter>>

\* WHEN NEW.change_seq IS OLD.change_seq: true for every update of a writer.
BumpUpdated(k) == IF updTrigger THEN Bump(k) ELSE UNCHANGED <<seq, counter>>

Update(k) ==
  /\ MayWrite /\ ver[k] \in 1..MaxVer - 1
  /\ ver' = [ver EXCEPT ![k] = @ + 1]
  /\ BumpUpdated(k)
  /\ UNCHANGED <<triggers, migration, applied, meta, backup, sync>>

\* The server's cursor outlives the generation it belongs to (a mutant).
AcceptedNoReset(last) == IF srvCursor.val > last THEN srvCursor.val ELSE last

\* The cursor the server accepts: never below its own of the same db_epoch.
Accepted(last) ==
  IF srvCursor.epoch = identity /\ srvCursor.val > last THEN srvCursor.val ELSE last

\* A successful sync run, once the timer has been installed after the migration:
\* the rows above the cursor reach the server and the cursor is the accepted one.
Sync ==
  /\ applied
  /\ \E last \in Key :
       /\ seq[last] > cursor /\ \A k \in Key : seq[k] <= seq[last]
       /\ cursor' = Accepted(seq[last])
       /\ srvCursor' = [epoch |-> identity, val |-> Accepted(seq[last])]
  /\ sent' = [k \in Key |-> IF seq[k] > cursor THEN ver[k] ELSE sent[k]]
  /\ UNCHANGED <<table, triggers, migration, applied, meta, backup>>

-----------------------------------------------------------------------------

\* A table with or without rows, never migrated.
Init ==
  /\ ver \in [Key -> {0, 1}] /\ seq = [k \in Key |-> 0] /\ counter = NoRow
  /\ insTrigger = FALSE /\ updTrigger = FALSE
  /\ pc = "off" /\ todo = {} /\ base = 0 /\ applied = FALSE
  /\ identity = 0 /\ epochs = 0 /\ backup = {}
  /\ cursor = 0 /\ sent = [k \in Key |-> 0] /\ srvCursor = [epoch |-> 0, val |-> 0]

Migrate ==
  \/ Prepare \/ SelectNull \/ ReadCounter \/ Backfill
  \/ InitCounter \/ CreateInsertTrigger \/ CreateUpdateTrigger
  \/ EnsureIdentity

Next ==
  \/ Migrate \/ Interrupt \/ RollBack \/ Restore \/ Sync
  \/ \E k \in Key : Insert(k) \/ Update(k)

Spec == Init /\ [][Next]_vars

-----------------------------------------------------------------------------
(* Properties.                                                             *)

Position == 0..MaxSeq + NumKeys

FileState ==
  [ver : [Key -> 0..MaxVer], seq : [Key -> Position], counter : {NoRow} \cup Position,
   ins : BOOLEAN, upd : BOOLEAN, identity : 0..MaxEpoch, cursor : Position,
   sent : [Key -> 0..MaxVer]]

\* Type invariant.
TypeOK ==
  /\ File \in FileState /\ backup \in SUBSET FileState
  /\ applied \in BOOLEAN
  /\ pc \in {"off", "select", "read", "fill", "counter", "insert", "update", "identity"}
  /\ todo \subseteq Key /\ base \in Position
  /\ epochs \in 0..MaxEpoch /\ identity <= epochs
  /\ srvCursor \in [epoch : 0..epochs, val : Position]

\* Safety: once migrated, a row whose current version the server does not have is
\* above the cursor, so that a later run sends it, through interrupted migrations,
\* re-runs and a full revert, after which the server still has the cursor of the
\* lost generation.  (The purpose of change_seq, docs/sync.md: "bumped on every
\* insert or update".)
NoWriteLost ==
  applied => \A k \in Key : sent[k] # ver[k] => seq[k] > cursor

\* Safety: a position names one row, and a migrated table has no row without one,
\* however often the migration was interrupted and run again.
PositionsUnique ==
  /\ \A j, k \in Key : seq[j] = seq[k] /\ seq[j] > 0 => j = k
  /\ applied => \A k \in Key : ver[k] > 0 => seq[k] > 0

\* Action property: on a migrated table a write moves its row, and only that row,
\* above every position there was.
WriteGoesOnTop ==
  [][\A k \in Key : applied /\ applied' /\ ver'[k] # ver[k] =>
       /\ \A j \in Key : seq'[k] > seq[j]
       /\ \A j \in Key \ {k} : seq'[j] = seq[j]]_table

\* Action property: running the migration again on a migrated table gives no row a
\* new position and leaves the counter where it is.
RerunIsNoOp ==
  [][applied /\ applied' /\ ver' = ver => UNCHANGED <<seq, counter>>]_table

-----------------------------------------------------------------------------
(* The inductive strengthening of the safety properties, for a migration   *)
(* without writers and the reverts that are always possible.               *)

\* Rows without a position.
Nulls(file) == {k \in Key : file.ver[k] > 0 /\ file.seq[k] = 0}

\* A file, in use or kept as a backup: the counter is at or above every position
\* and leaves room for the rows to be filled; triggers have a counter to count
\* with; a file without identity has never been synced.
FileInv(file) ==
  /\ \A j, k \in Key : file.seq[j] = file.seq[k] /\ file.seq[j] > 0 => j = k
  /\ \A k \in Key : file.seq[k] <= Value(file.counter)
  /\ \A k \in Key : file.ver[k] = 0 => file.seq[k] = 0 /\ file.sent[k] = 0
  /\ file.ins \/ file.upd => file.counter # NoRow
  /\ file.identity = 0 => file.cursor = 0
  /\ file.cursor <= Value(file.counter)
  /\ Value(file.counter) + Cardinality(Nulls(file)) <= MaxSeq + NumKeys

\* What each step of the migration finds done by the steps before it.
StepInv ==
  /\ IF pc \in {"read", "fill"} THEN todo = Nulls(File) /\ ~ applied ELSE todo = {}
  /\ pc = "fill" => base = Value(counter)
  /\ pc \in {"counter", "insert", "update", "identity"} => Nulls(File) = {}
  /\ pc \in {"insert", "update", "identity"} => counter # NoRow
  /\ pc \in {"update", "identity"} => insTrigger
  /\ pc = "identity" => updTrigger

\* A file has an identity while it is in use, and the server's cursor is the one
\* of the edge or of another generation.
AppliedInv ==
  /\ applied <=> identity # 0
  /\ applied => insTrigger /\ updTrigger /\ Nulls(File) = {}
  /\ applied /\ srvCursor.epoch = identity => srvCursor.val <= cursor

IInv ==
  /\ TypeOK /\ StepInv /\ AppliedInv /\ NoWriteLost
  /\ FileInv(File) /\ \A file \in backup : FileInv(file) /\ file.identity = 0

=============================================================================
