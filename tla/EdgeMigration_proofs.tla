------------------------ MODULE EdgeMigration_proofs ------------------------
(***************************************************************************)
(* Proofs about EdgeMigration, for tables of any size, any interruptions,  *)
(* re-runs, rollbacks of an unused table and restored bootstrap backups,   *)
(* as long as the services do not write during a migration.                *)
(***************************************************************************)
EXTENDS EdgeMigration, FiniteSetTheorems, TLAPS

\* Stricter than the documents: the services are stopped while the migration runs
\* (edge-migration.md:3 leaves them running) and a table in use is not reverted
\* (:64-79 has the rollback).  Without either, NoWriteLost is violated: see the runs
\* EdgeMigration_live and EdgeMigration_rollback.
QuietMigration == ~ Live /\ Reverts = {}

\* The conjuncts of TypeOK and FileInv(File), in terms of the variables.
NullRows == {k \in Key : ver[k] > 0 /\ seq[k] = 0}

Types ==
  /\ ver \in [Key -> 0..MaxVer] /\ seq \in [Key -> Position]
  /\ counter \in {NoRow} \cup Position
  /\ insTrigger \in BOOLEAN /\ updTrigger \in BOOLEAN /\ identity \in 0..MaxEpoch
  /\ cursor \in Position /\ sent \in [Key -> 0..MaxVer]

Rows ==
  /\ \A j, k \in Key : seq[j] = seq[k] /\ seq[j] > 0 => j = k
  /\ \A k \in Key : seq[k] <= Value(counter)
  /\ \A k \in Key : ver[k] = 0 => seq[k] = 0 /\ sent[k] = 0

Counting ==
  /\ insTrigger \/ updTrigger => counter # NoRow
  /\ identity = 0 => cursor = 0
  /\ cursor <= Value(counter)

Room == Value(counter) + Cardinality(NullRows) <= MaxSeq + NumKeys

LEMMA Fields ==
  /\ File \in FileState <=> Types
  /\ FileInv(File) <=> Rows /\ Counting /\ Room
  /\ Nulls(File) = NullRows
<1>1. File \in FileState <=> Types
  BY DEF File, FileState, Types
<1>2. Nulls(File) = NullRows
  BY DEF File, Nulls, NullRows
<1>3. FileInv(File) <=> Rows /\ Counting /\ Room
  <2>1. /\ File.ver = ver /\ File.seq = seq /\ File.counter = counter /\ File.ins = insTrigger
        /\ File.upd = updTrigger /\ File.identity = identity /\ File.cursor = cursor
        /\ File.sent = sent
    BY DEF File
  <2>2. QED
    BY <1>2, <2>1 DEF FileInv, Rows, Counting, Room
<1>4. QED
  BY <1>1, <1>2, <1>3

LEMMA FieldsNext ==
  ( /\ File \in FileState <=> Types
    /\ FileInv(File) <=> Rows /\ Counting /\ Room
    /\ Nulls(File) = NullRows )'
BY Fields, PTL

\* A file that is put in place of the current one brings its invariant with it.
LEMMA Replaced ==
  ASSUME NEW file \in FileState, FileInv(file),
         ver' = file.ver, seq' = file.seq, counter' = file.counter,
         insTrigger' = file.ins, updTrigger' = file.upd,
         identity' = file.identity, cursor' = file.cursor, sent' = file.sent
  PROVE  Types' /\ Rows' /\ Counting' /\ Room' /\ NullRows' = Nulls(file)
<1>1. Types'
  BY DEF Types, FileState
<1>2. NullRows' = Nulls(file)
  BY DEF NullRows, Nulls
<1>3. Rows' /\ Counting' /\ Room'
  BY <1>2 DEF Rows, Counting, Room, FileInv
<1>4. QED
  BY <1>1, <1>2, <1>3

\* Numbers.
LEMMA Numbers ==
  /\ NumKeys \in Nat /\ MaxSeq \in Nat /\ MaxVer \in Nat /\ 1 \in 0..MaxVer
  /\ MaxEpoch \in Nat /\ Key \subseteq Nat
  /\ \A c \in {NoRow} \cup Position : Value(c) \in Position /\ (c # NoRow => Value(c) = c)
  /\ Value(NoRow) = 0 /\ NoRow \in Int /\ NoRow < 0
  /\ \A n : n \in Position <=> n \in Int /\ 0 <= n /\ n <= MaxSeq + NumKeys
BY MigrationConstantsOK DEF Key, Value, Position, NoRow

LEMMA Finite ==
  ASSUME NEW some \in SUBSET Key
  PROVE  IsFiniteSet(some) /\ Cardinality(some) \in Nat /\ Cardinality(some) <= NumKeys
<1>1. IsFiniteSet(Key) /\ Cardinality(Key) <= NumKeys
  <2>1. NumKeys \in Int /\ 1 \in Int /\ NumKeys >= 0
    BY MigrationConstantsOK
  <2>2. IsFiniteSet(1..NumKeys)
          /\ Cardinality(1..NumKeys) = IF 1 > NumKeys THEN 0 ELSE NumKeys - 1 + 1
    BY <2>1, FS_Interval
  <2>3. QED
    BY <2>1, <2>2 DEF Key
<1>2. IsFiniteSet(some) /\ Cardinality(some) <= Cardinality(Key)
  BY <1>1, FS_Subset
<1>3. Cardinality(some) \in Nat /\ Cardinality(Key) \in Nat /\ NumKeys \in Nat
  BY <1>1, <1>2, FS_CardinalityType, MigrationConstantsOK
<1>4. QED
  BY <1>1, <1>2, <1>3, FS_CardinalityType

\* The backfill numbers its rows from 1 on, each with a number of its own.
LEMMA Ranks ==
  ASSUME todo \subseteq Key, NEW j \in todo, NEW k \in todo
  PROVE  /\ Rank(k) \in 1..Cardinality(todo)
         /\ Rank(j) = Rank(k) => j = k
<1> DEFINE upTo(n) == {i \in todo : i <= n}
<1>1. IsFiniteSet(todo) /\ Cardinality(todo) \in Nat
  BY Finite
<1>0. \A i \in todo : i \in Int
  BY DEF Key
<1>2. \A n \in todo : IsFiniteSet(upTo(n)) /\ Cardinality(upTo(n)) \in Nat
                       /\ Cardinality(upTo(n)) <= Cardinality(todo)
  BY <1>1, FS_Subset, FS_CardinalityType
<1>3. Cardinality(upTo(k)) # 0
  <2>1. k \in upTo(k)
    BY <1>0
  <2>2. QED
    BY <1>2, <2>1, FS_EmptySet
<1>4. ASSUME NEW m \in todo, NEW n \in todo, m < n
      PROVE  Cardinality(upTo(m)) < Cardinality(upTo(n))
  <2>1. upTo(m) \subseteq upTo(n) /\ n \in upTo(n) /\ n \notin upTo(m)
    BY <1>0, <1>4
  <2>2. Cardinality(upTo(m)) <= Cardinality(upTo(n))
          /\ Cardinality(upTo(m)) # Cardinality(upTo(n))
    BY <1>2, <2>1, FS_Subset
  <2>3. QED
    BY <1>2, <2>2
<1>5. j \in Int /\ k \in Int
  BY <1>0
<1>6. Cardinality(upTo(j)) = Cardinality(upTo(k)) => j = k
  <2>1. CASE j < k
    BY <1>2, <1>4, <2>1
  <2>2. CASE k < j
    BY <1>2, <1>4, <2>2
  <2>3. QED
    BY <1>5, <2>1, <2>2
<1>7. Rank(j) = Cardinality(upTo(j)) /\ Rank(k) = Cardinality(upTo(k))
  BY DEF Rank
<1>8. QED
  BY <1>1, <1>2, <1>3, <1>6, <1>7

-----------------------------------------------------------------------------
(* What an action finds, and what it has to show.                          *)

\* The conjuncts of TypeOK that are not about the file.
Others ==
  /\ applied \in BOOLEAN
  /\ pc \in {"off", "select", "read", "fill", "counter", "insert", "update", "identity"}
  /\ todo \subseteq Key /\ base \in Position
  /\ epochs \in 0..MaxEpoch /\ identity <= epochs
  /\ srvCursor \in [epoch : 0..epochs, val : Position]

Backups ==
  /\ backup \in SUBSET FileState
  /\ \A file \in backup : FileInv(file) /\ file.identity = 0

\* StepInv and AppliedInv, with the rows without a position named.
Steps ==
  /\ IF pc \in {"read", "fill"} THEN todo = NullRows /\ ~ applied ELSE todo = {}
  /\ pc = "fill" => base = Value(counter)
  /\ pc \in {"counter", "insert", "update", "identity"} => NullRows = {}
  /\ pc \in {"insert", "update", "identity"} => counter # NoRow
  /\ pc \in {"update", "identity"} => insTrigger
  /\ pc = "identity" => updTrigger

Used ==
  /\ applied <=> identity # 0
  /\ applied => insTrigger /\ updTrigger /\ NullRows = {}
  /\ applied /\ srvCursor.epoch = identity => srvCursor.val <= cursor

LEMMA Parts ==
  IInv <=> /\ Types /\ Rows /\ Counting /\ Room
           /\ Others /\ Backups /\ Steps /\ Used /\ NoWriteLost
<1>1. TypeOK <=> Types /\ Others /\ backup \in SUBSET FileState
  BY Fields DEF TypeOK, Others
<1>2. StepInv <=> Steps
  BY Fields DEF StepInv, Steps
<1>3. AppliedInv <=> Used
  BY Fields DEF AppliedInv, Used
<1>4. FileInv(File) <=> Rows /\ Counting /\ Room
  BY Fields
<1>5. QED
  BY <1>1, <1>2, <1>3, <1>4 DEF IInv, Backups

LEMMA PartsNext ==
  ( IInv <=> /\ Types /\ Rows /\ Counting /\ Room
             /\ Others /\ Backups /\ Steps /\ Used /\ NoWriteLost )'
BY Parts, PTL

\* A step that leaves the file as it is.
LEMMA SameFile ==
  ASSUME Types, Rows, Counting, Room, UNCHANGED <<table, triggers, identity, cursor, sent>>
  PROVE  Types' /\ Rows' /\ Counting' /\ Room' /\ NullRows' = NullRows
<1>1. NullRows' = NullRows
  BY DEF NullRows, table
<1>2. Types'
  BY DEF Types, table, triggers
<1>3. Rows' /\ Counting' /\ Room'
  BY <1>1 DEF Rows, Counting, Room, table, triggers
<1>4. QED
  BY <1>1, <1>2, <1>3

LEMMA InitIInv == Init => IInv
<1> SUFFICES ASSUME Init PROVE IInv
  OBVIOUS
<1>1. Types /\ Others
  <2>1. 0 \in Position /\ 0 \in 0..MaxVer /\ 1 \in 0..MaxVer /\ 0 \in 0..MaxEpoch
    BY Numbers
  <2>2. ver \in [Key -> 0..MaxVer] /\ seq \in [Key -> Position] /\ sent \in [Key -> 0..MaxVer]
    BY <2>1 DEF Init
  <2>3. Types
    BY <2>1, <2>2 DEF Init, Types
  <2>4. srvCursor \in [epoch : 0..epochs, val : Position]
    BY <2>1 DEF Init
  <2>5. /\ applied \in BOOLEAN /\ pc = "off" /\ todo \subseteq Key /\ base \in Position
        /\ epochs \in 0..MaxEpoch /\ identity <= epochs
    <3>1. applied \in BOOLEAN
      BY DEF Init
    <3>2. epochs \in 0..MaxEpoch /\ identity <= epochs
      BY <2>1 DEF Init
    <3>3. QED
      BY <2>1, <3>1, <3>2 DEF Init
  <2>. QED
    BY <2>3, <2>4, <2>5 DEF Others
<1>2. Rows /\ Counting
  BY Numbers DEF Init, Rows, Counting
<1>3. Room
  <2>1. Value(counter) = 0
    BY Numbers DEF Init
  <2>2. Cardinality(NullRows) \in Nat /\ Cardinality(NullRows) <= NumKeys
    BY Finite DEF NullRows
  <2>3. QED
    BY <2>1, <2>2, Numbers DEF Room
<1>4. Steps /\ Used /\ NoWriteLost /\ Backups
  BY DEF Init, Steps, Used, NoWriteLost, Backups
<1>5. QED
  BY <1>1, <1>2, <1>3, <1>4, Parts

-----------------------------------------------------------------------------
(* apply.py                                                                *)

LEMMA PrepareStep == QuietMigration /\ IInv /\ Prepare => IInv'
<1> SUFFICES ASSUME QuietMigration, IInv, Prepare PROVE IInv'
  OBVIOUS
<1>1. Types /\ Rows /\ Counting /\ Room /\ Others /\ Backups /\ Steps /\ Used /\ NoWriteLost
  BY Parts
<1>2. Types' /\ Rows' /\ Counting' /\ Room' /\ NullRows' = NullRows
  BY <1>1, SameFile DEF Prepare, meta, sync
<1>3. Backups'
  <2>1. backup' = backup \/ (identity = 0 /\ backup' = {File})
    BY DEF Prepare, QuietMigration
  <2>2. File \in FileState /\ FileInv(File) /\ File.identity = identity
    BY <1>1, Fields DEF File
  <2>3. QED
    BY <1>1, <2>1, <2>2 DEF Backups
<1>4. Others'
  BY <1>1 DEF Prepare, Others, table, triggers, meta, sync
<1>5. Steps' /\ Used' /\ NoWriteLost'
  BY <1>1, <1>2 DEF Prepare, Steps, Used, NoWriteLost, table, triggers, meta, sync
<1>6. QED
  BY <1>2, <1>3, <1>4, <1>5, PartsNext

\* The steps that read.
LEMMA ReadStep == IInv /\ (SelectNull \/ ReadCounter \/ Interrupt) => IInv'
<1> SUFFICES ASSUME IInv, SelectNull \/ ReadCounter \/ Interrupt PROVE IInv'
  OBVIOUS
<1>1. Types /\ Rows /\ Counting /\ Room /\ Others /\ Backups /\ Steps /\ Used /\ NoWriteLost
  BY Parts
<1>2. /\ Types' /\ Rows' /\ Counting' /\ Room' /\ NullRows' = NullRows
      /\ UNCHANGED <<table, triggers, applied, meta, backup, sync>>
  BY <1>1, SameFile DEF SelectNull, ReadCounter, Interrupt, meta, sync
<1>3. Backups' /\ Used' /\ NoWriteLost'
  BY <1>1, <1>2 DEF Backups, Used, NoWriteLost, table, triggers, meta, sync
<1>4. Value(counter) \in Position /\ 0 \in Position
  BY <1>1, Numbers DEF Types
<1>5. Others'
  BY <1>1, <1>2, <1>4 DEF SelectNull, ReadCounter, Interrupt, Others, meta, sync
<1>6. Steps'
  <2>1. CASE SelectNull
    <3>1. todo' = NullRows /\ pc' = IF todo' = {} THEN "counter" ELSE "read"
      BY <2>1 DEF SelectNull, NullRows
    <3>2. applied => NullRows = {}
      BY <1>1 DEF Used
    <3>3. QED
      BY <1>1, <1>2, <3>1, <3>2 DEF Steps, Others
  <2>2. CASE ReadCounter
    BY <1>1, <1>2, <2>2 DEF ReadCounter, Steps, table
  <2>3. CASE Interrupt
    BY <1>1, <1>2, <2>3 DEF Interrupt, Steps
  <2>4. QED
    BY <2>1, <2>2, <2>3
<1>7. QED
  BY <1>2, <1>3, <1>5, <1>6, PartsNext

\* What the backfill does to the positions.
LEMMA FilledRows ==
  ASSUME Types, Rows, todo = NullRows, base = Value(counter), Room
  PROVE  /\ LastFilled \in Position /\ Filled \in [Key -> Position]
         /\ \A k \in Key : Filled[k] <= LastFilled
         /\ \A j, k \in Key : Filled[j] = Filled[k] /\ Filled[j] > 0 => j = k
         /\ \A k \in Key : ver[k] = 0 => Filled[k] = 0
         /\ \A k \in Key : ver[k] > 0 => Filled[k] > 0
         /\ base <= LastFilled
<1>1. todo \subseteq Key /\ Cardinality(todo) \in Nat
  BY Finite DEF NullRows
<1>2. base \in Nat /\ LastFilled \in Nat /\ base <= LastFilled /\ LastFilled \in Position
  BY <1>1, Numbers DEF Types, LastFilled, Room
<1>3. \A k \in Key : seq[k] \in Nat /\ seq[k] <= base
  BY Numbers DEF Types, Rows
<1>4. \A k \in todo : /\ Rank(k) \in Nat /\ Rank(k) > 0 /\ Rank(k) <= Cardinality(todo)
                      /\ \A j \in todo : Rank(j) = Rank(k) => j = k
  BY <1>1, Ranks
<1>5. \A k \in Key : Filled[k] = IF k \in todo THEN base + Rank(k) ELSE seq[k]
  BY DEF Filled
<1>6. \A k \in Key : k \in todo =>
        Filled[k] \in Nat /\ Filled[k] > base /\ Filled[k] <= LastFilled
  BY <1>2, <1>4, <1>5, <1>1 DEF LastFilled
<1>7. \A k \in Key : k \notin todo =>
        Filled[k] = seq[k] /\ Filled[k] \in Nat /\ Filled[k] <= base
  BY <1>3, <1>5
<1>8. \A k \in Key : Filled[k] \in Nat /\ Filled[k] <= LastFilled
  BY <1>2, <1>6, <1>7
<1>9. Filled \in [Key -> Position]
  <2>1. \A k \in Key : Filled[k] \in Position
    BY <1>2, <1>8, Numbers
  <2>2. QED
    BY <2>1 DEF Filled
<1>10. ASSUME NEW j \in Key, NEW k \in Key, Filled[j] = Filled[k], Filled[j] > 0
       PROVE  j = k
  <2>1. CASE j \in todo /\ k \in todo
    BY <1>1, <1>2, <1>4, <1>5, <1>10, <2>1
  <2>2. CASE j \notin todo /\ k \notin todo
    BY <1>7, <1>10, <2>2 DEF Rows
  <2>3. CASE (j \in todo) # (k \in todo)
    BY <1>2, <1>6, <1>7, <1>10, <2>3
  <2>4. QED
    BY <2>1, <2>2, <2>3
<1>11. ASSUME NEW k \in Key, ver[k] = 0 PROVE Filled[k] = 0
  BY <1>7, <1>11 DEF Rows, NullRows
<1>12. ASSUME NEW k \in Key, ver[k] > 0 PROVE Filled[k] > 0
  BY <1>2, <1>3, <1>6, <1>7, <1>12 DEF NullRows
<1>13. QED
  BY <1>2, <1>8, <1>9, <1>10, <1>11, <1>12

LEMMA BackfillStep == IInv /\ Backfill => IInv'
<1> SUFFICES ASSUME IInv, Backfill PROVE IInv'
  OBVIOUS
<1>1. Types /\ Rows /\ Counting /\ Room /\ Others /\ Backups /\ Steps /\ Used /\ NoWriteLost
  BY Parts
<1>2. todo = NullRows /\ base = Value(counter) /\ ~ applied
  BY <1>1 DEF Backfill, Steps
<1>3. /\ seq' = Filled /\ counter' = LastFilled /\ todo' = {} /\ base' = 0 /\ pc' = "counter"
      /\ UNCHANGED <<ver, insTrigger, updTrigger, applied, meta, backup, sync>>
  BY DEF Backfill, triggers
<1>4. /\ LastFilled \in Position /\ Filled \in [Key -> Position]
      /\ \A k \in Key : Filled[k] <= LastFilled
      /\ \A j, k \in Key : Filled[j] = Filled[k] /\ Filled[j] > 0 => j = k
      /\ \A k \in Key : ver[k] = 0 => Filled[k] = 0
      /\ \A k \in Key : ver[k] > 0 => Filled[k] > 0
      /\ base <= LastFilled
  BY <1>1, <1>2, FilledRows
<1>5. Value(LastFilled) = LastFilled /\ LastFilled # NoRow
  BY <1>4, Numbers
<1>6. NullRows' = {}
  <2>1. \A k \in Key : ver'[k] > 0 => seq'[k] # 0
    BY <1>3, <1>4
  <2>2. QED
    BY <2>1 DEF NullRows
<1>7. Types' /\ Others'
  BY <1>1, <1>3, <1>4, Numbers DEF Types, Others, meta, sync
<1>8. Rows'
  BY <1>1, <1>3, <1>4, <1>5 DEF Rows, sync
<1>9. Counting'
  BY <1>1, <1>2, <1>3, <1>4, <1>5, Numbers DEF Counting, Types, meta, sync
<1>10. Room'
  BY <1>3, <1>4, <1>5, <1>6, FS_EmptySet, Numbers DEF Room
<1>11. Backups' /\ Steps' /\ Used' /\ NoWriteLost'
  BY <1>1, <1>2, <1>3, <1>6 DEF Backups, Steps, Used, NoWriteLost, meta, sync
<1>12. QED
  BY <1>7, <1>8, <1>9, <1>10, <1>11, PartsNext

\* 0002 and the identity.
LEMMA CreateStep ==
  IInv /\ (InitCounter \/ CreateInsertTrigger \/ CreateUpdateTrigger) => IInv'
<1> SUFFICES ASSUME IInv, InitCounter \/ CreateInsertTrigger \/ CreateUpdateTrigger
             PROVE  IInv'
  OBVIOUS
<1>1. Types /\ Rows /\ Counting /\ Room /\ Others /\ Backups /\ Steps /\ Used /\ NoWriteLost
  BY Parts
<1>2. UNCHANGED <<ver, seq, todo, base, applied, meta, backup, sync>>
  BY DEF InitCounter, CreateInsertTrigger, CreateUpdateTrigger, table, triggers
<1>3. NullRows' = NullRows
  BY <1>2 DEF NullRows
<1>4. CASE InitCounter
  <2>1. counter' = Value(counter) /\ pc' = "insert" /\ pc = "counter"
          /\ UNCHANGED <<insTrigger, updTrigger>>
    BY <1>4 DEF InitCounter, triggers
  <2>2. Value(counter) \in Position
    BY <1>1, Numbers DEF Types
  <2>3. Value(counter') = Value(counter) /\ counter' # NoRow
    BY <2>1, <2>2, Numbers
  <2>4. Types'
    BY <1>1, <1>2, <2>1, <2>2 DEF Types, meta, sync
  <2>5. Rows' /\ Counting' /\ Room'
    BY <1>1, <1>2, <1>3, <2>1, <2>3 DEF Rows, Counting, Room, meta, sync
  <2>6. Others' /\ Backups' /\ Used' /\ NoWriteLost'
    BY <1>1, <1>2, <1>3, <2>1 DEF Others, Backups, Used, NoWriteLost, meta, sync
  <2>7. Steps'
    BY <1>1, <1>2, <1>3, <2>1, <2>3 DEF Steps
  <2>8. QED
    BY <2>4, <2>5, <2>6, <2>7, PartsNext
<1>5. CASE CreateInsertTrigger \/ CreateUpdateTrigger
  <2>1. /\ counter' = counter /\ counter # NoRow
        /\ insTrigger' \in BOOLEAN /\ updTrigger' \in BOOLEAN
        /\ insTrigger => insTrigger'
        /\ updTrigger => updTrigger'
    BY <1>1, <1>5 DEF CreateInsertTrigger, CreateUpdateTrigger, Steps, table, Types
  <2>2. Types'
    BY <1>1, <1>2, <2>1 DEF Types, meta, sync
  <2>3. Rows' /\ Counting' /\ Room'
    BY <1>1, <1>2, <1>3, <2>1 DEF Rows, Counting, Room, meta, sync
  <2>4. Others'
    <3>1. pc' = "update" \/ pc' = "identity"
      BY <1>5 DEF CreateInsertTrigger, CreateUpdateTrigger
    <3>2. UNCHANGED <<applied, todo, base, epochs, identity, srvCursor>>
      BY <1>2 DEF meta, sync
    <3>3. QED
      BY <1>1, <3>1, <3>2 DEF Others
  <2>5. Backups' /\ Used' /\ NoWriteLost'
    <3>1. UNCHANGED <<applied, ver, seq, identity, backup, cursor, sent, srvCursor>>
      BY <1>2 DEF meta, sync
    <3>2. Used'
      BY <1>1, <1>3, <2>1, <3>1 DEF Used
    <3>3. QED
      BY <1>1, <3>1, <3>2 DEF Backups, NoWriteLost
  <2>6. Steps'
    BY <1>1, <1>2, <1>3, <1>5, <2>1 DEF CreateInsertTrigger, CreateUpdateTrigger, Steps
  <2>7. QED
    BY <2>2, <2>3, <2>4, <2>5, <2>6, PartsNext
<1>6. QED
  BY <1>4, <1>5

LEMMA IdentityStep == IInv /\ EnsureIdentity => IInv'
<1> SUFFICES ASSUME IInv, EnsureIdentity PROVE IInv'
  OBVIOUS
<1>1. Types /\ Rows /\ Counting /\ Room /\ Others /\ Backups /\ Steps /\ Used /\ NoWriteLost
  BY Parts
<1>2. /\ pc = "identity" /\ pc' = "off" /\ applied'
      /\ UNCHANGED <<ver, seq, counter, insTrigger, updTrigger, todo, base, backup,
                     cursor, sent, srvCursor>>
  BY DEF EnsureIdentity, table, triggers, sync
<1>3. \/ identity # 0 /\ identity' = identity /\ epochs' = epochs
      \/ identity = 0 /\ identity' = epochs + 1 /\ epochs' = epochs + 1 /\ epochs < MaxEpoch
  BY DEF EnsureIdentity, meta
<1>4. /\ epochs \in Nat /\ MaxEpoch \in Nat /\ identity \in Nat /\ identity <= epochs
      /\ srvCursor.epoch \in Nat /\ srvCursor.epoch <= epochs
  BY <1>1, Numbers DEF Others, Types
<1>5. /\ epochs' \in 0..MaxEpoch /\ identity' \in 0..MaxEpoch /\ identity' <= epochs'
      /\ identity' # 0 /\ epochs <= epochs'
      /\ identity = 0 => srvCursor.epoch # identity'
  BY <1>1, <1>3, <1>4 DEF Others, Types
<1>6. NullRows' = NullRows /\ NullRows = {}
  BY <1>1, <1>2 DEF NullRows, Steps
<1>7. Types'
  BY <1>1, <1>2, <1>5 DEF Types
<1>8. Rows' /\ Counting' /\ Room'
  BY <1>1, <1>2, <1>5, <1>6 DEF Rows, Counting, Room
<1>9. Others'
  <2>1. srvCursor' \in [epoch : 0..epochs', val : Position]
    BY <1>1, <1>2, <1>4, <1>5 DEF Others
  <2>2. QED
    BY <1>1, <1>2, <1>5, <2>1 DEF Others
<1>10. Backups' /\ Steps'
  BY <1>1, <1>2, <1>6 DEF Backups, Steps
<1>11. Used'
  BY <1>1, <1>2, <1>3, <1>5, <1>6 DEF Used, Steps
<1>12. NoWriteLost'
  <2>1. CASE applied
    BY <1>1, <1>2, <2>1 DEF NoWriteLost
  <2>2. CASE ~ applied
    <3>1. cursor = 0
      BY <1>1, <2>2 DEF Used, Counting
    <3>2. \A k \in Key : ver[k] > 0 => seq[k] > 0
      BY <1>1, <1>6, Numbers DEF NullRows, Types
    <3>3. \A k \in Key : sent[k] # ver[k] => ver[k] > 0
      BY <1>1, Numbers DEF Rows, Types
    <3>4. QED
      BY <1>2, <3>1, <3>2, <3>3 DEF NoWriteLost
  <2>3. QED
    BY <1>1, <2>1, <2>2 DEF Others
<1>13. QED
  BY <1>7, <1>8, <1>9, <1>10, <1>11, <1>12, PartsNext

-----------------------------------------------------------------------------
(* The documented reverts.                                                 *)

\* Before the first position has been given out there is nothing to forget.
LEMMA RollBackStep == QuietMigration /\ IInv /\ RollBack => IInv'
<1> SUFFICES ASSUME QuietMigration, IInv, RollBack PROVE IInv'
  OBVIOUS
<1>1. Types /\ Rows /\ Counting /\ Room /\ Others /\ Backups /\ Steps /\ Used /\ NoWriteLost
  BY Parts
<1>2. /\ pc = "off" /\ \A k \in Key : seq[k] = 0
      /\ insTrigger' = FALSE /\ updTrigger' = FALSE /\ counter' = NoRow
      /\ cursor' = 0 /\ identity' = 0 /\ applied' = FALSE
      /\ UNCHANGED <<ver, seq, pc, todo, base, epochs, backup, sent, srvCursor>>
  BY DEF RollBack, QuietMigration, migration
<1>3. NullRows' = NullRows /\ Cardinality(NullRows) \in Nat /\ Cardinality(NullRows) <= NumKeys
  BY <1>2, Finite DEF NullRows
<1>4. Value(counter') = 0
  BY <1>2, Numbers
<1>5. Types' /\ Others'
  <2>1. 0 \in Position /\ 0 \in 0..MaxEpoch /\ epochs \in Nat
    BY <1>1, Numbers DEF Others
  <2>2. Types'
    BY <1>1, <1>2, <2>1 DEF Types
  <2>3. identity' <= epochs'
    BY <1>2, <2>1
  <2>4. /\ applied' \in BOOLEAN
        /\ UNCHANGED <<pc, todo, base, epochs, srvCursor>>
    BY <1>2
  <2>5. Others'
    BY <1>1, <2>3, <2>4 DEF Others
  <2>6. QED
    BY <2>2, <2>5
<1>6. Rows' /\ Counting'
  BY <1>1, <1>2, <1>4 DEF Rows, Counting
<1>7. Room'
  BY <1>3, <1>4, Numbers DEF Room
<1>8. Backups' /\ Steps' /\ Used' /\ NoWriteLost'
  BY <1>1, <1>2, <1>3 DEF Backups, Steps, Used, NoWriteLost
<1>9. QED
  BY <1>5, <1>6, <1>7, <1>8, PartsNext

\* A bootstrap's backup has no identity, so the server's cursor is of another
\* generation when the file gets one again.
LEMMA RestoreStep == IInv /\ Restore => IInv'
<1> SUFFICES ASSUME IInv, Restore PROVE IInv'
  OBVIOUS
<1>1. Types /\ Rows /\ Counting /\ Room /\ Others /\ Backups /\ Steps /\ Used /\ NoWriteLost
  BY Parts
<1>2. PICK file \in backup :
        /\ ver' = file.ver /\ seq' = file.seq /\ counter' = file.counter
        /\ insTrigger' = file.ins /\ updTrigger' = file.upd
        /\ identity' = file.identity /\ cursor' = file.cursor /\ sent' = file.sent
        /\ applied' = (file.identity # 0)
  BY DEF Restore
<1>3. file \in FileState /\ FileInv(file) /\ file.identity = 0
  BY <1>1 DEF Backups
<1>4. Types' /\ Rows' /\ Counting' /\ Room' /\ NullRows' = Nulls(file)
  BY <1>2, <1>3, Replaced
<1>5. pc = "off" /\ UNCHANGED <<pc, todo, base, epochs, backup, srvCursor>>
  BY DEF Restore, migration
<1>6. Others'
  BY <1>1, <1>2, <1>3, <1>5 DEF Others
<1>7. Backups' /\ Steps' /\ Used' /\ NoWriteLost'
  BY <1>1, <1>2, <1>3, <1>5 DEF Backups, Steps, Used, NoWriteLost
<1>8. QED
  BY <1>4, <1>6, <1>7, PartsNext

-----------------------------------------------------------------------------
(* The services and the sync worker.                                       *)

\* A row that gets the next position.
LEMMA BumpRow ==
  ASSUME Types, Rows, Counting, counter # NoRow, counter < MaxSeq, NEW k \in Key, Bump(k)
  PROVE  /\ counter' = counter + 1 /\ counter' \in Position /\ counter' <= MaxSeq
         /\ Value(counter') = counter + 1 /\ Value(counter) = counter
         /\ seq' \in [Key -> Position] /\ seq'[k] = counter + 1 /\ seq'[k] > cursor
         /\ \A j \in Key \ {k} : seq'[j] = seq[j]
         /\ \A j \in Key : seq[j] \in Nat /\ seq[j] < seq'[k]
         /\ counter \in Nat /\ cursor \in Nat /\ cursor <= counter
<1>1. counter' = counter + 1 /\ seq' = [seq EXCEPT ![k] = counter + 1]
  BY DEF Bump
<1>2. counter \in Nat /\ Value(counter) = counter
  BY Numbers DEF Types
<1>3. counter + 1 \in Position /\ counter + 1 <= MaxSeq /\ counter + 1 # NoRow
  BY <1>2, Numbers
<1>4. Value(counter + 1) = counter + 1
  BY <1>3, Numbers
<1>5. seq' \in [Key -> Position] /\ seq'[k] = counter + 1
        /\ \A j \in Key \ {k} : seq'[j] = seq[j]
  BY <1>1, <1>3 DEF Types
<1>6. \A j \in Key : seq[j] \in Nat /\ seq[j] <= counter
  BY <1>2, Numbers DEF Types, Rows
<1>7. cursor \in Nat /\ cursor <= counter
  BY <1>2, Numbers DEF Types, Counting
<1>8. QED
  BY <1>1, <1>2, <1>3, <1>4, <1>5, <1>6, <1>7

\* An insert or update, with or without the trigger that counts it.
LEMMA WriteStep ==
  ASSUME QuietMigration, IInv, NEW k \in Key, Insert(k) \/ Update(k)
  PROVE  IInv'
<1>1. Types /\ Rows /\ Counting /\ Room /\ Others /\ Backups /\ Steps /\ Used /\ NoWriteLost
  BY Parts
<1>2. /\ pc = "off" /\ counter < MaxSeq
      /\ UNCHANGED <<insTrigger, updTrigger, pc, todo, base, applied, identity, epochs, backup,
                     cursor, sent, srvCursor>>
  BY DEF Insert, Update, MayWrite, QuietMigration, triggers, migration, meta, sync
<1>3. \E n \in 1..MaxVer : ver' = [ver EXCEPT ![k] = n]
  <2>1. CASE Insert(k)
    <3>1. 1 \in 1..MaxVer
      BY MigrationConstantsOK
    <3>2. QED
      BY <2>1, <3>1 DEF Insert
  <2>2. CASE Update(k)
    <3>1. ver[k] + 1 \in 1..MaxVer /\ ver' = [ver EXCEPT ![k] = ver[k] + 1]
      BY <2>2, Numbers DEF Update
    <3>2. QED
      BY <3>1
  <2>3. QED
    BY <2>1, <2>2
<1>4. /\ ver' \in [Key -> 0..MaxVer] /\ ver'[k] > 0
      /\ \A j \in Key \ {k} : ver'[j] = ver[j]
  BY <1>1, <1>3, Numbers DEF Types
<1>5. Cardinality(NullRows') \in Nat /\ Cardinality(NullRows') <= NumKeys
  BY Finite DEF NullRows
<1>6. Others' /\ Backups'
  BY <1>1, <1>2 DEF Others, Backups
<1>7. CASE Bump(k) /\ (insTrigger \/ updTrigger)
  <2>1. counter # NoRow
    BY <1>1, <1>7 DEF Counting
  <2>2. /\ counter' = counter + 1 /\ counter' \in Position /\ counter' <= MaxSeq
        /\ Value(counter') = counter + 1 /\ Value(counter) = counter
        /\ seq' \in [Key -> Position] /\ seq'[k] = counter + 1 /\ seq'[k] > cursor
        /\ \A j \in Key \ {k} : seq'[j] = seq[j]
        /\ \A j \in Key : seq[j] \in Nat /\ seq[j] < seq'[k]
        /\ counter \in Nat /\ cursor \in Nat /\ cursor <= counter
    BY <1>1, <1>2, <1>7, <2>1, BumpRow
  <2>3. Types'
    BY <1>1, <1>2, <1>4, <2>2 DEF Types
  <2>4. Rows'
    <3>1. ASSUME NEW i \in Key, NEW j \in Key, seq'[i] = seq'[j], seq'[i] > 0 PROVE i = j
      BY <1>1, <2>2, <3>1 DEF Rows
    <3>2. \A j \in Key : seq'[j] <= counter + 1
      BY <2>2
    <3>3. \A j \in Key : ver'[j] = 0 => seq'[j] = 0 /\ sent'[j] = 0
      BY <1>1, <1>2, <1>4, <2>2 DEF Rows
    <3>4. QED
      BY <2>2, <3>1, <3>2, <3>3 DEF Rows
  <2>5. Counting'
    BY <1>1, <1>2, <2>2, Numbers DEF Counting
  <2>6. Room'
    BY <1>5, <2>2, Numbers DEF Room
  <2>7. NullRows' \subseteq NullRows
    BY <1>4, <2>2 DEF NullRows
  <2>8. Steps' /\ Used'
    BY <1>1, <1>2, <2>7 DEF Steps, Used
  <2>9. NoWriteLost'
    BY <1>1, <1>2, <1>4, <2>2 DEF NoWriteLost
  <2>10. QED
    BY <1>6, <2>3, <2>4, <2>5, <2>6, <2>8, <2>9, PartsNext
<1>8. CASE ~ applied /\ UNCHANGED <<seq, counter>>
  <2>1. Types'
    BY <1>1, <1>2, <1>4, <1>8 DEF Types
  <2>2. Rows'
    BY <1>1, <1>2, <1>4, <1>8 DEF Rows
  <2>3. Counting'
    BY <1>1, <1>2, <1>8 DEF Counting
  <2>4. Room'
    <3>1. Value(counter) \in Int /\ Value(counter) <= MaxSeq
      BY <1>1, <1>2, Numbers DEF Types
    <3>2. QED
      BY <1>5, <1>8, <3>1, Numbers DEF Room
  <2>5. Steps' /\ Used' /\ NoWriteLost'
    BY <1>1, <1>2, <1>8 DEF Steps, Used, NoWriteLost
  <2>6. QED
    BY <1>6, <2>1, <2>2, <2>3, <2>4, <2>5, PartsNext
<1>9. QED
  <2>1. CASE Insert(k)
    BY <1>1, <1>7, <1>8, <2>1 DEF Insert, Used
  <2>2. CASE Update(k)
    BY <1>1, <1>7, <1>8, <2>2 DEF Update, BumpUpdated, Used
  <2>3. QED
    BY <2>1, <2>2

LEMMA SyncStep == IInv /\ Sync => IInv'
<1> SUFFICES ASSUME IInv, Sync PROVE IInv'
  OBVIOUS
<1>1. Types /\ Rows /\ Counting /\ Room /\ Others /\ Backups /\ Steps /\ Used /\ NoWriteLost
  BY Parts
<1>2. PICK last \in Key :
        /\ seq[last] > cursor /\ \A k \in Key : seq[k] <= seq[last]
        /\ cursor' = Accepted(seq[last])
        /\ srvCursor' = [epoch |-> identity, val |-> Accepted(seq[last])]
  BY DEF Sync
<1>3. /\ applied
      /\ UNCHANGED <<ver, seq, counter, insTrigger, updTrigger, pc, todo, base, applied,
                     identity, epochs, backup>>
      /\ sent' = [k \in Key |-> IF seq[k] > cursor THEN ver[k] ELSE sent[k]]
  BY DEF Sync, table, triggers, migration, meta
<1>4. /\ \A k \in Key : seq[k] \in Nat
      /\ seq[last] \in Position /\ seq[last] <= Value(counter)
      /\ cursor \in Nat /\ identity \in Nat /\ identity <= epochs /\ epochs \in Nat
      /\ srvCursor.val \in Nat
  BY <1>1, Numbers DEF Types, Others, Rows
\* The server's cursor is not above the edge's.
<1>5. Accepted(seq[last]) = seq[last]
  BY <1>1, <1>2, <1>3, <1>4 DEF Accepted, Used
<1>6. NullRows' = NullRows
  BY <1>3 DEF NullRows
<1>7. Types'
  BY <1>1, <1>2, <1>3, <1>4, <1>5 DEF Types
<1>8. Rows' /\ Counting' /\ Room'
  BY <1>1, <1>2, <1>3, <1>4, <1>5, <1>6 DEF Rows, Counting, Room, Used
<1>9. Others'
  <2>1. srvCursor' \in [epoch : 0..epochs', val : Position]
    BY <1>2, <1>3, <1>4, <1>5
  <2>2. QED
    BY <1>1, <1>3, <2>1 DEF Others
<1>10. Backups' /\ Steps'
  BY <1>1, <1>3, <1>6 DEF Backups, Steps
<1>11. Used'
  <2>1. srvCursor'.val = cursor' /\ cursor' \in Nat
    BY <1>2, <1>4, <1>5
  <2>2. QED
    BY <1>1, <1>3, <1>6, <2>1 DEF Used
<1>12. NoWriteLost'
  <2>1. ASSUME NEW k \in Key PROVE sent'[k] = ver'[k]
    BY <1>1, <1>3, <2>1 DEF NoWriteLost
  <2>2. QED
    BY <2>1 DEF NoWriteLost
<1>13. QED
  BY <1>7, <1>8, <1>9, <1>10, <1>11, <1>12, PartsNext

LEMMA StutterStep == IInv /\ UNCHANGED vars => IInv'
<1> SUFFICES ASSUME IInv, UNCHANGED vars PROVE IInv'
  OBVIOUS
<1>1. Types /\ Rows /\ Counting /\ Room /\ Others /\ Backups /\ Steps /\ Used /\ NoWriteLost
  BY Parts
<1>2. Types' /\ Rows' /\ Counting' /\ Room' /\ NullRows' = NullRows
  BY <1>1, SameFile DEF vars, meta, sync
<1>3. Others' /\ Backups' /\ Steps' /\ Used' /\ NoWriteLost'
  BY <1>1, <1>2 DEF vars, table, triggers, migration, meta, sync, Others, Backups, Steps,
                    Used, NoWriteLost
<1>4. QED
  BY <1>2, <1>3, PartsNext

-----------------------------------------------------------------------------
(* The theorems.                                                           *)

LEMMA NextIInv == QuietMigration /\ IInv /\ [Next]_vars => IInv'
BY PrepareStep, ReadStep, BackfillStep, CreateStep, IdentityStep, RollBackStep, RestoreStep,
   WriteStep, SyncStep, StutterStep DEF Next, Migrate

\* The inductive invariant of a migration without writers, for tables of any size
\* and any number of interruptions and re-runs.
THEOREM Inductive == QuietMigration => (Spec => []IInv)
<1> SUFFICES ASSUME QuietMigration PROVE Spec => []IInv
  OBVIOUS
<1>1. IInv /\ [Next]_vars => IInv'
  BY NextIInv
<1>2. QED
  BY InitIInv, <1>1, PTL DEF Spec

\* Types and bounds: the backfill gives out no more positions than there are rows.
THEOREM TypeCorrect == QuietMigration => (Spec => []TypeOK)
<1> SUFFICES ASSUME QuietMigration PROVE Spec => []TypeOK
  OBVIOUS
<1>1. IInv => TypeOK
  BY DEF IInv
<1>2. QED
  BY Inductive, <1>1, PTL

\* Every write the server does not have is above the cursor of a migrated table,
\* if the services are stopped while it is migrated and it is not reverted in use.
THEOREM WritesAreNotLost == QuietMigration => (Spec => []NoWriteLost)
<1> SUFFICES ASSUME QuietMigration PROVE Spec => []NoWriteLost
  OBVIOUS
<1>1. IInv => NoWriteLost
  BY DEF IInv
<1>2. QED
  BY Inductive, <1>1, PTL

\* Positions name rows, and a migrated table has no row without one.
THEOREM PositionsAreUnique == QuietMigration => (Spec => []PositionsUnique)
<1> SUFFICES ASSUME QuietMigration PROVE Spec => []PositionsUnique
  OBVIOUS
<1>1. IInv => PositionsUnique
  <2> SUFFICES ASSUME IInv PROVE PositionsUnique
    OBVIOUS
  <2>1. Types /\ Rows /\ Used
    BY Parts
  <2>2. applied => \A k \in Key : ver[k] > 0 => seq[k] > 0
    BY <2>1, Numbers DEF Used, NullRows, Types
  <2>3. QED
    BY <2>1, <2>2 DEF PositionsUnique, Rows
<1>2. QED
  BY Inductive, <1>1, PTL

\* On a migrated table a write moves its row, and only that row, above every
\* position there was.
THEOREM WritesGoOnTop == QuietMigration => (Spec => WriteGoesOnTop)
<1> SUFFICES ASSUME QuietMigration PROVE Spec => WriteGoesOnTop
  OBVIOUS
<1>1. IInv /\ [Next]_vars =>
        [\A k \in Key : applied /\ applied' /\ ver'[k] # ver[k] =>
           /\ \A j \in Key : seq'[k] > seq[j]
           /\ \A j \in Key \ {k} : seq'[j] = seq[j]]_table
  <2> SUFFICES ASSUME IInv, [Next]_vars, NEW k \in Key, applied, applied', ver'[k] # ver[k]
               PROVE  /\ \A j \in Key : seq'[k] > seq[j]
                      /\ \A j \in Key \ {k} : seq'[j] = seq[j]
    OBVIOUS
  <2>1. Types /\ Rows /\ Counting /\ Backups /\ Used
    BY Parts
  <2>2. ~ Restore
    BY <2>1 DEF Restore, Backups
  <2>3. PICK i \in Key : Insert(i) \/ Update(i)
    BY <2>2 DEF Next, Migrate, Prepare, SelectNull, ReadCounter, Backfill, InitCounter,
       CreateInsertTrigger, CreateUpdateTrigger, EnsureIdentity, Interrupt, RollBack, Sync,
       table, vars
  <2>4. i = k
    BY <2>1, <2>3 DEF Insert, Update, Types
  <2>5. Bump(k) /\ counter # NoRow /\ counter < MaxSeq
    BY <2>1, <2>3, <2>4 DEF Insert, Update, BumpUpdated, Used, Counting, MayWrite
  <2>6. QED
    BY <2>1, <2>5, BumpRow
<1>2. QED
  BY Inductive, <1>1, PTL DEF Spec, WriteGoesOnTop

\* Running the migration again on a migrated table changes no position.
THEOREM RerunsAreNoOps == QuietMigration => (Spec => RerunIsNoOp)
<1> SUFFICES ASSUME QuietMigration PROVE Spec => RerunIsNoOp
  OBVIOUS
<1>1. IInv /\ [Next]_vars =>
        [applied /\ applied' /\ ver' = ver => UNCHANGED <<seq, counter>>]_table
  <2> SUFFICES ASSUME IInv, [Next]_vars, applied, applied', ver' = ver
               PROVE  UNCHANGED <<seq, counter>>
    OBVIOUS
  <2>1. Types /\ Counting /\ Backups /\ Used /\ Steps
    BY Parts
  <2>2. ~ Restore /\ ~ Backfill /\ ~ RollBack
    BY <2>1 DEF Restore, Backups, Backfill, RollBack, Steps
  <2>3. \A k \in Key : ~ Insert(k) /\ ~ Update(k)
    BY <2>1, Numbers DEF Insert, Update, Types
  <2>4. InitCounter => UNCHANGED <<seq, counter>>
    BY <2>1, Numbers DEF InitCounter, Types, Used, Counting
  <2>5. QED
    BY <2>2, <2>3, <2>4 DEF Next, Migrate, Prepare, SelectNull, ReadCounter,
       CreateInsertTrigger, CreateUpdateTrigger, EnsureIdentity, Interrupt, Sync, table, vars
<1>2. QED
  BY Inductive, <1>1, PTL DEF Spec, RerunIsNoOp

=============================================================================
