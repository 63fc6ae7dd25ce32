--------------------------- MODULE ReadPath_proofs ---------------------------
(***************************************************************************)
(* Proofs about ReadPath, for every value of its constants.                *)
(***************************************************************************)
EXTENDS ReadPath, Series_proofs, FiniteSetTheorems, TLAPS

-----------------------------------------------------------------------------
(* Types.                                                                  *)

\* Statuses are statuses.
LEMMA StatusType ==
  /\ NodeStatus \subseteq Status
  /\ \A age : StatusForAge(age, Interval) \in Status
  /\ \A age, node : StatusForEvent(age, node) \in Status
BY DEF NodeStatus, StatusForNode, StatusForAge, StatusForEvent, StatusForThresholds, Status

\* What the history of a reader does not change, and what it does.
LEMMA TouchReader ==
  ASSUME NEW what \in {"ingest", "prune"}, reader \in ReaderState, Touch(what)
  PROVE  /\ reader' \in ReaderState
         /\ \A f \in {"step", "p", "now", "node", "weather", "event", "from", "to",
                      "count", "recent"} : reader'[f] = reader[f]
         /\ reader.touched \subseteq reader'.touched
         /\ Reading => what \in reader'.touched
BY DEF Touch, ReaderState

\* Rows selected from those there are can be counted.
LEMMA CountType ==
  ASSUME IsFiniteSet(rows), NEW some \in SUBSET rows
  PROVE  IsFiniteSet(some) /\ Cardinality(some) \in Nat /\ Cardinality(some) <= Cardinality(rows)
BY FS_Subset, FS_CardinalityType

\* The record of a session, a run and a reader before anything has happened.
LEMMA FirstStates ==
  /\ Idle \in IngestState
  /\ NoPrune \in PruneState
  /\ NoReader \in ReaderState
<1>1. Idle \in IngestState
  BY DEF Idle, IngestState
<1>2. NoPrune \in PruneState
  BY DEF NoPrune, PruneState
<1>3. NoReader \in ReaderState
  BY DEF NoReader, ReaderState, Status
<1>4. QED
  BY <1>1, <1>2, <1>3

LEMMA InitType == Init => TypeOK
<1> SUFFICES ASSUME Init PROVE TypeOK
  OBVIOUS
<1>1. /\ clock \in 0..MaxTime /\ left \in 0..MaxRequests
      /\ rows \subseteq Row /\ IsFiniteSet(rows)
  BY FS_EmptySet, ReadPathConstantsOK DEF Init
<1>2. lastSeen \in [Node -> {None} \cup Nat] /\ \A n \in Node : lastSeen[n] <= clock
  BY DEF Init, None
<1>3. /\ ingest \in [Session -> IngestState]
      /\ \A s \in Session : ingest[s].now <= clock /\ IsFiniteSet(ingest[s].row)
  <2>1. Idle.now = 0 /\ Idle.row = {}
    BY DEF Idle
  <2>2. QED
    BY <2>1, FirstStates, FS_EmptySet DEF Init
<1>4. prune \in PruneState /\ prune.now <= clock /\ prune.doomed \subseteq rows
  BY FirstStates DEF Init, NoPrune
<1>5. reader \in ReaderState /\ reader.now <= clock
  <2>1. NoReader.now = 0
    BY DEF NoReader
  <2>2. QED
    BY FirstStates, <2>1 DEF Init
<1>6. QED
  BY <1>1, <1>2, <1>3, <1>4, <1>5 DEF TypeOK

\* What the later SELECTs add to a reader.
LEMMA ReaderUpdate ==
  ASSUME reader \in ReaderState, NEW status \in Status, NEW some \in SUBSET Row,
         \/ reader' = [reader EXCEPT !.step = "weather", !.node = status]
         \/ reader' = [reader EXCEPT !.step = "event", !.weather = status]
         \/ reader' = [reader EXCEPT !.step = "health", !.event = status]
         \/ reader' = [reader EXCEPT !.step = "summary", !.recent = some]
  PROVE  reader' \in ReaderState /\ reader'.now = reader.now
<1>1. CASE reader' = [reader EXCEPT !.step = "weather", !.node = status]
  BY <1>1 DEF ReaderState
<1>2. CASE reader' = [reader EXCEPT !.step = "event", !.weather = status]
  BY <1>2 DEF ReaderState
<1>3. CASE reader' = [reader EXCEPT !.step = "health", !.event = status]
  BY <1>3 DEF ReaderState
<1>4. CASE reader' = [reader EXCEPT !.step = "summary", !.recent = some]
  BY <1>4 DEF ReaderState
<1>5. QED
  BY <1>1, <1>2, <1>3, <1>4

\* A read step changes the reader only.
ReadsOnly == UNCHANGED <<clock, lastSeen, rows, ingest, prune>> /\ left' \in 0..MaxRequests

LEMMA ReaderType ==
  ASSUME TypeOK, Read
  PROVE  ReadsOnly /\ reader' \in ReaderState /\ reader'.now <= clock
<1>1. reader \in ReaderState /\ reader.now <= clock
  BY DEF TypeOK
<1>2. clock \in Nat /\ left \in 0..MaxRequests /\ MaxRequests \in Nat
  BY ReadPathConstantsOK DEF TypeOK
<1>3. /\ NoReader.now = 0 /\ NoReader \in ReaderState
      /\ "" \in Status /\ {} \in SUBSET Row
  BY FirstStates DEF NoReader, Status
<1>4. ReadsOnly
  <2>1. ASSUME NEW p \in Node \cup {AllNodes, Unknown}, HealthStart(p) PROVE ReadsOnly
    BY <1>2, <2>1 DEF HealthStart, ReadsOnly
  <2>2. ASSUME NEW p \in Node \cup {AllNodes, Unknown}, NEW range \in Asked,
               SummaryCount(p, range[1], range[2])
        PROVE  ReadsOnly
    BY <1>2, <2>2 DEF SummaryCount, ReadsOnly
  <2>3. CASE HealthNode \/ HealthWeather \/ HealthEvent \/ SummaryRecent \/ EndRead
    BY <1>2, <2>3 DEF HealthNode, HealthWeather, HealthEvent, SummaryRecent, EndRead, ReadsOnly
  <2>4. QED
    BY <2>1, <2>2, <2>3 DEF Read
<1>5. ASSUME NEW p \in Node \cup {AllNodes, Unknown}, HealthStart(p)
      PROVE  reader' \in ReaderState /\ reader'.now <= clock
  <2>1. reader' = [reader EXCEPT !.step = "node", !.p = p, !.now = clock]
    BY <1>5 DEF HealthStart
  <2>2. reader' \in ReaderState
    BY <1>1, <1>2, <2>1 DEF ReaderState
  <2>3. reader'.now = clock
    BY <1>1, <2>1 DEF ReaderState
  <2>4. QED
    BY <1>2, <2>2, <2>3
<1>6. ASSUME NEW p \in Node \cup {AllNodes, Unknown}, NEW range \in Asked,
             SummaryCount(p, range[1], range[2])
      PROVE  reader' \in ReaderState /\ reader'.now = reader.now
  <2>1. range[1] \in Int /\ range[2] \in Int
    BY ReadPathConstantsOK
  <2> DEFINE from == Since(range[1], range[2], clock)
             to == Until(range[2], clock)
  <2>2. from \in Int /\ to \in Int
    BY <1>2, <2>1, SeriesConstantsOK DEF Since, Until
  <2>3. PICK some \in SUBSET rows :
          reader' = [reader EXCEPT !.step = "recent", !.p = p, !.from = from, !.to = to,
                                   !.count = Cardinality(some)]
    BY <1>6 DEF SummaryCount, InRange, OfNode
  <2>4. Cardinality(some) \in Nat
    BY <2>3, CountType DEF TypeOK
  <2> HIDE DEF from, to
  <2>5. reader' \in ReaderState
    BY <1>1, <2>2, <2>3, <2>4 DEF ReaderState
  <2>6. reader'.now = reader.now
    BY <1>1, <2>3 DEF ReaderState
  <2>7. QED
    BY <2>5, <2>6
<1>7. CASE HealthNode
  <2>1. PICK status \in Status :
          reader' = [reader EXCEPT !.step = "weather", !.node = status]
    BY <1>7, StatusType DEF HealthNode
  <2>2. QED
    BY <1>1, <1>4, <1>3, <2>1, ReaderUpdate
<1>8. CASE HealthWeather
  <2>1. PICK status \in Status :
          reader' = [reader EXCEPT !.step = "event", !.weather = status]
    BY <1>8, StatusType DEF HealthWeather
  <2>2. QED
    BY <1>1, <1>4, <1>3, <2>1, ReaderUpdate
<1>9. CASE HealthEvent
  <2>1. PICK status \in Status :
          reader' = [reader EXCEPT !.step = "health", !.event = status]
    BY <1>9, StatusType DEF HealthEvent
  <2>2. QED
    BY <1>1, <1>4, <1>3, <2>1, ReaderUpdate
<1>10. CASE SummaryRecent
  <2>1. PICK some \in SUBSET RecentOf :
          reader' = [reader EXCEPT !.step = "summary", !.recent = some]
    BY <1>10 DEF SummaryRecent
  <2>2. some \subseteq Row
    BY DEF RecentOf, InRange, OfNode, TypeOK
  <2>3. QED
    BY <1>1, <1>4, <1>3, <2>1, <2>2, ReaderUpdate
<1>11. CASE EndRead
  <2>1. reader' = NoReader
    BY <1>11 DEF EndRead
  <2>2. reader'.now = 0 /\ reader' \in ReaderState
    BY <1>3, <2>1
  <2>3. QED
    BY <1>2, <1>4, <2>2
<1>12. QED
  BY <1>1, <1>4, <1>5, <1>6, <1>7, <1>8, <1>9, <1>10, <1>11 DEF Read

LEMMA NextType == TypeOK /\ [Next]_vars => TypeOK'
<1> SUFFICES ASSUME TypeOK, [Next]_vars PROVE TypeOK'
  OBVIOUS
<1>a. /\ clock \in Nat /\ left \in 0..MaxRequests /\ MaxRequests \in Nat /\ MaxTime \in Nat
      /\ Idle.now = 0 /\ IsFiniteSet(Idle.row) /\ Idle \in IngestState
      /\ NoPrune.now = 0 /\ NoPrune.doomed = {} /\ NoPrune \in PruneState
  <2>1. Idle.now = 0 /\ Idle.row = {} /\ NoPrune.now = 0 /\ NoPrune.doomed = {}
    BY DEF Idle, NoPrune
  <2>2. QED
    BY <2>1, ReadPathConstantsOK, FirstStates, FS_EmptySet DEF TypeOK
<1>1. CASE Tick
  <2>1. /\ \A s \in Session : ingest[s].now \in Nat
        /\ prune.now \in Nat /\ reader.now \in Nat
    BY DEF TypeOK, IngestState, PruneState, ReaderState
  <2>2. \A n \in Node : lastSeen[n] \in Int
    BY DEF TypeOK, None
  <2>3. QED
    BY <1>a, <1>1, <2>1, <2>2 DEF Tick, TypeOK
<1>2. ASSUME NEW s \in Session, NEW r \in Row, Upsert(s, r) PROVE TypeOK'
  <2>1. Upserted(r) \in IngestState
    BY <1>a DEF Upserted, IngestState
  <2>2. Upserted(r).now = clock /\ IsFiniteSet(Upserted(r).row)
    BY FS_Singleton DEF Upserted
  <2>3. QED
    BY <1>a, <1>2, <2>1, <2>2 DEF Upsert, TypeOK
<1>3. ASSUME NEW s \in Session, Commit(s) PROVE TypeOK'
  <2>1. rows' \subseteq Row /\ IsFiniteSet(rows') /\ rows \subseteq rows'
    BY <1>3, FS_Union DEF Commit, TypeOK, IngestState
  <2>2. prune' \in PruneState /\ prune'.now = prune.now /\ prune'.doomed = prune.doomed
    BY <1>3 DEF Commit, TypeOK, IngestState, PruneState
  <2>3. lastSeen' \in [Node -> {None} \cup Nat] /\ \A n \in Node : lastSeen'[n] <= clock
    BY <1>3 DEF Commit, TypeOK, IngestState, Seen
  <2>4. /\ ingest' \in [Session -> IngestState]
        /\ \A u \in Session : ingest'[u].now <= clock /\ IsFiniteSet(ingest'[u].row)
    BY <1>a, <1>3 DEF Commit, TypeOK
  <2>5. reader' \in ReaderState /\ reader'.now = reader.now
    BY <1>3, TouchReader DEF Commit, TypeOK
  <2>6. QED
    BY <1>3, <2>1, <2>2, <2>3, <2>4, <2>5 DEF TypeOK, Commit
<1>4. ASSUME NEW s \in Session, Abort(s) PROVE TypeOK'
  BY <1>a, <1>4 DEF Abort, TypeOK
<1>5. CASE PruneStart
  <2>1. prune' \in PruneState
    BY <1>a, <1>5, ReadPathConstantsOK DEF PruneStart, NoPrune, PruneState
  <2>2. prune'.now = clock /\ prune'.doomed = {}
    BY <1>5 DEF PruneStart, NoPrune
  <2>3. QED
    BY <1>a, <1>5, <2>1, <2>2 DEF PruneStart, TypeOK
<1>6. ASSUME NEW t \in Table, PruneTable(t) PROVE TypeOK'
  <2>1. Expired(t) \subseteq rows
    BY DEF Expired
  <2>2. prune' \in PruneState /\ prune'.now = prune.now
          /\ prune'.doomed = prune.doomed \cup Expired(t)
    BY <1>6, <2>1 DEF PruneTable, TypeOK, PruneState
  <2>3. QED
    BY <1>6, <2>1, <2>2 DEF PruneTable, TypeOK
<1>7. CASE PruneCommit
  <2>1. reader' \in ReaderState /\ reader'.now = reader.now
    BY <1>7, TouchReader DEF PruneCommit, TypeOK
  <2>2. prune' \in PruneState /\ prune'.now <= clock /\ prune'.doomed \subseteq rows'
    BY <1>a, <1>7 DEF PruneCommit
  <2>3. QED
    BY <1>7, <2>1, <2>2, FS_Subset DEF TypeOK, PruneCommit
<1>8. CASE PruneAbort
  BY <1>a, <1>8 DEF PruneAbort, TypeOK
<1>9. CASE Read
  BY <1>9, ReaderType DEF TypeOK, ReadsOnly
<1>10. CASE UNCHANGED vars
  BY <1>10 DEF vars, TypeOK
<1>11. ASSUME NEW s \in Session, NEW t \in Table, NEW n \in Node, NEW skew \in Skew,
              Upsert(s, [table |-> t, node |-> n, at |-> clock + skew])
       PROVE  TypeOK'
  <2>1. [table |-> t, node |-> n, at |-> clock + skew] \in Row
    <3>1. clock + skew \in Int
      BY <1>a, ReadPathConstantsOK
    <3>2. 0 <= clock + skew
      BY <1>11 DEF Upsert
    <3>3. QED
      BY <3>1, <3>2 DEF Row
  <2>2. QED
    BY <1>2, <1>11, <2>1
<1>12. QED
  BY <1>1, <1>3, <1>4, <1>5, <1>6, <1>7, <1>8, <1>9, <1>10, <1>11
     DEF Next, Ingest, Prune

\* The types of ReadPath, for every node, session, retention and bound: no time
\* taken from the clock is ever later than it.
THEOREM TypeCorrect == Spec => []TypeOK
<1>1. QED
  BY InitType, NextType, PTL DEF Spec

-----------------------------------------------------------------------------
(* last_seen_utc and the rows.                                             *)

LEMMA SeenStep == TypeOK /\ SeenInv /\ [Next]_vars => SeenInv'
<1> SUFFICES ASSUME TypeOK, SeenInv, [Next]_vars PROVE SeenInv'
  OBVIOUS
<1>a. /\ clock \in Nat /\ Slow \in Nat /\ Ahead \in Nat
      /\ \A n \in Node : lastSeen[n] \in Int /\ lastSeen[n] <= clock
      /\ \A s \in Session : ingest[s].now \in Nat /\ ingest[s].now <= clock
                             /\ ingest[s].row \subseteq Row
      /\ rows \subseteq Row /\ \A r \in Row : r.at \in Nat /\ r.node \in Node
      /\ ~ Idle.busy
  BY ReadPathConstantsOK DEF TypeOK, IngestState, Row, None, Idle
<1>1. CASE Tick
  BY <1>a, <1>1 DEF Tick, SeenInv
<1>2. ASSUME NEW s \in Session, NEW t \in Table, NEW n \in Node, NEW skew \in Skew,
             Upsert(s, [table |-> t, node |-> n, at |-> clock + skew])
      PROVE  SeenInv'
  <2> DEFINE r == [table |-> t, node |-> n, at |-> clock + skew]
  <2>1. /\ Upserted(r).busy /\ Upserted(r).now = clock
        /\ \A q \in Upserted(r).row : q.at <= clock + Ahead
    BY <1>a, ReadPathConstantsOK DEF Upserted
  <2>2. ingest' = [ingest EXCEPT ![s] = Upserted(r)]
          /\ UNCHANGED <<clock, lastSeen, rows>>
    BY <1>2 DEF Upsert
  <2> HIDE DEF r
  <2>3. \A u \in Session : ingest'[u] = IF u = s THEN Upserted(r) ELSE ingest[u]
    BY <2>2 DEF TypeOK
  <2>4. QED
    BY <1>a, <2>1, <2>2, <2>3 DEF SeenInv
<1>3. ASSUME NEW s \in Session, Commit(s) PROVE SeenInv'
  <2>1. \A u \in Session : ingest'[u] = IF u = s THEN Idle ELSE ingest[u]
    BY <1>3 DEF Commit, TypeOK
  <2>2. /\ rows' = rows \cup ingest[s].row /\ clock' = clock
        /\ \A n \in Node : lastSeen'[n] = Seen(s, n)
        /\ clock - ingest[s].now <= Slow
        /\ \A r \in ingest[s].row : r.at <= ingest[s].now + Ahead
    BY <1>3 DEF Commit, SeenInv
  <2>3. ASSUME NEW r \in rows'
        PROVE  /\ r.at <= clock + Ahead
               /\ lastSeen'[r.node] # None /\ r.at <= lastSeen'[r.node] + Ahead + Slow
    <3>1. r.at \in Nat /\ r.node \in Node /\ r.at <= clock + Ahead
      BY <1>a, <2>2 DEF SeenInv
    <3>2. CASE \E q \in ingest[s].row : q.node = r.node
      BY <1>a, <2>2, <3>1, <3>2 DEF Seen, None
    <3>3. CASE ~ \E q \in ingest[s].row : q.node = r.node
      BY <1>a, <2>2, <3>1, <3>3 DEF Seen, SeenInv
    <3>4. QED
      BY <3>2, <3>3, <3>1
  <2>4. QED
    BY <1>a, <2>1, <2>2, <2>3 DEF SeenInv
<1>4. ASSUME NEW s \in Session, Abort(s) PROVE SeenInv'
  BY <1>a, <1>4 DEF Abort, SeenInv, TypeOK
<1>5. CASE PruneStart \/ PruneAbort \/ \E t \in Table : PruneTable(t)
  BY <1>a, <1>5 DEF PruneStart, PruneAbort, PruneTable, SeenInv
<1>6. CASE PruneCommit
  BY <1>a, <1>6 DEF PruneCommit, SeenInv
<1>7. CASE Read
  BY <1>7, ReaderType DEF ReadsOnly, SeenInv
<1>8. CASE UNCHANGED vars
  BY <1>8 DEF vars, SeenInv
<1>9. QED
  BY <1>1, <1>2, <1>3, <1>4, <1>5, <1>6, <1>7, <1>8 DEF Next, Ingest, Prune

-----------------------------------------------------------------------------
(* The retention job.                                                      *)

LEMMA PruneStep == TypeOK /\ PruneInv /\ [Next]_vars => PruneInv'
<1> SUFFICES ASSUME TypeOK, PruneInv, [Next]_vars PROVE PruneInv'
  OBVIOUS
<1>a. prune \in PruneState /\ prune.doomed \subseteq rows /\ ~ NoPrune.on
  BY DEF TypeOK, NoPrune
<1>1. CASE Tick
  BY <1>1 DEF Tick, PruneInv
<1>2. ASSUME NEW s \in Session, NEW r, Upsert(s, r) PROVE PruneInv'
  BY <1>2 DEF Upsert, PruneInv
<1>3. ASSUME NEW s \in Session, Commit(s) PROVE PruneInv'
  <2>1. /\ prune'.on = prune.on /\ prune'.now = prune.now /\ prune'.todo = prune.todo
        /\ prune'.doomed = prune.doomed
        /\ prune'.since = prune.since \cup
             {r \in ingest[s].row : prune.on /\ r.table \notin prune.todo}
    BY <1>a, <1>3 DEF Commit, PruneState
  <2>2. QED
    BY <1>3, <2>1 DEF Commit, PruneInv
<1>4. ASSUME NEW s \in Session, Abort(s) PROVE PruneInv'
  BY <1>4 DEF Abort, PruneInv
<1>5. CASE PruneStart
  <2>1. prune'.doomed = {} /\ prune'.todo = Table
    BY <1>5, ReadPathConstantsOK DEF PruneStart, NoPrune
  <2>2. \A r \in rows' : r.table \in Table
    BY <1>5 DEF PruneStart, TypeOK, Row
  <2>3. QED
    BY <2>1, <2>2 DEF PruneInv
<1>6. ASSUME NEW t \in Table, PruneTable(t) PROVE PruneInv'
  <2>1. /\ prune'.on = prune.on /\ prune'.now = prune.now /\ prune'.since = prune.since
        /\ prune'.todo = prune.todo \ {t} /\ prune'.doomed = prune.doomed \cup Expired(t)
    BY <1>a, <1>6 DEF PruneTable, PruneState
  <2>2. prune.on /\ rows' = rows
    BY <1>6 DEF PruneTable
  <2>3. QED
    BY <2>1, <2>2 DEF PruneInv, Expired
<1>7. CASE PruneCommit \/ PruneAbort
  BY <1>a, <1>7 DEF PruneCommit, PruneAbort, PruneInv
<1>8. CASE Read
  BY <1>8, ReaderType DEF ReadsOnly, PruneInv
<1>9. CASE UNCHANGED vars
  BY <1>9 DEF vars, PruneInv
<1>10. QED
  BY <1>1, <1>2, <1>3, <1>4, <1>5, <1>6, <1>7, <1>8, <1>9 DEF Next, Ingest, Prune

-----------------------------------------------------------------------------
(* The health handler.                                                     *)

\* A node without a status "no_data" has been seen, one called "offline" long ago.
LEMMA StatusOfNode ==
  ASSUME NEW last \in {None} \cup Nat, NEW now \in Nat
  PROVE  /\ StatusForNode(Age(last, now)) = "no_data" => last = None
         /\ StatusForNode(Age(last, now)) = "offline" => last + NodeStale <= now
BY FreshnessConstantsOK DEF StatusForNode, StatusForThresholds, Age, None

\* A stream is "fresh" only if its newest row is recent.
LEMMA StatusOfStream ==
  ASSUME NEW at \in {None} \cup Nat, NEW now \in Nat
  PROVE  /\ at = None => StatusForAge(Age(at, now), Interval) = "no_data"
         /\ at # None /\ at + FreshFactor * Interval <= now
              => StatusForAge(Age(at, now), Interval) # "fresh"
BY FreshnessConstantsOK
   DEF StatusForAge, StatusForThresholds, Age, None, FreshFactor, StaleFactor

\* The newest time of a table is that of one of its rows.
LEMMA NewestIsARow ==
  ASSUME NEW t, NEW p, NEW at \in Newest(t, p)
  PROVE  /\ OfNode(rows, t, p) = {} => at = None
         /\ at # None => \E r \in OfNode(rows, t, p) : r.at = at
BY DEF Newest, Times

\* The first SELECT: what the status found says of the rows there are.
LEMMA HealthNodeStep == TypeOK /\ SeenInv /\ HealthNode => HealthInv'
<1> SUFFICES ASSUME TypeOK, SeenInv, HealthNode PROVE HealthInv'
  OBVIOUS
<1>1. PICK status \in NodeStatus : reader' = [reader EXCEPT !.step = "weather", !.node = status]
  BY DEF HealthNode
<1>2. reader'.step = "weather" /\ reader'.node = status /\ reader'.p = reader.p
        /\ reader'.now = reader.now
  BY <1>1 DEF TypeOK, ReaderState
<1>3. rows' = rows /\ reader.now \in Nat /\ reader.p \in Node \cup {AllNodes, Unknown}
  BY DEF HealthNode, TypeOK, ReaderState
<1>a. /\ \A n \in Node : lastSeen[n] \in {None} \cup Nat
      /\ \A r \in rows : r.node \in Node /\ r.at \in Nat
      /\ AllNodes \notin Node /\ Unknown \notin Node /\ Unknown # AllNodes
      /\ Ahead \in Nat /\ Slow \in Nat /\ NodeStale \in Nat
  BY ReadPathConstantsOK, FreshnessConstantsOK DEF TypeOK, Row, AllNodes, Unknown
<1>4. CASE reader.p \in Node \cup {AllNodes}
  <2>1. PICK n \in Node : NodeShown(reader.p, n) /\ status = StatusForNode(Age(lastSeen[n], reader.now))
    BY <1>1, <1>4 DEF NodeStatus
  <2>2. ASSUME NEW t \in Table, NEW r \in OfNode(rows, t, reader.p)
        PROVE  /\ r \in rows /\ r.node \in Node /\ lastSeen[r.node] <= lastSeen[n]
               /\ lastSeen[r.node] # None /\ r.at <= lastSeen[r.node] + Ahead + Slow
    <3>1. r \in rows /\ r.node \in Node
      BY <1>a, <2>2 DEF OfNode
    <3>2. lastSeen[r.node] <= lastSeen[n]
      BY <1>a, <1>4, <2>1, <2>2, <3>1 DEF OfNode, NodeShown, None
    <3>3. QED
      BY <3>1, <3>2 DEF SeenInv
  <2>3. ASSUME status = "no_data", NEW t \in Table, NEW r \in OfNode(rows, t, reader.p)
        PROVE  FALSE
    <3>1. lastSeen[n] = None
      BY <1>a, <1>3, <2>1, <2>3, StatusOfNode
    <3>2. QED
      BY <1>a, <2>2, <3>1 DEF None
  <2>4. ASSUME status = "offline", NEW r \in OfNode(rows, "weather", reader.p)
        PROVE  r.at + FreshFactor * Interval <= reader.now
    <3>1. lastSeen[n] + NodeStale <= reader.now
      BY <1>a, <1>3, <2>1, <2>4, StatusOfNode
    <3>2. /\ r \in rows /\ r.node \in Node /\ lastSeen[r.node] <= lastSeen[n]
          /\ r.at <= lastSeen[r.node] + Ahead + Slow
      BY <2>2 DEF Table
    <3>3. QED
      BY <1>a, <1>3, <3>1, <3>2, MarginOK, FreshnessConstantsOK DEF None, FreshFactor
  <2>5. QED
    BY <1>2, <1>3, <2>3, <2>4 DEF HealthInv
<1>5. CASE reader.p = Unknown
  <2>1. \A t : OfNode(rows, t, reader.p) = {}
    BY <1>a, <1>5 DEF OfNode
  <2>2. status = "no_data"
    BY <1>1, <1>5, <1>a DEF NodeStatus
  <2>3. QED
    BY <1>2, <1>3, <2>1, <2>2 DEF HealthInv
<1>6. QED
  BY <1>3, <1>4, <1>5

LEMMA HealthWeatherStep == TypeOK /\ HealthInv /\ HealthWeather => HealthInv'
<1> SUFFICES ASSUME TypeOK, HealthInv, HealthWeather PROVE HealthInv'
  OBVIOUS
<1>1. PICK at \in Newest("weather", reader.p) :
        reader' = [reader EXCEPT !.step = "event",
                     !.weather = StatusForAge(Age(at, reader.now), Interval)]
  BY DEF HealthWeather
<1>2. /\ reader'.step = "event" /\ reader'.node = reader.node /\ reader'.p = reader.p
      /\ reader'.touched = reader.touched
      /\ reader'.weather = StatusForAge(Age(at, reader.now), Interval)
  BY <1>1 DEF TypeOK, ReaderState
<1>3. reader.step = "weather" /\ rows' = rows /\ reader.now \in Nat
  BY DEF HealthWeather, TypeOK, ReaderState
<1>4. at \in {None} \cup Nat
  BY NewestIsARow DEF OfNode, TypeOK, Row
<1>5. ASSUME "ingest" \notin reader.touched, reader.node = "no_data"
      PROVE  reader'.weather = "no_data" /\ \A t \in Table : OfNode(rows, t, reader.p) = {}
  <2>1. \A t \in Table : OfNode(rows, t, reader.p) = {}
    BY <1>3, <1>5 DEF HealthInv
  <2>2. at = None
    BY <2>1, NewestIsARow DEF Table
  <2>3. QED
    BY <1>2, <1>3, <1>4, <2>1, <2>2, StatusOfStream
<1>6. ASSUME "ingest" \notin reader.touched, reader.node = "offline"
      PROVE  reader'.weather # "fresh"
  <2>1. \A r \in OfNode(rows, "weather", reader.p) :
          r.at + FreshFactor * Interval <= reader.now
    BY <1>3, <1>6 DEF HealthInv
  <2>2. CASE at = None
    BY <1>2, <1>3, <1>4, <2>2, StatusOfStream
  <2>3. CASE at # None
    BY <1>2, <1>3, <1>4, <2>1, <2>3, NewestIsARow, StatusOfStream
  <2>4. QED
    BY <2>2, <2>3
<1>7. QED
  BY <1>2, <1>3, <1>5, <1>6 DEF HealthInv

LEMMA HealthEventStep == TypeOK /\ HealthInv /\ HealthEvent => HealthInv'
<1> SUFFICES ASSUME TypeOK, HealthInv, HealthEvent PROVE HealthInv'
  OBVIOUS
<1>1. PICK at \in Newest("event", reader.p) :
        reader' = [reader EXCEPT !.step = "health",
                     !.event = StatusForEvent(Age(at, reader.now), reader.node)]
  BY DEF HealthEvent
<1>2. /\ reader'.step = "health" /\ reader'.node = reader.node
      /\ reader'.touched = reader.touched /\ reader'.weather = reader.weather
      /\ reader'.event = StatusForEvent(Age(at, reader.now), reader.node)
  BY <1>1 DEF TypeOK, ReaderState
<1>3. reader.step = "event"
  BY DEF HealthEvent
<1>4. ASSUME "ingest" \notin reader.touched, reader.node = "no_data"
      PROVE  reader'.event = "no_data"
  <2>1. OfNode(rows, "event", reader.p) = {}
    BY <1>3, <1>4 DEF HealthInv, Table
  <2>2. at = None
    BY <2>1, NewestIsARow
  <2>3. QED
    BY <1>2, <2>2 DEF StatusForEvent, Age, None
<1>5. QED
  BY <1>2, <1>3, <1>4 DEF HealthInv

\* Rows taken away, or a reader left alone, disturb nothing.
LEMMA HealthKept ==
  ASSUME HealthInv, rows' \subseteq rows, reader.touched \subseteq reader'.touched,
         \A f \in {"step", "p", "now", "node", "weather", "event"} : reader'[f] = reader[f]
  PROVE  HealthInv'
<1>1. /\ reader'.step = reader.step /\ reader'.p = reader.p /\ reader'.now = reader.now
      /\ reader'.node = reader.node /\ reader'.weather = reader.weather
      /\ reader'.event = reader.event
  OBVIOUS
<1>2. \A t, p : OfNode(rows', t, p) \subseteq OfNode(rows, t, p)
  BY DEF OfNode
<1>3. QED
  BY <1>1, <1>2 DEF HealthInv

LEMMA HealthStep == TypeOK /\ SeenInv /\ HealthInv /\ [Next]_vars => HealthInv'
<1> SUFFICES ASSUME TypeOK, SeenInv, HealthInv, [Next]_vars PROVE HealthInv'
  OBVIOUS
<1>1. ASSUME rows' = rows, reader' = reader PROVE HealthInv'
  BY <1>1 DEF HealthInv
<1>2. CASE Tick \/ PruneStart \/ PruneAbort \/ \E t \in Table : PruneTable(t)
  BY <1>1, <1>2 DEF Tick, PruneStart, PruneAbort, PruneTable
<1>3. ASSUME NEW s \in Session, NEW r, Upsert(s, r) \/ Abort(s) PROVE HealthInv'
  BY <1>1, <1>3 DEF Upsert, Abort
<1>4. ASSUME NEW s \in Session, Commit(s) PROVE HealthInv'
  <2>1. Touch("ingest") /\ reader \in ReaderState
    BY <1>4 DEF Commit, TypeOK
  <2>2. CASE Reading
    <3>1. "ingest" \in reader'.touched
      BY <2>1, <2>2, TouchReader
    <3>2. QED
      BY <3>1 DEF HealthInv
  <2>3. CASE ~ Reading
    BY <2>1, <2>3 DEF Touch, Reading, HealthInv
  <2>4. QED
    BY <2>2, <2>3
<1>5. CASE PruneCommit
  <2>1. Touch("prune") /\ reader \in ReaderState /\ rows' \subseteq rows
    BY <1>5 DEF PruneCommit, TypeOK
  <2>2. QED
    BY <2>1, TouchReader, HealthKept
<1>6. ASSUME NEW p, NEW range,
             HealthStart(p) \/ SummaryCount(p, range[1], range[2]) \/ SummaryRecent \/ EndRead
      PROVE  HealthInv'
  <2>1. reader'.step \in {"node", "recent", "summary", "idle"}
    <3>1. reader \in ReaderState /\ NoReader.step = "idle"
      BY DEF TypeOK, NoReader
    <3>2. CASE HealthStart(p)
      BY <3>1, <3>2 DEF HealthStart, ReaderState
    <3>3. CASE SummaryCount(p, range[1], range[2])
      BY <3>1, <3>3 DEF SummaryCount, ReaderState
    <3>4. CASE SummaryRecent
      BY <3>1, <3>4 DEF SummaryRecent, ReaderState
    <3>5. CASE EndRead
      BY <3>1, <3>5 DEF EndRead
    <3>6. QED
      BY <1>6, <3>2, <3>3, <3>4, <3>5
  <2>2. QED
    BY <2>1 DEF HealthInv
<1>7. CASE HealthNode \/ HealthWeather \/ HealthEvent
  BY <1>7, HealthNodeStep, HealthWeatherStep, HealthEventStep
<1>8. CASE UNCHANGED vars
  BY <1>1, <1>8 DEF vars
<1>9. QED
  BY <1>2, <1>3, <1>4, <1>5, <1>6, <1>7, <1>8 DEF Next, Ingest, Prune, Read

-----------------------------------------------------------------------------
(* The summary handler.                                                    *)

\* The newest rows of a set are as many as asked for, or as there are.
LEMMA NewestCount ==
  ASSUME NEW of, IsFiniteSet(of), NEW some \in SUBSET of, IsNewest(some, of, Recent)
  PROVE  /\ Cardinality(some) \in Nat /\ Cardinality(of) \in Nat
         /\ Cardinality(some) <= Cardinality(of)
         /\ Cardinality(some) >= Cardinality(of) \/ Cardinality(some) = Recent
<1>1. Cardinality(some) \in Nat /\ Cardinality(of) \in Nat
        /\ Cardinality(some) <= Cardinality(of)
  BY FS_Subset, FS_CardinalityType
<1>2. QED
  BY <1>1, ReadPathConstantsOK DEF IsNewest

\* The rows of a range are counted alike before and after, except for what came in
\* or was pruned.
LEMMA RecentBounds ==
  ASSUME NEW before, IsFiniteSet(before), NEW after, IsFiniteSet(after),
         NEW t, NEW p, NEW from, NEW to, before \subseteq after
  PROVE  Cardinality(InRange(OfNode(before, t, p), from, to))
           <= Cardinality(InRange(OfNode(after, t, p), from, to))
<1>1. InRange(OfNode(before, t, p), from, to) \subseteq InRange(OfNode(after, t, p), from, to)
  BY DEF InRange, OfNode
<1>2. InRange(OfNode(after, t, p), from, to) \subseteq after
  BY DEF InRange, OfNode
<1>3. IsFiniteSet(InRange(OfNode(after, t, p), from, to))
  BY <1>2, FS_Subset
<1>4. QED
  BY <1>1, <1>3, FS_Subset

LEMMA RecentCount ==
  ASSUME TypeOK
  PROVE  IsFiniteSet(RecentOf) /\ Cardinality(RecentOf) \in Nat
<1>1. RecentOf \subseteq rows
  BY DEF RecentOf, InRange, OfNode
<1>2. QED
  BY <1>1, CountType DEF TypeOK

\* The first SELECT counts the rows the second would find now.
LEMMA SummaryCountStep ==
  ASSUME TypeOK, NEW p, NEW from, NEW to, SummaryCount(p, from, to)
  PROVE  SummaryInv' /\ SummaryCoherent'
<1>1. /\ reader'.step = "recent" /\ reader'.p = p /\ reader'.from = Since(from, to, clock)
      /\ reader'.to = Until(to, clock) /\ rows' = rows
      /\ reader'.count = Cardinality(InRange(OfNode(rows, "event", p),
                           Since(from, to, clock), Until(to, clock)))
  BY DEF SummaryCount, TypeOK, ReaderState
<1>2. reader'.count = Cardinality(RecentOf')
  BY <1>1 DEF RecentOf
<1>3. RecentOf' \subseteq rows
  BY <1>1 DEF RecentOf, InRange, OfNode
<1>4. Cardinality(RecentOf') \in Nat
  BY <1>3, CountType DEF TypeOK
<1>5. QED
  BY <1>1, <1>2, <1>4 DEF SummaryInv, SummaryCoherent

\* The second SELECT answers from the rows there are now.
LEMMA SummaryRecentStep ==
  ASSUME TypeOK, SummaryInv, SummaryRecent
  PROVE  SummaryInv' /\ SummaryCoherent'
<1>1. PICK some \in SUBSET RecentOf :
        /\ IsNewest(some, RecentOf, Recent)
        /\ reader' = [reader EXCEPT !.step = "summary", !.recent = some]
  BY DEF SummaryRecent
<1>2. /\ reader'.step = "summary" /\ reader'.recent = some /\ reader'.count = reader.count
      /\ reader'.touched = reader.touched
  BY <1>1 DEF TypeOK, ReaderState
<1>3. /\ Cardinality(some) \in Nat /\ Cardinality(RecentOf) \in Nat
      /\ Cardinality(some) <= Cardinality(RecentOf)
      /\ Cardinality(some) >= Cardinality(RecentOf) \/ Cardinality(some) = Recent
  BY <1>1, RecentCount, NewestCount
<1>4. reader.step = "recent" /\ reader.count \in Nat
  BY DEF SummaryRecent, TypeOK, ReaderState
<1>5. /\ "prune" \notin reader.touched => reader.count <= Cardinality(RecentOf)
      /\ "ingest" \notin reader.touched => Cardinality(RecentOf) <= reader.count
  BY <1>4 DEF SummaryInv
<1>6. QED
  BY <1>2, <1>3, <1>4, <1>5 DEF SummaryInv, SummaryCoherent

\* What is committed between the SELECTs is remembered in touched.
LEMMA SummaryTouched ==
  ASSUME TypeOK, TypeOK', SummaryInv, SummaryCoherent, NEW what \in {"ingest", "prune"},
         Touch(what),
         what = "ingest" => rows \subseteq rows', what = "prune" => rows' \subseteq rows
  PROVE  SummaryInv' /\ SummaryCoherent'
<1>1. /\ reader'.step = reader.step /\ reader'.p = reader.p /\ reader'.from = reader.from
      /\ reader'.to = reader.to /\ reader'.count = reader.count
      /\ reader'.recent = reader.recent /\ reader.touched \subseteq reader'.touched
      /\ Reading => what \in reader'.touched
  BY TouchReader DEF TypeOK
<1>2. SummaryCoherent'
  BY <1>1 DEF SummaryCoherent
<1>3. SummaryInv'
  <2> SUFFICES ASSUME reader.step = "recent"
               PROVE  /\ "prune" \notin reader'.touched => reader.count <= Cardinality(RecentOf')
                      /\ "ingest" \notin reader'.touched => Cardinality(RecentOf') <= reader.count
    BY <1>1 DEF SummaryInv
  <2>1. what \in reader'.touched
    BY <1>1 DEF Reading
  <2>2. /\ IsFiniteSet(rows) /\ IsFiniteSet(rows')
        /\ reader.count \in Nat
    BY DEF TypeOK, ReaderState
  <2>3. /\ "prune" \notin reader.touched => reader.count <= Cardinality(RecentOf)
        /\ "ingest" \notin reader.touched => Cardinality(RecentOf) <= reader.count
    BY DEF SummaryInv
  <2>4. RecentOf' = InRange(OfNode(rows', "event", reader.p), reader.from, reader.to)
    BY <1>1 DEF RecentOf
  <2>5. /\ Cardinality(RecentOf) \in Nat
        /\ Cardinality(RecentOf') \in Nat
    <3>1. RecentOf' \subseteq rows'
      BY <2>4 DEF InRange, OfNode
    <3>2. IsFiniteSet(RecentOf')
      BY <2>2, <3>1, FS_Subset
    <3>3. QED
      BY <3>2, RecentCount, FS_CardinalityType
  <2>6. CASE what = "ingest"
    <3>1. Cardinality(RecentOf) <= Cardinality(RecentOf')
      BY <2>2, <2>4, <2>6, RecentBounds DEF RecentOf
    <3>2. QED
      BY <1>1, <2>1, <2>2, <2>3, <2>5, <2>6, <3>1
  <2>7. CASE what = "prune"
    <3>1. Cardinality(RecentOf') <= Cardinality(RecentOf)
      BY <2>2, <2>4, <2>7, RecentBounds DEF RecentOf
    <3>2. QED
      BY <1>1, <2>1, <2>2, <2>3, <2>5, <2>7, <3>1
  <2>8. QED
    BY <2>6, <2>7
<1>4. QED
  BY <1>2, <1>3

LEMMA SummaryStep ==
  TypeOK /\ TypeOK' /\ SummaryInv /\ SummaryCoherent /\ [Next]_vars
    => SummaryInv' /\ SummaryCoherent'
<1> SUFFICES ASSUME TypeOK, TypeOK', SummaryInv, SummaryCoherent, [Next]_vars
             PROVE  SummaryInv' /\ SummaryCoherent'
  OBVIOUS
<1>1. ASSUME rows' = rows, reader' = reader PROVE SummaryInv' /\ SummaryCoherent'
  BY <1>1 DEF SummaryInv, SummaryCoherent, RecentOf
<1>2. CASE Tick \/ PruneStart \/ PruneAbort \/ \E t \in Table : PruneTable(t)
  BY <1>1, <1>2 DEF Tick, PruneStart, PruneAbort, PruneTable
<1>3. ASSUME NEW s \in Session, NEW r, Upsert(s, r) \/ Abort(s)
      PROVE  SummaryInv' /\ SummaryCoherent'
  BY <1>1, <1>3 DEF Upsert, Abort
<1>4. ASSUME NEW s \in Session, Commit(s) PROVE SummaryInv' /\ SummaryCoherent'
  <2>1. Touch("ingest") /\ rows \subseteq rows'
    BY <1>4 DEF Commit
  <2>2. QED
    BY <2>1, SummaryTouched
<1>5. CASE PruneCommit
  <2>1. Touch("prune") /\ rows' \subseteq rows
    BY <1>5 DEF PruneCommit
  <2>2. QED
    BY <2>1, SummaryTouched
<1>6. ASSUME NEW p, HealthStart(p) \/ HealthNode \/ HealthWeather \/ HealthEvent \/ EndRead
      PROVE  SummaryInv' /\ SummaryCoherent'
  <2>1. reader'.step \in {"node", "weather", "event", "health", "idle"}
    <3>1. reader \in ReaderState /\ NoReader.step = "idle"
      BY DEF TypeOK, NoReader
    <3>2. CASE HealthStart(p)
      BY <3>1, <3>2 DEF HealthStart, ReaderState
    <3>3. CASE HealthNode
      BY <3>1, <3>3 DEF HealthNode, ReaderState
    <3>4. CASE HealthWeather
      BY <3>1, <3>4 DEF HealthWeather, ReaderState
    <3>5. CASE HealthEvent
      BY <3>1, <3>5 DEF HealthEvent, ReaderState
    <3>6. CASE EndRead
      BY <3>1, <3>6 DEF EndRead
    <3>7. QED
      BY <1>6, <3>2, <3>3, <3>4, <3>5, <3>6
  <2>2. QED
    BY <2>1 DEF SummaryInv, SummaryCoherent
<1>7. ASSUME NEW p, NEW range, SummaryCount(p, range[1], range[2]) \/ SummaryRecent
      PROVE  SummaryInv' /\ SummaryCoherent'
  BY <1>7, SummaryCountStep, SummaryRecentStep
<1>8. CASE UNCHANGED vars
  BY <1>1, <1>8 DEF vars
<1>9. QED
  BY <1>2, <1>3, <1>4, <1>5, <1>6, <1>7, <1>8 DEF Next, Ingest, Prune, Read

-----------------------------------------------------------------------------
(* The theorems.                                                           *)

LEMMA InitInv == Init => IInv
<1> SUFFICES ASSUME Init PROVE IInv
  OBVIOUS
<1>1. ~ Idle.busy /\ ~ NoPrune.on /\ NoReader.step = "idle"
  BY DEF Idle, NoPrune, NoReader
<1>2. SeenInv
  BY <1>1 DEF Init, SeenInv
<1>3. PruneInv /\ HealthInv /\ SummaryInv /\ SummaryCoherent
  BY <1>1 DEF Init, PruneInv, HealthInv, SummaryInv, SummaryCoherent
<1>4. QED
  BY <1>2, <1>3, InitType DEF IInv

\* The inductive invariant of the read path, from which the properties of its
\* handlers and of the retention job follow.
THEOREM Inductive == Spec => []IInv
<1>1. IInv /\ [Next]_vars => IInv'
  BY NextType, SeenStep, PruneStep, HealthStep, SummaryStep DEF IInv
<1>2. QED
  BY InitInv, <1>1, PTL DEF Spec

\* /api/health/latest does not contradict itself, for every NODE_STALE_SECONDS,
\* interval and clock error that satisfy MarginOK, if no batch is committed
\* between its SELECTs.
THEOREM HealthCorrect == Spec => []HealthCoherent
<1>1. IInv => HealthCoherent
  BY DEF IInv, HealthInv, HealthCoherent
<1>2. QED
  BY Inductive, <1>1, PTL

\* The two SELECTs of /api/system/summary agree on what nothing is committed to
\* between them, for every set of rows.
THEOREM SummaryCorrect == Spec => []SummaryCoherent
<1>1. IInv => SummaryCoherent
  BY DEF IInv
<1>2. QED
  BY Inductive, <1>1, PTL

\* For every policy: what retention leaves behind too old has come in after the
\* DELETE of its table.
THEOREM RetentionCorrect == Spec => OnlyLateRowsSurvive
<1>1. IInv /\ [Next]_vars =>
        [PruneCommit =>
           \A r \in rows' : r.at < prune.now - Retain[r.table] => r \in prune.since]_vars
  <2> SUFFICES ASSUME IInv, PruneCommit, NEW r \in rows',
                      r.at < prune.now - Retain[r.table]
               PROVE  r \in prune.since
    OBVIOUS
  <2>1. r \in rows /\ r \notin prune.doomed /\ prune.on /\ r.table \notin prune.todo
    BY DEF PruneCommit
  <2>2. QED
    BY <2>1 DEF IInv, PruneInv
<1>2. QED
  BY Inductive, <1>1, PTL DEF Spec, OnlyLateRowsSurvive

\* Refinement, for every order of upserts, DELETEs and commits and every policy: a
\* step of a session, of the retention job or of the clock is a step of the
\* archive, and nothing else touches the tables.
THEOREM Refinement == Spec => ImplementsArchive
<1>1. Init => Shown!Start
  BY DEF Init, Shown!Start
<1>2. ASSUME IInv, [Next]_vars
      PROVE  [Shown!Acknowledge \/ Shown!Forget \/ Shown!Pass]_(Shown!archiveVars)
  <2> USE DEF Shown!archiveVars
  <2>1. CASE Tick
    <3>1. clock \in Nat
      BY <1>2, ReadPathConstantsOK DEF IInv, TypeOK
    <3>2. QED
      BY <2>1, <3>1 DEF Tick, Shown!Pass
  <2>2. ASSUME NEW s \in Session, NEW r, Upsert(s, r) \/ Abort(s)
        PROVE  UNCHANGED Shown!archiveVars
    BY <2>2 DEF Upsert, Abort
  <2>3. ASSUME NEW s \in Session, Commit(s)
        PROVE  Shown!Acknowledge
    BY <2>3 DEF Commit, Shown!Acknowledge
  <2>4. CASE PruneStart \/ PruneAbort \/ \E t \in Table : PruneTable(t)
    BY <2>4 DEF PruneStart, PruneAbort, PruneTable
  <2>5. CASE PruneCommit
    <3>1. /\ clock' = clock /\ rows' \subseteq rows
          /\ \A r \in rows \ rows' : r \in prune.doomed
      BY <2>5 DEF PruneCommit
    <3>2. \A r \in prune.doomed : r.at < prune.now - Retain[r.table]
      BY <1>2, <2>5 DEF IInv, PruneInv, PruneCommit
    <3>3. /\ prune.now \in Nat /\ prune.now <= clock /\ clock \in Nat
          /\ \A r \in rows : r.at \in Nat /\ r.table \in Table
          /\ \A t \in Table : Retain[t] \in Nat
      BY <1>2, ReadPathConstantsOK DEF IInv, TypeOK, PruneState, Row
    <3>4. \A r \in rows \ rows' : r.at < clock - Retain[r.table]
      BY <3>1, <3>2, <3>3
    <3>5. QED
      BY <3>1, <3>4 DEF Shown!Forget
  <2>6. CASE Read
    BY <1>2, <2>6, ReaderType DEF IInv, ReadsOnly
  <2>7. CASE UNCHANGED vars
    BY <2>7 DEF vars
  <2>8. QED
    BY <1>2, <2>1, <2>2, <2>3, <2>4, <2>5, <2>6, <2>7 DEF Next, Ingest, Prune
<1>3. QED
  BY <1>1, <1>2, Inductive, PTL DEF Spec, ImplementsArchive, Shown!ArchiveSpec

-----------------------------------------------------------------------------
(* Histories and scores.                                                   *)

\* The committed rows have whole readings: the clock bounds their times.
LEMMA RowsSummable ==
  ASSUME IInv, NEW some \in SUBSET rows
  PROVE  Summable(Measure, some) /\ \A r \in some : r.at \in Int
<1>1. IsFiniteSet(some)
  BY CountType DEF IInv, TypeOK
<1>2. ASSUME NEW r \in some PROVE r.at \in Int /\ Measure[r] \in Int
  <2>1. r \in Row /\ r.at <= clock + Ahead
    BY DEF IInv, TypeOK, SeenInv
  <2>2. clock \in Nat /\ clock <= MaxTime /\ Ahead \in Nat /\ MaxTime \in Nat
    BY ReadPathConstantsOK DEF IInv, TypeOK
  <2>3. r.at \in 0..MaxTime + Ahead
    BY <2>1, <2>2 DEF Row
  <2>4. r \in [table : Table, node : Node, at : 0..MaxTime + Ahead]
    BY <2>1, <2>3 DEF Row
  <2>5. QED
    BY <2>3, <2>4, MeasureOK
<1>3. QED
  BY <1>1, <1>2 DEF Summable

\* The ranges readers ask for are between whole times.
LEMMA RangesType ==
  ASSUME IInv, NEW range \in Ranges
  PROVE  range[1] \in Int /\ range[2] \in Int
<1>1. clock \in Int /\ Day \in Int
  BY SeriesConstantsOK DEF IInv, TypeOK
<1>2. PICK q \in Asked : range = <<Since(q[1], q[2], clock), Until(q[2], clock)>>
  BY DEF Ranges
<1>3. q[1] \in Int /\ q[2] \in Int
  BY ReadPathConstantsOK
<1>4. Since(q[1], q[2], clock) \in Int /\ Until(q[2], clock) \in Int
  BY <1>1, <1>3 DEF Since, Until
<1>5. QED
  BY <1>2, <1>4

\* For every interval, zone, range and table of rows: the buckets of a history add
\* up to its raw rows, a bucket within two ranges is the same in both, and the row
\* /latest shows is in the last bucket.
THEOREM SeriesCorrect == Spec => []SeriesConsistent
<1>1. ASSUME IInv PROVE SeriesConsistent
  <2> SUFFICES ASSUME NEW p \in Node \cup {AllNodes}, NEW interval \in DOMAIN Width,
                      NEW range \in Ranges
               PROVE  LET weather == OfNode(rows, "weather", p)
                          series(range1) == BucketedSeries(weather, interval, range1[1], range1[2])
                          within(b, range1) ==
                            range1[1] <= b /\ b + Width[interval] <= range1[2]
                          found == series(range) IN
                      /\ Total(InRange(weather, range[1], range[2]))
                           = SumFunction([b \in DOMAIN found |-> found[b].sum])
                      /\ \A other \in Ranges, b \in DOMAIN found :
                           within(b, range) /\ within(b, other) =>
                             b \in DOMAIN series(other) /\ series(other)[b] = found[b]
                      /\ \A r \in InRange(weather, range[1], range[2]) :
                           IsNewest({r}, weather, 1) =>
                             Max(DOMAIN found) = BucketOf(interval, range[1], r.at)
    BY DEF SeriesConsistent
  <2> DEFINE weather == OfNode(rows, "weather", p)
  <2>1. weather \subseteq rows
    BY DEF OfNode
  <2>2. Summable(Measure, weather) /\ \A r \in weather : r.at \in Int
    BY <1>1, <2>1, RowsSummable
  <2>3. IsFiniteSet(weather)
    BY <2>2 DEF Summable
  <2>4. \A other \in Ranges : other[1] \in Int /\ other[2] \in Int
    BY <1>1, RangesType
  <2> HIDE DEF weather
  <2>5. LET found == BucketedSeries(weather, interval, range[1], range[2]) IN
        Total(InRange(weather, range[1], range[2]))
          = SumFunction([b \in DOMAIN found |-> found[b].sum])
    BY <2>2, BucketsAddUp
  <2>6. ASSUME NEW other \in Ranges,
               NEW b \in DOMAIN BucketedSeries(weather, interval, range[1], range[2]),
               range[1] <= b, b + Width[interval] <= range[2],
               other[1] <= b, b + Width[interval] <= other[2]
        PROVE  /\ b \in DOMAIN BucketedSeries(weather, interval, other[1], other[2])
               /\ BucketedSeries(weather, interval, other[1], other[2])[b]
                    = BucketedSeries(weather, interval, range[1], range[2])[b]
    BY <2>2, <2>4, <2>6, BucketsStable
  <2>7. ASSUME NEW r \in InRange(weather, range[1], range[2]), IsNewest({r}, weather, 1)
        PROVE  Max(DOMAIN BucketedSeries(weather, interval, range[1], range[2]))
                 = BucketOf(interval, range[1], r.at)
    BY <2>2, <2>3, <2>7, NewestInLastBucket
  <2>8. QED
    BY <2>5, <2>6, <2>7 DEF weather
<1>2. QED
  BY Inductive, <1>1, PTL

\* For every set of strikes: one more that is not overhead does not lower the risk.
THEOREM RiskCorrect == Spec => []RiskMonotone
<1>1. ASSUME IInv PROVE RiskMonotone
  <2>1. ASSUME NEW n \in Node PROVE Summable(Measure, OfNode(rows, "event", n))
    <3>1. OfNode(rows, "event", n) \subseteq rows
      BY DEF OfNode
    <3>2. QED
      BY <1>1, <3>1, RowsSummable
  <2>2. QED
    BY <2>1, RiskOfMore DEF RiskMonotone
<1>2. QED
  BY Inductive, <1>1, PTL

\* For every window of rows: what is called anomalous has two minutes that differ
\* by at least 0.42 of the mean.
THEOREM AnomalyCorrect == Spec => []AnomalyMeansSpread
<1>1. ASSUME IInv PROVE AnomalyMeansSpread
  <2>1. ASSUME NEW n \in Node PROVE Summable(Measure, OfNode(rows, "weather", n))
    <3>1. OfNode(rows, "weather", n) \subseteq rows
      BY DEF OfNode
    <3>2. QED
      BY <1>1, <3>1, RowsSummable
  <2>2. QED
    BY <2>1, AnomalousRows DEF AnomalyMeansSpread
<1>2. QED
  BY Inductive, <1>1, PTL

=============================================================================
