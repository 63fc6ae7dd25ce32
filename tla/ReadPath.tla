------------------------------ MODULE ReadPath ------------------------------
(***************************************************************************)
(* Readers of the server's tables while batches are ingested and old rows  *)
(* deleted: the health and system summary handlers, which put several      *)
(* SELECTs together at READ COMMITTED, and the retention job, whose        *)
(* DELETEs commit at the end of its run.                                   *)
(*                                                                         *)
(* Two tables stand for the six: "weather", the cadence stream, and        *)
(* "event", a stream without one.  A batch is one row, whose time the Pi   *)
(* has given: how StreamSync's rows reach this table does not matter here, *)
(* only when, and what last_seen_utc says of it.                           *)
(***************************************************************************)
EXTENDS Series

CONSTANTS
  Node,         \* registered nodes
  Session,      \* database sessions of ingest requests
  Retain,       \* retain_days of each enabled policy, in ticks
  Recent,       \* the LIMIT of the summary's second SELECT
  Asked,        \* the pairs <<from, to>> that readers ask for
  Skew,         \* what the time of a row may be, less the server's clock
  Ahead,        \* how far the Pi's clock may be ahead of the server's
  Slow,         \* longest time from the reading of the clock to the commit
  MaxTime,      \* bound: the clock
  MaxRequests   \* bound: batches, readers and runs of the retention job

Table == {"weather", "event"}

Unknown == "unknown"   \* a node that is not registered

ASSUME ReadPathConstantsOK ==
  /\ Retain \in [Table -> Nat] /\ Recent \in Nat /\ MaxRequests \in Nat
  /\ Asked \subseteq Int \X Int
  /\ Skew \subseteq Int /\ Ahead \in Nat /\ \A skew \in Skew : skew <= Ahead
  /\ Slow \in Nat /\ MaxTime \in Nat
  /\ AllNodes \notin Node /\ Unknown \notin Node

\* The distance between the two limits covers clocks and commits: 60 s in the code.
ASSUME MarginOK == FreshFactor * Interval + Ahead + Slow <= NodeStale

\* Readings are whole numbers.
ASSUME MeasureOK ==
  \A r \in [table : Table, node : Node, at : 0..MaxTime + Ahead] : Measure[r] \in Int

VARIABLES
  clock,     \* the server's clock
  lastSeen,  \* edge_node.last_seen_utc of each node
  rows,      \* committed rows
  ingest,    \* each session: the row it has upserted and its last_seen_utc, or Idle
  left,      \* batches still to come
  prune,     \* the run of the retention job
  reader     \* the health or summary request being answered

vars == <<clock, lastSeen, rows, ingest, left, prune, reader>>

Row == [table : Table, node : Node, at : Nat]

Idle == [busy |-> FALSE, row |-> {}, now |-> 0]

\* row: the upserted row; now: what node.last_seen_utc is set to.
Upserted(r) == [busy |-> TRUE, row |-> {r}, now |-> clock]

Uncommitted == UNION {ingest[s].row : s \in Session}

\* todo: tables whose DELETE is still to come; doomed: the rows deleted so far;
\* since: history, rows committed since the DELETE of their table.
NoPrune == [on |-> FALSE, now |-> 0, todo |-> {}, doomed |-> {}, since |-> {}]

\* node, weather, event: the statuses found; count: total_events; recent: the rows;
\* touched: history, what has been committed since the first SELECT.
NoReader == [step |-> "idle", p |-> AllNodes, now |-> 0, node |-> "", weather |-> "",
             event |-> "", from |-> 0, to |-> 0, count |-> 0, recent |-> {},
             touched |-> {}]

Reading == reader.step \in {"weather", "event", "recent"}

Touch(what) ==
  reader' = IF Reading THEN [reader EXCEPT !.touched = @ \cup {what}] ELSE reader

-----------------------------------------------------------------------------
(* Time.                                                                   *)

\* The time from the reading of the clock to the commit is short.
Tick ==
  /\ clock < MaxTime /\ clock' = clock + 1
  /\ \A s \in Session : ingest[s].busy => clock - ingest[s].now < Slow
  /\ UNCHANGED <<lastSeen, rows, ingest, left, prune, reader>>

-----------------------------------------------------------------------------
(* Ingest: service.py, from the upsert to the commit.                      *)

\* The upsert waits for the transactions that hold its row, then last_seen_utc
\* is taken from the clock.
Upsert(s, r) ==
  /\ ~ ingest[s].busy /\ left > 0
  /\ 0 <= r.at
  /\ r \notin Uncommitted \cup prune.doomed
  /\ ingest' = [ingest EXCEPT ![s] = Upserted(r)]
  /\ left' = left - 1
  /\ UNCHANGED <<clock, lastSeen, rows, prune, reader>>

\* last_seen_utc is the time of the row (a mutant).
SeenAtRow(s, n) == IF \E r \in ingest[s].row : r.node = n
                   THEN Max({r.at : r \in ingest[s].row}) ELSE lastSeen[n]

\* Whichever session commits last: an earlier time may replace a later one.
Seen(s, n) == IF \E r \in ingest[s].row : r.node = n THEN ingest[s].now ELSE lastSeen[n]

\* The row and the node's last_seen_utc become visible.
Commit(s) ==
  /\ ingest[s].busy
  /\ rows' = rows \cup ingest[s].row
  /\ lastSeen' = [n \in Node |-> Seen(s, n)]
  /\ ingest' = [ingest EXCEPT ![s] = Idle]
  /\ prune' = [prune EXCEPT !.since =
                 @ \cup {r \in ingest[s].row : prune.on /\ r.table \notin prune.todo}]
  /\ Touch("ingest")
  /\ UNCHANGED <<clock, left>>

\* An exception rolls the batch back.
Abort(s) ==
  /\ ingest[s].busy
  /\ ingest' = [ingest EXCEPT ![s] = Idle]
  /\ UNCHANGED <<clock, lastSeen, rows, left, prune, reader>>

-----------------------------------------------------------------------------
(* retention.py: one DELETE per policy, one commit.                        *)

\* The clock is read once for all policies.
PruneStart ==
  /\ ~ prune.on /\ left > 0 /\ left' = left - 1
  /\ prune' = [NoPrune EXCEPT !.on = TRUE, !.now = clock, !.todo = DOMAIN Retain]
  /\ UNCHANGED <<clock, lastSeen, rows, ingest, reader>>

\* The shortest retention for every table (a mutant).
ExpiredAnywhere(t) ==
  {r \in rows : r.table = t /\ r.at < prune.now - Min({Retain[u] : u \in Table})}

Expired(t) == {r \in rows : r.table = t /\ r.at < prune.now - Retain[t]}

\* A row without a policy ends the loop (a mutant).
PruneOnly(t) ==
  /\ prune.on /\ t \in prune.todo
  /\ prune' = [prune EXCEPT !.todo = {}, !.doomed = @ \cup Expired(t)]
  /\ UNCHANGED <<clock, lastSeen, rows, ingest, left, reader>>

\* The DELETE of one table finds committed rows, and waits for those that a
\* transaction still holds.
PruneTable(t) ==
  /\ prune.on /\ t \in prune.todo /\ Expired(t) \cap Uncommitted = {}
  /\ prune' = [prune EXCEPT !.todo = @ \ {t}, !.doomed = @ \cup Expired(t)]
  /\ UNCHANGED <<clock, lastSeen, rows, ingest, left, reader>>

\* The transaction is committed and left open (a mutant).
PruneCommitOnly ==
  /\ prune.on /\ prune.todo = {}
  /\ rows' = rows \ prune.doomed
  /\ UNCHANGED prune
  /\ Touch("prune")
  /\ UNCHANGED <<clock, lastSeen, ingest, left>>

PruneCommit ==
  /\ prune.on /\ prune.todo = {}
  /\ rows' = rows \ prune.doomed
  /\ prune' = NoPrune
  /\ Touch("prune")
  /\ UNCHANGED <<clock, lastSeen, ingest, left>>

\* A statement fails, or the server is restarted: nothing is deleted.
PruneAbort ==
  /\ prune.on /\ prune' = NoPrune
  /\ UNCHANGED <<clock, lastSeen, rows, ingest, left, reader>>

-----------------------------------------------------------------------------
(* health.py and system.py: a SELECT is a step.                            *)

Times(table, p) == {r.at : r \in OfNode(rows, table, p)}

\* max(time), NULL if there is no row.
Newest(table, p) ==
  IF Times(table, p) = {} THEN {None}
  ELSE {at \in Times(table, p) : \A t \in Times(table, p) : t <= at}

\* Nodes that have never been seen come first (a mutant: no NULLS LAST).
NodeShownNullsFirst(p, n) ==
  IF p \in Node THEN n = p
  ELSE /\ p = AllNodes
       /\ \/ lastSeen[n] = None
          \/ \A m \in Node : lastSeen[m] # None /\ lastSeen[m] <= lastSeen[n]

\* The node asked for, or the one seen last; NULLs come last.
NodeShown(p, n) ==
  IF p \in Node THEN n = p ELSE p = AllNodes /\ \A m \in Node : lastSeen[m] <= lastSeen[n]

\* The clock is read before anything else.
HealthStart(p) ==
  /\ reader = NoReader /\ left > 0 /\ left' = left - 1
  /\ reader' = [reader EXCEPT !.step = "node", !.p = p, !.now = clock]
  /\ UNCHANGED <<clock, lastSeen, rows, ingest, prune>>

\* The status of a node that does not exist is "no_data".
NodeStatus ==
  IF reader.p \in Node \cup {AllNodes}
  THEN {StatusForNode(Age(lastSeen[n], reader.now)) : n \in {m \in Node : NodeShown(reader.p, m)}}
  ELSE {"no_data"}

HealthNode ==
  /\ reader.step = "node"
  /\ \E status \in NodeStatus :
       reader' = [reader EXCEPT !.step = "weather", !.node = status]
  /\ UNCHANGED <<clock, lastSeen, rows, ingest, left, prune>>

HealthWeather ==
  /\ reader.step = "weather"
  /\ \E at \in Newest("weather", reader.p) :
       reader' = [reader EXCEPT !.step = "event",
                    !.weather = StatusForAge(Age(at, reader.now), Interval)]
  /\ UNCHANGED <<clock, lastSeen, rows, ingest, left, prune>>

HealthEvent ==
  /\ reader.step = "event"
  /\ \E at \in Newest("event", reader.p) :
       reader' = [reader EXCEPT !.step = "health",
                    !.event = StatusForEvent(Age(at, reader.now), reader.node)]
  /\ UNCHANGED <<clock, lastSeen, rows, ingest, left, prune>>

\* The counts by level, which add up to total_events.
SummaryCount(p, from, to) ==
  /\ reader = NoReader /\ left > 0 /\ left' = left - 1
  /\ Accepted(Since(from, to, clock), Until(to, clock), "raw")
  /\ reader' = [reader EXCEPT
       !.step = "recent", !.p = p, !.from = Since(from, to, clock), !.to = Until(to, clock),
       !.count = Cardinality(InRange(OfNode(rows, "event", p), Since(from, to, clock),
                                     Until(to, clock)))]
  /\ UNCHANGED <<clock, lastSeen, rows, ingest, prune>>

\* The second SELECT without the node (a mutant).
RecentOfAll == InRange(OfNode(rows, "event", AllNodes), reader.from, reader.to)

\* The rows the second SELECT chooses from.
RecentOf == InRange(OfNode(rows, "event", reader.p), reader.from, reader.to)

SummaryRecent ==
  /\ reader.step = "recent"
  /\ \E some \in SUBSET RecentOf :
       /\ IsNewest(some, RecentOf, Recent)
       /\ reader' = [reader EXCEPT !.step = "summary", !.recent = some]
  /\ UNCHANGED <<clock, lastSeen, rows, ingest, left, prune>>

EndRead ==
  /\ reader.step \in {"health", "summary"} /\ reader' = NoReader
  /\ UNCHANGED <<clock, lastSeen, rows, ingest, left, prune>>

-----------------------------------------------------------------------------

Init ==
  /\ clock = 0 /\ lastSeen = [n \in Node |-> None] /\ rows = {}
  /\ ingest = [s \in Session |-> Idle] /\ left = MaxRequests
  /\ prune = NoPrune /\ reader = NoReader

Ingest(s) ==
  \/ \E t \in Table, n \in Node, skew \in Skew :
       Upsert(s, [table |-> t, node |-> n, at |-> clock + skew])
  \/ Commit(s) \/ Abort(s)

Prune == PruneStart \/ PruneCommit \/ PruneAbort \/ \E t \in Table : PruneTable(t)

Read ==
  \/ \E p \in Node \cup {AllNodes, Unknown} :
       HealthStart(p) \/ \E range \in Asked : SummaryCount(p, range[1], range[2])
  \/ HealthNode \/ HealthWeather \/ HealthEvent \/ SummaryRecent \/ EndRead

Next == Tick \/ Prune \/ Read \/ \E s \in Session : Ingest(s)

Spec == Init /\ [][Next]_vars

-----------------------------------------------------------------------------
(* Properties.                                                             *)

Status == {"", "fresh", "stale", "offline", "no_data", "idle", "unknown"}

IngestState == [busy : BOOLEAN, row : SUBSET Row, now : Nat]

PruneState ==
  [on : BOOLEAN, now : Nat, todo : SUBSET Table, doomed : SUBSET Row, since : SUBSET Row]

ReaderState ==
  [step : {"idle", "node", "weather", "event", "health", "recent", "summary"},
   p : Node \cup {AllNodes, Unknown}, now : Nat, node : Status, weather : Status,
   event : Status, from : Int, to : Int, count : Nat, recent : SUBSET Row,
   touched : SUBSET {"ingest", "prune"}]

\* Type invariant: no time taken from the clock is later than now, and a run of the
\* retention job deletes rows there are.
TypeOK ==
  /\ clock \in 0..MaxTime /\ left \in 0..MaxRequests
  /\ lastSeen \in [Node -> {None} \cup Nat] /\ \A n \in Node : lastSeen[n] <= clock
  /\ rows \subseteq Row /\ IsFiniteSet(rows)
  /\ ingest \in [Session -> IngestState]
  /\ \A s \in Session : ingest[s].now <= clock /\ IsFiniteSet(ingest[s].row)
  /\ prune \in PruneState /\ prune.now <= clock /\ prune.doomed \subseteq rows
  /\ reader \in ReaderState /\ reader.now <= clock

\* Safety: the answer of /api/health/latest does not contradict itself, as long as
\* no batch is committed between its SELECTs: a node called offline (or never
\* seen) has no fresh stream, and one never seen has no rows at all.  This rests
\* on the distance between NODE_STALE_SECONDS and the stream's fresh limit, on
\* NULLS LAST, and on both being about the same nodes.
HealthCoherent ==
  reader.step = "health" /\ "ingest" \notin reader.touched =>
    /\ reader.node \in {"offline", "no_data"} => reader.weather # "fresh"
    /\ reader.node = "no_data" => reader.weather = "no_data" /\ reader.event = "no_data"

\* Safety: the two SELECTs of /api/system/summary agree as far as nothing is
\* committed between them: "recent" is not shorter than total_events allows
\* unless rows have been pruned, nor longer unless rows have come in.
SummaryCoherent ==
  reader.step = "summary" =>
    LET shown == Cardinality(reader.recent) IN
    /\ "prune" \notin reader.touched => shown >= reader.count \/ shown = Recent
    /\ "ingest" \notin reader.touched => shown <= reader.count

\* Action property: what a run of the retention job leaves behind although it is
\* older than the policy has been committed after the DELETE of its table: only a
\* late or repeated batch brings old rows back.
OnlyLateRowsSurvive ==
  [][PruneCommit =>
       \A r \in rows' : r.at < prune.now - Retain[r.table] => r \in prune.since]_vars

\* Refinement: whatever the order of upserts, DELETEs and commits, the tables keep
\* each row until it is older than its policy.
Shown == INSTANCE Archive WITH now <- clock, shown <- rows, Retain <- Retain
ImplementsArchive == Shown!ArchiveSpec

\* A single SELECT sees what is committed and nothing else, so it is enough to look
\* at its result while no other request is going on.
Quiet == reader = NoReader /\ ~ prune.on /\ \A s \in Session : ~ ingest[s].busy

\* The ranges the queries of SeriesConsistent are about.
Ranges ==
  {range \in {<<Since(q[1], q[2], clock), Until(q[2], clock)>> : q \in Asked} :
     range[1] < range[2]}

\* Safety: histories agree with the rows and with each other.  The buckets of a
\* history add up to the raw rows of its range; a bucket that lies within two
\* ranges is the same in both, so a chart that moves with the clock does not
\* change behind it; and the row /latest shows is in the last bucket.
SeriesConsistent == Quiet =>
  \A p \in Node \cup {AllNodes}, interval \in DOMAIN Width :
    LET weather == OfNode(rows, "weather", p)
        series(range) == BucketedSeries(weather, interval, range[1], range[2])
        within(b, range) == range[1] <= b /\ b + Width[interval] <= range[2] IN
    \A range \in Ranges :
      LET found == series(range) IN
      /\ Total(InRange(weather, range[1], range[2]))
           = SumFunction([b \in DOMAIN found |-> found[b].sum])
      /\ \A other \in Ranges, b \in DOMAIN found :
           within(b, range) /\ within(b, other) =>
             b \in DOMAIN series(other) /\ series(other)[b] = found[b]
      /\ \A r \in InRange(weather, range[1], range[2]) :
           IsNewest({r}, weather, 1) =>
             Max(DOMAIN found) = BucketOf(interval, range[1], r.at)

\* Safety: one more strike never lowers the risk, except one overhead: its
\* distance 0 is taken for an unknown one.
RiskMonotone == Quiet =>
  \A n \in Node :
    LET strikes == OfNode(rows, "event", n) IN
    \A r \in strikes :
      Measure[r] # 0 => LightningRisk(strikes \ {r}) <= LightningRisk(strikes)

\* Safety: a window called anomalous has two minutes that differ by at least 0.42
\* of the mean (the square root of 2 * 0.3 ^ 2), below zero as well as above.
AnomalyMeansSpread == Quiet =>
  \A n \in Node :
    LET minutes == OfNode(rows, "weather", n)
        size == Cardinality(minutes) IN
    WeatherLabel(minutes) = "anomalous" =>
      \E r, q \in minutes :
        LET apart == size * (Measure[r] - Measure[q]) IN
        /\ r # q
        /\ 100 * apart * apart >= 18 * Total(minutes) * Total(minutes)

-----------------------------------------------------------------------------
(* The inductive strengthening of the safety properties.                   *)

\* A node's last_seen_utc is behind the newest of its rows by no more than the
\* clocks may differ and a commit may take.
SeenInv ==
  /\ \A s \in Session : ingest[s].busy =>
       /\ clock - ingest[s].now <= Slow
       /\ \A r \in ingest[s].row : r.at <= ingest[s].now + Ahead
  /\ \A r \in rows :
       /\ r.at <= clock + Ahead
       /\ lastSeen[r.node] # None /\ r.at <= lastSeen[r.node] + Ahead + Slow

\* What a DELETE of the current run has passed over has come in after it.
PruneInv ==
  prune.on =>
    /\ \A r \in prune.doomed : r.at < prune.now - Retain[r.table]
    /\ \A r \in rows : r.table \notin prune.todo /\ r.at < prune.now - Retain[r.table]
                         => r \in prune.doomed \cup prune.since

\* What the node's status says of the rows the next SELECTs will find.
HealthInv ==
  "ingest" \notin reader.touched =>
    /\ reader.step \in {"weather", "event"} /\ reader.node = "no_data" =>
         \A t \in Table : OfNode(rows, t, reader.p) = {}
    /\ reader.step = "weather" /\ reader.node = "offline" =>
         \A r \in OfNode(rows, "weather", reader.p) :
           r.at + FreshFactor * Interval <= reader.now
    /\ reader.step \in {"event", "health"} =>
         /\ reader.node \in {"offline", "no_data"} => reader.weather # "fresh"
         /\ reader.node = "no_data" => reader.weather = "no_data"
    /\ reader.step = "health" /\ reader.node = "no_data" => reader.event = "no_data"

SummaryInv ==
  reader.step = "recent" =>
    /\ "prune" \notin reader.touched => reader.count <= Cardinality(RecentOf)
    /\ "ingest" \notin reader.touched => Cardinality(RecentOf) <= reader.count

IInv == TypeOK /\ SeenInv /\ PruneInv /\ HealthInv /\ SummaryInv /\ SummaryCoherent

=============================================================================
