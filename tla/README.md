# PetirDashboard: a TLA+ model of the sync pipeline

PetirDashboard carries weather and lightning measurements from a Raspberry Pi
to a dashboard.  Ingestion services on the Pi (not in this repository) write
rows into a SQLite file.  A sync worker, started by a systemd timer, reads the
rows above a cursor, posts them to a FastAPI server and stores the cursor the
server acknowledges.  The server admits the request, upserts the rows into
PostgreSQL and keeps a checkpoint per node and table.  A retention job deletes
old rows, and the dashboard reads what is there.

The promise of the design (`docs/sync.md`) is that the cursor moves on durable
acknowledgement only, so that nothing is lost by lost answers, crashes, rejected
rows, repeated batches, overlapping requests or a reflashed Pi.  The modules
here state this promise and those of the parts around it, check them on small
instances and prove the safety part for every value of the constants.  They also
show five situations in which the code does not do what a document or a comment
of the repository says of it.

## 1. Inventory

| Part | Source | State it keeps | Operations | What is hard |
| --- | --- | --- | --- | --- |
| Edge migration | `edge/migrations/` | `change_seq` of each summary row, `change_seq_counter`, triggers, `meta` | backup, backfill, trigger creation, identity, re-run, rollback, full revert; the triggers on each write | writers during the migration, interruption between commits, reverts and re-runs |
| Sync worker | `edge/sync_worker/` | `sync_state` (one cursor per table), `meta.db_epoch`, `sync_runs` | one run: per table read, post, retry, advance; record of the run | lost answers, death of the process anywhere, rows updated while a batch is in flight |
| systemd units | `edge/systemd/` | none | start a run every 15 s, kill it after 60 s | kill in the middle of retries |
| Wire contract | `packages/contracts/` | none | validation of envelope and rows | drift between firmware and server, rows that validate and cannot be stored |
| Gate | `server/app/ingest/auth.py`, `router.py`, `scripts/register_node.py` | token hashes, `enabled`, limiter buckets (in memory) | verify, check the envelope, limit; create, reset, rotate, disable | clock read outside the lock, requests past verification, runs of the script that overlap |
| Server ingest | `server/app/ingest/{router,service,upserts}.py`, `db.py`, `models/` | data tables, `sync_cursors`, `sync_runs` | one batch, one transaction | requests in threads of their own, an unlocked cursor read, repeated and late batches |
| Read path | `server/app/query/` | none | freshness, health, summary, raw and bucketed histories | several SELECTs at READ COMMITTED, thresholds, bucket boundaries |
| Retention | `server/app/retention.py` | `retention_policies` | delete old rows | batches that commit between the DELETEs, late rows |
| AI hooks | `server/app/ai_hooks.py` | `ai_hook_results` | two scores over a window | zero, sign, and a single row |
| Dashboard, schema migrations, tools | `web/`, `server/alembic/`, scripts | none | | presentation, DDL |

The parts interact through calls and shared tables only: services and worker
share the SQLite file, worker and server share the HTTP request, sessions of the
server, the script, the retention job and the readers share PostgreSQL's rows and
locks, and the server's threads share the limiter.

What makes each part correct:

* **migration**: every write of a migrated table gets a position above all
  earlier ones, positions are unique, interrupting and repeating is harmless, and
  so is the revert to the backup;
* **worker and ingest, one table**: what the cursor has passed is on the server
  in its current version; the server's checkpoint covers only rows it holds;
  history of append tables is never overwritten; every version gets across;
* **one run**: it ends, its record tells the truth wherever it dies, the server's
  row of it does not contradict that record, tables are served in order of
  priority, and a table waits only while runs are cut short before it;
* **overlapping transactions**: none of the above is lost when the server works
  on several requests at once, and no request waits for ever;
* **gate**: a window admits at most the limit and one more for each other
  thread; the token issued last and the one it gracefully replaced are accepted;
  disabling drains a node;
* **read path**: an answer put together from several SELECTs does not contradict
  itself, and histories agree with the rows and with each other;
* **retention**: rows disappear only when they have expired, and only late rows
  outlive a run.

`PROJECT.json` lists the hazards at their lines, with the property that covers
each.

## 2. Modules

```
AckedMirror           what one stream promises (no requests, no worker)
  ^ implemented by      ^ implemented by (append tables)
StreamSync            IngestTxn
one table of one      the same stream, with the transactions of
node end to end       ingest_batch overlapping

SyncRun               runs over all tables: order, outcome, records
EdgeMigration         apply.py, the triggers, the writers, the reverts
IngestGate            tokens, envelope, sliding window, register_node.py

Freshness <- Series <- ReadPath --implements--> Archive
statuses    ranges,    health, summary,         rows are shown until
            buckets,   retention and ingest     they expire
            scores

MC_StreamSync, MC_IngestTxn, MC_IngestGate, MC_ReadPath    instances for TLC
StreamSync_proofs, SyncRun_proofs, IngestTxn_proofs, EdgeMigration_proofs,
IngestGate_proofs, Series_proofs <- ReadPath_proofs        theorems
```

The modules cut the system along the interfaces the code has.  `EdgeMigration`
establishes what `StreamSync` takes for its `Write`: each write gets a fresh
position on top (`WriteGoesOnTop`, `PositionsUnique`).  `StreamSync` takes a
batch as one atomic transaction; `IngestTxn` opens that transaction, and both are
shown to implement `AckedMirror`.  `IngestGate` decides whether a request reaches
`ingest_batch` at all, which `StreamSync` has as `Refused` and `ServerError`.
`StreamSync` looks at one table; `SyncRun` has all of them, with only the number
of waiting rows left of each.  `ReadPath` starts where rows are committed.

### StreamSync

State: the edge's `meta.db_epoch` (`epoch`), the order column's last position
(`counter`), the current version of each key (`row`), `sync_state` (`cursor`);
the run (`pc`, `req`, `attempt`, `ack`); requests given up on that may still
arrive (`late`); the server's table (`stored`) and its `sync_cursors` row
(`srvCursor`); whether the row models match the firmware (`contract`).

A row is its key, its position, and one of three kinds: *good*; *drift*, which
the row models reject until the contract is fixed; *poison*, which they accept
and the database does not (a timestamp is declared `str`, so any string
validates).  Nothing in the pipeline looks at more of a row.

| Action | Code |
| --- | --- |
| `Write` | the services, with the position from AUTOINCREMENT or from the triggers |
| `StartRun`, `EmptyRun` | `run_once` down to the POST, `read_rows` (`ReadRows`) |
| `ServerAccept`, `LateArrives` | `ingest_batch`: `Valid`, `Upsert`, `NewCursor`, in one commit |
| `ServerError` | its `except: rollback; raise` |
| `TransportError`, `Retry`, `GiveUp`, `Refused` | `post_batch`; 429 and the fatal codes end the run at once |
| `Advance` | `advance_cursor` |
| `Crash` | the process dies; SQLite keeps what is committed |
| `Reflash`, `DeployContract`, `ResetServerCursor` | operators: a new database file, a redeployed server, the recovery of `docs/edge-schema-drift.md` |

A run handles one batch of the table, so ending the loop body and ending the run
are the same here.  A transport error may come before the request arrives, after
it has been answered, or leave it on its way (`Abandon`).

### SyncRun

State: waiting rows per table (`backlog`), the loop (`pc`, `at`, `batch`,
`attempt`), its counters (`tally`, `failure`), the edge's record and exit code;
the server's row of the run (`server`) and the requests it works on (`requests`),
each with the row as it has read it; four history variables for the properties.
`Counted`, `Outcome`, `ExitCode` and `LeaveLoop` are the decisions of the code.

| Action | Code |
| --- | --- |
| `Begin` | the timer starts a process; `main` down to `start_run` |
| `StartRun` | `start_run`: the record is committed as running |
| `Skip`, `Post`, `Advance` | the loop body of `run_once` |
| `ReadRun`, `Commit` | `ingest_batch`: `session.get(SyncRun)` without a lock; the row computed from it and the commit (`Computed`, `Written`) |
| `Failed`, `TimedOut`, `AnswerLost`, `Retry` | the retry loop of `post_batch` |
| `Refused`, `GiveUp` | its exceptions, which end the loop |
| `Finish` | `finish_run`: the record is committed |
| `Exit` | `run_once` returns and `main` ends the process |
| `Die` | the process is killed, or ends by an exception, at any step from `Begin` on |

Record and exit code are two steps, and so are the start of a process and its
record: a process may die before it has one (the record is then that of the run
before), or after it has finished it.  A client that times out leaves its request
behind (`TimedOut`), which may read and write the run row later, from a value that
is no longer there: an update may be lost, in either direction.  What survives is
the status, because an attribute whose value does not change is not written and the
flags it depends on (some row accepted, some row rejected) are never taken back.

### IngestTxn

A session goes through `InsertRun`, `LockRow` (one row of the upsert at a time),
`ReadCursor`, `Commit`.  Locks are the unique keys of the locked rows; waiting is
derived (`WaitsFor`), and a circle of any length (`Deadlocked`) is broken by
`DeadlockAbort`.
`WriteChanged` is what SQLAlchemy does: it writes the attributes whose value
differs from the one it has read, so a stale but equal value is not written back
(`db.py`: one session per request, PostgreSQL's default READ COMMITTED).
`StartRun` posts a batch in a free session, `Repost` the same one in another,
`Leave` and `Advance` end the run; a client that gives up leaves its session at
work.  `Overlap` says whether a new generation of the edge may post while a
request of the old one is still worked on.

### EdgeMigration

The steps of `Migrate` are what SQLite commits at once.  `executescript` commits
statement by statement; the two SELECTs of the backfill run before Python opens
its transaction, so writers can come in between.  `Prepare` keeps the backup,
`EnsureIdentity` gives the file its `db_epoch`; `Sync` is a successful run, with
the cursor the server answers.  `RollBack` is `docs/edge-migration.md`, `Restore`
the full revert of `docs/edge-deploy.md`.  `Live` says whether the services write
during the migration; `Reverts` adds those reverts on a table in use that the
documents do not clearly call for (a rollback after positions have been given
out, the backup of a re-run).

### IngestGate

State: the limiter's buckets, each thread's request, the node's row
(`row`: current and previous token, `enabled`), what each run of the script has
read (`script`), the token in the Pi's environment (`held`), and histories for
the properties (`admitted`, `printed`, `grace`, `drained`).

| Action | Code |
| --- | --- |
| `Send` | `post_batch` with the token of `edge/.env` and an envelope that may name another node |
| `Unknown`, `Verify` | `verify_node_token`: 401, 403, or the node |
| `Check` | `post_sync_batch`: 422 and 409; `allow` reads the clock |
| `Refuse`, `Allow` | `allow` from the lock on: `Kept`, `Full` |
| `Ingest` | the call of `ingest_batch` |
| `Read`, `Register`, `RegisterFails` | `register_node.py`: the `get`, then the commit of what has changed (`Written`), or its failure on the primary key |
| `Install`, `Disable` | the operator; nothing in the repository clears `enabled` |
| `Tick`, `Restart` | the monotonic clock; a new server process, whose buckets are empty |

`admitted` is the history of one server process.  Nodes share nothing but the
script, so one node is enough for TLC.

### ReadPath, Series, Freshness

`Freshness` has the statuses of `freshness.py`.  `Series` has what handlers and
hooks compute from rows: `Since`, `Until`, `Accepted`, `BucketOf`,
`BucketedSeries`, `IsNewest`, `WeatherLabel`, `LightningRisk`.  The scores are in
whole numbers: the comparison `stddev / max(|mean|, 0.01) < 0.3` is squared and
multiplied out, with the floor of 0.01 under the mean (`Dispersion`,
`WeatherLabel`); the risk is in thousandths.

`ReadPath` puts them next to the transactions that change the rows.

| Action | Code |
| --- | --- |
| `Upsert`, `Commit`, `Abort` | `ingest_batch`, as far as readers see it: the row and `last_seen_utc` |
| `PruneStart`, `PruneTable`, `PruneCommit`, `PruneAbort` | `run_retention`: one clock reading, a DELETE per policy, one commit |
| `HealthStart`, `HealthNode`, `HealthWeather`, `HealthEvent` | the SELECTs of `/api/health/latest` |
| `SummaryCount`, `SummaryRecent` | the SELECTs of `/api/system/summary` |
| `EndRead` | the answer is sent |

Two tables stand for six: a stream with a cadence and one without.
`MarginOK` is the assumption of the health page: NODE_STALE_SECONDS (180 s) is
above the fresh limit of a stream (2 * 60 s) by more than the clocks differ and a
commit takes.

## 3. Runs

| Run | Bounds | States | Shows |
| --- | --- | --- | --- |
| `StreamSync_summary` | 2 keys, 3 writes per generation, 2 generations, batches of 1, 1 retry | 103 k | `AckedDurable`, `EveryVersionPassed` and the refinement, with drifted rows |
| `StreamSync_append` | 3 keys, batches of 2, 3 writes, 2 generations, 1 retry, 1 late request | 325 k | `CheckpointDurable`, `AppendHistoryKept`, `CheckpointMonotonic`, the refinement and the inductive invariant, with failing and late batches |
| `SyncRun` | 2 tables, backlog up to 2, batches of 1, 1 retry, 1 request left behind at a time | 562 k | the record and the exit code wherever the process dies, the order, the server's row of the run, the ends of runs, no starvation |
| `IngestTxn` | 2 sessions, 2 keys, batches of 2 (summary: also of 1), 3 writes then 1, 2 generations, of a summary table also with one before them | 354 k | durability, monotonic cursors and the refinement with overlapping transactions, no deadlock of append batches, no waiting for ever |
| `EdgeMigration` | 3 rows, 2 versions, 5 positions, 2 identities | 2.1 M | unique positions, no write lost, re-run changes nothing, through interruptions and reverts |
| `IngestGate` | 1 node, 2 threads, 2 runs of the script, limit 2, window of 1 tick, 2 readings of the clock, 3 tokens | 2.1 M | the bound of the window, tokens honoured, disabling drains |
| `ReadPath` | 2 nodes, 2 sessions, 5 ticks, 3 requests | 841 k | coherent answers, consistent histories, retention, the refinement |
| five runs that expect a violation | small instances of the same modules | | section 6 |

Why these bounds.  Two keys and three writes let a row be updated while a batch
with its old version is in flight and another row lies above it; batches of one
and of two put the LIMIT at, below and above what is waiting; one retry gives a
first, a repeated and a last attempt; two generations give a reflash with
requests of the old one around; one late request is enough to overtake.  Two
sessions are what it takes to overlap, and the deadlock of two is the only kind
the code can bring about with two.
A summary table of `IngestTxn` starts without a cursor row, so that two sessions may
both insert it, or with the row of an earlier generation (`Tables`): of two first
batches of the new one that share no row, the one that commits last writes the
server's cursor back below the other's, which is the case `EdgeCursorAdvances` is
about and the run reaches.  The theorems cover every bound and
every number of sessions.  In `SyncRun` one high and one low priority
table show order and starvation, and a table with two rows and batches of one keeps
rows after its batch; one request left behind is enough to overwrite what the next
attempt has counted, or to be overwritten.  (For the edge to be told more than the
server's counters say it takes a third table; the property claims nothing of counters
then.)  In `EdgeMigration` three rows give the backfill
an order, two identities a migration after a full revert.  In `IngestGate` two
threads are what it takes for stamps to enter a bucket out of order, one tick is
enough to drop the stamps of a full bucket, and three tokens are a creation and
two rotations or resets that overlap.
In `ReadPath` five ticks
take a row from fresh to expired; three requests are a batch before a run of the
retention job and one inside it, or a batch, a reader and a batch or a run
between its SELECTs.
Bounds that only keep the instance finite are named and commented as such in the
modules.  Symmetry is used where nothing is ordered and no liveness is checked:
keys of `StreamSync_append`, threads and runs of the script, nodes and sessions
of `ReadPath`.

Deadlock is checked in every run but `ReadPath`: its handlers only wait for
requests, and once the instance's requests are used up and its clock has reached
the bound, nothing is left to do.

How tight the properties are was looked at by hand.  `WindowBound` with the limit
alone, as `docs/architecture.md:76` ("Strict per-node rate limiting") suggests,
is violated in `IngestGate`: the clock is read before the lock is taken, so one
more request for each other thread can get through.  `TokensHonoured` is violated
if the token replaced by a rotation is claimed even when another run of the
script has committed while it ran.  Restoring the backup of a re-run
(`Reverts = {"backup"}`) violates `NoWriteLost`: the file keeps its `db_epoch`
while its positions go back, and the server answers with a cursor beyond them.
`RiskMonotone` is violated by a strike at distance 0, which
`ai_hooks.py` takes for an unknown distance and counts as 40 km.

### Fairness

`StreamSync`: weak fairness of starting a run (the timer fires every 15 s) and of
going on after a failed attempt (a loop in one process); strong fairness of the
server's processing and of the answer's being read.  This is an assumption about the
environment: a network that never delivers, a server that refuses (429, 401, ...) or
times out for ever would refute every progress property, while one that fails now and
then is the case the retries are for.  How often requests fail or are refused in
between, and what writers, operators, crashes and late requests do, is left open.
That the server answers a batch with an error each time is not excluded
(`ServerError`), which is what `StreamSync_poison` shows.

`SyncRun`: weak fairness of the worker's steps, and nothing else: the timer fires
again, a process goes on to its next statement, and every request ends within the
client's timeout, one way or another.  A batch may fail in every run.  `NoStarvation`
therefore says what the code can keep: a table with rows gets a batch across unless
runs are cut short at it or before it again and again (`CutShort`: a failure that ends
the loop, or the death of the process).  That a table waits for ever behind one whose
batch fails for ever is the design (`run.py:91-102`), and it is the only way.

`IngestTxn`: strong fairness of each session's transaction; PostgreSQL grants a
lock to those who wait in turn.  `EdgeMigration`, `IngestGate` and `ReadPath`
check safety only.

## 4. Properties

* `AckedDurable`, `CheckpointDurable`: what the edge's cursor, and the server's,
  have passed is on the server in the version the edge holds (rows the server
  rejects or cannot store excepted).
* `AppendHistoryKept`, `CheckpointMonotonic`, `AppendCursorMonotonic`: what a
  step never does, late requests and reflashes included.  In `IngestTxn` a
  summary cursor may move back under concurrency (two batches that share no
  row).  `EdgeCursorAdvances`: the edge's own moves forward with every answer it
  takes all the same, to or above every row of the answered batch.
* `ImplementsMirror`: `StreamSync` implements `AckedMirror`, and so does
  `IngestTxn` for append tables.
* `EveryVersionPassed`, `NoStarvation`, `RunsEnd`, `SessionsEnd`: progress.
* `RunAdvances`, `TransactionsGoOn`, `SessionAdvances`: the safety halves of the
  last two, which are proved (section 5) and not checked by a run of their own.  A
  run under way has a number of steps left that each of its steps lowers; of the
  transactions worked on one can always go on, and a transaction never goes back.
* `AppendNeverDeadlocks`: requests of an append table never wait for each other in
  a circle, because batches, and so locks, are in the order of the positions.
* `RecordHonest`: a finished record tells what its run did, and exit codes 0 and 2
  agree with the record beside them, wherever processes die.  1 may stand beside any
  record: an exception ends the interpreter with it, before the run is recorded too.
* `RunsComparable`: the server's status of a run never contradicts the edge's record,
  although requests left behind write to it from stale reads; the counters are only as
  good as long as there are none.
* `PriorityRespected`: cursors move in the order of the tables.
* `KeysNotSkipped`, `AckedCommitted`: the server's answer is a position the edge
  has given out, and covers committed rows only.
* `NoWriteLost`, `PositionsUnique`, `WriteGoesOnTop`, `RerunIsNoOp`: the
  migration and its triggers.
* `WindowBound`: what the limiter guarantees although its clock is read outside the
  lock.
* `TokensHonoured`, `DisabledDrains`: who gets in after any sequence of creating,
  resetting, rotating, re-enabling and disabling.
* `HealthCoherent`, `SummaryCoherent`: an answer does not contradict itself, as
  far as nothing is committed between its SELECTs.
* `SeriesConsistent`: buckets add up to the rows, do not depend on where the
  range begins, and end with the row that is shown as the latest.
* `RiskMonotone`, `AnomalyMeansSpread`: what the two scores mean.
* `OnlyLateRowsSurvive`, `ImplementsArchive`: retention deletes what has expired,
  nothing else, and only what is committed behind its DELETE outlives it.

Each property of a passing run has a mutant in `PROJECT.json`: a plausible bug
in the code, under which the run fails on that property.

## 5. Proofs

| Theorems | Statement | Assumption |
| --- | --- | --- |
| `StreamSync_proofs` | | |
| `BaseInvariant`, `TypeCorrect`, `CheckpointIsMonotonic` | `BaseInv`, `TypeOK`, `CheckpointMonotonic` | none |
| `AckedRowsAreDurable`, `CheckpointIsDurable`, `StreamImplementsMirror`, `Inductive` | `AckedDurable`, `CheckpointDurable`, `ImplementsMirror`, `IInv` | `NoStaleUpsert` |
| `AppendHistoryIsKept` | `AppendHistoryKept` | `Strategy = "append"` |
| `SyncRun_proofs` | | |
| `Inductive`, `TypeCorrect`, `PriorityCorrect`, `RecordCorrect`, `RunsAreComparable`, `RunsAdvance` | `IInv`, `TypeOK`, `PriorityRespected`, `RecordHonest`, `RunsComparable`, `RunAdvances` | none |
| `IngestTxn_proofs` | | |
| `Inductive`, `TypeCorrect`, `AckedIsCommitted`, `KeysAreNotSkipped`, `CursorIsMonotonic`, `TransactionsImplementMirror` | `IInv`, `TypeOK`, `AckedCommitted`, `KeysNotSkipped`, `AppendCursorMonotonic`, `ImplementsMirror` | `OneGeneration` |
| `EdgeAdvances`, `NoDeadlock`, `SomeoneGoesOn`, `TransactionsAdvance` | `EdgeCursorAdvances`, `AppendNeverDeadlocks`, `TransactionsGoOn`, `SessionAdvances` | `OneGeneration` |
| `EdgeMigration_proofs` | | |
| `Inductive`, `TypeCorrect`, `WritesAreNotLost`, `PositionsAreUnique`, `WritesGoOnTop`, `RerunsAreNoOps` | `IInv`, `TypeOK`, `NoWriteLost`, `PositionsUnique`, `WriteGoesOnTop`, `RerunIsNoOp` | `QuietMigration` |
| `IngestGate_proofs` | | |
| `Inductive`, `TypeCorrect`, `WindowIsBounded`, `DisablingDrains`, `TokensAreHonoured` | `IInv`, `TypeOK`, `WindowBound`, `DisabledDrains`, `TokensHonoured` | none |
| `ReadPath_proofs` | | |
| `Inductive`, `TypeCorrect`, `HealthCorrect`, `SummaryCorrect`, `RetentionCorrect`, `Refinement` | `IInv`, `TypeOK`, `HealthCoherent`, `SummaryCoherent`, `OnlyLateRowsSurvive`, `ImplementsArchive` | none |
| `SeriesCorrect`, `RiskCorrect`, `AnomalyCorrect` | `SeriesConsistent`, `RiskMonotone`, `AnomalyMeansSpread` | none |
| `Series_proofs` | | |
| `BucketsAddUp`, `BucketsStable`, `NewestInLastBucket`, `RiskOfMore`, `AnomalousRows` | the same of the operators, for any finite set of rows | whole values |

Each module's `Inductive` theorem is the invariant the others rest on.  Besides
the assumptions in the table, only those on the constants are used
(`ConstantsOK` and its like, `MarginOK` for the health page, `MeasureOK`: the
measured values are whole numbers), which every run of the module evaluates.  Each
of the assumptions in the table is needed; a run of section 6 is the counterexample
without it:

* `NoStaleUpsert`: append tables, whatever arrives late, and summary tables when
  no request arrives late (`StreamSync_late`);
* `OneGeneration`: no request of an old generation is still worked on when a new
  one posts (`IngestTxn_epoch`);
* `QuietMigration`: the services do not write while the migration runs, and no reverts
  beyond those that are always safe.  This is stricter than the documents, which leave
  the services running (`docs/edge-migration.md:3`) and describe a rollback of a table
  in use (`:64-79`); both lose writes (`EdgeMigration_live`, `EdgeMigration_rollback`).

**StreamSync.**  `AckedDurable` is not inductive: it says nothing of the batch
whose answer is about to be stored, nor of the batch in flight.  Three layers
strengthen it.

1. `BaseInv`: requests in flight are of their generation, carry positions given
   out, and the current run's rows and its answer lie above the cursor.  So the
   cursor only moves forward, and never beyond the counter.
2. `DurableInv`: the promises for the cursor, the checkpoint and the answer
   being read, and for each request of this generation `NoGap` (what lies at or
   below its last row and is not in it is already on the server) and `UpToDate`
   (each of its rows is the edge's current version, or has been replaced by one
   above the whole batch and above the checkpoint).  `NoGap` is what ORDER BY
   and LIMIT establish, `UpToDate` is why an update in flight is not lost.
3. `PositionsUnique`: a generation and a position name one key, wherever a
   version is found.  This makes the append conflict target safe across repeats
   and reflashes.

`CommitDelivers` and `CommitKeeps` are the lemmas about one commit.

**SyncRun.**  `LoopInv` relates the loop's position to the cursors moved so far and
gives `PriorityRespected`; `RecordInv` carries what the loop has done from `Finish`
through `Exit` or `Die` to the next `StartRun`.  The server's row needs two arguments.
`ServerInv`: a row and every copy of it that a request has read have the status of
their own counters (`Sound`), the row is not behind any copy in the two flags "some row
accepted" and "some row rejected", and what the edge has been told (`Told`) has set
them; lemma `Writing` shows that no commit, however stale its copy, clears a flag or
leaves a status that is not the counters'.  `RejectInv` adds that in a run without
failures each rejection is one the edge has been or will be told of, so "ok" stands
beside "accepted".  `TallyInv` has the counters: as long as nothing is left behind
there is at most one request, and what it has read is the row as it is.  `RunsAdvance`
needs only the types and where the loop stands: `StepsLeft` has a summand for each
table to come that outweighs all the attempts at a batch.

**IngestTxn.**  The cursor row is read without a lock and written from what was
read.  Why is it safe for an append table?  Two batches of one generation that
are worked on at once begin above the edge's cursor and leave nothing out
(`RequestInv`), so they share a row (lemma `SharedRow`); append rows have one
key each, so whoever locks the shared row keeps the other out until it has
committed, and of two such sessions only one can be past its upsert (`OneAbove`).
Hence what a session has read is still there when it commits, unless its own
rows are at or below it, and then the attribute it writes equals the one it has
read and is not written (`ReadInv`, lemmas `ReadsStand` and `CursorWritten`).

`NoDeadlock` rests on `OrderInv`: the rows a session has locked lie below those it
has not.  Who waits for a row therefore waits for somebody whose next row is above
it, and the sessions whose next row is above a given one form a set that nobody in
it waits out of and the waiting one is not in: it is in no circle (`NoCircle`).
`SomeoneGoesOn` holds of summary tables too: of the sets of sessions that hold
all their members wait for there is a smallest one, and in it each member waits
for itself through the others (`NotAllWait`).

**EdgeMigration.**  `FileInv` is what holds of the file in use and of each backup:
no position twice, none above the counter, and no trigger without a counter.
`StepInv` says what each step finds done by those before it, also when it was
another run that did them; `AppliedInv` relates the identity, the triggers and
the server's cursor.  A migration that was interrupted is then one that has not
begun, with a file that satisfies `FileInv`.

**IngestGate.**  `WindowBound` follows from `WindowInv`: for each interval, either
the bucket still holds everything that has passed in it, and the limit bounds it;
or the interval is over, and what has passed together with the threads that read
the clock in time and still wait for the lock is at most the bound.  A thread
enters the second case by dropping stamps the interval still needs, and it is
itself not one of the late ones.  `DrainInv` counts requests past verification,
`TokenInv` says that a rotation that was not overtaken has left the token it
replaced in the row.

**ReadPath.**  `SeenInv` bounds how far a node's `last_seen_utc` is behind its
newest row; with `MarginOK` it turns "offline" into "no row is fresh".
`HealthInv` and `SummaryInv` say at each step of a handler what the SELECTs to
come will find as long as nothing is committed; `PruneInv` accounts for every
expired row a DELETE has passed over.

**Series.**  Sums, greatest and least values are over finite sets of any size.
The library's induction theorems cannot be instantiated here, so a smallest
counterexample takes their place: the strict subsets of a finite set are well
founded, hence a non-empty collection of its subsets has a minimal member
(`Minimal`).  In this way it is shown that there is one function that adds up the
subsets of a set (`AddsUnique`, `AddsExists`), whatever element `CHOOSE` begins
with (`SumRemove`), that a sum may be split (`SumSplit`) and grouped
(`SumGroups`).  `BucketsAddUp` is the last of these for the buckets;
`BucketsStable` and `NewestInLastBucket` follow from `BucketBounds` and
`BucketMonotone`: a row is within its bucket, and a later row in no earlier one.
`RiskOfMore` compares two minima.  `AnomalousRows` is a bound on the deviation of
values that lie in an interval: the dispersion is at most a quarter of the square
of n times their greatest difference (`SquaresBound`, `Spread`), so readings
that differ little are not called anomalous.

Only model-checked: the four liveness properties (`EveryVersionPassed`,
`RunsEnd`, `NoStarvation`, `SessionsEnd`), since the prover has neither ENABLED nor
fairness.  What is proved towards them: every step of a run lowers `StepsLeft`;
some transaction can go on and each only goes forward; every answer moves the
edge's cursor.  No module declares a RECURSIVE operator.

## 6. Where code and documents differ

| Run | The repository says | The code does |
| --- | --- | --- |
| `StreamSync_late` | "Re-sending the same rows is safe" (`docs/api-contract.md:76`) | a late batch of a summary table replaces newer versions, for good |
| `StreamSync_poison` | "a poison row can never stall the stream" (`service.py:124`) | a row that validates and cannot be stored stalls it |
| `IngestTxn_epoch` | the old cursor is cleared "so old keys are not skipped" (`service.py:112`) | the clearing is lost when a request of the old generation commits in between |
| `EdgeMigration_live` | the migration leaves the services running (`docs/edge-migration.md:3`) | a row inserted before the triggers exist never gets a position |
| `EdgeMigration_rollback` | the column left behind is "harmless" (`docs/edge-migration.md:79`) | the second migration restarts the counter below it |

One more difference needs no run: `docs/edge-schema-drift.md:16` has the server's
cursor reset for a full replay, but the edge reads only its own cursor, so
nothing is replayed (`ResetServerCursor` in `StreamSync` changes `srvCursor` and
no action of the edge looks at it).

## 7. Not modelled

* Times as quantities: back-off between attempts, request timeouts, the pool's
  limits and its pre-ping.
* The contents of rows beyond what decides a step: fields, enum renaming, JSON
  schemas, hashes.
* Listings that only show a table (`query/admin.py`: sync runs, retention
  policies, AI results), the filters by status, level and event type, the
  dashboard's API key (`query/auth.py`, one comparison), the statistics columns
  of a policy and the rows of `ai_hook_results`, which only those listings read.
* The web dashboard, which polls the query endpoints and presents their answers;
  the DDL of `server/alembic/`, whose unique keys are the conflict targets
  `StreamSync` and `IngestTxn` have; seeding, test and installation scripts.

Some steps are coarser than the code, where no property turns on it: a DELETE of the
retention job is taken at one instant, and a row's `ts_pi_utc` and `created_at_utc` are
one time (`ReadPath.PruneTable`); the upsert and the clock reading for `last_seen_utc`
are one step (`ReadPath.Upsert`); `register_node.py` prints its token in the step that
commits (`IngestGate.Register`); the backup of the edge file is one step, where
`apply.py` copies it (`EdgeMigration.Prepare`); `Series.LightningRisk` is given the
lightning events with a distance, and the hook selects them.

## 8. What could come next

1. `IngestTxn` as the server of `StreamSync`: the composition would give the
   end-to-end promise with overlapping transactions at once, where `AckedMirror`
   now links the two.
2. Summary tables in `IngestTxn` beyond `KeysNotSkipped`: which guard in the
   upsert would make a stale version harmless, stated as a variant of `Upserted`.
3. The composition of `IngestGate` with `SyncRun`: a 429 ends a run at once, so
   the limit has an effect on how fast a backlog is worked off.
