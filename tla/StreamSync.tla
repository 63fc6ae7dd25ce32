----------------------------- MODULE StreamSync -----------------------------
(***************************************************************************)
(* One stream of the pipeline: one table of one node, from the Pi's SQLite *)
(* through the sync worker and the network to PostgreSQL.                  *)
(*                                                                         *)
(* The Pi writes rows; each insert or update of a row takes the next       *)
(* position of the table's order column (the AUTOINCREMENT id of an append *)
(* table, the trigger-maintained change_seq of a summary table).  A worker *)
(* run reads the rows above its local cursor, posts them as one batch,     *)
(* retries a bounded number of times, and stores the cursor the server     *)
(* accepted.  The server upserts the rows and its own cursor in one        *)
(* transaction.  Runs die, replies are lost, requests the client has given *)
(* up on may still reach the server, the Pi may be reflashed.              *)
(*                                                                         *)
(* A row carries only what the properties tell apart: its natural key, its *)
(* position and whether the server can ingest it.                          *)
(***************************************************************************)
EXTENDS Integers, FiniteSets

CONSTANTS
  Key,           \* natural keys of rows (an append row is written once)
  Strategy,      \* "append" or "summary": CursorStrategy of the table
  Kinds,         \* the kinds of row the Pi may write
  Limit,         \* TableConfig.limit: rows per batch
  MaxRetries,    \* Config.max_retries
  LateRequests,  \* TRUE: a request the client gave up on may still arrive
  MaxLate,       \* bound: abandoned requests on their way at a time
  MaxSeq,        \* bound: writes per generation of the edge database
  MaxEpoch       \* bound: generations of the edge database

ASSUME ConstantsOK ==
  /\ Strategy \in {"append", "summary"}
  /\ Kinds \subseteq {"good", "drift", "poison"}
  /\ Limit \in Nat \ {0}
  /\ MaxRetries \in Nat
  /\ LateRequests \in BOOLEAN
  /\ MaxLate \in Nat /\ MaxSeq \in Nat /\ MaxEpoch \in Nat \ {0}

VARIABLES
  epoch,      \* meta.db_epoch: the generation of the edge database
  counter,    \* the last position given out
  row,        \* edge table: position and kind of each key's current version
  cursor,     \* sync_state: the position the edge believes acknowledged
  pc,         \* the run: idle, sent, acked (200 read) or failed (5xx, no answer)
  req,        \* the batch being posted: the envelope's db_epoch and rows
  attempt,    \* attempts made at this batch
  ack,        \* accepted_cursor of the answer
  late,       \* requests abandoned by the client that may still arrive
  stored,     \* server table: the version held under each conflict target
  srvCursor,  \* the sync_cursor row: db_epoch and value (0: NULL or no row)
  contract    \* "old": row models reject drifted rows; "fixed": they accept

edgeVars   == <<epoch, counter, row, cursor>>
runVars    == <<pc, req, attempt, ack>>
serverVars == <<stored, srvCursor, contract>>
vars == <<edgeVars, runVars, late, serverVars>>

-----------------------------------------------------------------------------
(* Shapes of the data.                                                     *)

EdgeRow == [seq : Nat, kind : {"good", "drift", "poison"}]
Row     == [key : Key, seq : Nat \ {0}, kind : {"good", "drift", "poison"}]
Version == [epoch : Nat, key : Key, seq : Nat \ {0}]
Request == [epoch : Nat, rows : SUBSET Row]

Absent    == [seq |-> 0, kind |-> "good"]
NoRequest == [epoch |-> 0, rows |-> {}]
NoCursor  == [epoch |-> 0, val |-> 0]

\* The version of key k that the edge holds now, as the server would store it.
Current(k) == [epoch |-> epoch, key |-> k, seq |-> row[k].seq]

-----------------------------------------------------------------------------
(* Edge database: writers, triggers, reflash.                              *)

\* What the update trigger does when its WHEN clause is lost: an updated row
\* keeps its position (a mutant).
WriteKeepsSeq(k, kind) ==
  /\ counter < MaxSeq
  /\ (Strategy = "append") => row[k] = Absent
  /\ counter' = counter + 1
  /\ row' = [row EXCEPT ![k] =
               [seq |-> IF row[k] = Absent THEN counter + 1 ELSE row[k].seq,
                kind |-> kind]]
  /\ UNCHANGED <<epoch, cursor, runVars, late, serverVars>>

\* A writer inserts a row or, in a summary table, updates it in place: either
\* takes the next position and moves the row to it.
Write(k, kind) ==
  /\ counter < MaxSeq
  /\ (Strategy = "append") => row[k] = Absent
  /\ counter' = counter + 1
  /\ row' = [row EXCEPT ![k] = [seq |-> counter + 1, kind |-> kind]]
  /\ UNCHANGED <<epoch, cursor, runVars, late, serverVars>>

EdgeRows ==
  {[key |-> k, seq |-> row[k].seq, kind |-> row[k].kind] :
     k \in {j \in Key : row[j].seq > 0}}

-----------------------------------------------------------------------------
(* Server: one batch is one transaction.                                   *)

Batch(r) == {x.seq : x \in r.rows}

\* The largest position of a batch, over ALL its rows, rejected ones included.
BatchMax(r) == CHOOSE n \in Batch(r) : \A m \in Batch(r) : m <= n

\* The rows the contract's row models accept.
Valid(r) == {x \in r.rows : contract = "fixed" \/ x.kind # "drift"}

\* The rows as stored: stamped with the envelope's epoch.
Stamp(r, rows) == {[epoch |-> r.epoch, key |-> x.key, seq |-> x.seq] : x \in rows}
Stamped(r)  == Stamp(r, r.rows)
Incoming(r) == Stamp(r, Valid(r))

\* The append conflict target without its db_epoch column (a mutant).
ConflictIgnoresEpoch(v, w) ==
  IF Strategy = "append" THEN v.seq = w.seq ELSE v.key = w.key

\* ON CONFLICT targets: (node, db_epoch, edge_id) or the natural key alone.
Conflict(v, w) ==
  IF Strategy = "append" THEN v.epoch = w.epoch /\ v.seq = w.seq
                         ELSE v.key = w.key

\* ON CONFLICT DO UPDATE, whatever the age of the version it replaces.
Upsert(r) ==
  {v \in stored : \A w \in Incoming(r) : ~ Conflict(v, w)} \cup Incoming(r)

\* No reset of a cursor left by another generation (a mutant).
NewCursorNoReset(r) ==
  IF srvCursor.val > BatchMax(r) THEN srvCursor.val ELSE BatchMax(r)

\* The batch's own maximum, never the stored one (a mutant).
NewCursorOverwrites(r) == BatchMax(r)

\* The maximum over the accepted rows only: no quarantine (a mutant).
NewCursorValidOnly(r) ==
  LET current == IF srvCursor.epoch = r.epoch THEN srvCursor.val ELSE 0
      seqs == {current} \cup {x.seq : x \in Valid(r)} IN
  CHOOSE n \in seqs : \A m \in seqs : m <= n

\* The maximum of the stored and the batch's position; a cursor left by another
\* generation of the edge database counts as none.
NewCursor(r) ==
  IF srvCursor.epoch = r.epoch /\ srvCursor.val > BatchMax(r)
  THEN srvCursor.val ELSE BatchMax(r)

\* A value that validates and then fails to convert or to fit its column fails
\* the whole transaction.
Ingestible(r) == \A x \in r.rows : x.kind # "poison"

\* Rows and checkpoint in two transactions, the second one failing (a mutant).
CommitCheckpointOnly(r) ==
  /\ srvCursor' = [epoch |-> r.epoch, val |-> NewCursor(r)]
  /\ UNCHANGED stored

\* The transaction of ingest_batch: rows and cursor commit together.
Commit(r) ==
  /\ stored' = Upsert(r)
  /\ srvCursor' = [epoch |-> r.epoch, val |-> NewCursor(r)]

\* The request of the run arrives and is answered 200.
ServerAccept ==
  /\ pc = "sent" /\ Ingestible(req)
  /\ Commit(req)
  /\ pc' = "acked" /\ ack' = NewCursor(req)
  /\ UNCHANGED <<edgeVars, req, attempt, late, contract>>

\* The request of the run arrives and its transaction rolls back: 500.
ServerError ==
  /\ pc = "sent" /\ ~ Ingestible(req)
  /\ pc' = "failed"
  /\ UNCHANGED <<edgeVars, req, attempt, ack, late, serverVars>>

\* An abandoned request arrives after all; nobody reads the answer.  The
\* requests of two attempts are equal, so this may or may not be the last copy.
LateArrives(r) ==
  /\ r \in late /\ Ingestible(r)
  /\ Commit(r)
  /\ late' \in {late, late \ {r}}
  /\ UNCHANGED <<edgeVars, runVars, contract>>

\* An abandoned request is lost for good, or refused.
LateLost(r) ==
  /\ r \in late
  /\ late' = late \ {r}
  /\ UNCHANGED <<edgeVars, runVars, serverVars>>

-----------------------------------------------------------------------------
(* The sync worker.                                                        *)

EndRun == pc' = "idle" /\ req' = NoRequest /\ attempt' = 0 /\ ack' = 0

\* The client gives up on the request it has sent: the request is lost, or it
\* stays on its way.
Abandon ==
  \/ late' = late
  \/ /\ LateRequests /\ pc = "sent"
     /\ late' = late \cup {req}
     /\ Cardinality(late') <= MaxLate

\* read_rows with ORDER BY left out: any Limit rows above the cursor (a mutant).
ReadRowsUnordered(rows) ==
  LET above == {x \in EdgeRows : x.seq > cursor} IN
  /\ rows # {} /\ rows \subseteq above
  /\ (Cardinality(rows) = Limit) \/ (Cardinality(rows) < Limit /\ rows = above)

\* WHERE position > cursor ORDER BY position LIMIT: the lowest rows above the
\* cursor, up to a last one.
ReadRows(rows) ==
  LET above == {x \in EdgeRows : x.seq > cursor} IN
  \E last \in above :
    /\ rows = {x \in above : x.seq <= last.seq}
    /\ \/ Cardinality(rows) = Limit
       \/ Cardinality(rows) < Limit /\ rows = above

\* A run finds rows above the cursor and posts the first batch of them.
StartRun ==
  /\ pc = "idle"
  /\ \E rows \in SUBSET EdgeRows :
       /\ ReadRows(rows)
       /\ req' = [epoch |-> epoch, rows |-> rows]
  /\ pc' = "sent" /\ attempt' = 1
  /\ UNCHANGED <<edgeVars, ack, late, serverVars>>

\* A run finds nothing to send in this table.
EmptyRun ==
  /\ pc = "idle" /\ \A k \in Key : row[k].seq <= cursor
  /\ UNCHANGED vars

\* httpx.TransportError: the request did not arrive, did not arrive yet, or was
\* answered and the answer lost.
TransportError ==
  /\ pc \in {"sent", "acked"}
  /\ Abandon
  /\ pc' = "failed" /\ ack' = 0
  /\ UNCHANGED <<edgeVars, req, attempt, serverVars>>

\* After a 5xx or no answer, the same envelope is posted again.
Retry ==
  /\ pc = "failed" /\ attempt <= MaxRetries
  /\ attempt' = attempt + 1 /\ pc' = "sent"
  /\ UNCHANGED <<edgeVars, req, ack, late, serverVars>>

\* RetriableError: the attempts are used up and the run ends.
GiveUp ==
  /\ pc = "failed" /\ attempt > MaxRetries
  /\ EndRun
  /\ UNCHANGED <<edgeVars, late, serverVars>>

\* An answer other than 200 and 5xx (401, 403, 409, 422, 426, 429) comes before
\* anything is written and ends the run at once.
Refused ==
  /\ pc = "sent"
  /\ EndRun
  /\ UNCHANGED <<edgeVars, late, serverVars>>

\* The edge computes the cursor itself from the rows it has, whatever the
\* server accepted (a mutant).
AdvanceToCounter ==
  /\ pc = "acked"
  /\ cursor' = counter
  /\ EndRun
  /\ UNCHANGED <<epoch, counter, row, late, serverVars>>

\* advance_cursor: the accepted cursor is stored as it is.
Advance ==
  /\ pc = "acked"
  /\ cursor' = ack
  /\ EndRun
  /\ UNCHANGED <<epoch, counter, row, late, serverVars>>

\* The run dies (TimeoutStartSec, power, an answer that does not parse): only
\* what SQLite has committed survives.
Crash ==
  /\ pc # "idle"
  /\ Abandon
  /\ EndRun
  /\ UNCHANGED <<edgeVars, serverVars>>

-----------------------------------------------------------------------------
(* Operators of the installation.                                          *)

\* The edge database is created anew: positions restart from 1, sync_state is
\* empty and meta gets a new db_epoch.
Reflash ==
  /\ epoch < MaxEpoch
  /\ epoch' = epoch + 1
  /\ counter' = 0 /\ row' = [k \in Key |-> Absent] /\ cursor' = 0
  /\ Abandon
  /\ EndRun
  /\ UNCHANGED serverVars

\* The server is redeployed with row models that match the firmware.
DeployContract ==
  /\ contract = "old" /\ contract' = "fixed"
  /\ UNCHANGED <<edgeVars, runVars, late, stored, srvCursor>>

\* The stream's sync_cursor row is cleared on the server.
ResetServerCursor ==
  /\ srvCursor # NoCursor /\ srvCursor' = NoCursor
  /\ UNCHANGED <<edgeVars, runVars, late, stored, contract>>

-----------------------------------------------------------------------------

Init ==
  /\ epoch = 1 /\ counter = 0 /\ row = [k \in Key |-> Absent] /\ cursor = 0
  /\ pc = "idle" /\ req = NoRequest /\ attempt = 0 /\ ack = 0
  /\ late = {}
  /\ stored = {} /\ srvCursor = NoCursor /\ contract = "old"

Worker ==
  \/ StartRun \/ EmptyRun \/ TransportError \/ Retry \/ GiveUp \/ Refused
  \/ Advance \/ Crash

Server ==
  \/ ServerAccept \/ ServerError
  \/ \E r \in late : LateArrives(r) \/ LateLost(r)

Operator == Reflash \/ DeployContract \/ ResetServerCursor

Next ==
  \/ \E k \in Key, kind \in Kinds : Write(k, kind)
  \/ Worker \/ Server \/ Operator

Spec == Init /\ [][Next]_vars

\* The timer starts a run again and again, a run's steps follow one another, and
\* of the batches posted again and again one is at last processed and its answer
\* read, so none is refused or times out for ever.  Nothing is assumed of writers,
\* operators, late requests or the server's errors.
Fairness ==
  /\ WF_vars(StartRun)
  /\ WF_vars(Retry \/ GiveUp)
  /\ SF_vars(ServerAccept \/ ServerError)
  /\ SF_vars(Advance)

FairSpec == Spec /\ Fairness

-----------------------------------------------------------------------------
(* Properties.                                                             *)

\* Type invariant: attempts stay within the configured retries, the edge's
\* cursor within the positions given out.
TypeOK ==
  /\ epoch \in 1..MaxEpoch /\ counter \in 0..MaxSeq
  /\ row \in [Key -> EdgeRow] /\ \A k \in Key : row[k].seq <= counter
  /\ cursor \in 0..counter
  /\ pc \in {"idle", "sent", "acked", "failed"}
  /\ req \in Request /\ attempt \in 0..MaxRetries + 1 /\ ack \in Nat
  /\ late \in SUBSET Request
  /\ stored \in SUBSET Version
  /\ srvCursor \in [epoch : Nat, val : Nat]
  /\ contract \in {"old", "fixed"}

\* What an acknowledgement up to position n promises: every ingestible row at or
\* below n is on the server in the version the edge holds.
HeldUpTo(n) ==
  \A k \in Key : 0 < row[k].seq /\ row[k].seq <= n /\ row[k].kind = "good"
                   => Current(k) \in stored

\* The configurations in which nothing older can replace a newer version: rows of
\* append tables have one version, and otherwise no request arrives late.
NoStaleUpsert == Strategy = "append" \/ ~ LateRequests

\* Safety: a row the edge's cursor has passed, and will therefore never send
\* again, is on the server in its current version.  (run.py advances on ACK only;
\* service.py puts rows and cursor in one transaction.)
AckedDurable == HeldUpTo(cursor)

\* Safety: the checkpoint the server keeps for the edge's generation covers only
\* rows it holds, so max(current, batch_max) never acknowledges unsent rows.
CheckpointDurable == srvCursor.epoch = epoch => HeldUpTo(srvCursor.val)

\* Action property: whatever arrives late, twice or after a reflash, a row of an
\* append table once stored is never overwritten or removed, earlier generations
\* included.
AppendHistoryKept == [][stored \subseteq stored']_stored

\* Action property: within a generation the server's cursor never moves back.
CheckpointMonotonic ==
  [][srvCursor'.epoch = srvCursor.epoch => srvCursor'.val >= srvCursor.val]_srvCursor

\* Refinement: the stream implements AckedMirror.  Positions move forward only,
\* over rows the server holds, and nothing promised is lost again by a retry, a
\* late request, a refused row or a reflash.
Mirror == INSTANCE AckedMirror WITH
            Key <- Key, Strategy <- Strategy, epoch <- epoch, row <- row,
            cursor <- cursor, stored <- stored
ImplementsMirror == Mirror!MirrorSpec

\* Liveness: every version is eventually passed by the edge's cursor, replaced
\* by a newer one, or gone with its database.
EveryVersionPassed ==
  \A k \in Key : \A n \in 1..MaxSeq :
    (row[k].seq = n) ~> (row[k].seq # n \/ cursor >= n)

-----------------------------------------------------------------------------
(* The inductive strengthening of the safety properties.                   *)

InFlight == late \cup (IF pc = "idle" THEN {} ELSE {req})

HasLast(r) == \E last \in r.rows : \A x \in r.rows : x.seq <= last.seq

\* In every configuration: requests are non-empty and carry positions already
\* given out, the run's rows are above the cursor, and so is what it is answered.
BaseInv ==
  /\ TypeOK
  /\ \A r \in InFlight :
       /\ HasLast(r) /\ 0 < r.epoch /\ r.epoch <= epoch
       /\ r.epoch = epoch => \A x \in r.rows : x.seq <= counter
  /\ pc # "idle" => req.epoch = epoch /\ \A x \in req.rows : x.seq > cursor
  /\ pc = "acked" => cursor < ack /\ ack <= counter
  /\ srvCursor = NoCursor \/ 0 < srvCursor.epoch
  /\ srvCursor.epoch <= epoch
  /\ srvCursor.epoch = epoch => srvCursor.val <= counter
  /\ LateRequests \/ late = {}

\* A row of a request of this generation is the edge's current version, or one
\* that has been replaced since by a version above the whole batch.
UpToDate(r, x) ==
  \/ x.seq = row[x.key].seq /\ x.kind = row[x.key].kind
  \/ /\ Strategy = "summary"
     /\ \A y \in r.rows : y.seq < row[x.key].seq
     /\ srvCursor.epoch = epoch => srvCursor.val < row[x.key].seq

\* Up to its last row a request of this generation leaves no gap: what it does
\* not carry is on the server.
NoGap(r) ==
  \A k \in Key : \A last \in r.rows :
    0 < row[k].seq /\ row[k].seq <= last.seq /\ row[k].kind = "good"
      => \/ Current(k) \in stored
         \/ [key |-> k, seq |-> row[k].seq, kind |-> "good"] \in r.rows

\* Where no late request can overwrite a newer version: the durability promises,
\* of the cursor, of the checkpoint and of the answer being read.
DurableInv ==
  /\ AckedDurable /\ CheckpointDurable
  /\ pc = "acked" => HeldUpTo(ack)
  /\ \A r \in InFlight : r.epoch = epoch => NoGap(r) /\ \A x \in r.rows : UpToDate(r, x)
  /\ Strategy = "append" =>
       \A j, k \in Key : 0 < row[j].seq /\ row[j].seq = row[k].seq => j = k

\* Positions are given out once: a position of a generation names one row,
\* wherever a version of it is found.
Versions ==
  {Current(k) : k \in {j \in Key : row[j].seq > 0}}
    \cup stored \cup UNION {Stamped(r) : r \in InFlight}

PositionsUnique ==
  \A v \in Versions :
    /\ v.epoch <= epoch
    /\ v.epoch = epoch => v.seq <= counter
    /\ \A w \in Versions : v.epoch = w.epoch /\ v.seq = w.seq => v.key = w.key

IInv == BaseInv /\ DurableInv /\ PositionsUnique

=============================================================================
