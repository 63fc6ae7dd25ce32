----------------------------- MODULE IngestTxn -----------------------------
(***************************************************************************)
(* The server side of one stream with the transactions of ingest_batch     *)
(* overlapping: FastAPI runs each request in a thread of its own, with a   *)
(* session of its own, and PostgreSQL isolates them at READ COMMITTED.     *)
(* A client that has timed out posts the same batch again, or a new run a  *)
(* new batch, while the first transaction is still going on.               *)
(*                                                                         *)
(* What a transaction does is split at the statements whose order decides: *)
(* the look-up and the insert of the run row, the row locks the upsert     *)
(* takes one by one, the unlocked read of the cursor, and the flush and    *)
(* commit, which writes only the attributes that differ from those read.   *)
(* StreamSync has the same stream with one transaction at a time.          *)
(***************************************************************************)
EXTENDS Integers, FiniteSets

CONSTANTS
  Key,      \* natural keys of rows
  Session,  \* database sessions: requests the server works on at a time
  Tables,   \* the tables looked at: strategy, TableConfig.limit, and the position at
            \* which an earlier edge database left the server's cursor (0: no row)
  Overlap,  \* TRUE: the edge may be reflashed, and its new generation posted, while
            \* a request of the old one is still worked on
  MaxSeq,   \* bound: writes in the first generation of the edge database, and
            \* MaxSeq \div n of them in the n-th
  MaxEpoch  \* bound: generations of the edge database

ASSUME TxnConstantsOK ==
  /\ Overlap \in BOOLEAN /\ MaxSeq \in Nat /\ MaxEpoch \in Nat \ {0}
  /\ Tables \subseteq {"append", "summary"} \X (Nat \ {0}) \X (0..MaxSeq)
  /\ IsFiniteSet(Session) /\ "nobody" \notin Session

VARIABLES
  strategy,  \* "append" or "summary": the table's; never changes
  limit,     \* TableConfig.limit: the table's; never changes
  epoch, counter, row, cursor,  \* the edge database, as in StreamSync
  client,    \* the session whose answer the run waits for, or Nobody
  session,   \* each session: its step, request, and what it has read and locked
  runs,      \* run ids with a committed sync_runs row
  stored,    \* committed versions in the server's table
  srvCursor  \* the committed sync_cursor row; epoch 0: there is none

edgeVars   == <<strategy, limit, epoch, counter, row, cursor>>
serverVars == <<runs, stored, srvCursor>>
vars == <<edgeVars, client, session, serverVars>>

Nobody    == "nobody"
NoRequest == [run |-> 0, epoch |-> 0, rows |-> {}]
NoCursor  == [epoch |-> 0, val |-> 0]
Free == [step |-> "free", req |-> NoRequest, newRun |-> FALSE, locked |-> {},
         read |-> NoCursor, ack |-> 0]

\* A run id is that of a request in progress, or free to stand for a new one.
RunId == 1..Cardinality(Session) + 1

BatchMax(r) == CHOOSE n \in {x.seq : x \in r.rows} : \A x \in r.rows : x.seq <= n

\* The unique key a row of request r is upserted under.
Target(r, x) ==
  IF strategy = "append" THEN [epoch |-> r.epoch, seq |-> x.seq] ELSE [key |-> x.key]

Version(r, x) == [epoch |-> r.epoch, key |-> x.key, seq |-> x.seq]

Working(s) == session[s].step \in {"insert", "rows", "cursor", "commit"}

-----------------------------------------------------------------------------
(* Locks.                                                                  *)

Locked(s) == {Target(session[s].req, x) : x \in session[s].locked}

\* The row the upsert of s comes to next: VALUES are in the order of the batch.
IsNextRow(s, x) ==
  LET left == session[s].req.rows \ session[s].locked IN
  x \in left /\ \A y \in left : x.seq <= y.seq

\* s waits for u to end: for a row, or for an insert of the same run id.
WaitsFor(s, u) ==
  /\ s # u /\ Working(u)
  /\ \/ /\ session[s].step = "rows"
        /\ \E x \in session[s].req.rows :
             IsNextRow(s, x) /\ Target(session[s].req, x) \in Locked(u)
     \/ /\ session[s].step = "insert"
        /\ session[u].newRun /\ session[u].req.run = session[s].req.run

Blocked(s) == \E u \in Session : WaitsFor(s, u)

\* s is among the sessions it waits for, directly or through others: it belongs to
\* each set that leaves out nobody s or a member waits for.
Deadlocked(s) ==
  \A set \in SUBSET Session :
    (\A u \in set \cup {s}, v \in Session : WaitsFor(u, v) => v \in set) => s \in set

-----------------------------------------------------------------------------
(* The transaction of one session.                                         *)

Put(s, st) == session' = [session EXCEPT ![s] = st]

\* The answer to the client, or nothing if it no longer waits.
Answer(s, step, ack) ==
  Put(s, IF client = s THEN [Free EXCEPT !.step = step, !.ack = ack, !.req = session[s].req]
         ELSE Free)

\* The failed transaction is left open (a mutant).
RollbackForgotten(s) == UNCHANGED session

\* The locks outlive the request (a mutant).
RollbackKeepsLocks(s) == Put(s, [Free EXCEPT !.locked = session[s].locked])

\* An exception rolls back and is answered 500; the locks are given up.
Rollback(s) == Answer(s, "failed", 0)

\* session.flush(): INSERT of the run row, which another session may have inserted
\* since; its unique key makes this one wait for that one and then fail.
InsertRun(s) ==
  /\ session[s].step = "insert" /\ ~ Blocked(s)
  /\ IF session[s].req.run \in runs
     THEN Rollback(s)
     ELSE Put(s, [session[s] EXCEPT !.step = "rows", !.newRun = TRUE])
  /\ UNCHANGED <<edgeVars, client, serverVars>>

\* VALUES in no particular order (a mutant).
LockAnyRow(s) ==
  /\ session[s].step = "rows"
  /\ \E x \in session[s].req.rows \ session[s].locked :
       /\ \A u \in Session \ {s} : Target(session[s].req, x) \notin Locked(u)
       /\ LET locked == session[s].locked \cup {x} IN
          Put(s, [session[s] EXCEPT
                    !.locked = locked,
                    !.step = IF locked = session[s].req.rows THEN "cursor" ELSE "rows"])
  /\ UNCHANGED <<edgeVars, client, serverVars>>

\* The upsert comes to its next row and locks it until the transaction ends.
LockRow(s) ==
  /\ session[s].step = "rows" /\ ~ Blocked(s)
  /\ \E x \in session[s].req.rows :
       /\ IsNextRow(s, x)
       /\ LET locked == session[s].locked \cup {x} IN
          Put(s, [session[s] EXCEPT
                    !.locked = locked,
                    !.step = IF locked = session[s].req.rows THEN "cursor" ELSE "rows"])
  /\ UNCHANGED <<edgeVars, client, serverVars>>

\* PostgreSQL aborts one of the transactions that wait for each other.
DeadlockAbort(s) ==
  /\ Deadlocked(s)
  /\ Rollback(s)
  /\ UNCHANGED <<edgeVars, client, serverVars>>

\* session.get(SyncCursor), without FOR UPDATE: the committed row as of now.
ReadCursor(s) ==
  /\ session[s].step = "cursor"
  /\ Put(s, [session[s] EXCEPT !.read = srvCursor, !.step = "commit"])
  /\ UNCHANGED <<edgeVars, client, serverVars>>

\* The cursor is the next position, not the last (a mutant).
NewValueNext(s) ==
  LET read == session[s].read  top == BatchMax(session[s].req) + 1 IN
  IF read.epoch = session[s].req.epoch /\ read.val > top THEN read.val ELSE top

\* max(current, batch_max), where a cursor of another generation counts as none.
NewValue(s) ==
  LET read == session[s].read  top == BatchMax(session[s].req) IN
  IF read.epoch = session[s].req.epoch /\ read.val > top THEN read.val ELSE top

\* Every attribute is written, changed or not (a mutant: explicit UPDATE).
WriteAll(s) == [epoch |-> session[s].req.epoch, val |-> NewValue(s)]

\* The unit of work writes the attributes whose value is not the one it read.
WriteChanged(s) ==
  LET read == session[s].read IN
  [epoch |-> IF session[s].req.epoch = read.epoch THEN srvCursor.epoch
             ELSE session[s].req.epoch,
   val   |-> IF read # NoCursor /\ NewValue(s) = read.val THEN srvCursor.val
             ELSE NewValue(s)]

\* The append conflict target without its db_epoch column (a mutant).
UpsertedAnyEpoch(s) ==
  LET r == session[s].req IN
  {v \in stored : \A x \in r.rows :
     IF strategy = "append" THEN v.seq # x.seq ELSE v.key # x.key}
    \cup {Version(r, x) : x \in r.rows}

\* DO UPDATE replaces what the row's target held, whatever that is by now.
Upserted(s) ==
  LET r == session[s].req IN
  {v \in stored : \A x \in r.rows :
     IF strategy = "append" THEN v.epoch # r.epoch \/ v.seq # x.seq ELSE v.key # x.key}
    \cup {Version(r, x) : x \in r.rows}

\* Rows and cursor in two transactions, the rows' rolled back (a mutant).
CommitCursorOnly(s) ==
  /\ session[s].step = "commit" /\ (session[s].read = NoCursor => srvCursor = NoCursor)
  /\ srvCursor' = WriteChanged(s) /\ runs' = runs \cup {session[s].req.run}
  /\ Answer(s, "answered", NewValue(s))
  /\ UNCHANGED <<edgeVars, client, stored>>

\* The answer is read from the cursor row after the commit (a mutant).
CommitAnswersRow(s) ==
  /\ session[s].step = "commit" /\ (session[s].read = NoCursor => srvCursor = NoCursor)
  /\ stored' = Upserted(s)
  /\ srvCursor' = WriteChanged(s) /\ runs' = runs \cup {session[s].req.run}
  /\ Answer(s, "answered", WriteChanged(s).val)
  /\ UNCHANGED <<edgeVars, client>>

\* session.commit(): rows, cursor and run row become visible at once.
Commit(s) ==
  /\ session[s].step = "commit" /\ (session[s].read = NoCursor => srvCursor = NoCursor)
  /\ stored' = Upserted(s)
  /\ srvCursor' = WriteChanged(s) /\ runs' = runs \cup {session[s].req.run}
  /\ Answer(s, "answered", NewValue(s))
  /\ UNCHANGED <<edgeVars, client>>

\* INSERT of a cursor row that another session has inserted meanwhile.
CommitConflict(s) ==
  /\ session[s].step = "commit" /\ session[s].read = NoCursor /\ srvCursor # NoCursor
  /\ Rollback(s)
  /\ UNCHANGED <<edgeVars, client, serverVars>>

\* The connection to PostgreSQL breaks or the server is restarted.
Fail(s) ==
  /\ Working(s)
  /\ Rollback(s)
  /\ UNCHANGED <<edgeVars, client, serverVars>>

-----------------------------------------------------------------------------
(* The edge: StreamSync's worker, as far as the server can tell.           *)

Write(k) ==
  /\ counter < MaxSeq \div epoch
  /\ strategy = "append" => row[k] = 0
  /\ counter' = counter + 1 /\ row' = [row EXCEPT ![k] = counter + 1]
  /\ UNCHANGED <<strategy, limit, epoch, cursor, client, session, serverVars>>

EdgeRows == {[key |-> k, seq |-> row[k]] : k \in {j \in Key : row[j] > cursor}}

\* WHERE position > cursor ORDER BY position LIMIT: the lowest rows above the
\* cursor, up to a last one.
ReadRows(rows) ==
  \E last \in EdgeRows :
    /\ rows = {x \in EdgeRows : x.seq <= last.seq}
    /\ \/ Cardinality(rows) = limit
       \/ Cardinality(rows) < limit /\ rows = EdgeRows

\* The session of an answer that has been sent is free again.
Closed == [s \in Session |-> IF client = s /\ ~ Working(s) THEN Free ELSE session[s]]

\* A request begins in a session of its own; which of the free ones is all the same.
\* Its first statement, session.get(SyncRun), sees committed rows only.
Begin(r) ==
  LET unused == {s \in Session : Closed[s] = Free}  s == CHOOSE u \in unused : TRUE IN
  /\ unused # {}
  /\ session' = [Closed EXCEPT ![s] = [Free EXCEPT !.req = r,
                                    !.step = IF r.run \in runs' THEN "rows" ELSE "insert"]]
  /\ client' = s

\* A run posts a batch under a new run id (run ids no request carries any more are
\* used again, and the rows kept under them forgotten).
StartRun ==
  /\ client = Nobody
  /\ LET used == {session[u].req.run : u \in Session}
         run  == CHOOSE i \in RunId : i \notin used IN
     /\ runs' = runs \cap used
     /\ \E rows \in SUBSET EdgeRows :
          ReadRows(rows) /\ Begin([run |-> run, epoch |-> epoch, rows |-> rows])
  /\ UNCHANGED <<edgeVars, stored, srvCursor>>

\* A run finds nothing above its cursor.
EmptyRun ==
  /\ client = Nobody /\ EdgeRows = {}
  /\ UNCHANGED vars

\* The client times out or is answered 500, and posts the same envelope again; the
\* server goes on with the first one if it has not ended.
Repost ==
  /\ client # Nobody
  /\ UNCHANGED <<edgeVars, serverVars>>
  /\ Begin(session[client].req)

\* The run ends without the answer: attempts used up, or the run died.
Leave ==
  /\ client # Nobody
  /\ session' = Closed /\ client' = Nobody
  /\ UNCHANGED <<edgeVars, serverVars>>

\* 200: the accepted cursor is stored.
Advance ==
  /\ client # Nobody /\ session[client].step = "answered"
  /\ cursor' = session[client].ack
  /\ session' = Closed /\ client' = Nobody
  /\ UNCHANGED <<strategy, limit, epoch, counter, row, serverVars>>

\* A new generation of the edge database.
Reflash ==
  /\ epoch < MaxEpoch /\ (Overlap \/ \A s \in Session : ~ Working(s))
  /\ epoch' = epoch + 1 /\ counter' = 0 /\ row' = [k \in Key |-> 0] /\ cursor' = 0
  /\ session' = Closed /\ client' = Nobody
  /\ UNCHANGED <<strategy, limit, serverVars>>

-----------------------------------------------------------------------------

Init ==
  /\ \E t \in Tables :
       strategy = t[1] /\ limit = t[2] /\ srvCursor = [epoch |-> 0, val |-> t[3]]
  /\ epoch = 1 /\ counter = 0 /\ row = [k \in Key |-> 0] /\ cursor = 0
  /\ client = Nobody /\ session = [s \in Session |-> Free]
  /\ runs = {} /\ stored = {}

Transaction(s) ==
  \/ InsertRun(s) \/ LockRow(s) \/ DeadlockAbort(s) \/ ReadCursor(s)
  \/ Commit(s) \/ CommitConflict(s)

Edge ==
  \/ \E k \in Key : Write(k)
  \/ StartRun \/ EmptyRun \/ Repost \/ Leave \/ Advance \/ Reflash

Next == Edge \/ \E s \in Session : Transaction(s) \/ Fail(s)

Spec == Init /\ [][Next]_vars

\* The server's threads go on with their transactions, and PostgreSQL grants a lock
\* in the order in which it was asked for.
FairSpec == Spec /\ \A s \in Session : SF_vars(Transaction(s))

-----------------------------------------------------------------------------
(* Properties.                                                             *)

Row      == [key : Key, seq : 1..MaxSeq]
Request  == [run : RunId \cup {0}, epoch : 0..MaxEpoch, rows : SUBSET Row]
Cursor   == [epoch : 0..MaxEpoch, val : 0..MaxSeq]
Sessions == [step : {"free", "insert", "rows", "cursor", "commit", "answered", "failed"},
             req : Request, newRun : BOOLEAN, locked : SUBSET Row, read : Cursor,
             ack : 0..MaxSeq]

\* Type invariant: a session holds locks only for rows of its own request.
TypeOK ==
  /\ \E t \in Tables : strategy = t[1] /\ limit = t[2]
  /\ epoch \in 1..MaxEpoch /\ counter \in 0..MaxSeq /\ row \in [Key -> 0..MaxSeq]
  /\ cursor \in 0..MaxSeq
  /\ client \in Session \cup {Nobody} /\ runs \subseteq RunId
  /\ session \in [Session -> Sessions]
  /\ \A s \in Session : session[s].locked \subseteq session[s].req.rows
  /\ srvCursor \in Cursor
  /\ stored \subseteq [epoch : 0..MaxEpoch, key : Key, seq : 1..MaxSeq]

HeldUpTo(n) ==
  \A k \in Key :
    0 < row[k] /\ row[k] <= n => [epoch |-> epoch, key |-> k, seq |-> row[k]] \in stored

\* Safety: however transactions overlap, a row of an append table that the edge's
\* cursor has passed is committed.
AckedCommitted == strategy = "append" => HeldUpTo(cursor)

\* Safety, the purpose service.py gives for clearing the cursor of another
\* db_epoch, "so old keys are not skipped": the cursor the edge is told is one of
\* its own generation, a position it has given out.
KeysNotSkipped == cursor <= counter

\* Action property: within a generation the cursor of an append table never moves
\* back.  The cursor is read without a lock; what keeps a stale value from being
\* written is that append batches of concurrent requests share a row, whose lock
\* orders them, and that an attribute equal to what was read is not written.
AppendCursorMonotonic ==
  [][strategy = "append" /\ srvCursor'.epoch = srvCursor.epoch
       => srvCursor'.val >= srvCursor.val]_srvCursor

\* Action property: whatever becomes of the server's cursor, which in a summary table
\* may move back when two batches share no row, the answer the edge takes moves its
\* own cursor forward and past the whole batch: what has been acknowledged is not
\* sent again, and a run never ends where it began.
EdgeCursorAdvances ==
  [][epoch' = epoch => /\ cursor' > cursor
                       /\ \A x \in session[client].req.rows : x.seq <= cursor']_cursor

\* Safety: requests of an append table never wait for each other in a circle, however
\* many there are: their rows are in the order of edge_id, which is that of their
\* locks, and who waits for a run row holds no lock.  (In a summary table a row that
\* is written again changes its place: DeadlockAbort breaks the circle.)
AppendNeverDeadlocks == strategy = "append" => \A s \in Session : ~ Deadlocked(s)

\* The next statement of s can be executed, or its transaction is aborted.
CanGo(s) ==
  \/ session[s].step \in {"cursor", "commit"} \/ Deadlocked(s)
  \/ session[s].step = "insert" /\ ~ Blocked(s)
  \/ session[s].step = "rows" /\ ~ Blocked(s) /\ \E x \in session[s].req.rows : IsNextRow(s, x)

\* Safety: as long as the server works on requests, it can go on with one of them:
\* whoever waits for whom, one does not wait, or is in a circle PostgreSQL breaks.
TransactionsGoOn == (\E s \in Session : Working(s)) => \E s \in Session : CanGo(s)

\* How far a transaction has come.
Stage(t) ==
  CASE t.step = "insert" -> 1 [] t.step = "rows" -> 2 [] t.step = "cursor" -> 3
    [] t.step = "commit" -> 4 [] OTHER -> 5

\* Action property, with TransactionsGoOn the safety half of SessionsEnd: whatever is
\* posted, posted again or given up meanwhile, a transaction only goes forward, by a
\* statement or by one more lock of its batch.
SessionAdvances ==
  [][\A s \in Session : Working(s) /\ session'[s] # session[s] =>
       LET old == session[s]  new == session'[s] IN
       \/ Stage(old) < Stage(new)
       \/ /\ new.step = "rows" /\ old.step = "rows" /\ new.req = old.req
          /\ old.locked \subseteq new.locked /\ old.locked # new.locked]_session

\* Refinement: for an append table the transactions, however they overlap, are one
\* stream's promises again.  What a session has locked, read or not yet committed
\* stands for nothing, its commit for a delivery.
Mirror == INSTANCE AckedMirror WITH
            Key <- Key, Strategy <- "append", epoch <- epoch,
            row <- [k \in Key |-> [seq |-> row[k], kind |-> "good"]],
            cursor <- cursor, stored <- stored
ImplementsMirror ==
  /\ strategy = "append" => Mirror!Start
  /\ [][strategy = "append" => Mirror!Step]_<<epoch, row, cursor, stored>>

\* Liveness: no transaction waits forever, whoever waits for whom.
SessionsEnd == \A s \in Session : Working(s) ~> ~ Working(s)

-----------------------------------------------------------------------------
(* The inductive invariant, without requests of different generations.     *)

Append == strategy = "append"

Active(s) == session[s].step # "free"

HasLast(r) == \E last \in r.rows : \A x \in r.rows : x.seq <= last.seq

\* Positions are given out once.
EdgeInv ==
  /\ cursor <= counter /\ \A k \in Key : row[k] <= counter
  /\ \A j, k \in Key : row[j] = row[k] /\ row[j] > 0 => j = k

\* A request is of this generation and leaves out nothing between the edge's
\* cursor and its last row; the one of the run lies above the cursor.
RequestInv ==
  /\ \A s \in Session : Active(s) =>
       LET r == session[s].req IN
       /\ r.epoch = epoch /\ r.run \in RunId /\ HasLast(r)
       /\ \A x \in r.rows : x.seq <= counter
       /\ Append => \A x \in r.rows : row[x.key] = x.seq
       /\ Append => \A k \in Key : cursor < row[k] /\ row[k] <= BatchMax(r)
                                     => [key |-> k, seq |-> row[k]] \in r.rows
  /\ client # Nobody => Active(client) /\ \A x \in session[client].req.rows : cursor < x.seq
  /\ \A s \in Session : session[s].step \in {"answered", "failed"} => client = s

\* A transaction that is past the upsert has locked all its rows, and nobody else
\* has locked any of them.
LockInv ==
  /\ \A s \in Session :
       /\ session[s].step \in {"cursor", "commit"} => session[s].locked = session[s].req.rows
       /\ ~ Working(s) => session[s].locked = {}
  /\ \A s, u \in Session : Append /\ s # u => session[s].locked \cap session[u].locked = {}

\* Rows are locked in the order of their positions, and none before the run row.
OrderInv ==
  \A s \in Session :
    /\ session[s].step = "insert" => session[s].locked = {} /\ ~ session[s].newRun
    /\ Append /\ session[s].step = "rows" =>
         \A x \in session[s].locked, y \in session[s].req.rows \ session[s].locked :
           x.seq < y.seq

\* An upsert that goes on has rows left.
RowsLeftInv ==
  \A s \in Session : session[s].step = "rows" => session[s].locked # session[s].req.rows

\* The server's cursor is at or above the edge's, over rows that are committed.
CursorInv ==
  /\ srvCursor.epoch <= epoch
  /\ srvCursor.epoch = epoch => srvCursor.val <= counter
  /\ Append /\ srvCursor.epoch = epoch => HeldUpTo(srvCursor.val)
  /\ Append /\ cursor > 0 => srvCursor.epoch = epoch /\ cursor <= srvCursor.val

\* What a transaction has read of the cursor is still there, or another one of this
\* generation has committed; not so when its own rows are above what it has read.
ReadInv ==
  \A s \in Session : session[s].step = "commit" =>
    LET read == session[s].read  top == BatchMax(session[s].req) IN
    /\ srvCursor = read \/ srvCursor.epoch = epoch
    /\ read.epoch = epoch => srvCursor.epoch = epoch /\ read.val <= counter
    /\ Append /\ read.epoch = epoch => read.val <= srvCursor.val
    /\ Append /\ (read.epoch # epoch \/ read.val < top) => srvCursor = read

\* An answer covers its batch, and the server has gone at least as far.
AnswerInv ==
  \A s \in Session : session[s].step = "answered" =>
    /\ BatchMax(session[s].req) <= session[s].ack /\ session[s].ack <= counter
    /\ Append => srvCursor.epoch = epoch /\ session[s].ack <= srvCursor.val

\* What is stored of this generation is what its rows hold.
StoredInv ==
  Append => \A v \in stored :
    v.epoch <= epoch /\ (v.epoch = epoch => v.key \in Key /\ row[v.key] = v.seq)

IInv ==
  /\ TypeOK /\ EdgeInv /\ RequestInv /\ LockInv /\ CursorInv /\ ReadInv /\ AnswerInv
  /\ StoredInv

=============================================================================
