------------------------------ MODULE SyncRun ------------------------------
(***************************************************************************)
(* One run after another of the sync worker over all the tables of the     *)
(* node, started by the systemd timer: which tables a run gets to, how it  *)
(* ends, what it writes into the edge's sync_runs and what the server      *)
(* writes into its own sync_runs row of the same run_id, also when the     *)
(* client has stopped waiting for some of its requests.                    *)
(*                                                                         *)
(* A table is its place in PRIORITY_ORDER and its rows are the number of   *)
(* those above the edge's cursor; which rows they are is StreamSync's      *)
(* subject.  A run reads at most one batch of each table, so a table's     *)
(* backlog is all the state that the order of the tables depends on.       *)
(***************************************************************************)
EXTENDS Integers, FiniteSets

CONSTANTS
  NumTables,   \* Len(PRIORITY_ORDER)
  Limit,       \* TableConfig.limit: rows per batch
  MaxRetries,  \* Config.max_retries
  MaxBacklog,  \* bound: rows waiting in a table
  MaxLate      \* bound: requests of a run the server still works on although the
               \* client has stopped waiting for them

ASSUME RunConstantsOK ==
  NumTables \in Nat \ {0} /\ Limit \in Nat \ {0} /\ MaxRetries \in Nat
    /\ MaxBacklog \in Nat /\ MaxLate \in Nat

Table == 1..NumTables

VARIABLES
  backlog,  \* rows of each table above the edge's cursor
  pc,       \* idle, begun (a process that has not recorded its run), scan (loop over
            \* the tables), sent, acked, failed, or done (the record is finished)
  at,       \* the table the loop is at; NumTables + 1: past the last one
  batch,    \* rows of the batch being posted, and how many the server rejects
  attempt,  \* attempts made at this batch
  tally,    \* tables_synced, total_sent, total_rejected
  failure,  \* had_failure
  record,   \* the edge's sync_runs row of the latest run
  exit,     \* exit code of the latest process; Killed if a signal ended it
  requests, \* requests of the latest run the server works on: the batch, and the
            \* run row as the request has read it
  server,   \* the server's sync_runs row of the latest run
  start,    \* history: the backlog when the run began
  moved,    \* history: the tables whose cursor this run has moved
  lostAck,  \* history: an answer 200 of this run was lost
  leftBehind  \* history: the client stopped waiting for a request of this run that
              \* the server had not ended

edge    == <<record, exit>>
remote  == <<requests, server>>
history == <<start, moved, lostAck, leftBehind>>
vars == <<backlog, pc, at, batch, attempt, tally, failure, edge, remote, history>>

ExitOk      == 0
ExitPartial == 1
ExitFailed  == 2
Killed      == -1
NoExit      == -2

Zero    == [tables |-> 0, rows |-> 0, rejected |-> 0]
NoBatch == [rows |-> 0, bad |-> 0]

NoRun  == [tables |-> 0, rows |-> 0, rejected |-> 0, status |-> "none"]
Unread == [NoRun EXCEPT !.status = "unread"]

-----------------------------------------------------------------------------
(* The server's run row: read without a lock at the start of ingest_batch, *)
(* written at its end with counters computed from what was read.           *)

ServerStatus(rows, rejected) ==
  IF rejected = 0 THEN "accepted" ELSE IF rows > 0 THEN "partial" ELSE "rejected"

\* A batch counted on top of the counters c.
Counted(c, b) ==
  [tables |-> c.tables + 1, rows |-> c.rows + b.rows - b.bad, rejected |-> c.rejected + b.bad]

\* What a request computes for the row it has read.
Computed(r) ==
  LET c == Counted(r.read, r.batch) IN
  [tables |-> c.tables, rows |-> c.rows, rejected |-> c.rejected,
   status |-> ServerStatus(c.rows, c.rejected)]

\* Every attribute is written, changed or not (a mutant: explicit UPDATE).
WrittenWhole(r) == Computed(r)

\* The unit of work writes the attributes whose value is not the one read.
Written(r) ==
  LET new == Computed(r) IN
  [tables   |-> new.tables,
   rows     |-> IF new.rows = r.read.rows THEN server.rows ELSE new.rows,
   rejected |-> IF new.rejected = r.read.rejected THEN server.rejected ELSE new.rejected,
   status   |-> IF new.status = r.read.status THEN server.status ELSE new.status]

\* The request whose answer the client waits for, and those it has left behind.
IsCurrent(r) == pc = "sent" /\ r.table = at /\ r.attempt = attempt
Others == {r \in requests : ~ IsCurrent(r)}

Send(t, n, b) ==
  requests' = requests \cup {[table |-> t, attempt |-> n, batch |-> b, read |-> Unread]}

\* session.get(SyncRun): the committed row as of now.
ReadRun(r) ==
  /\ r.read = Unread
  /\ requests' = (requests \ {r}) \cup {[r EXCEPT !.read = server]}
  /\ UNCHANGED <<backlog, pc, at, batch, attempt, tally, failure, edge, server, history>>

\* The batch, its cursor and the run row are committed, and 200 is answered to a
\* client that still waits.  A request that has read no row inserts one, and fails
\* if another has inserted it meanwhile.  (A late request that fails changes
\* nothing: as if it never got here.)
Commit(r) ==
  /\ r.read # Unread
  /\ r.read = NoRun => server = NoRun
  /\ server' = Written(r) /\ requests' = requests \ {r}
  /\ pc' = IF IsCurrent(r) THEN "acked" ELSE pc
  /\ UNCHANGED <<backlog, at, batch, attempt, tally, failure, edge, history>>

-----------------------------------------------------------------------------
(* The loop over the tables.                                               *)

\* The timer starts a process.  It opens the file, creates what is missing in it and
\* has no run yet.
Begin ==
  /\ pc = "idle" /\ pc' = "begun"
  /\ UNCHANGED <<backlog, at, batch, attempt, tally, failure, edge, remote, history>>

\* The run is recorded before anything is read.  Requests of earlier runs write to
\* the rows of theirs.
StartRun ==
  /\ pc = "begun"
  /\ pc' = "scan" /\ at' = 1
  /\ tally' = Zero /\ failure' = FALSE
  /\ record' = [status |-> "running", tally |-> Zero]
  /\ server' = NoRun /\ requests' = {}
  /\ start' = backlog /\ moved' = {} /\ lostAck' = FALSE /\ leftBehind' = FALSE
  /\ UNCHANGED <<backlog, batch, attempt, exit>>

\* Nothing above the cursor: the run waits for a row (a mutant).
SkipWaits(t) == pc = "scan" /\ at = t /\ backlog[t] = 0 /\ UNCHANGED vars

\* Nothing above the cursor: on to the next table.
Skip(t) ==
  /\ pc = "scan" /\ at = t /\ backlog[t] = 0
  /\ at' = at + 1
  /\ UNCHANGED <<backlog, pc, batch, attempt, tally, failure, edge, remote, history>>

\* The first Limit rows of table t are posted; the row models of the server
\* reject some of them.
Post(t) ==
  /\ pc = "scan" /\ at = t /\ backlog[t] > 0
  /\ LET n == IF backlog[t] < Limit THEN backlog[t] ELSE Limit IN
     \E bad \in 0..n : batch' = [rows |-> n, bad |-> bad]
  /\ Send(t, 1, batch')
  /\ pc' = "sent" /\ attempt' = 1
  /\ UNCHANGED <<backlog, at, tally, failure, edge, server, history>>

\* 5xx, or the request did not arrive: nothing is committed.
Failed ==
  /\ pc = "sent" /\ pc' = "failed" /\ requests' = Others
  /\ UNCHANGED <<backlog, at, batch, attempt, tally, failure, edge, server, history>>

\* The client stops waiting (ReadTimeout) while the request is on its way or the
\* server is at work on it.
TimedOut ==
  /\ pc = "sent" /\ Cardinality(requests) <= MaxLate
  /\ pc' = "failed" /\ leftBehind' = TRUE
  /\ UNCHANGED <<backlog, at, batch, attempt, tally, failure, edge, remote, start, moved,
                 lostAck>>

\* The answer 200 did not arrive.
AnswerLost ==
  /\ pc = "acked" /\ pc' = "failed" /\ lostAck' = TRUE
  /\ UNCHANGED <<backlog, at, batch, attempt, tally, failure, edge, remote, start, moved,
                 leftBehind>>

\* One attempt more than configured (a mutant).
RetryOnceMore ==
  /\ pc = "failed" /\ attempt <= MaxRetries + 1
  /\ pc' = "sent" /\ attempt' = attempt + 1 /\ Send(at, attempt + 1, batch)
  /\ UNCHANGED <<backlog, at, batch, tally, failure, edge, server, history>>

\* After a pause the same envelope is posted again.
Retry ==
  /\ pc = "failed" /\ attempt <= MaxRetries
  /\ pc' = "sent" /\ attempt' = attempt + 1 /\ Send(at, attempt + 1, batch)
  /\ UNCHANGED <<backlog, at, batch, tally, failure, edge, server, history>>

\* The failed table is left out and the loop goes on (a mutant).
LeaveTable == at' = at + 1

\* A failure breaks the loop: no table of a lower priority is looked at.
LeaveLoop == at' = NumTables + 1

\* BackpressureError, RetriableError and FatalBatchError all end the loop.
Abort ==
  /\ LeaveLoop
  /\ pc' = "scan" /\ failure' = TRUE
  /\ batch' = NoBatch /\ attempt' = 0
  /\ UNCHANGED <<backlog, tally, edge, server, history>>

\* 429, or an answer that no retry can change (401, 403, 409, 422, 426).
Refused == pc = "sent" /\ Abort /\ requests' = Others

\* The attempts are used up.
GiveUp == pc = "failed" /\ attempt > MaxRetries /\ Abort /\ UNCHANGED requests

\* The first batch that gets across ends the loop (a mutant).
OneBatch == at' = NumTables + 1

\* One batch per table and run.
NextTable == at' = at + 1

\* The accepted cursor is stored and the batch counted.  Rows of a summary table
\* updated since they were read are above the new cursor again.
Advance(t) ==
  /\ pc = "acked" /\ at = t
  /\ \E again \in 0..batch.rows :
       backlog' = [backlog EXCEPT ![t] = @ - batch.rows + again]
  /\ tally' = Counted(tally, batch)
  /\ moved' = moved \cup {t}
  /\ NextTable
  /\ pc' = "scan" /\ batch' = NoBatch /\ attempt' = 0
  /\ UNCHANGED <<failure, edge, remote, start, lostAck, leftBehind>>

\* A run with rejected rows counts as ok (a mutant).
OutcomeIgnoresRejects ==
  IF failure THEN IF tally.tables = 0 THEN "failed" ELSE "partial" ELSE "ok"

\* The status of a run that ends by itself.
Outcome ==
  IF failure THEN IF tally.tables = 0 THEN "failed" ELSE "partial"
  ELSE IF tally.rejected > 0 THEN "partial" ELSE "ok"

ExitCode(status) ==
  CASE status = "ok" -> ExitOk [] status = "partial" -> ExitPartial
    [] status = "failed" -> ExitFailed

\* finish_run: the record is committed; the process has still to end.
Finish ==
  /\ pc = "scan" /\ at = NumTables + 1
  /\ record' = [status |-> Outcome, tally |-> tally]
  /\ pc' = "done"
  /\ UNCHANGED <<backlog, at, batch, attempt, tally, failure, exit, remote, history>>

\* run_once returns the exit code, and main ends the process with it.
Exit ==
  /\ pc = "done"
  /\ exit' = ExitCode(record.status)
  /\ pc' = "idle" /\ at' = 0
  /\ UNCHANGED <<backlog, batch, attempt, tally, failure, record, remote, history>>

\* The process is killed (power, TimeoutStartSec), or an exception that run_once
\* does not catch (SQLite busy, a 200 whose body does not parse) ends it with the
\* interpreter's exit code, which is ExitPartial.  The record stays as it is: that
\* of the run before, if this one has not begun; running; or finished, if the
\* process is killed between finish_run and its end.
Die ==
  /\ pc # "idle"
  /\ exit' \in {Killed, ExitPartial}
  /\ pc' = "idle" /\ at' = 0 /\ batch' = NoBatch /\ attempt' = 0
  /\ leftBehind' = (leftBehind \/ pc = "sent")
  /\ UNCHANGED <<backlog, tally, failure, record, remote, start, moved, lostAck>>

\* The writers of the Pi.
Write(t) ==
  /\ backlog[t] < MaxBacklog
  /\ backlog' = [backlog EXCEPT ![t] = @ + 1]
  /\ UNCHANGED <<pc, at, batch, attempt, tally, failure, edge, remote, history>>

-----------------------------------------------------------------------------

Init ==
  /\ backlog = [t \in Table |-> 0]
  /\ pc = "idle" /\ at = 0 /\ batch = NoBatch /\ attempt = 0
  /\ tally = Zero /\ failure = FALSE
  /\ record = [status |-> "none", tally |-> Zero] /\ exit = NoExit
  /\ server = NoRun /\ requests = {}
  /\ start = backlog /\ moved = {} /\ lostAck = FALSE /\ leftBehind = FALSE

Worker ==
  \/ Begin \/ StartRun \/ Failed \/ TimedOut \/ AnswerLost \/ Retry \/ Refused \/ GiveUp
  \/ Finish \/ Exit
  \/ \E t \in Table : Skip(t) \/ Post(t) \/ Advance(t)

Server == \E r \in requests : ReadRun(r) \/ Commit(r)

Next == Worker \/ Server \/ Die \/ \E t \in Table : Write(t)

Spec == Init /\ [][Next]_vars

\* The timer fires again when a process has ended, a process goes on to its next
\* statement, and every request ends within its timeout.  Nothing is assumed of how
\* requests end, nor of the server, kills or writers.
FairSpec == Spec /\ WF_vars(Worker)

-----------------------------------------------------------------------------
(* Properties.                                                             *)

Tallies  == [tables : Nat, rows : Nat, rejected : Nat]
Batches  == [rows : 0..Limit, bad : 0..Limit]
Statuses == {"none", "accepted", "partial", "rejected"}
RunRows  == [tables : Nat, rows : Nat, rejected : Nat, status : Statuses]
Requests == [table : Table, attempt : 1..MaxRetries + 1, batch : Batches,
             read : RunRows \cup {Unread}]

\* Type invariant: attempts stay within the configured retries.
TypeOK ==
  /\ backlog \in [Table -> 0..MaxBacklog] /\ start \in [Table -> 0..MaxBacklog]
  /\ pc \in {"idle", "begun", "scan", "sent", "acked", "failed", "done"}
  /\ at \in 0..NumTables + 1 /\ batch \in Batches /\ attempt \in 0..MaxRetries + 1
  /\ tally \in Tallies /\ server \in RunRows /\ requests \subseteq Requests
  /\ record \in [status : {"none", "running", "ok", "partial", "failed"}, tally : Tallies]
  /\ failure \in BOOLEAN /\ lostAck \in BOOLEAN /\ leftBehind \in BOOLEAN
  /\ moved \subseteq Table
  /\ exit \in {NoExit, ExitOk, ExitPartial, ExitFailed, Killed}

Finished == record.status \in {"ok", "partial", "failed"}

\* Safety: wherever processes die, a finished record tells what its run did, and the
\* exit code claims no more than the record.  "ok": every table that had rows when
\* the run began has got a batch across and no row was rejected; "failed": no cursor
\* has moved; "partial": some have.  Once a process has ended, 0 stands beside a
\* record that is ok and 2 beside one that has failed.  (1 and Killed may stand
\* beside any: the process may have died before it recorded its run, in the middle
\* of it, or after it had finished the record.)
RecordHonest ==
  /\ record.status = "ok" => /\ {t \in Table : start[t] > 0} \subseteq moved
                             /\ record.tally.rejected = 0
  /\ record.status = "failed" => moved = {}
  /\ record.status = "partial" => moved # {}
  /\ Finished => record.tally.tables = Cardinality(moved)
  /\ pc = "idle" /\ exit = ExitOk => record.status = "ok"
  /\ pc = "idle" /\ exit = ExitFailed => record.status = "failed"

\* Safety: a run moves the cursor of a table only after those of all tables of
\* higher priority that had rows when it began.
PriorityRespected ==
  \A t \in moved : \A u \in 1..(t - 1) : start[u] > 0 => u \in moved

\* Safety: the server's status of a run never contradicts the edge's record of it,
\* although requests of the run that the client has left behind read the row and
\* write to it in between: rejections and accepted rows the edge has been told of
\* are not lost from it, and a run the edge calls ok is one without rejections.
\* The counters are as good only if no request was left behind: then the server's
\* are never less, and equal unless an answer was lost.  Otherwise an update may be
\* lost, and they may be less as well as more.
RunsComparable == Finished =>
  LET told == record.tally IN
  /\ told.rejected > 0 => server.status \in {"partial", "rejected"}
  /\ told.rows > 0 => server.status \in {"accepted", "partial"}
  /\ record.status = "ok" => server.status \in {"none", "accepted"}
  /\ ~ leftBehind =>
       /\ told.tables <= server.tables /\ told.rows <= server.rows
       /\ told.rejected <= server.rejected
  /\ ~ leftBehind /\ ~ lostAck =>
       /\ told.tables = server.tables /\ told.rows = server.rows
       /\ told.rejected = server.rejected

\* The most steps a process can still take by itself: its end, for each table to come
\* a post and three steps of each attempt, for the table at hand those left of them.
PerTable == 1 + 3 * (MaxRetries + 1)
StepsLeft ==
  LET later == 2 + PerTable * (NumTables - at)
      again == 3 * (MaxRetries + 1 - attempt) IN
  CASE pc = "idle"   -> 0
    [] pc = "begun"  -> 3 + PerTable * NumTables
    [] pc = "scan"   -> later + PerTable
    [] pc = "sent"   -> later + again + 3
    [] pc = "acked"  -> later + again + 2
    [] pc = "failed" -> later + again + 1
    [] pc = "done"   -> 1

\* Action property, the safety half of RunsEnd: a process under way only ever comes
\* nearer to its end, by each step of its own and however rows are written and
\* attempts fail meanwhile; no table is posted a second batch, and none attempted
\* without end.
RunAdvances == [][pc # "idle" => StepsLeft' < StepsLeft]_<<pc, at, attempt>>

\* Liveness: a process ends, whatever the tables hold, however the attempts fail and
\* wherever it stands when they do.
RunsEnd == pc # "idle" ~> pc = "idle"

\* A run is over, by a failure or by the death of its process, before it is done with
\* table t: at t itself, or at a table of higher priority.
CutShort(t) == at <= t /\ (Refused \/ GiveUp \/ Die)

\* Liveness: a table that has rows gets a batch across, however busy the tables of
\* higher priority are and whatever fails below it.  What can keep it waiting is only
\* that runs are cut short again and again before they are done with it; a batch of
\* a higher table that fails every time does so for ever.
NoStarvation ==
  \A t \in Table : []<><<CutShort(t)>>_vars \/ ((backlog[t] > 0) ~> (t \in moved))

-----------------------------------------------------------------------------
(* The inductive strengthening of the safety properties.                   *)

Posted == pc \in {"sent", "acked", "failed"}

InLoop == Posted \/ pc = "scan"

\* The batch being posted is in its table's backlog; a failure has left the loop; the
\* requests are of tables already seen to, or carry the batch at hand.
BatchInv ==
  /\ batch.bad <= batch.rows
  /\ \A r \in requests :
       /\ r.batch.bad <= r.batch.rows /\ 0 < r.batch.rows
       /\ InLoop => r.table < at \/ (Posted /\ r.table = at /\ r.batch = batch)
  /\ Posted => at \in Table /\ batch.rows <= backlog[at] /\ 0 < batch.rows /\ ~ failure
  /\ pc = "scan" => at \in 1..NumTables + 1 /\ (failure => at = NumTables + 1)

\* Tables still to come have lost no row, those before have moved if they had any.
LoopInv == InLoop =>
  /\ record.status = "running"
  /\ \A t \in Table : at <= t => start[t] <= backlog[t]
  /\ \A t \in moved : t < at
  /\ ~ failure => \A u \in Table : u < at /\ start[u] > 0 => u \in moved

\* What the edge has been told, the answer on its way included.
Told == IF pc = "acked" THEN Counted(tally, batch) ELSE tally

\* A row has the status of its own counters, and counts at least one batch.
Sound(run) ==
  \/ run = NoRun
  \/ /\ run.tables > 0 /\ (run.rows > 0 \/ run.rejected > 0)
     /\ run.status = ServerStatus(run.rows, run.rejected)

\* The server's row: no update, however stale, takes back that some row was accepted
\* or rejected.
ServerInv ==
  /\ Sound(server)
  /\ \A r \in requests : r.read # Unread =>
       /\ Sound(r.read)
       /\ r.read # NoRun => server # NoRun
       /\ r.read.rows > 0 => server.rows > 0
       /\ r.read.rejected > 0 => server.rejected > 0
  /\ Told.rows > 0 => server.rows > 0
  /\ Told.rejected > 0 => server.rejected > 0

\* In a run without failures the rejections of its requests are those of batches that
\* the edge has been or will be told of.
RejectInv ==
  ~ failure /\ (InLoop \/ Finished)
    /\ (server.rejected > 0 \/ \E r \in requests : r.batch.bad > 0) =>
    tally.rejected > 0 \/ (Posted /\ batch.bad > 0)

\* The edge's counters and, as long as no request is left behind, the server's, which
\* are ahead by the answer on its way and by those that were lost.
TallyInv ==
  /\ tally.tables = Cardinality(moved)
  /\ tally.rejected > 0 => tally.tables > 0
  /\ ~ leftBehind =>
       /\ \A r \in requests : IsCurrent(r) /\ r.read \in {Unread, server}
       /\ \A r, q \in requests : r = q
       /\ Told.tables <= server.tables /\ Told.rows <= server.rows
       /\ Told.rejected <= server.rejected
  /\ ~ leftBehind /\ ~ lostAck /\ (InLoop \/ Finished) =>
       /\ Told.tables = server.tables /\ Told.rows = server.rows
       /\ Told.rejected = server.rejected

\* What a run that has ended left in its record, and the process in its exit code.
RecordInv ==
  /\ Finished =>
       /\ record.tally = tally /\ record.status = Outcome
       /\ ~ failure => \A t \in Table : start[t] > 0 => t \in moved
  /\ pc = "done" => Finished
  /\ pc = "idle" /\ exit = ExitOk => record.status = "ok"
  /\ pc = "idle" /\ exit = ExitFailed => record.status = "failed"

IInv ==
  /\ TypeOK /\ BatchInv /\ LoopInv /\ ServerInv /\ RejectInv /\ TallyInv /\ RecordInv
  /\ PriorityRespected

=============================================================================
