--------------------------- MODULE SyncRun_proofs ---------------------------
(***************************************************************************)
(* Proofs about SyncRun, for every number of tables, batch limit, number   *)
(* of retries, backlog and number of requests left behind.                 *)
(***************************************************************************)
EXTENDS SyncRun, FiniteSetTheorems, TLAPS

LEMMA Numbers ==
  /\ NumTables \in Nat /\ NumTables > 0 /\ Limit \in Nat /\ Limit > 0 /\ MaxRetries \in Nat
  /\ MaxBacklog \in Nat
  /\ \A t \in Table : t \in Nat /\ t > 0 /\ t <= NumTables
  /\ \A n \in Int : n \in Table <=> 1 <= n /\ n <= NumTables
  /\ Zero \in Tallies /\ NoBatch \in Batches
  /\ Zero.tables = 0 /\ Zero.rows = 0 /\ Zero.rejected = 0
  /\ NoBatch.rows = 0 /\ NoBatch.bad = 0
BY RunConstantsOK DEF Table, Zero, Tallies, NoBatch, Batches

\* No row, and a row not read yet.
LEMMA Rows ==
  /\ NoRun \in RunRows /\ NoRun # Unread /\ Unread \notin RunRows
  /\ NoRun.tables = 0 /\ NoRun.rows = 0 /\ NoRun.rejected = 0 /\ NoRun.status = "none"
  /\ \A run \in RunRows : run.tables \in Nat /\ run.rows \in Nat /\ run.rejected \in Nat
  /\ \A run \in RunRows : run # Unread
<1>1. Unread.status = "unread"
  BY DEF Unread, NoRun
<1>2. \A run \in RunRows : run.status # "unread"
  BY DEF RunRows, Statuses
<1>3. NoRun \in RunRows
  BY DEF NoRun, RunRows, Statuses
<1>4. QED
  BY <1>1, <1>2, <1>3 DEF NoRun, RunRows

\* The exit codes are different numbers.
LEMMA Exits ==
  /\ ExitCode("ok") = ExitOk /\ ExitCode("partial") = ExitPartial
  /\ ExitCode("failed") = ExitFailed
  /\ ExitOk # ExitPartial /\ ExitOk # ExitFailed /\ ExitPartial # ExitFailed
  /\ Killed # ExitOk /\ Killed # ExitFailed
  /\ Outcome \in {"ok", "partial", "failed"}
BY DEF ExitCode, Outcome, ExitOk, ExitPartial, ExitFailed, Killed

\* Adding a batch to counters.
LEMMA Adding ==
  ASSUME NEW c, c.tables \in Nat, c.rows \in Nat, c.rejected \in Nat,
         NEW b \in Batches, b.bad <= b.rows
  PROVE  /\ Counted(c, b) \in Tallies
         /\ Counted(c, b).tables = c.tables + 1
         /\ Counted(c, b).rows = c.rows + b.rows - b.bad
         /\ Counted(c, b).rejected = c.rejected + b.bad
         /\ c.rows <= c.rows + b.rows - b.bad
         /\ b.bad \in Nat /\ b.rows \in Nat
<1>1. b.bad \in Nat /\ b.rows \in Nat
  BY Numbers DEF Batches
<1>2. /\ c.rows + b.rows - b.bad \in Nat /\ c.rows <= c.rows + b.rows - b.bad
      /\ c.tables + 1 \in Nat /\ c.rejected + b.bad \in Nat
  BY <1>1
<1>3. QED
  BY <1>1, <1>2 DEF Counted, Tallies

LEMMA Moves ==
  ASSUME NEW some \in SUBSET Table
  PROVE  /\ IsFiniteSet(some) /\ Cardinality(some) \in Nat
         /\ Cardinality(some) = 0 <=> some = {}
         /\ \A t : t \notin some => Cardinality(some \cup {t}) = Cardinality(some) + 1
<1>1. NumTables \in Int /\ 1 \in Int
  BY RunConstantsOK
<1>2. IsFiniteSet(Table)
  BY <1>1, FS_Interval DEF Table
<1>3. IsFiniteSet(some)
  BY <1>2, FS_Subset
<1>4. QED
  BY <1>3, FS_CardinalityType, FS_EmptySet, FS_AddElement

-----------------------------------------------------------------------------
(* The server's row of the run.                                            *)

\* What a request writes: the flags "some row was accepted" and "some row was
\* rejected" of the row, which are all that its status depends on, are set by the
\* batches that should set them and cleared by none, however stale the row is that
\* the request has read.
LEMMA Writing ==
  ASSUME TypeOK, BatchInv, ServerInv, NEW r \in requests, Commit(r)
  PROVE  /\ server' \in RunRows /\ Sound(server)' /\ server' # NoRun
         /\ server.rows > 0 \/ r.batch.rows > r.batch.bad => server'.rows > 0
         /\ server.rejected > 0 \/ r.batch.bad > 0 => server'.rejected > 0
         /\ server'.rejected > 0 => server.rejected > 0 \/ r.batch.bad > 0
<1> DEFINE b == r.batch
           old == r.read
           new == Computed(r)
<1>1. /\ server' = Written(r) /\ old # Unread
      /\ old = NoRun => server = NoRun
  BY DEF Commit
<1>2. /\ old \in RunRows /\ server \in RunRows /\ b \in Batches
      /\ b.bad <= b.rows /\ 0 < b.rows
  BY <1>1 DEF TypeOK, Requests, BatchInv
<1>3. /\ old.tables \in Nat /\ old.rows \in Nat /\ old.rejected \in Nat
      /\ server.tables \in Nat /\ server.rows \in Nat /\ server.rejected \in Nat
  BY <1>2, Rows
<1>4. /\ Counted(old, b).tables = old.tables + 1
      /\ Counted(old, b).rows = old.rows + b.rows - b.bad
      /\ Counted(old, b).rejected = old.rejected + b.bad
      /\ b.bad \in Nat /\ b.rows \in Nat
  BY <1>2, <1>3, Adding
<1>5. /\ new.tables = old.tables + 1 /\ new.rows = old.rows + b.rows - b.bad
      /\ new.rejected = old.rejected + b.bad
      /\ new.status = ServerStatus(new.rows, new.rejected)
      /\ new.tables \in Nat /\ new.tables > 0 /\ new.rows \in Nat /\ new.rejected \in Nat
      /\ new.status \in Statuses /\ new.status # "none"
  BY <1>2, <1>3, <1>4 DEF Computed, ServerStatus, Statuses
<1> HIDE DEF new
<1>6. /\ server'.tables = new.tables
      /\ server'.rows = IF new.rows = old.rows THEN server.rows ELSE new.rows
      /\ server'.rejected =
           IF new.rejected = old.rejected THEN server.rejected ELSE new.rejected
      /\ server'.status = IF new.status = old.status THEN server.status ELSE new.status
      /\ server' = [tables |-> server'.tables, rows |-> server'.rows,
                    rejected |-> server'.rejected, status |-> server'.status]
  BY <1>1 DEF Written, new
<1>7. server' \in RunRows
  <2>1. /\ server'.tables \in Nat /\ server'.rows \in Nat /\ server'.rejected \in Nat
        /\ server'.status \in Statuses
    BY <1>2, <1>3, <1>5, <1>6 DEF RunRows
  <2>2. QED
    BY <1>6, <2>1 DEF RunRows
\* The row is not older than what was read.
<1>8. /\ Sound(old) /\ Sound(server)
      /\ old # NoRun => server # NoRun
      /\ old.rows > 0 => server.rows > 0
      /\ old.rejected > 0 => server.rejected > 0
  BY <1>1, <1>2 DEF ServerInv
<1>9. server'.rows > 0 <=> server.rows > 0 \/ b.rows > b.bad
  <2>1. CASE b.rows = b.bad
    <3>1. new.rows = old.rows
      BY <1>3, <1>4, <1>5, <2>1
    <3>2. QED
      BY <1>4, <1>6, <2>1, <3>1
  <2>2. CASE b.rows # b.bad
    <3>1. b.rows > b.bad /\ new.rows > 0 /\ new.rows # old.rows
      BY <1>2, <1>3, <1>4, <1>5, <2>2
    <3>2. QED
      BY <1>6, <3>1
  <2>3. QED
    BY <2>1, <2>2
<1>10. server'.rejected > 0 <=> server.rejected > 0 \/ b.bad > 0
  <2>1. CASE b.bad = 0
    <3>1. new.rejected = old.rejected
      BY <1>3, <1>5, <2>1
    <3>2. QED
      BY <1>6, <2>1, <3>1
  <2>2. CASE b.bad # 0
    <3>1. b.bad > 0 /\ new.rejected > 0 /\ new.rejected # old.rejected
      BY <1>3, <1>4, <1>5, <2>2
    <3>2. QED
      BY <1>6, <3>1
  <2>3. QED
    BY <2>1, <2>2
<1>11. server'.status = ServerStatus(server'.rows, server'.rejected)
  <2>1. /\ server'.rows \in Nat /\ server'.rejected \in Nat
    BY <1>3, <1>5, <1>6
  <2>2. CASE old = NoRun
    BY <1>1, <1>4, <1>5, <1>6, <2>2, Rows
  <2>3. CASE old # NoRun
    <3>1. /\ old.status = ServerStatus(old.rows, old.rejected)
          /\ server.status = ServerStatus(server.rows, server.rejected)
          /\ old.rows > 0 \/ old.rejected > 0
          /\ server.rows > 0 \/ server.rejected > 0
      BY <1>8, <2>3 DEF Sound
    <3>2. CASE new.status # old.status
      BY <1>2, <1>3, <1>4, <1>5, <1>6, <1>8, <1>9, <1>10, <2>1, <3>1, <3>2 DEF ServerStatus
    <3>3. CASE new.status = old.status
      BY <1>2, <1>3, <1>4, <1>5, <1>6, <1>8, <1>9, <1>10, <2>1, <3>1, <3>3 DEF ServerStatus
    <3>4. QED
      BY <3>2, <3>3
  <2>4. QED
    BY <2>2, <2>3
<1>12. QED
  <2>1. server'.rows > 0 \/ server'.rejected > 0
    BY <1>2, <1>4, <1>9, <1>10
  <2>2. server' # NoRun
    BY <1>5, <1>6, Rows
  <2>3. QED
    BY <1>5, <1>6, <1>7, <1>9, <1>10, <1>11, <2>1, <2>2 DEF Sound

LEMMA InitIInv == Init => IInv
<1> SUFFICES ASSUME Init PROVE IInv
  OBVIOUS
<1>1. TypeOK
  <2>1. 0 \in 0..MaxBacklog /\ 0 \in 0..NumTables + 1 /\ 0 \in 0..MaxRetries + 1
    BY Numbers
  <2>2. batch \in Batches /\ tally \in Tallies /\ server \in RunRows
    BY Numbers, Rows DEF Init
  <2>3. record \in [status : {"none", "running", "ok", "partial", "failed"}, tally : Tallies]
    BY Numbers DEF Init
  <2>4. backlog \in [Table -> 0..MaxBacklog] /\ start \in [Table -> 0..MaxBacklog]
    BY <2>1 DEF Init
  <2>5. QED
    BY <2>1, <2>2, <2>3, <2>4 DEF Init, TypeOK
<1>2. BatchInv /\ LoopInv /\ PriorityRespected
  BY Numbers DEF Init, BatchInv, Posted, InLoop, LoopInv, PriorityRespected
<1>3. ServerInv /\ RejectInv
  BY Numbers, Rows DEF Init, ServerInv, Sound, Told, RejectInv, InLoop, Posted
<1>4. TallyInv
  BY Numbers, Rows, FS_EmptySet DEF Init, TallyInv, Told
<1>5. RecordInv
  BY DEF Init, RecordInv, Finished, NoExit, ExitOk, ExitFailed
<1>6. QED
  BY <1>1, <1>2, <1>3, <1>4, <1>5 DEF IInv

-----------------------------------------------------------------------------
(* Types.                                                                  *)

\* A request just sent.
LEMMA Sending ==
  ASSUME TypeOK, NEW t \in Table, NEW n \in 1..MaxRetries + 1, NEW b \in Batches, Send(t, n, b)
  PROVE  requests' \subseteq Requests
BY DEF TypeOK, Send, Requests

LEMMA TypeStep == IInv /\ [Next]_vars => TypeOK'
<1> SUFFICES ASSUME IInv, [Next]_vars PROVE TypeOK'
  OBVIOUS
<1>a. /\ 0 \in 0..NumTables + 1 /\ 0 \in 0..MaxRetries + 1 /\ 1 \in 0..MaxRetries + 1
      /\ 1 \in 0..NumTables + 1 /\ NumTables + 1 \in 0..NumTables + 1
      /\ 1 \in 1..MaxRetries + 1 /\ {} \subseteq Table /\ {} \subseteq Requests
  BY Numbers
<1>b. TypeOK /\ BatchInv /\ ServerInv
  BY DEF IInv
<1>1. CASE Begin
  BY <1>b, <1>1 DEF Begin, TypeOK, edge, remote, history
<1>2. CASE StartRun
  <2>1. record' \in [status : {"none", "running", "ok", "partial", "failed"}, tally : Tallies]
    BY <1>2, Numbers DEF StartRun
  <2>2. QED
    BY <1>a, <1>b, <1>2, <2>1, Numbers, Rows DEF StartRun, TypeOK
<1>3. ASSUME NEW t \in Table, Skip(t) PROVE TypeOK'
  <2>1. at' \in 0..NumTables + 1
    BY <1>3, Numbers DEF Skip
  <2>2. QED
    BY <1>b, <1>3, <2>1 DEF Skip, TypeOK, edge, remote, history
<1>4. ASSUME NEW t \in Table, Post(t) PROVE TypeOK'
  <2> DEFINE n == IF backlog[t] < Limit THEN backlog[t] ELSE Limit
  <2>1. PICK bad \in 0..n : batch' = [rows |-> n, bad |-> bad]
    BY <1>4 DEF Post
  <2>2. batch' \in Batches
    <3>1. backlog[t] \in Nat
      BY <1>b, Numbers DEF TypeOK
    <3>2. n \in 0..Limit /\ bad \in 0..Limit
      BY <2>1, <3>1, Numbers
    <3>3. QED
      BY <2>1, <3>2 DEF Batches
  <2>3. requests' \subseteq Requests
    BY <1>a, <1>b, <1>4, <2>2, Sending DEF Post
  <2>4. QED
    BY <1>a, <1>b, <1>4, <2>2, <2>3 DEF Post, TypeOK, edge, history
<1>5. ASSUME NEW r \in requests, ReadRun(r) PROVE TypeOK'
  <2>1. requests' \subseteq Requests
    BY <1>b, <1>5 DEF ReadRun, TypeOK, Requests
  <2>2. QED
    BY <1>b, <1>5, <2>1 DEF ReadRun, TypeOK, edge, history
<1>6. ASSUME NEW r \in requests, Commit(r) PROVE TypeOK'
  <2>1. server' \in RunRows
    BY <1>b, <1>6, Writing
  <2>2. QED
    BY <1>b, <1>6, <2>1 DEF Commit, TypeOK, edge, history
<1>7. CASE Failed
  BY <1>b, <1>7 DEF Failed, TypeOK, edge, history, Others
<1>8. CASE TimedOut
  BY <1>b, <1>8 DEF TimedOut, TypeOK, edge, remote
<1>9. CASE AnswerLost
  BY <1>b, <1>9 DEF AnswerLost, TypeOK, edge, remote
<1>10. CASE Retry
  <2>1. attempt' \in 1..MaxRetries + 1 /\ attempt' \in 0..MaxRetries + 1
    BY <1>b, <1>10, Numbers DEF Retry, TypeOK
  <2>2. requests' \subseteq Requests
    <3>1. at \in Table /\ batch \in Batches
      BY <1>b, <1>10 DEF Retry, BatchInv, Posted, TypeOK
    <3>2. QED
      BY <1>b, <1>10, <2>1, <3>1, Sending DEF Retry
  <2>3. QED
    BY <1>b, <1>10, <2>1, <2>2 DEF Retry, TypeOK, edge, history
<1>11. CASE Refused \/ GiveUp
  BY <1>a, <1>b, <1>11, Numbers
     DEF Refused, GiveUp, Abort, LeaveLoop, Others, TypeOK, edge, history
<1>12. ASSUME NEW t \in Table, Advance(t) PROVE TypeOK'
  <2>1. tally' \in Tallies
    <3>1. tally' = Counted(tally, batch)
      BY <1>12 DEF Advance
    <3>2. tally.tables \in Nat /\ tally.rows \in Nat /\ tally.rejected \in Nat
      BY <1>b DEF TypeOK, Tallies
    <3>3. QED
      BY <1>b, <3>1, <3>2, Adding DEF TypeOK, BatchInv
  <2>2. backlog' \in [Table -> 0..MaxBacklog]
    <3>1. PICK again \in 0..batch.rows : backlog' = [backlog EXCEPT ![t] = @ - batch.rows + again]
      BY <1>12 DEF Advance
    <3>2. backlog[t] \in 0..MaxBacklog /\ batch.rows \in Nat /\ batch.rows <= backlog[t]
      BY <1>b, <1>12, Numbers DEF Advance, TypeOK, BatchInv, Posted, Batches
    <3>3. backlog[t] - batch.rows + again \in 0..MaxBacklog
      BY <3>2, Numbers
    <3>4. QED
      BY <1>b, <3>1, <3>3 DEF TypeOK
  <2>3. at' \in 0..NumTables + 1
    BY <1>12, Numbers DEF Advance, NextTable
  <2>4. QED
    BY <1>a, <1>b, <1>12, <2>1, <2>2, <2>3, Numbers DEF Advance, TypeOK, edge, remote
<1>13. CASE Finish
  <2>1. record' \in [status : {"none", "running", "ok", "partial", "failed"}, tally : Tallies]
    BY <1>b, <1>13, Exits DEF Finish, TypeOK
  <2>2. QED
    BY <1>b, <1>13, <2>1 DEF Finish, TypeOK, remote, history
<1>14. CASE Exit
  <2>1. record.status \in {"ok", "partial", "failed"}
    BY <1>14 DEF Exit, IInv, RecordInv, Finished
  <2>2. exit' \in {NoExit, ExitOk, ExitPartial, ExitFailed, Killed}
    BY <1>14, <2>1, Exits DEF Exit
  <2>3. QED
    BY <1>a, <1>b, <1>14, <2>2 DEF Exit, TypeOK, remote, history
<1>15. CASE Die
  <2>1. leftBehind' \in BOOLEAN
    BY <1>15 DEF Die
  <2>2. QED
    BY <1>a, <1>b, <1>15, <2>1, Numbers DEF Die, TypeOK, remote
<1>16. ASSUME NEW t \in Table, Write(t) PROVE TypeOK'
  <2>1. backlog[t] + 1 \in 0..MaxBacklog
    BY <1>b, <1>16, Numbers DEF Write, TypeOK
  <2>2. QED
    BY <1>b, <1>16, <2>1 DEF Write, TypeOK, edge, remote, history
<1>17. CASE UNCHANGED vars
  BY <1>b, <1>17 DEF vars, TypeOK, edge, remote, history
<1>18. QED
  BY <1>1, <1>2, <1>3, <1>4, <1>5, <1>6, <1>7, <1>8, <1>9, <1>10, <1>11, <1>12, <1>13,
     <1>14, <1>15, <1>16, <1>17 DEF Next, Worker, Server

-----------------------------------------------------------------------------
(* The batch, and the loop over the tables.                                *)

LEMMA BatchStep == IInv /\ [Next]_vars => BatchInv'
<1> SUFFICES ASSUME IInv, [Next]_vars PROVE BatchInv'
  OBVIOUS
<1>a. /\ TypeOK /\ BatchInv
      /\ batch.rows \in Nat /\ batch.bad \in Nat /\ at \in Nat
      /\ \A t \in Table : backlog[t] \in Nat
  BY Numbers DEF IInv, TypeOK, Batches
<1>b. \A r \in requests : r.table \in Nat /\ r.table <= NumTables
  BY <1>a, Numbers DEF TypeOK, Requests
<1>1. CASE Begin
  BY <1>a, <1>1 DEF Begin, BatchInv, Posted, InLoop, remote
<1>2. CASE StartRun
  BY <1>a, <1>2, Numbers DEF StartRun, BatchInv, Posted
<1>3. ASSUME NEW t \in Table, Skip(t) PROVE BatchInv'
  <2>1. /\ at' \in 1..NumTables + 1 /\ ~ failure /\ pc = "scan" /\ pc' = "scan" /\ at < at'
        /\ UNCHANGED <<batch, failure, requests>>
    BY <1>a, <1>3, Numbers DEF Skip, BatchInv, remote
  <2>2. \A r \in requests : r.table < at'
    BY <1>a, <1>b, <2>1 DEF BatchInv, Posted, InLoop
  <2>3. QED
    BY <1>a, <2>1, <2>2 DEF BatchInv, Posted
<1>4. ASSUME NEW t \in Table, Post(t) PROVE BatchInv'
  <2>1. batch'.rows <= backlog[t] /\ batch'.bad <= batch'.rows /\ 0 < batch'.rows
    BY <1>a, <1>4, Numbers DEF Post
  <2>2. ~ failure /\ pc = "scan" /\ pc' = "sent" /\ at = t /\ UNCHANGED <<at, failure, backlog>>
    BY <1>a, <1>4, Numbers DEF Post, BatchInv
  <2>3. \A r \in requests' : r \in requests \/ (r.table = t /\ r.batch = batch')
    BY <1>4 DEF Post, Send
  <2>4. \A r \in requests : r.table < at
    BY <1>a, <2>2 DEF BatchInv, Posted, InLoop
  <2>5. \A r \in requests' : /\ r.batch.bad <= r.batch.rows /\ 0 < r.batch.rows
                             /\ r.table < at \/ (r.table = at /\ r.batch = batch')
    BY <1>a, <2>1, <2>2, <2>3, <2>4 DEF BatchInv
  <2>6. QED
    BY <2>1, <2>2, <2>5 DEF BatchInv, Posted
<1>5. ASSUME NEW r \in requests, ReadRun(r) PROVE BatchInv'
  <2>1. \A q \in requests' : \E p \in requests : q.table = p.table /\ q.batch = p.batch
    <3>1. /\ requests' = (requests \ {r}) \cup {[r EXCEPT !.read = server]}
          /\ r \in Requests
      BY <1>a, <1>5 DEF ReadRun, TypeOK
    <3>2. [r EXCEPT !.read = server].table = r.table /\ [r EXCEPT !.read = server].batch = r.batch
      BY <3>1 DEF Requests
    <3>3. QED
      BY <3>1, <3>2
  <2>2. UNCHANGED <<pc, at, batch, failure, backlog>>
    BY <1>5 DEF ReadRun
  <2>3. QED
    BY <1>a, <2>1, <2>2 DEF BatchInv, Posted, InLoop
<1>6. ASSUME NEW r \in requests, Commit(r) PROVE BatchInv'
  <2>1. /\ requests' \subseteq requests /\ UNCHANGED <<at, batch, failure, backlog>>
        /\ pc' = pc \/ (pc = "sent" /\ pc' = "acked")
    BY <1>6 DEF Commit, IsCurrent
  <2>2. QED
    BY <1>a, <2>1 DEF BatchInv, Posted, InLoop
<1>7. CASE Failed \/ TimedOut \/ AnswerLost
  <2>1. /\ requests' \subseteq requests /\ UNCHANGED <<at, batch, failure, backlog>>
        /\ pc \in {"sent", "acked"} /\ pc' = "failed"
    BY <1>7 DEF Failed, TimedOut, AnswerLost, Others, remote
  <2>2. QED
    BY <1>a, <2>1 DEF BatchInv, Posted, InLoop
<1>8. CASE Retry
  <2>1. \A r \in requests' : r \in requests \/ (r.table = at /\ r.batch = batch)
    BY <1>8 DEF Retry, Send
  <2>2. UNCHANGED <<at, batch, failure, backlog>> /\ pc = "failed" /\ pc' = "sent"
    BY <1>8 DEF Retry
  <2>3. QED
    BY <1>a, <2>1, <2>2 DEF BatchInv, Posted, InLoop
<1>9. CASE Refused \/ GiveUp
  <2>1. /\ pc' = "scan" /\ at' = NumTables + 1 /\ batch' = NoBatch /\ requests' \subseteq requests
    BY <1>9 DEF Refused, GiveUp, Abort, LeaveLoop, Others
  <2>2. \A r \in requests' : r.table < at'
    BY <1>b, <2>1, Numbers
  <2>3. QED
    BY <1>a, <2>1, <2>2, Numbers DEF BatchInv, Posted
<1>10. ASSUME NEW t \in Table, Advance(t) PROVE BatchInv'
  <2>1. /\ at' \in 1..NumTables + 1 /\ ~ failure /\ failure' = failure /\ pc = "acked"
        /\ pc' = "scan" /\ at' = at + 1 /\ batch' = NoBatch /\ requests' = requests
    BY <1>a, <1>10, Numbers DEF Advance, NextTable, BatchInv, Posted, remote
  <2>2. \A r \in requests : r.table < at'
    BY <1>a, <1>b, <2>1 DEF BatchInv, Posted, InLoop
  <2>3. QED
    BY <1>a, <2>1, <2>2, Numbers DEF BatchInv, Posted
<1>11. CASE Finish \/ Exit \/ Die
  <2>1. /\ pc' \in {"done", "idle"} /\ requests' = requests
        /\ batch' = batch \/ batch' = NoBatch
    BY <1>11 DEF Finish, Exit, Die, remote
  <2>2. QED
    BY <1>a, <2>1, Numbers DEF BatchInv, Posted, InLoop
<1>12. ASSUME NEW t \in Table, Write(t) PROVE BatchInv'
  <2>1. \A u \in Table : backlog[u] <= backlog'[u] /\ backlog'[u] \in Nat
    BY <1>a, <1>12 DEF Write, TypeOK
  <2>2. Posted => batch.rows <= backlog'[at]
    BY <1>a, <2>1 DEF BatchInv
  <2>3. UNCHANGED <<pc, at, batch, failure, requests>>
    BY <1>12 DEF Write, remote
  <2>4. QED
    BY <1>a, <2>2, <2>3 DEF BatchInv, Posted, InLoop
<1>13. CASE UNCHANGED vars
  BY <1>a, <1>13 DEF vars, remote, BatchInv, Posted, InLoop
<1>14. QED
  BY <1>1, <1>2, <1>3, <1>4, <1>5, <1>6, <1>7, <1>8, <1>9, <1>10, <1>11, <1>12, <1>13
     DEF Next, Worker, Server

LEMMA LoopStep == IInv /\ [Next]_vars => LoopInv'
<1> SUFFICES ASSUME IInv, [Next]_vars PROVE LoopInv'
  OBVIOUS
<1>a. /\ TypeOK /\ BatchInv /\ LoopInv
      /\ \A t \in Table : backlog[t] \in Nat /\ start[t] \in Nat
      /\ at \in Int /\ moved \subseteq Table
  BY Numbers DEF IInv, TypeOK
<1>1. CASE StartRun
  BY <1>a, <1>1, Numbers DEF StartRun, LoopInv
<1>2. ASSUME NEW t \in Table, Skip(t) PROVE LoopInv'
  <2>1. start[t] = 0 /\ at = t /\ at' = t + 1 /\ pc = "scan" /\ pc' = "scan"
    BY <1>a, <1>2, Numbers DEF Skip, LoopInv, InLoop
  <2>2. UNCHANGED <<backlog, failure, record, start, moved>>
    BY <1>2 DEF Skip, edge, history
  <2>3. QED
    BY <1>a, <2>1, <2>2, Numbers DEF LoopInv, InLoop
\* A step within the loop that leaves its place alone.
<1>3. ASSUME InLoop' => InLoop, UNCHANGED <<backlog, at, failure, record, start, moved>>
      PROVE  LoopInv'
  BY <1>a, <1>3 DEF LoopInv
<1>4. ASSUME NEW t \in Table, Post(t) PROVE LoopInv'
  BY <1>3, <1>4 DEF Post, InLoop, edge, history
<1>5. ASSUME NEW r \in requests, ReadRun(r) \/ Commit(r) PROVE LoopInv'
  BY <1>3, <1>5 DEF ReadRun, Commit, IsCurrent, InLoop, Posted, edge, history
<1>6. CASE Failed \/ TimedOut \/ AnswerLost \/ Retry
  BY <1>3, <1>6 DEF Failed, TimedOut, AnswerLost, Retry, InLoop, Posted, edge, history
<1>7. CASE Refused \/ GiveUp
  <2>1. /\ failure' = TRUE /\ at' = NumTables + 1 /\ InLoop
        /\ UNCHANGED <<backlog, record, start, moved>>
    BY <1>7 DEF Refused, GiveUp, Abort, LeaveLoop, InLoop, Posted, edge, history
  <2>2. QED
    BY <1>a, <2>1, Numbers DEF LoopInv
<1>8. ASSUME NEW t \in Table, Advance(t) PROVE LoopInv'
  <2>1. /\ at = t /\ at' = t + 1 /\ InLoop /\ moved' = moved \cup {t}
        /\ UNCHANGED <<failure, record, start>>
    BY <1>8 DEF Advance, NextTable, InLoop, Posted, edge
  <2>2. \A u \in Table : t < u => backlog'[u] = backlog[u]
    BY <1>a, <1>8, Numbers DEF Advance, TypeOK
  <2>3. \A u \in Table : at' <= u => start'[u] <= backlog'[u]
    BY <1>a, <2>1, <2>2, Numbers DEF LoopInv
  <2>4. \A u \in moved' : u < at'
    BY <1>a, <2>1, Numbers DEF LoopInv
  <2>5. ~ failure' => \A u \in Table : u < at' /\ start'[u] > 0 => u \in moved'
    BY <1>a, <2>1, Numbers DEF LoopInv
  <2>6. QED
    BY <1>a, <2>1, <2>3, <2>4, <2>5 DEF LoopInv
<1>9. CASE Begin \/ Finish \/ Exit \/ Die
  BY <1>9 DEF Begin, Finish, Exit, Die, LoopInv, InLoop, Posted
<1>10. ASSUME NEW t \in Table, Write(t) PROVE LoopInv'
  <2>1. \A u \in Table : backlog[u] <= backlog'[u] /\ backlog'[u] \in Nat
    BY <1>a, <1>10 DEF Write, TypeOK
  <2>2. UNCHANGED <<pc, at, failure, record, start, moved>>
    BY <1>10 DEF Write, edge, history
  <2>3. QED
    BY <1>a, <2>1, <2>2 DEF LoopInv, InLoop, Posted
<1>11. CASE UNCHANGED vars
  BY <1>3, <1>11 DEF vars, InLoop, Posted, edge, history
<1>12. QED
  BY <1>1, <1>2, <1>4, <1>5, <1>6, <1>7, <1>8, <1>9, <1>10, <1>11 DEF Next, Worker, Server

\* The tables of higher priority come first, so they have been seen to.
LEMMA PriorityStep == IInv /\ [Next]_vars => PriorityRespected'
<1> SUFFICES ASSUME IInv, [Next]_vars PROVE PriorityRespected'
  OBVIOUS
<1>a. TypeOK /\ BatchInv /\ LoopInv /\ PriorityRespected
  BY DEF IInv
<1>1. CASE StartRun
  BY <1>1 DEF StartRun, PriorityRespected
<1>2. ASSUME NEW t \in Table, Advance(t) PROVE PriorityRespected'
  <2>1. /\ at = t /\ pc = "acked" /\ moved' = moved \cup {t} /\ start' = start
    BY <1>2 DEF Advance
  <2>2. ~ failure
    BY <1>a, <2>1 DEF BatchInv, Posted
  <2>3. \A u \in 1..(t - 1) : u \in Table /\ u < at
    BY <2>1, Numbers
  <2>4. \A u \in 1..(t - 1) : start[u] > 0 => u \in moved
    BY <1>a, <2>1, <2>2, <2>3 DEF LoopInv, InLoop, Posted
  <2>5. QED
    BY <1>a, <2>1, <2>4 DEF PriorityRespected
<1>3. CASE UNCHANGED <<start, moved>>
  BY <1>a, <1>3 DEF PriorityRespected
<1>4. QED
  BY <1>1, <1>2, <1>3 DEF Next, Worker, Server, Begin, Skip, Post, ReadRun, Commit, Failed,
     TimedOut, AnswerLost, Retry, Refused, GiveUp, Abort, Finish, Exit, Die, Write, vars, history

-----------------------------------------------------------------------------
(* The server's row, the counters and the record.                          *)

\* The edge's counters and its batch.
LEMMA Telling ==
  ASSUME TypeOK, BatchInv
  PROVE  /\ tally.tables \in Nat /\ tally.rows \in Nat /\ tally.rejected \in Nat
         /\ server.tables \in Nat /\ server.rows \in Nat /\ server.rejected \in Nat
         /\ batch.rows \in Nat /\ batch.bad \in Nat /\ batch.bad <= batch.rows
         /\ Counted(tally, batch) \in Tallies
         /\ Counted(tally, batch).tables = tally.tables + 1
         /\ Counted(tally, batch).rows = tally.rows + batch.rows - batch.bad
         /\ Counted(tally, batch).rejected = tally.rejected + batch.bad
<1>1. /\ tally.tables \in Nat /\ tally.rows \in Nat /\ tally.rejected \in Nat
      /\ server.tables \in Nat /\ server.rows \in Nat /\ server.rejected \in Nat
      /\ batch \in Batches /\ batch.bad <= batch.rows
  BY Rows DEF TypeOK, BatchInv, Tallies
<1>2. QED
  BY <1>1, Adding

LEMMA ServerStep == IInv /\ [Next]_vars => ServerInv'
<1> SUFFICES ASSUME IInv, [Next]_vars PROVE ServerInv'
  OBVIOUS
<1>a. TypeOK /\ BatchInv /\ ServerInv
  BY DEF IInv
<1>b. /\ tally.rows \in Nat /\ tally.rejected \in Nat /\ batch.rows \in Nat /\ batch.bad \in Nat
      /\ batch.bad <= batch.rows
      /\ Counted(tally, batch).rows = tally.rows + batch.rows - batch.bad
      /\ Counted(tally, batch).rejected = tally.rejected + batch.bad
  BY <1>a, Telling
\* A step that tells the edge nothing new and leaves the server's row alone.
<1>1. ASSUME server' = server,
             \A r \in requests' : r.read # Unread => r.read = server \/ r \in requests,
             Told'.rows > 0 => Told.rows > 0, Told'.rejected > 0 => Told.rejected > 0
      PROVE  ServerInv'
  <2>1. Sound(server)' /\ \A r : Sound(r)' = Sound(r)
    BY <1>a, <1>1 DEF ServerInv, Sound
  <2>2. QED
    BY <1>a, <1>1, <2>1 DEF ServerInv
<1>2. CASE StartRun
  <2>1. server' = NoRun /\ requests' = {} /\ Told' = Zero
    BY <1>2 DEF StartRun, Told
  <2>2. QED
    BY <2>1, Numbers DEF ServerInv, Sound
<1>3. CASE Begin \/ Finish \/ Exit
  <2>1. UNCHANGED <<server, requests, tally>> /\ pc # "acked" /\ pc' # "acked"
    BY <1>3 DEF Begin, Finish, Exit, remote
  <2>2. QED
    BY <1>1, <2>1 DEF Told
<1>4. ASSUME NEW t \in Table, Skip(t) \/ Post(t) PROVE ServerInv'
  <2>1. UNCHANGED <<server, tally>> /\ pc # "acked" /\ pc' # "acked"
    BY <1>4 DEF Skip, Post, remote
  <2>2. \A r \in requests' : r.read # Unread => r \in requests
    BY <1>4 DEF Skip, Post, Send, remote
  <2>3. QED
    BY <1>1, <2>1, <2>2 DEF Told
<1>5. ASSUME NEW r \in requests, ReadRun(r) PROVE ServerInv'
  <2>1. [r EXCEPT !.read = server].read = server
    BY <1>a DEF TypeOK, Requests
  <2>2. \A q \in requests' : q.read = server \/ q \in requests
    BY <1>5, <2>1 DEF ReadRun
  <2>3. UNCHANGED <<server, tally, batch, pc>>
    BY <1>5 DEF ReadRun
  <2>4. Told' = Told
    BY <2>3 DEF Told, Counted
  <2>5. QED
    BY <1>1, <2>2, <2>3, <2>4
<1>6. ASSUME NEW r \in requests, Commit(r) PROVE ServerInv'
  <2>1. /\ server' \in RunRows /\ Sound(server)' /\ server' # NoRun
        /\ server.rows > 0 \/ r.batch.rows > r.batch.bad => server'.rows > 0
        /\ server.rejected > 0 \/ r.batch.bad > 0 => server'.rejected > 0
    BY <1>a, <1>6, Writing
  <2>2. /\ requests' \subseteq requests /\ UNCHANGED <<tally, batch, at>>
        /\ pc' = IF IsCurrent(r) THEN "acked" ELSE pc
    BY <1>6 DEF Commit
  <2>3. \A q \in requests' : q.read # Unread =>
          /\ Sound(q.read)' /\ server' # NoRun
          /\ q.read.rows > 0 => server'.rows > 0
          /\ q.read.rejected > 0 => server'.rejected > 0
    BY <1>a, <2>1, <2>2 DEF ServerInv, Sound
  <2>4. CASE IsCurrent(r)
    <3>1. r.batch = batch /\ pc = "sent"
      BY <1>a, <2>4 DEF IsCurrent, BatchInv, InLoop, Posted, TypeOK
    <3>2. Told = tally /\ Told' = Counted(tally, batch)
      BY <2>2, <2>4, <3>1 DEF Told, Counted
    <3>3. /\ Told'.rows > 0 => tally.rows > 0 \/ batch.rows > batch.bad
          /\ Told'.rejected > 0 => tally.rejected > 0 \/ batch.bad > 0
      BY <1>b, <3>2
    <3>4. QED
      BY <1>a, <2>1, <2>3, <3>1, <3>2, <3>3 DEF ServerInv
  <2>5. CASE ~ IsCurrent(r)
    <3>1. Told' = Told
      BY <2>2, <2>5 DEF Told, Counted
    <3>2. QED
      BY <1>a, <2>1, <2>3, <3>1 DEF ServerInv
  <2>6. QED
    BY <2>4, <2>5
<1>7. CASE Failed \/ TimedOut \/ AnswerLost \/ Retry \/ Refused \/ GiveUp \/ Die
  <2>1. UNCHANGED <<server, tally>> /\ pc' # "acked"
    BY <1>7
       DEF Failed, TimedOut, AnswerLost, Retry, Refused, GiveUp, Abort, Die, remote
  <2>2. \A r \in requests' : r.read # Unread => r \in requests
    BY <1>7
       DEF Failed, TimedOut, AnswerLost, Retry, Refused, GiveUp, Die, Send, Others, remote
  <2>3. /\ Told'.rows > 0 => Told.rows > 0
        /\ Told'.rejected > 0 => Told.rejected > 0
    BY <1>b, <2>1 DEF Told
  <2>4. QED
    BY <1>1, <2>1, <2>2, <2>3
<1>8. ASSUME NEW t \in Table, Advance(t) PROVE ServerInv'
  <2>1. UNCHANGED <<server, requests>> /\ Told' = Told
    BY <1>8 DEF Advance, Told, remote
  <2>2. QED
    BY <1>1, <2>1
<1>9. CASE UNCHANGED vars \/ \E t \in Table : Write(t)
  <2>1. UNCHANGED <<server, requests, pc, tally, batch>>
    BY <1>9 DEF vars, Write, remote
  <2>2. Told' = Told
    BY <2>1 DEF Told, Counted
  <2>3. QED
    BY <1>1, <2>1, <2>2
<1>10. QED
  BY <1>2, <1>3, <1>4, <1>5, <1>6, <1>7, <1>8, <1>9 DEF Next, Worker, Server

\* Rejections come from batches of the run that the edge knows of.
LEMMA RejectStep == IInv /\ [Next]_vars => RejectInv'
<1> SUFFICES ASSUME IInv, [Next]_vars PROVE RejectInv'
  OBVIOUS
<1>a. TypeOK /\ BatchInv /\ LoopInv /\ ServerInv /\ RejectInv
  BY DEF IInv
<1>b. /\ tally.rejected \in Nat /\ batch.bad \in Nat
      /\ Counted(tally, batch).rejected = tally.rejected + batch.bad
  BY <1>a, Telling
\* A step after which no more is rejected or asked for, and no less told.
<1>1. ASSUME UNCHANGED <<server, failure>>, (InLoop \/ Finished)' => InLoop \/ Finished,
             \A r \in requests' : \E q \in requests : r.batch = q.batch,
             tally.rejected > 0 => tally'.rejected > 0,
             Posted /\ batch.bad > 0 =>
               tally'.rejected > 0 \/ (Posted' /\ batch' = batch) \/ ~ (InLoop \/ Finished)'
      PROVE  RejectInv'
  BY <1>a, <1>1 DEF RejectInv
<1>2. CASE StartRun
  BY <1>2, Rows DEF StartRun, RejectInv
<1>3. CASE Begin \/ Finish \/ Exit
  <2>1. /\ UNCHANGED <<server, failure, requests, tally, batch>> /\ ~ Posted
        /\ (InLoop \/ Finished)' => InLoop \/ Finished
    BY <1>3 DEF Begin, Finish, Exit, InLoop, Posted, Finished, edge, remote
  <2>2. QED
    BY <1>1, <2>1
<1>4. ASSUME NEW t \in Table, Skip(t) PROVE RejectInv'
  <2>1. /\ UNCHANGED <<server, failure, requests, tally, batch, record>> /\ ~ Posted /\ InLoop
    BY <1>4 DEF Skip, InLoop, Posted, edge, remote
  <2>2. QED
    BY <1>1, <2>1
<1>5. ASSUME NEW t \in Table, Post(t) PROVE RejectInv'
  <2>1. /\ UNCHANGED <<server, failure, tally>> /\ pc = "scan" /\ pc' = "sent"
        /\ requests' = requests \cup {[table |-> t, attempt |-> 1, batch |-> batch',
                                       read |-> Unread]}
    BY <1>5 DEF Post, Send
  <2>2. QED
    BY <1>a, <2>1 DEF RejectInv, InLoop, Posted
<1>6. ASSUME NEW r \in requests, ReadRun(r) PROVE RejectInv'
  <2>1. [r EXCEPT !.read = server].batch = r.batch
    BY <1>a DEF TypeOK, Requests
  <2>2. \A q \in requests' : \E p \in requests : q.batch = p.batch
    BY <1>6, <2>1 DEF ReadRun
  <2>3. UNCHANGED <<server, failure, tally, batch, pc, record>>
    BY <1>6 DEF ReadRun, edge
  <2>4. QED
    BY <1>1, <2>2, <2>3 DEF InLoop, Posted, Finished
<1>7. ASSUME NEW r \in requests, Commit(r) PROVE RejectInv'
  <2>1. server'.rejected > 0 => server.rejected > 0 \/ r.batch.bad > 0
    BY <1>a, <1>7, Writing
  <2>2. /\ requests' \subseteq requests /\ UNCHANGED <<failure, tally, batch, record>>
        /\ pc' = pc \/ (pc = "sent" /\ pc' = "acked")
    BY <1>7 DEF Commit, IsCurrent, edge
  <2>3. QED
    BY <1>a, <2>1, <2>2 DEF RejectInv, InLoop, Posted, Finished
<1>8. CASE Failed \/ TimedOut \/ AnswerLost
  <2>1. /\ UNCHANGED <<server, failure, tally, batch, record>> /\ requests' \subseteq requests
        /\ pc \in {"sent", "acked"} /\ pc' = "failed"
    BY <1>8 DEF Failed, TimedOut, AnswerLost, Others, edge, remote
  <2>2. QED
    BY <1>1, <2>1 DEF InLoop, Posted, Finished
<1>9. CASE Retry
  <2>1. /\ UNCHANGED <<server, failure, tally, batch, record>> /\ pc = "failed" /\ pc' = "sent"
        /\ \A r \in requests' : r \in requests \/ r.batch = batch
    BY <1>9 DEF Retry, Send, edge
  <2>2. QED
    BY <1>a, <2>1 DEF RejectInv, InLoop, Posted, Finished
<1>10. CASE Refused \/ GiveUp
  BY <1>10 DEF Refused, GiveUp, Abort, RejectInv
<1>11. ASSUME NEW t \in Table, Advance(t) PROVE RejectInv'
  <2>1. /\ UNCHANGED <<server, failure, requests>> /\ InLoop /\ tally' = Counted(tally, batch)
    BY <1>11 DEF Advance, InLoop, Posted, remote
  <2>2. tally.rejected > 0 \/ batch.bad > 0 => tally'.rejected > 0
    BY <1>b, <2>1
  <2>3. QED
    BY <1>1, <2>1, <2>2
<1>12. CASE Die
  <2>1. /\ UNCHANGED <<server, failure, requests, tally, record>> /\ ~ InLoop' /\ ~ Posted'
    BY <1>12 DEF Die, InLoop, Posted, remote
  <2>2. Posted => ~ Finished
    BY <1>a DEF LoopInv, InLoop, Finished
  <2>3. QED
    BY <1>1, <2>1, <2>2 DEF Finished
<1>13. CASE UNCHANGED vars \/ \E t \in Table : Write(t)
  <2>1. UNCHANGED <<server, failure, requests, tally, batch, pc, record>>
    BY <1>13 DEF vars, Write, edge, remote
  <2>2. QED
    BY <1>1, <2>1 DEF InLoop, Posted, Finished
<1>14. QED
  BY <1>2, <1>3, <1>4, <1>5, <1>6, <1>7, <1>8, <1>9, <1>10, <1>11, <1>12, <1>13
     DEF Next, Worker, Server

LEMMA TallyStep == IInv /\ [Next]_vars => TallyInv'
<1> SUFFICES ASSUME IInv, [Next]_vars PROVE TallyInv'
  OBVIOUS
<1>a. /\ TypeOK /\ BatchInv /\ LoopInv /\ TallyInv /\ RecordInv /\ moved \subseteq Table
  BY DEF IInv, TypeOK
<1>b. /\ tally.tables \in Nat /\ tally.rows \in Nat /\ tally.rejected \in Nat
      /\ server.tables \in Nat /\ server.rows \in Nat /\ server.rejected \in Nat
      /\ batch.rows \in Nat /\ batch.bad \in Nat /\ batch.bad <= batch.rows
      /\ Counted(tally, batch).tables = tally.tables + 1
      /\ Counted(tally, batch).rows = tally.rows + batch.rows - batch.bad
      /\ Counted(tally, batch).rejected = tally.rejected + batch.bad
  BY <1>a, Telling
<1>1. CASE StartRun
  BY <1>1, Numbers, Rows, FS_EmptySet DEF StartRun, TallyInv, Told
\* A step that counts nothing and sends nothing, in a run that has lost no answer if
\* it is compared.
<1>2. ASSUME UNCHANGED <<tally, server, moved, lostAck, leftBehind>>, Told' = Told,
             (InLoop \/ Finished)' => InLoop \/ Finished,
             ~ leftBehind =>
               \A r \in requests' : r \in requests /\ (IsCurrent(r) => IsCurrent(r)')
      PROVE  TallyInv'
  BY <1>a, <1>2 DEF TallyInv
<1>3. CASE Begin \/ Finish \/ Exit
  <2>1. /\ UNCHANGED <<tally, server, moved, lostAck, leftBehind, requests>>
        /\ pc \notin {"acked", "sent"} /\ pc' # "acked"
        /\ (InLoop \/ Finished)' => InLoop \/ Finished
    BY <1>3 DEF Begin, Finish, Exit, InLoop, Posted, Finished, edge, remote, history
  <2>2. QED
    BY <1>2, <2>1 DEF Told, IsCurrent
<1>4. ASSUME NEW t \in Table, Skip(t) PROVE TallyInv'
  <2>1. /\ UNCHANGED <<tally, server, moved, lostAck, leftBehind, requests>> /\ InLoop
        /\ pc = "scan" /\ pc' = "scan"
    BY <1>4 DEF Skip, InLoop, remote, history
  <2>2. QED
    BY <1>2, <2>1 DEF Told, IsCurrent
<1>5. ASSUME NEW n \in 1..MaxRetries + 1, NEW t \in Table, pc \in {"scan", "failed"},
             pc' = "sent", Send(t, n, batch'), at' = t, attempt' = n,
             UNCHANGED <<tally, server, moved, lostAck, leftBehind>>
      PROVE  TallyInv'
  <2> DEFINE q == [table |-> t, attempt |-> n, batch |-> batch', read |-> Unread]
  <2>1. Told = tally /\ Told' = tally /\ InLoop
    BY <1>5 DEF Told, InLoop, Posted
  <2>2. ~ leftBehind => requests' = {q}
    <3>1. ~ leftBehind => requests = {}
      BY <1>a, <1>5 DEF TallyInv, IsCurrent
    <3>2. QED
      BY <1>5, <3>1 DEF Send
  <2>3. \A r \in requests' : r = q => IsCurrent(r)'
    BY <1>5 DEF IsCurrent
  <2>4. q.read = Unread
    OBVIOUS
  <2>5. ~ leftBehind => /\ \A r \in requests' : IsCurrent(r)' /\ r.read = Unread
                        /\ \A r, p \in requests' : r = p
    BY <2>2, <2>3, <2>4 DEF IsCurrent
  <2> HIDE DEF q
  <2>6. QED
    BY <1>a, <1>5, <2>1, <2>5 DEF TallyInv
<1>6. ASSUME NEW t \in Table, Post(t) PROVE TallyInv'
  BY <1>5, <1>6, Numbers DEF Post, history
<1>7. CASE Retry
  <2>1. at \in Table /\ attempt' \in 1..MaxRetries + 1
    BY <1>a, <1>7, Numbers DEF Retry, BatchInv, Posted, TypeOK
  <2>2. QED
    BY <1>5, <1>7, <2>1 DEF Retry, history
<1>8. ASSUME NEW r \in requests, ReadRun(r) PROVE TallyInv'
  <2>0. PICK q : q = [r EXCEPT !.read = server]
    OBVIOUS
  <2>1. q.read = server /\ q.table = r.table /\ q.attempt = r.attempt
    BY <1>a, <2>0 DEF TypeOK, Requests
  <2>2. UNCHANGED <<pc, at, attempt, batch, tally, server, moved, lostAck, leftBehind, record>>
    BY <1>8 DEF ReadRun, edge, history
  <2>3. requests' = (requests \ {r}) \cup {q}
    BY <1>8, <2>0 DEF ReadRun
  <2>4. Told' = Told /\ (InLoop \/ Finished)' = (InLoop \/ Finished)
    BY <2>2 DEF Told, Counted, InLoop, Posted, Finished
  <2>5. ~ leftBehind => requests = {r} /\ IsCurrent(r)
    BY <1>a DEF TallyInv
  <2>6. ~ leftBehind => requests' = {q} /\ IsCurrent(q)' /\ q.read = server'
    <3>1. IsCurrent(r) => IsCurrent(q)'
      BY <2>1, <2>2 DEF IsCurrent
    <3>2. requests = {r} => requests' = {q}
      BY <2>3
    <3>3. QED
      BY <2>1, <2>2, <2>5, <3>1, <3>2
  <2>7. ~ leftBehind => /\ \A p \in requests' : IsCurrent(p)' /\ p.read = server'
                        /\ \A p, o \in requests' : p = o
    BY <2>6 DEF IsCurrent
  <2>8. QED
    BY <1>a, <2>2, <2>4, <2>7 DEF TallyInv
<1>9. ASSUME NEW r \in requests, Commit(r) PROVE TallyInv'
  <2>1. /\ UNCHANGED <<at, attempt, batch, tally, moved, lostAck, leftBehind, record>>
        /\ requests' = requests \ {r} /\ pc' = IF IsCurrent(r) THEN "acked" ELSE pc
        /\ server' = Written(r) /\ r.read # Unread
    BY <1>9 DEF Commit, edge, history
  <2>2. CASE leftBehind
    BY <1>a, <2>1, <2>2 DEF TallyInv
  <2>3. CASE ~ leftBehind
    <3>1. IsCurrent(r) /\ r.read = server /\ requests' = {}
      BY <1>a, <2>1, <2>3 DEF TallyInv
    <3>2. r.batch = batch /\ pc = "sent" /\ InLoop
      BY <1>a, <3>1 DEF IsCurrent, BatchInv, InLoop, Posted, TypeOK
    <3>3. /\ server'.tables = server.tables + 1
          /\ server'.rows = server.rows + batch.rows - batch.bad
          /\ server'.rejected = server.rejected + batch.bad
      <4>1. /\ Computed(r).tables = server.tables + 1
            /\ Computed(r).rows = server.rows + batch.rows - batch.bad
            /\ Computed(r).rejected = server.rejected + batch.bad
        BY <3>1, <3>2 DEF Computed, Counted
      <4>2. /\ server'.tables = Computed(r).tables
            /\ server'.rows = Computed(r).rows
            /\ server'.rejected = Computed(r).rejected
        BY <2>1, <3>1 DEF Written
      <4>3. QED
        BY <4>1, <4>2
    <3>4. Told = tally /\ Told' = Counted(tally, batch)
      BY <2>1, <3>1, <3>2 DEF Told, Counted
    <3>5. QED
      BY <1>a, <1>b, <2>1, <2>3, <3>1, <3>2, <3>3, <3>4 DEF TallyInv
  <2>4. QED
    BY <2>2, <2>3
<1>10. CASE Failed
  <2>1. /\ UNCHANGED <<tally, server, moved, lostAck, leftBehind>> /\ InLoop
        /\ pc = "sent" /\ pc' = "failed" /\ requests' = Others
    BY <1>10 DEF Failed, InLoop, Posted, history
  <2>2. ~ leftBehind => requests' = {}
    BY <1>a, <2>1 DEF TallyInv, Others
  <2>3. QED
    BY <1>2, <2>1, <2>2 DEF Told
<1>11. CASE TimedOut
  <2>1. /\ leftBehind' /\ UNCHANGED <<tally, moved>>
    BY <1>11 DEF TimedOut
  <2>2. QED
    BY <1>a, <2>1 DEF TallyInv
<1>12. CASE AnswerLost
  <2>1. /\ lostAck' /\ UNCHANGED <<tally, server, moved, leftBehind, requests>>
        /\ pc = "acked" /\ pc' = "failed"
    BY <1>12 DEF AnswerLost, remote
  <2>2. ~ leftBehind => requests = {}
    BY <1>a, <2>1 DEF TallyInv, IsCurrent
  <2>3. /\ Told = Counted(tally, batch) /\ Told' = tally
    BY <2>1 DEF Told
  <2>4. QED
    BY <1>a, <1>b, <2>1, <2>2, <2>3 DEF TallyInv
<1>13. CASE Refused \/ GiveUp
  <2>1. /\ UNCHANGED <<tally, server, moved, lostAck, leftBehind>> /\ InLoop
        /\ pc' = "scan" /\ \/ pc = "sent" /\ requests' = Others
                           \/ pc = "failed" /\ requests' = requests
    BY <1>13 DEF Refused, GiveUp, Abort, InLoop, Posted, history
  <2>2. ~ leftBehind => requests' = {}
    BY <1>a, <2>1 DEF TallyInv, Others, IsCurrent
  <2>3. QED
    BY <1>2, <2>1, <2>2 DEF Told
<1>14. ASSUME NEW t \in Table, Advance(t) PROVE TallyInv'
  <2>1. /\ pc = "acked" /\ pc' = "scan" /\ at = t /\ moved' = moved \cup {t} /\ InLoop
        /\ tally' = Counted(tally, batch)
        /\ UNCHANGED <<server, requests, lostAck, leftBehind>>
    BY <1>14 DEF Advance, InLoop, Posted, remote
  <2>2. Told = Counted(tally, batch) /\ Told' = Told
    BY <2>1 DEF Told
  <2>3. tally'.tables = Cardinality(moved')
    <3>1. t \notin moved
      BY <1>a, <2>1, Numbers DEF LoopInv
    <3>2. tally.tables = Cardinality(moved)
      BY <1>a DEF TallyInv
    <3>3. QED
      BY <1>a, <1>b, <2>1, <3>1, <3>2, Moves
  <2>4. tally'.tables > 0
    BY <1>b, <2>1
  <2>5. ~ leftBehind => requests = {}
    BY <1>a, <2>1 DEF TallyInv, IsCurrent
  <2>6. QED
    BY <1>a, <2>1, <2>2, <2>3, <2>4, <2>5 DEF TallyInv
<1>15. CASE Die
  <2>1. /\ pc' = "idle" /\ UNCHANGED <<tally, record, server, requests, moved, lostAck>>
        /\ leftBehind' = (leftBehind \/ pc = "sent")
    BY <1>15 DEF Die, remote
  <2>2. Told' = tally /\ ~ InLoop' /\ Finished' = Finished
    BY <2>1 DEF Told, InLoop, Posted, Finished
  <2>3. ~ leftBehind' => requests = {}
    BY <1>a, <2>1 DEF TallyInv, IsCurrent
  <2>4. InLoop => ~ Finished
    BY <1>a DEF LoopInv, Finished
  <2>5. ~ InLoop => Told = tally
    BY DEF Told, InLoop, Posted
  <2>6. /\ tally.tables <= Told.tables /\ tally.rows <= Told.rows
        /\ tally.rejected <= Told.rejected
        /\ Told.tables \in Nat /\ Told.rows \in Nat /\ Told.rejected \in Nat
    BY <1>b DEF Told
  <2>7. ~ leftBehind' =>
          /\ tally.tables <= server.tables /\ tally.rows <= server.rows
          /\ tally.rejected <= server.rejected
    <3>1. ~ leftBehind' => ~ leftBehind
      BY <2>1
    <3>2. ~ leftBehind => /\ Told.tables <= server.tables /\ Told.rows <= server.rows
                          /\ Told.rejected <= server.rejected
      BY <1>a DEF TallyInv
    <3>3. QED
      BY <1>b, <2>6, <3>1, <3>2
  <2>8. QED
    BY <1>a, <2>1, <2>2, <2>3, <2>4, <2>5, <2>7 DEF TallyInv
<1>16. CASE UNCHANGED vars \/ \E t \in Table : Write(t)
  <2>1. UNCHANGED <<pc, at, attempt, batch, tally, record, requests, server, moved, lostAck,
                    leftBehind>>
    BY <1>16 DEF vars, Write, edge, remote, history
  <2>2. Told' = Told
    BY <2>1 DEF Told, Counted
  <2>3. QED
    BY <1>2, <2>1, <2>2 DEF InLoop, Posted, Finished, IsCurrent
<1>17. QED
  BY <1>1, <1>3, <1>4, <1>6, <1>7, <1>8, <1>9, <1>10, <1>11, <1>12, <1>13, <1>14, <1>15, <1>16
     DEF Next, Worker, Server

LEMMA RecordStep == IInv /\ [Next]_vars => RecordInv'
<1> SUFFICES ASSUME IInv, [Next]_vars PROVE RecordInv'
  OBVIOUS
<1>a. TypeOK /\ BatchInv /\ LoopInv /\ RecordInv
  BY DEF IInv
<1>1. CASE Finish
  <2>1. /\ pc = "scan" /\ at = NumTables + 1 /\ pc' = "done"
        /\ record' = [status |-> Outcome, tally |-> tally]
        /\ UNCHANGED <<tally, failure, moved, start>>
    BY <1>1 DEF Finish, history
  <2>2. Outcome' = Outcome /\ record'.status \in {"ok", "partial", "failed"}
    BY <2>1, Exits DEF Outcome
  <2>3. ~ failure => \A t \in Table : start[t] > 0 => t \in moved
    <3>1. \A t \in Table : t < at
      BY <2>1, Numbers
    <3>2. QED
      BY <1>a, <2>1, <3>1 DEF LoopInv, InLoop
  <2>4. QED
    BY <2>1, <2>2, <2>3 DEF RecordInv, Finished
<1>2. CASE Exit
  <2>1. /\ pc = "done" /\ exit' = ExitCode(record.status)
        /\ UNCHANGED <<tally, failure, record, moved, start>> /\ pc' = "idle"
    BY <1>2 DEF Exit, history
  <2>2. record.status \in {"ok", "partial", "failed"}
    BY <1>a, <2>1 DEF RecordInv, Finished
  <2>3. /\ exit' = ExitOk => record.status = "ok"
        /\ exit' = ExitFailed => record.status = "failed"
    BY <2>1, <2>2, Exits
  <2>4. QED
    BY <1>a, <2>1, <2>3 DEF RecordInv, Finished, Outcome
<1>3. CASE Die
  <2>1. /\ pc' = "idle" /\ exit' \in {Killed, ExitPartial}
        /\ UNCHANGED <<tally, failure, record, moved, start>>
    BY <1>3 DEF Die
  <2>2. QED
    BY <1>a, <2>1, Exits DEF RecordInv, Finished, Outcome
\* A step within the loop, the last one excepted.
<1>4. CASE InLoop' /\ record'.status = "running"
  BY <1>4 DEF RecordInv, Finished, InLoop, Posted
<1>5. ASSUME InLoop, InLoop', record' = record PROVE RecordInv'
  BY <1>4, <1>5, <1>a DEF LoopInv
<1>6. CASE /\ UNCHANGED <<tally, failure, record, exit, start, moved>>
           /\ pc' = pc \/ pc' \notin {"idle", "done"}
  BY <1>a, <1>6 DEF RecordInv, Finished, Outcome
<1>7. CASE StartRun
  BY <1>4, <1>7 DEF StartRun, InLoop
<1>8. CASE Begin \/ UNCHANGED vars \/ \E t \in Table : Write(t)
  BY <1>6, <1>8 DEF Begin, vars, Write, edge, history
<1>9. ASSUME NEW r \in requests, ReadRun(r) \/ Commit(r) PROVE RecordInv'
  BY <1>6, <1>9 DEF ReadRun, Commit, IsCurrent, edge, history
<1>10. ASSUME NEW t \in Table, Skip(t) \/ Post(t) \/ Advance(t) PROVE RecordInv'
  BY <1>5, <1>10 DEF Skip, Post, Advance, InLoop, Posted, edge
<1>11. CASE Failed \/ TimedOut \/ AnswerLost \/ Retry \/ Refused \/ GiveUp
  BY <1>5, <1>11
     DEF Failed, TimedOut, AnswerLost, Retry, Refused, GiveUp, Abort, InLoop, Posted, edge
<1>12. QED
  BY <1>1, <1>2, <1>3, <1>7, <1>8, <1>9, <1>10, <1>11 DEF Next, Worker, Server

-----------------------------------------------------------------------------
(* The theorems.                                                           *)

\* The inductive invariant of a run, the server's row and late requests included.
THEOREM Inductive == Spec => []IInv
<1>1. IInv /\ [Next]_vars => IInv'
  BY TypeStep, BatchStep, LoopStep, ServerStep, RejectStep, TallyStep, RecordStep,
     PriorityStep DEF IInv
<1>2. QED
  BY InitIInv, <1>1, PTL DEF Spec

\* Types: attempts stay within the configured retries, for every number of tables.
THEOREM TypeCorrect == Spec => []TypeOK
<1>1. IInv => TypeOK
  BY DEF IInv
<1>2. QED
  BY Inductive, <1>1, PTL

\* A run moves cursors in the order of priority, whatever fails.
THEOREM PriorityCorrect == Spec => []PriorityRespected
<1>1. IInv => PriorityRespected
  BY DEF IInv
<1>2. QED
  BY Inductive, <1>1, PTL

\* A finished record tells what its run did, and the exit code claims no more than the
\* record, wherever processes die: before start_run's commit, in the loop, or between
\* finish_run's commit and the end of the process.
THEOREM RecordCorrect == Spec => []RecordHonest
<1>1. IInv => RecordHonest
  <2> SUFFICES ASSUME IInv PROVE RecordHonest
    OBVIOUS
  <2>1. /\ tally.tables = Cardinality(moved) /\ moved \subseteq Table
        /\ tally.rejected > 0 => tally.tables > 0
        /\ tally.tables \in Nat /\ tally.rejected \in Nat
    BY DEF IInv, TallyInv, TypeOK, Tallies
  <2>2. Cardinality(moved) = 0 <=> moved = {}
    BY <2>1, Moves
  <2>3. /\ Finished =>
             /\ record.tally = tally /\ record.status = Outcome
             /\ ~ failure => \A t \in Table : start[t] > 0 => t \in moved
        /\ pc = "idle" /\ exit = ExitOk => record.status = "ok"
        /\ pc = "idle" /\ exit = ExitFailed => record.status = "failed"
    BY DEF IInv, RecordInv
  <2>4. /\ Outcome = "ok" => ~ failure /\ tally.rejected = 0
        /\ Outcome = "failed" => tally.tables = 0
        /\ Outcome = "partial" => tally.tables > 0
    BY <2>1 DEF Outcome
  <2>5. QED
    BY <2>1, <2>2, <2>3, <2>4 DEF RecordHonest, Finished
<1>2. QED
  BY Inductive, <1>1, PTL

\* The server's status of a run never contradicts the edge's record of it, although late
\* requests of the run write to the row from what they have read earlier; the counters
\* are the edge's as long as no request is left behind.
THEOREM RunsAreComparable == Spec => []RunsComparable
<1>1. IInv => RunsComparable
  <2> SUFFICES ASSUME IInv, Finished
               PROVE  LET told == record.tally IN
                      /\ told.rejected > 0 => server.status \in {"partial", "rejected"}
                      /\ told.rows > 0 => server.status \in {"accepted", "partial"}
                      /\ record.status = "ok" => server.status \in {"none", "accepted"}
                      /\ ~ leftBehind =>
                           /\ told.tables <= server.tables /\ told.rows <= server.rows
                           /\ told.rejected <= server.rejected
                      /\ ~ leftBehind /\ ~ lostAck =>
                           /\ told.tables = server.tables /\ told.rows = server.rows
                           /\ told.rejected = server.rejected
    BY DEF RunsComparable
  <2>1. /\ TypeOK /\ LoopInv /\ ServerInv /\ RejectInv /\ TallyInv
        /\ record.tally = tally /\ record.status = Outcome
    BY DEF IInv, RecordInv
  <2>2. ~ InLoop /\ ~ Posted /\ Told = tally
    BY <2>1 DEF LoopInv, InLoop, Posted, Told, Finished
  <2>3. /\ ~ leftBehind =>
             /\ tally.tables <= server.tables /\ tally.rows <= server.rows
             /\ tally.rejected <= server.rejected
        /\ ~ leftBehind /\ ~ lostAck =>
             /\ tally.tables = server.tables /\ tally.rows = server.rows
             /\ tally.rejected = server.rejected
    BY <2>1, <2>2 DEF TallyInv
  <2>4. /\ tally.rows > 0 => server.rows > 0
        /\ tally.rejected > 0 => server.rejected > 0
    BY <2>1, <2>2 DEF ServerInv
  <2>5. record.status = "ok" => ~ server.rejected > 0
    BY <2>1, <2>2 DEF RejectInv, Outcome
  <2>6. server.rows \in Nat /\ server.rejected \in Nat
    BY <2>1, Rows DEF TypeOK
  <2>7. /\ server.rejected > 0 => server.status \in {"partial", "rejected"}
        /\ server.rows > 0 => server.status \in {"accepted", "partial"}
        /\ ~ server.rejected > 0 => server.status \in {"none", "accepted"}
    <3>1. CASE server = NoRun
      BY <3>1, Rows
    <3>2. CASE server.status = ServerStatus(server.rows, server.rejected)
      BY <2>6, <3>2 DEF ServerStatus
    <3>3. QED
      BY <2>1, <3>1, <3>2 DEF ServerInv, Sound
  <2>8. QED
    BY <2>1, <2>3, <2>4, <2>5, <2>7
<1>2. QED
  BY Inductive, <1>1, PTL

\* Multiples of a whole number.
LEMMA Product ==
  ASSUME NEW n \in Nat
  PROVE  /\ \A x \in Int : n * x \in Int /\ (x >= 0 => n * x >= 0)
         /\ \A x \in Int : n * (x - 1) = n * x - n
         /\ \A x \in Int : x >= -1 => n * x >= 0 - n
         /\ \A x \in Int : n * (x - (x + 1)) = 0 - n
<1>1. \A x \in Int : n * x \in Int /\ (x >= 0 => n * x >= 0) /\ n * (x - 1) = n * x - n
  OBVIOUS
<1>2. ASSUME NEW x \in Int PROVE n * (x - (x + 1)) = 0 - n
  <2>1. x - (x + 1) = -1
    OBVIOUS
  <2>2. n * (-1) = 0 - n
    OBVIOUS
  <2>3. QED
    BY <2>1, <2>2
<1>3. ASSUME NEW x \in Int, x >= -1 PROVE n * x >= 0 - n
  <2>1. CASE x >= 0
    BY <1>1, <2>1
  <2>2. CASE x = -1
    BY <2>2
  <2>3. QED
    BY <1>3, <2>1, <2>2
<1>4. QED
  BY <1>1, <1>2, <1>3

\* A process comes nearer to its end by each of its steps, for every number of tables,
\* retries and rows: whatever fails and is written meanwhile, it takes at most the steps
\* left when it began, PerTable for each table and three more.
THEOREM RunsAdvance == Spec => RunAdvances
<1>1. ASSUME IInv, [Next]_vars PROVE [pc # "idle" => StepsLeft' < StepsLeft]_<<pc, at, attempt>>
  <2> SUFFICES ASSUME pc # "idle", <<pc, at, attempt>>' # <<pc, at, attempt>>
               PROVE  StepsLeft' < StepsLeft
    OBVIOUS
  <2> DEFINE tables == NumTables - at
             again  == 3 * (MaxRetries + 1 - attempt)
  <2>1. /\ TypeOK /\ BatchInv /\ PerTable \in Nat /\ PerTable > 0
        /\ at \in Int /\ attempt \in Int /\ again \in Nat /\ NumTables \in Nat
        /\ pc \in {"begun", "scan", "sent", "acked", "failed", "done"}
    <3>1. TypeOK /\ BatchInv
      BY <1>1 DEF IInv
    <3>2. /\ at \in Int /\ attempt \in 0..MaxRetries + 1
          /\ pc \in {"begun", "scan", "sent", "acked", "failed", "done"}
      BY <3>1, Numbers DEF TypeOK
    <3>3. MaxRetries \in Nat /\ NumTables \in Nat
      BY Numbers
    <3>4. again \in Nat /\ attempt \in Int /\ PerTable \in Nat /\ PerTable > 0
      BY <3>2, <3>3 DEF PerTable
    <3>5. QED
      BY <3>1, <3>2, <3>3, <3>4
  <2>2. /\ pc = "scan" => at \in 1..NumTables + 1
        /\ Posted => at \in 1..NumTables
    BY <2>1 DEF BatchInv, Table
  <2>3. /\ pc = "begun" => StepsLeft = 3 + PerTable * NumTables
        /\ pc = "scan" => StepsLeft = 2 + PerTable * tables + PerTable
        /\ pc = "sent" => StepsLeft = 2 + PerTable * tables + again + 3
        /\ pc = "acked" => StepsLeft = 2 + PerTable * tables + again + 2
        /\ pc = "failed" => StepsLeft = 2 + PerTable * tables + again + 1
        /\ pc = "done" => StepsLeft = 1
    BY <2>1 DEF StepsLeft
  <2>4. /\ PerTable * tables \in Int /\ PerTable * (tables - 1) = PerTable * tables - PerTable
        /\ PerTable * (NumTables - (NumTables + 1)) = 0 - PerTable
        /\ PerTable * (NumTables - 1) = PerTable * NumTables - PerTable
        /\ PerTable * NumTables \in Int /\ PerTable * NumTables >= 0
        /\ Posted => PerTable * tables >= 0
        /\ pc = "scan" => PerTable * tables >= 0 - PerTable
    BY <2>1, <2>2, Product
  <2> HIDE DEF again
  <2>5. CASE StartRun
    <3>1. pc = "begun" /\ pc' = "scan" /\ at' = 1
      BY <2>5 DEF StartRun
    <3>2. StepsLeft' = 2 + PerTable * (NumTables - 1) + PerTable
      BY <2>1, <3>1 DEF StepsLeft, PerTable
    <3>3. QED
      BY <2>1, <2>3, <2>4, <3>1, <3>2
  <2>6. ASSUME NEW t \in Table, Skip(t) PROVE StepsLeft' < StepsLeft
    <3>1. pc = "scan" /\ pc' = "scan" /\ at' = at + 1
      BY <2>6 DEF Skip
    <3>2. StepsLeft' = 2 + PerTable * (tables - 1) + PerTable
      BY <2>1, <3>1 DEF StepsLeft, PerTable
    <3>3. QED
      BY <2>1, <2>3, <2>4, <3>1, <3>2
  <2>7. ASSUME NEW t \in Table, Post(t) PROVE StepsLeft' < StepsLeft
    <3>1. pc = "scan" /\ pc' = "sent" /\ at' = at /\ attempt' = 1
      BY <2>7 DEF Post
    <3>2. StepsLeft' = 2 + PerTable * tables + 3 * MaxRetries + 3
      BY <2>1, <3>1, Numbers DEF StepsLeft, PerTable
    <3>3. PerTable = 1 + 3 * MaxRetries + 3
      BY Numbers DEF PerTable
    <3>4. QED
      BY <2>1, <2>3, <2>4, <3>1, <3>2, <3>3, Numbers
  \* The batch at hand is committed; a request left behind changes nothing here.
  <2>8. ASSUME NEW r \in requests, Commit(r) PROVE StepsLeft' < StepsLeft
    <3>1. pc = "sent" /\ pc' = "acked" /\ at' = at /\ attempt' = attempt
      BY <2>8 DEF Commit, IsCurrent
    <3>2. StepsLeft' = 2 + PerTable * tables + again + 2
      BY <3>1 DEF StepsLeft, PerTable, again
    <3>3. QED
      BY <2>1, <2>3, <2>4, <3>1, <3>2
  <2>9. CASE Failed \/ TimedOut \/ AnswerLost
    <3>1. pc \in {"sent", "acked"} /\ pc' = "failed" /\ at' = at /\ attempt' = attempt
      BY <2>9 DEF Failed, TimedOut, AnswerLost
    <3>2. StepsLeft' = 2 + PerTable * tables + again + 1
      BY <3>1 DEF StepsLeft, PerTable, again
    <3>3. QED
      BY <2>1, <2>3, <2>4, <3>1, <3>2
  <2>10. CASE Retry
    <3>1. pc = "failed" /\ pc' = "sent" /\ at' = at /\ attempt' = attempt + 1
      BY <2>10 DEF Retry
    <3>2. StepsLeft' = 2 + PerTable * tables + 3 * (MaxRetries + 1 - (attempt + 1)) + 3
      BY <3>1 DEF StepsLeft, PerTable
    <3>3. 3 * (MaxRetries + 1 - (attempt + 1)) = again - 3
      BY <2>1, Numbers DEF again
    <3>4. QED
      BY <2>1, <2>3, <2>4, <3>1, <3>2, <3>3
  <2>11. CASE Refused \/ GiveUp
    <3>1. pc \in {"sent", "failed"} /\ pc' = "scan" /\ at' = NumTables + 1
      BY <2>11 DEF Refused, GiveUp, Abort, LeaveLoop
    <3>2. StepsLeft' = 2 + PerTable * (NumTables - (NumTables + 1)) + PerTable
      BY <2>1, <3>1 DEF StepsLeft, PerTable
    <3>3. Posted
      BY <3>1 DEF Posted
    <3>4. QED
      BY <2>1, <2>3, <2>4, <3>1, <3>2, <3>3
  <2>12. ASSUME NEW t \in Table, Advance(t) PROVE StepsLeft' < StepsLeft
    <3>1. pc = "acked" /\ pc' = "scan" /\ at' = at + 1
      BY <2>12 DEF Advance, NextTable
    <3>2. StepsLeft' = 2 + PerTable * (tables - 1) + PerTable
      BY <2>1, <3>1 DEF StepsLeft, PerTable
    <3>3. QED
      BY <2>1, <2>3, <2>4, <3>1, <3>2
  <2>13. StepsLeft > 0 /\ (pc # "done" => StepsLeft > 1)
    BY <2>1, <2>3, <2>4 DEF Posted
  <2>14. CASE Finish
    <3>1. StepsLeft' = 1 /\ pc # "done"
      BY <2>14 DEF Finish, StepsLeft
    <3>2. QED
      BY <2>1, <2>3, <2>4, <2>13, <3>1
  <2>15. CASE Exit \/ Die
    <3>1. StepsLeft' = 0
      BY <2>15 DEF Exit, Die, StepsLeft
    <3>2. QED
      BY <2>1, <2>3, <2>4, <2>13, <3>1
  <2>16. /\ ~ Begin /\ ~ UNCHANGED vars /\ \A t \in Table : ~ Write(t)
         /\ \A r \in requests : ~ ReadRun(r)
    <3>1. ~ Begin
      BY DEF Begin
    <3>2. ~ UNCHANGED vars
      BY DEF vars
    <3>3. ASSUME NEW t \in Table PROVE ~ Write(t)
      BY DEF Write
    <3>4. ASSUME NEW r \in requests PROVE ~ ReadRun(r)
      BY DEF ReadRun
    <3>5. QED
      BY <3>1, <3>2, <3>3, <3>4
  <2>17. QED
    BY <1>1, <2>5, <2>6, <2>7, <2>8, <2>9, <2>10, <2>11, <2>12, <2>14, <2>15, <2>16
       DEF Next, Worker, Server
<1>2. QED
  BY Inductive, <1>1, PTL DEF Spec, RunAdvances

=============================================================================
