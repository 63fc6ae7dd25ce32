-------------------------- MODULE StreamSync_proofs --------------------------
(***************************************************************************)
(* Proofs about StreamSync, for every set of keys, batch limit, number of  *)
(* retries and bound.                                                      *)
(***************************************************************************)
EXTENDS StreamSync, TLAPS

USE ConstantsOK

-----------------------------------------------------------------------------
(* Facts about one request.                                                *)

\* A request's largest position is the one of its last row (batch_max_cursor).
LEMMA LastIsMax ==
  ASSUME NEW r \in Request, NEW last \in r.rows,
         \A x \in r.rows : x.seq <= last.seq
  PROVE  BatchMax(r) = last.seq
<1>1. last.seq \in Batch(r) /\ \A m \in Batch(r) : m <= last.seq
  BY DEF Batch
<1>2. Batch(r) \subseteq Nat
  BY DEF Batch, Request, Row
<1>3. \A n \in Batch(r) : (\A m \in Batch(r) : m <= n) => n = last.seq
  BY <1>1, <1>2
<1>4. QED
  BY <1>1, <1>3 DEF BatchMax

\* A non-empty request's largest position is one of its rows' positions, and
\* none of them is above it.
LEMMA MaxOfBatch ==
  ASSUME NEW r \in Request, HasLast(r)
  PROVE  /\ BatchMax(r) \in Nat \ {0}
         /\ \E x \in r.rows : x.seq = BatchMax(r)
         /\ \A x \in r.rows : x.seq <= BatchMax(r)
<1>1. PICK last \in r.rows : \A x \in r.rows : x.seq <= last.seq
  BY DEF HasLast
<1>2. BatchMax(r) = last.seq
  BY <1>1, LastIsMax
<1>3. QED
  BY <1>1, <1>2 DEF Request, Row

\* The new checkpoint is at least the batch's last position and the old
\* checkpoint of the same generation, and it is one of the two.
LEMMA NewCursorBounds ==
  ASSUME NEW r \in Request, HasLast(r), srvCursor \in [epoch : Nat, val : Nat]
  PROVE  /\ NewCursor(r) \in Nat \ {0}
         /\ NewCursor(r) >= BatchMax(r)
         /\ srvCursor.epoch = r.epoch => NewCursor(r) >= srvCursor.val
         /\ \/ NewCursor(r) = BatchMax(r)
            \/ srvCursor.epoch = r.epoch /\ NewCursor(r) = srvCursor.val
BY MaxOfBatch DEF NewCursor

\* What is stored for a request are versions of its generation.
LEMMA IncomingType ==
  ASSUME NEW r \in Request
  PROVE  Incoming(r) \subseteq Stamped(r) /\ Stamped(r) \subseteq Version
BY DEF Incoming, Stamped, Stamp, Valid, Request, Row, Version

\* Rows read from the edge table: non-empty, current versions above the cursor,
\* with a last one up to which nothing is left out.
LEMMA BatchRead ==
  ASSUME BaseInv, NEW rows \in SUBSET EdgeRows, ReadRows(rows)
  PROVE  /\ rows \in SUBSET Row
         /\ \E last \in rows : \A x \in rows : x.seq <= last.seq
         /\ \A x \in rows : /\ cursor < x.seq /\ x.seq <= counter
                            /\ x.seq = row[x.key].seq /\ x.kind = row[x.key].kind
         /\ \A k \in Key : \A last \in rows :
              cursor < row[k].seq /\ row[k].seq <= last.seq
                => [key |-> k, seq |-> row[k].seq, kind |-> row[k].kind] \in rows
<1> DEFINE above == {x \in EdgeRows : x.seq > cursor}
<1>1. PICK top \in above : rows = {x \in above : x.seq <= top.seq}
  BY DEF ReadRows
<1>2. \A x \in EdgeRows : /\ x \in Row /\ x.seq <= counter
                          /\ x.seq = row[x.key].seq /\ x.kind = row[x.key].kind
  BY DEF EdgeRows, Row, EdgeRow, BaseInv, TypeOK
<1>3. \A k \in Key : cursor < row[k].seq
        => [key |-> k, seq |-> row[k].seq, kind |-> row[k].kind] \in above
  BY DEF EdgeRows, EdgeRow, BaseInv, TypeOK
<1>4. \A x \in above : x.seq \in Nat /\ x.seq <= x.seq
  BY <1>2 DEF Row
<1>5. top \in rows /\ \A x \in rows : x.seq <= top.seq
  BY <1>1, <1>4
<1>6. ASSUME NEW k \in Key, NEW last \in rows,
             cursor < row[k].seq, row[k].seq <= last.seq
      PROVE  [key |-> k, seq |-> row[k].seq, kind |-> row[k].kind] \in rows
  <2>1. last.seq <= top.seq /\ last.seq \in Nat /\ top.seq \in Nat /\ row[k].seq \in Nat
    BY <1>1, <1>2, <1>4 DEF BaseInv, TypeOK, EdgeRow
  <2>2. row[k].seq <= top.seq
    BY <1>6, <2>1
  <2> QED
    BY <1>1, <1>3, <1>6, <2>2
<1>7. \A x \in rows : cursor < x.seq
  BY <1>1, <1>2 DEF Row, BaseInv, TypeOK
<1>8. QED
  BY <1>1, <1>2, <1>5, <1>6, <1>7

-----------------------------------------------------------------------------
(* The base invariant: types and bounds, in every configuration.           *)

\* Every request is a request, the one of the run included.
LEMMA InFlightType ==
  ASSUME TypeOK
  PROVE  InFlight \subseteq Request
BY DEF TypeOK, InFlight

\* Only the start of a run puts a new request in flight.
LEMMA NoNewRequest ==
  ASSUME Next, ~ StartRun
  PROVE  InFlight' \subseteq InFlight
<1> USE DEF InFlight, edgeVars, runVars, serverVars, vars
<1>1. CASE \E k \in Key, kind \in Kinds : Write(k, kind)
  BY <1>1 DEF Write
<1>2. CASE EmptyRun \/ Retry \/ GiveUp \/ Refused \/ Advance
  BY <1>2 DEF EmptyRun, Retry, GiveUp, Refused, Advance, EndRun
<1>3. CASE TransportError \/ Crash \/ Reflash
  BY <1>3 DEF TransportError, Crash, Reflash, Abandon, EndRun
<1>4. CASE Server
  BY <1>4 DEF Server, ServerAccept, ServerError, LateArrives, LateLost
<1>5. CASE DeployContract \/ ResetServerCursor
  BY <1>5 DEF DeployContract, ResetServerCursor
<1>6. QED
  BY <1>1, <1>2, <1>3, <1>4, <1>5 DEF Next, Worker, Operator

\* The conjuncts of BaseInv about the requests in flight and the run.
LEMMA InitBase == Init => BaseInv
BY DEF Init, BaseInv, TypeOK, InFlight, Absent, EdgeRow, NoRequest, NoCursor,
       Request, Version

\* Every step keeps the base invariant.
LEMMA StepBase == BaseInv /\ [Next]_vars => BaseInv'
<1> SUFFICES ASSUME BaseInv, [Next]_vars
             PROVE  BaseInv'
  OBVIOUS
<1>1. ASSUME NEW k \in Key, NEW kind \in Kinds, Write(k, kind)
      PROVE  BaseInv'
  BY <1>1 DEF Write, BaseInv, TypeOK, InFlight, EdgeRow, Request, Row,
              runVars, serverVars
<1>2. CASE StartRun
  <2>1. PICK rows \in SUBSET EdgeRows :
          ReadRows(rows) /\ req' = [epoch |-> epoch, rows |-> rows]
    BY <1>2 DEF StartRun
  <2>2. /\ rows \in SUBSET Row
        /\ \E last \in rows : \A x \in rows : x.seq <= last.seq
        /\ \A x \in rows : cursor < x.seq /\ x.seq <= counter
    BY <2>1, BatchRead
  <2>3. req' \in Request /\ req'.epoch = epoch /\ req'.rows = rows
    BY <2>1, <2>2 DEF Request, BaseInv, TypeOK
  <2>4. InFlight' = late \cup {req'}
    BY <1>2 DEF StartRun, InFlight
  <2>5. HasLast(req')
    BY <2>2, <2>3 DEF HasLast
  <2>6. TypeOK'
    BY <1>2, <2>3 DEF StartRun, BaseInv, TypeOK, edgeVars, serverVars
  <2>7. \A r \in InFlight' :
          /\ HasLast(r) /\ 0 < r.epoch /\ r.epoch <= epoch
          /\ r.epoch = epoch => \A x \in r.rows : x.seq <= counter
    BY <2>2, <2>3, <2>4, <2>5 DEF BaseInv, InFlight, TypeOK
  <2> QED
    BY <1>2, <2>2, <2>3, <2>6, <2>7
       DEF StartRun, BaseInv, TypeOK, HasLast, edgeVars, serverVars
<1>3. ASSUME Next, ~ StartRun, UNCHANGED <<epoch, counter>>, TypeOK',
             pc' # "idle" => UNCHANGED <<req, cursor>> /\ pc # "idle",
             pc' = "acked" => cursor < ack' /\ ack' <= counter,
             srvCursor' = NoCursor \/ 0 < srvCursor'.epoch,
             srvCursor'.epoch <= epoch,
             srvCursor'.epoch = epoch => srvCursor'.val <= counter,
             LateRequests \/ late' = {}
      PROVE  BaseInv'
  <2>1. InFlight' \subseteq InFlight
    BY <1>3, NoNewRequest
  <2> QED
    BY <1>3, <2>1 DEF BaseInv, HasLast
<1>4. CASE EmptyRun
  BY <1>4 DEF EmptyRun, vars, edgeVars, runVars, serverVars, BaseInv, TypeOK,
              InFlight, HasLast
<1>5. CASE Retry
  <2>1. ~ StartRun /\ Next
    BY <1>5 DEF Retry, StartRun, Next, Worker
  <2>2. attempt + 1 \in 0..MaxRetries + 1
    BY <1>5 DEF Retry, BaseInv, TypeOK
  <2> QED
    BY <1>3, <1>5, <2>1, <2>2 DEF Retry, BaseInv, TypeOK, edgeVars, serverVars
<1>6. CASE GiveUp \/ Refused
  <2>1. ~ StartRun /\ Next
    BY <1>6 DEF GiveUp, Refused, StartRun, Next, Worker, EndRun
  <2> QED
    BY <1>3, <1>6, <2>1
       DEF GiveUp, Refused, EndRun, NoRequest, Request, BaseInv, TypeOK,
           edgeVars, serverVars
<1>7. CASE Advance
  <2>1. ~ StartRun /\ Next
    BY <1>7 DEF Advance, StartRun, Next, Worker, EndRun
  <2> QED
    BY <1>3, <1>7, <2>1
       DEF Advance, EndRun, NoRequest, Request, BaseInv, TypeOK, serverVars
<1>8. CASE TransportError \/ Crash
  <2>1. ~ StartRun /\ Next
    BY <1>8 DEF TransportError, Crash, StartRun, Next, Worker, EndRun
  <2>2. late' \in SUBSET Request /\ (LateRequests \/ late' = {})
    BY <1>8 DEF TransportError, Crash, Abandon, BaseInv, TypeOK
  <2> QED
    BY <1>3, <1>8, <2>1, <2>2
       DEF TransportError, Crash, EndRun, NoRequest, Request, BaseInv, TypeOK,
           edgeVars, serverVars
<1>9. CASE ServerError \/ \E r \in late : LateLost(r)
  <2>1. ~ StartRun /\ Next
    BY <1>9 DEF ServerError, LateLost, StartRun, Next, Server, runVars
  <2> QED
    BY <1>3, <1>9, <2>1
       DEF ServerError, LateLost, BaseInv, TypeOK, edgeVars, runVars, serverVars
<1>10. ASSUME NEW r \in InFlight, Commit(r)
       PROVE  /\ stored' \in SUBSET Version
              /\ srvCursor' \in [epoch : Nat, val : Nat]
              /\ 0 < srvCursor'.epoch /\ srvCursor'.epoch <= epoch
              /\ srvCursor'.epoch = epoch => srvCursor'.val <= counter
              /\ NewCursor(r) \in Nat /\ NewCursor(r) >= BatchMax(r)
              /\ srvCursor'.epoch = r.epoch /\ srvCursor'.val = NewCursor(r)
              /\ \E x \in r.rows : x.seq = BatchMax(r)
  <2>1. r \in Request /\ HasLast(r) /\ 0 < r.epoch /\ r.epoch <= epoch
        /\ (r.epoch = epoch => \A x \in r.rows : x.seq <= counter)
    BY InFlightType DEF BaseInv
  <2>2. srvCursor \in [epoch : Nat, val : Nat] /\ stored \in SUBSET Version
    BY DEF BaseInv, TypeOK
  <2>3. stored' \in SUBSET Version
    BY <1>10, <2>1, <2>2, IncomingType DEF Commit, Upsert
  <2>4. r.epoch = epoch => NewCursor(r) <= counter
    BY <2>1, <2>2, NewCursorBounds, MaxOfBatch DEF BaseInv
  <2> QED
    BY <1>10, <2>1, <2>2, <2>3, <2>4, NewCursorBounds, MaxOfBatch
       DEF Commit, Request
<1>11. CASE ServerAccept
  <2>1. ~ StartRun /\ Next
    BY <1>11 DEF ServerAccept, StartRun, Next, Server
  <2>2. req \in InFlight /\ req.epoch = epoch /\ Commit(req)
    BY <1>11 DEF ServerAccept, InFlight, BaseInv
  <2>3. ack' = NewCursor(req) /\ pc' = "acked"
    BY <1>11 DEF ServerAccept
  <2>4. cursor < ack' /\ ack' <= counter /\ ack' \in Nat
    <3>1. PICK x \in req.rows : x.seq = BatchMax(req)
      BY <1>10, <2>2
    <3>2. cursor < BatchMax(req)
      BY <1>11, <3>1 DEF ServerAccept, BaseInv
    <3> QED
      BY <1>10, <2>2, <2>3, <3>1, <3>2, MaxOfBatch, InFlightType
         DEF BaseInv, TypeOK
  <2>5. TypeOK'
    BY <1>10, <1>11, <2>2, <2>3, <2>4 DEF ServerAccept, BaseInv, TypeOK, edgeVars
  <2> QED
    BY <1>3, <1>10, <1>11, <2>1, <2>2, <2>4, <2>5
       DEF ServerAccept, BaseInv, edgeVars
<1>12. ASSUME NEW r \in late, LateArrives(r)
       PROVE  BaseInv'
  <2>1. ~ StartRun /\ Next
    BY <1>12 DEF LateArrives, StartRun, Next, Server, runVars
  <2>2. r \in InFlight /\ Commit(r)
    BY <1>12 DEF LateArrives, InFlight
  <2>3. TypeOK'
    BY <1>10, <1>12, <2>2 DEF LateArrives, BaseInv, TypeOK, edgeVars, runVars
  <2> QED
    BY <1>3, <1>10, <1>12, <2>1, <2>2, <2>3
       DEF LateArrives, BaseInv, edgeVars, runVars
<1>13. CASE Reflash
  <2>1. InFlight' \subseteq InFlight
    BY <1>13, NoNewRequest DEF Reflash, EndRun, StartRun, Next, Operator
  <2>2. /\ epoch' = epoch + 1 /\ epoch' \in 1..MaxEpoch
        /\ pc' = "idle" /\ cursor' = 0 /\ counter' = 0
    BY <1>13 DEF Reflash, EndRun, BaseInv, TypeOK
  <2>3. late' \in SUBSET Request /\ (LateRequests \/ late' = {})
    BY <1>13 DEF Reflash, Abandon, BaseInv, TypeOK
  <2>4. TypeOK'
    BY <1>13, <2>2, <2>3
       DEF Reflash, EndRun, NoRequest, Absent, EdgeRow, Request, BaseInv, TypeOK,
           serverVars
  <2>5. \A r \in InFlight' : /\ r.epoch \in Nat /\ HasLast(r)
                           /\ 0 < r.epoch /\ r.epoch <= epoch
    BY <2>1, InFlightType DEF BaseInv, Request
  <2>6. srvCursor' = srvCursor /\ srvCursor.epoch \in Nat /\ epoch \in Nat
    BY <1>13 DEF Reflash, serverVars, BaseInv, TypeOK
  <2> QED
    BY <2>2, <2>3, <2>4, <2>5, <2>6 DEF BaseInv, HasLast
<1>14. CASE DeployContract \/ ResetServerCursor
  <2>1. ~ StartRun /\ Next
    BY <1>14 DEF DeployContract, ResetServerCursor, StartRun, Next, Operator, runVars
  <2> QED
    BY <1>3, <1>14, <2>1
       DEF DeployContract, ResetServerCursor, NoCursor, BaseInv, TypeOK, edgeVars,
           runVars
<1>15. CASE UNCHANGED vars
  BY <1>15 DEF vars, edgeVars, runVars, serverVars, BaseInv, TypeOK, InFlight,
               HasLast
<1>16. QED
  BY <1>1, <1>2, <1>4, <1>5, <1>6, <1>7, <1>8, <1>9, <1>11, <1>12, <1>13, <1>14,
     <1>15 DEF Next, Worker, Server, Operator

\* The base invariant holds in every state, in every configuration.
THEOREM BaseInvariant == Spec => []BaseInv
BY InitBase, StepBase, PTL DEF Spec

\* Type correctness: among others, a batch is attempted at most MaxRetries + 1
\* times and the edge's cursor never passes the last position given out.
THEOREM TypeCorrect == Spec => []TypeOK
<1>1. BaseInv => TypeOK
  BY DEF BaseInv
<1>2. QED
  BY <1>1, BaseInvariant, PTL

-----------------------------------------------------------------------------
(* Durability: what is acknowledged is held.                               *)

\* Where nothing older can replace a newer version, a request that arrives in a
\* summary table is the run's own.
LEMMA OnlyTheRunsRequest ==
  ASSUME NoStaleUpsert, BaseInv, Strategy # "append", NEW r \in InFlight
  PROVE  r = req /\ r.epoch = epoch /\ \A x \in r.rows : cursor < x.seq
BY DEF NoStaleUpsert, BaseInv, InFlight

\* A commit keeps a current version: always in an append table, in a summary
\* table unless it is newer than the batch and the checkpoint.
LEMMA CommitKeeps ==
  ASSUME NoStaleUpsert, BaseInv, DurableInv, NEW r \in InFlight, Commit(r),
         NEW k \in Key, 0 < row[k].seq, Current(k) \in stored,
         \/ Strategy = "append"
         \/ \E y \in r.rows : row[k].seq <= y.seq
         \/ srvCursor.epoch = epoch /\ row[k].seq <= srvCursor.val
  PROVE  Current(k) \in stored'
<1>1. SUFFICES ASSUME NEW w \in Incoming(r), Conflict(Current(k), w)
               PROVE  w = Current(k)
  BY DEF Commit, Upsert
<1>2. PICK x \in r.rows : w = [epoch |-> r.epoch, key |-> x.key, seq |-> x.seq]
  BY DEF Incoming, Stamp, Valid
<1>3. r \in Request /\ x \in Row
  BY InFlightType DEF BaseInv, Request
<1>4. row \in [Key -> EdgeRow] /\ srvCursor.val \in Nat
  BY DEF BaseInv, TypeOK
<1>5. CASE Strategy = "append"
  <2>1. r.epoch = epoch /\ x.seq = row[k].seq
    BY <1>1, <1>2, <1>5 DEF Conflict, Current
  <2>2. x.seq = row[x.key].seq
    BY <1>5, <2>1 DEF DurableInv, UpToDate
  <2>3. x.key = k
    BY <1>3, <1>5, <2>1, <2>2 DEF DurableInv, Row
  <2> QED
    BY <1>2, <2>1, <2>3 DEF Current
<1>6. CASE Strategy # "append"
  <2>1. r.epoch = epoch /\ x.key = k
    BY <1>1, <1>2, <1>6, OnlyTheRunsRequest DEF Conflict, Current
  <2>2. UpToDate(r, x)
    BY <2>1 DEF DurableInv
  <2>3. \A y \in r.rows : y.seq \in Nat
    BY <1>3 DEF Request, Row
  <2>4. x.seq = row[k].seq
    BY <1>4, <1>6, <2>1, <2>2, <2>3 DEF UpToDate, EdgeRow
  <2> QED
    BY <1>2, <2>1, <2>4 DEF Current
<1>7. QED
  BY <1>5, <1>6

\* After a commit every current version up to the batch's last position is held.
LEMMA CommitDelivers ==
  ASSUME NoStaleUpsert, BaseInv, DurableInv, NEW r \in InFlight, Commit(r),
         r.epoch = epoch,
         NEW k \in Key, 0 < row[k].seq, row[k].seq <= BatchMax(r),
         row[k].kind = "good"
  PROVE  Current(k) \in stored'
<1>1. r \in Request /\ HasLast(r)
  BY InFlightType DEF BaseInv
<1>2. PICK last \in r.rows : last.seq = BatchMax(r)
  BY <1>1, MaxOfBatch
<1>3. CASE Current(k) \in stored
  BY <1>2, <1>3, CommitKeeps
<1>4. CASE [key |-> k, seq |-> row[k].seq, kind |-> "good"] \in r.rows
  <2> DEFINE x == [key |-> k, seq |-> row[k].seq, kind |-> "good"]
  <2>1. x \in Valid(r)
    BY <1>4 DEF Valid
  <2>2. Current(k) \in Incoming(r)
    BY <2>1 DEF Incoming, Stamp, Current
  <2> QED
    BY <2>2 DEF Commit, Upsert
<1>5. NoGap(r)
  BY DEF DurableInv
<1>6. QED
  BY <1>2, <1>3, <1>4, <1>5 DEF NoGap

\* A commit keeps every promise, and makes the new checkpoint one.
LEMMA CommitDurable ==
  ASSUME NoStaleUpsert, BaseInv, DurableInv, NEW r \in InFlight, Commit(r),
         UNCHANGED edgeVars, InFlight' \subseteq InFlight
  PROVE  /\ AckedDurable' /\ CheckpointDurable'
         /\ r.epoch = epoch => \A k \in Key :
              0 < row[k].seq /\ row[k].seq <= NewCursor(r) /\ row[k].kind = "good"
                => Current(k) \in stored'
         /\ \A n \in Nat : Strategy = "append" /\ HeldUpTo(n) => HeldUpTo(n)'
         /\ \A q \in InFlight' :
              q.epoch = epoch => NoGap(q)' /\ \A x \in q.rows : UpToDate(q, x)'
<1> USE DEF edgeVars
<1>1. r \in Request /\ HasLast(r) /\ InFlight \subseteq Request
  BY InFlightType DEF BaseInv
<1>2. /\ row \in [Key -> EdgeRow] /\ srvCursor \in [epoch : Nat, val : Nat]
      /\ cursor \in Nat /\ epoch \in Nat
  BY DEF BaseInv, TypeOK
<1>3. BatchMax(r) \in Nat /\ NewCursor(r) \in Nat
      /\ \A y \in r.rows : y.seq \in Nat /\ y.seq <= BatchMax(r)
  BY <1>1, <1>2, MaxOfBatch, NewCursorBounds DEF Request, Row
<1>4. \A k \in Key : Current(k)' = Current(k)
  BY DEF Current
<1>5. AckedDurable'
  <2>1. SUFFICES ASSUME NEW k \in Key, 0 < row[k].seq, row[k].seq <= cursor,
                        row[k].kind = "good"
                 PROVE  Current(k) \in stored'
    BY <1>4 DEF AckedDurable, HeldUpTo
  <2>2. Current(k) \in stored
    BY <2>1 DEF DurableInv, AckedDurable, HeldUpTo
  <2>3. PICK y \in r.rows : TRUE
    BY <1>1 DEF HasLast
  <2>4. Strategy # "append" => row[k].seq <= y.seq
    BY <1>2, <1>3, <2>1, <2>3, OnlyTheRunsRequest DEF EdgeRow
  <2> QED
    BY <2>1, <2>2, <2>4, CommitKeeps
<1>6. ASSUME r.epoch = epoch, NEW k \in Key, 0 < row[k].seq,
             row[k].seq <= NewCursor(r), row[k].kind = "good"
      PROVE  Current(k) \in stored'
  <2>1. CASE row[k].seq <= BatchMax(r)
    BY <1>6, <2>1, CommitDelivers
  <2>2. CASE srvCursor.epoch = epoch /\ row[k].seq <= srvCursor.val
    <3>1. Current(k) \in stored
      BY <1>6, <2>2 DEF DurableInv, CheckpointDurable, HeldUpTo
    <3> QED
      BY <1>6, <2>2, <3>1, CommitKeeps
  <2> QED
    BY <1>1, <1>2, <1>6, <2>1, <2>2, NewCursorBounds
<1>7. CheckpointDurable'
  <2>1. srvCursor' = [epoch |-> r.epoch, val |-> NewCursor(r)]
    BY DEF Commit
  <2> QED
    BY <1>4, <1>6, <2>1 DEF CheckpointDurable, HeldUpTo
<1>8. ASSUME NEW n \in Nat, Strategy = "append", HeldUpTo(n)
      PROVE  HeldUpTo(n)'
  BY <1>4, <1>8, CommitKeeps DEF HeldUpTo
<1>9. ASSUME NEW q \in InFlight', q.epoch = epoch
      PROVE  NoGap(q)'
  <2>1. SUFFICES ASSUME NEW k \in Key, NEW last \in q.rows, 0 < row[k].seq,
                        row[k].seq <= last.seq, row[k].kind = "good",
                        Current(k) \in stored
                 PROVE  Current(k) \in stored'
    BY <1>4, <1>9 DEF NoGap, DurableInv
  <2>2. Strategy # "append" => q = r
    BY OnlyTheRunsRequest
  <2> QED
    BY <2>1, <2>2, CommitKeeps
<1>10. ASSUME NEW q \in InFlight', q.epoch = epoch, NEW x \in q.rows
       PROVE  UpToDate(q, x)'
  <2>1. UpToDate(q, x) /\ q \in Request
    BY <1>1, <1>10 DEF DurableInv
  <2>2. Strategy # "append" => q = r
    BY OnlyTheRunsRequest
  <2>3. srvCursor' = [epoch |-> r.epoch, val |-> NewCursor(r)]
    BY DEF Commit
  <2>4. ASSUME Strategy = "summary", \A y \in q.rows : y.seq < row[x.key].seq,
               srvCursor.epoch = epoch => srvCursor.val < row[x.key].seq
        PROVE  NewCursor(r) < row[x.key].seq
    <3>1. q = r /\ r.epoch = epoch
      BY <1>10, <2>2, <2>4
    <3>2. BatchMax(r) < row[x.key].seq
      BY <1>1, <2>4, <3>1, MaxOfBatch
    <3> QED
      BY <1>1, <1>2, <2>4, <3>1, <3>2, NewCursorBounds
  <2> QED
    BY <2>1, <2>3, <2>4 DEF UpToDate
<1>11. QED
  BY <1>5, <1>6, <1>7, <1>8, <1>9, <1>10

LEMMA InitDurable == Init => DurableInv
BY DEF Init, DurableInv, AckedDurable, CheckpointDurable, HeldUpTo, InFlight,
       Absent, NoCursor

\* Every step keeps the durability invariant.
LEMMA StepDurable ==
  NoStaleUpsert /\ BaseInv /\ BaseInv' /\ DurableInv /\ [Next]_vars => DurableInv'
<1> SUFFICES ASSUME NoStaleUpsert, BaseInv, BaseInv', DurableInv, [Next]_vars
             PROVE  DurableInv'
  OBVIOUS
<1>1. ASSUME NEW k \in Key, NEW kind \in Kinds, Write(k, kind)
      PROVE  DurableInv'
  <2>1. /\ row' = [row EXCEPT ![k] = [seq |-> counter + 1, kind |-> kind]]
        /\ Strategy = "append" => row[k] = Absent
        /\ UNCHANGED <<epoch, cursor, pc, ack, stored, srvCursor>>
        /\ InFlight' = InFlight
    BY <1>1 DEF Write, runVars, serverVars, InFlight
  <2>2. /\ row \in [Key -> EdgeRow] /\ counter \in Nat /\ cursor \in Nat
        /\ cursor <= counter /\ ack \in Nat
        /\ \A j \in Key : row[j].seq \in Nat /\ row[j].seq <= counter
        /\ srvCursor \in [epoch : Nat, val : Nat]
        /\ srvCursor.epoch = epoch => srvCursor.val <= counter
    BY DEF BaseInv, TypeOK, EdgeRow
  <2>3. \A j \in Key : j # k => row'[j] = row[j] /\ Current(j)' = Current(j)
    BY <2>1, <2>2 DEF Current
  <2>4. row'[k].seq = counter + 1
    BY <2>1, <2>2
  <2>5. ASSUME NEW n \in Nat, n <= counter, HeldUpTo(n)
        PROVE  HeldUpTo(n)'
    BY <2>1, <2>2, <2>3, <2>4, <2>5 DEF HeldUpTo
  <2>6. AckedDurable'
    BY <2>1, <2>2, <2>5 DEF AckedDurable, DurableInv
  <2>7. CheckpointDurable' /\ (pc' = "acked" => HeldUpTo(ack)')
    BY <2>1, <2>2, <2>5 DEF CheckpointDurable, DurableInv, BaseInv
  <2>8. ASSUME NEW r \in InFlight, r.epoch = epoch
        PROVE  NoGap(r)' /\ \A x \in r.rows : UpToDate(r, x)'
    <3>1. r \in Request /\ \A x \in r.rows : x.seq <= counter /\ UpToDate(r, x)
      BY <2>8, InFlightType DEF BaseInv, DurableInv
    <3>2. \A x \in r.rows : x.seq \in Nat \ {0} /\ x.key \in Key
      BY <3>1 DEF Request, Row
    <3>3. NoGap(r)'
      <4>1. NoGap(r)
        BY <2>8 DEF DurableInv
      <4> QED
        BY <2>1, <2>2, <2>3, <2>4, <3>1, <3>2, <4>1 DEF NoGap
    <3>4. ASSUME NEW x \in r.rows
          PROVE  UpToDate(r, x)'
      <4>1. CASE x.key # k
        BY <2>1, <2>3, <3>1, <3>2, <4>1 DEF UpToDate
      <4>2. CASE x.key = k
        <5>1. Strategy = "summary"
          <6>1. row[k] = Absent => x.seq # row[x.key].seq
            BY <3>2, <4>2 DEF Absent
          <6> QED
            BY <2>1, <3>1, <6>1 DEF UpToDate
        <5> QED
          BY <2>1, <2>2, <2>4, <3>1, <3>2, <4>2, <5>1 DEF UpToDate
      <4> QED
        BY <4>1, <4>2
    <3> QED
      BY <3>3, <3>4
  <2>9. Strategy = "append" =>
          \A i, j \in Key : 0 < row'[i].seq /\ row'[i].seq = row'[j].seq => i = j
    BY <2>2, <2>3, <2>4 DEF DurableInv
  <2> QED
    BY <2>1, <2>6, <2>7, <2>8, <2>9 DEF DurableInv
<1>2. CASE StartRun
  <2>1. PICK rows \in SUBSET EdgeRows :
          ReadRows(rows) /\ req' = [epoch |-> epoch, rows |-> rows]
    BY <1>2 DEF StartRun
  <2>2. /\ \A x \in rows : x.seq = row[x.key].seq /\ x.kind = row[x.key].kind
        /\ \A k \in Key : \A last \in rows :
             cursor < row[k].seq /\ row[k].seq <= last.seq
               => [key |-> k, seq |-> row[k].seq, kind |-> row[k].kind] \in rows
    BY <2>1, BatchRead
  <2>3. UNCHANGED <<epoch, row, cursor, ack, stored, srvCursor>> /\ pc' = "sent"
    BY <1>2 DEF StartRun, edgeVars, serverVars
  <2>4. InFlight' = InFlight \cup {req'}
    BY <1>2 DEF StartRun, InFlight
  <2>5. ASSUME NEW r, r.rows = rows
        PROVE  \A x \in r.rows : UpToDate(r, x)'
    BY <2>2, <2>3, <2>5 DEF UpToDate
  <2>6. ASSUME NEW r, r.rows = rows
        PROVE  NoGap(r)'
    <3>1. AckedDurable /\ row \in [Key -> EdgeRow] /\ cursor \in Nat
      BY DEF DurableInv, BaseInv, TypeOK
    <3>2. SUFFICES ASSUME NEW k \in Key, NEW last \in rows, 0 < row[k].seq,
                          row[k].seq <= last.seq, row[k].kind = "good"
                   PROVE  \/ Current(k) \in stored
                          \/ [key |-> k, seq |-> row[k].seq, kind |-> "good"] \in rows
      BY <2>3, <2>6 DEF NoGap, Current
    <3>3. CASE row[k].seq <= cursor
      BY <3>1, <3>2, <3>3 DEF AckedDurable, HeldUpTo
    <3>4. CASE cursor < row[k].seq
      BY <2>2, <3>2, <3>4
    <3> QED
      BY <3>1, <3>3, <3>4 DEF EdgeRow
  <2>7. \A r \in InFlight : r.epoch = epoch =>
          NoGap(r)' /\ \A x \in r.rows : UpToDate(r, x)'
    BY <2>3 DEF DurableInv, NoGap, UpToDate, Current
  <2>8. \A r \in InFlight' : r.epoch = epoch' =>
          NoGap(r)' /\ \A x \in r.rows : UpToDate(r, x)'
    BY <2>1, <2>3, <2>4, <2>5, <2>6, <2>7
  <2> QED
    BY <2>3, <2>8
       DEF DurableInv, AckedDurable, CheckpointDurable, HeldUpTo, Current
<1>3. ASSUME UNCHANGED <<epoch, row, stored>>, InFlight' \subseteq InFlight,
             cursor' = cursor \/ (pc = "acked" /\ cursor' = ack),
             pc' = "acked" => pc = "acked" /\ ack' = ack,
             srvCursor' = srvCursor \/ srvCursor' = NoCursor
      PROVE  DurableInv'
  <2>1. AckedDurable'
    BY <1>3 DEF AckedDurable, HeldUpTo, Current, DurableInv
  <2>2. CheckpointDurable'
    BY <1>3 DEF CheckpointDurable, HeldUpTo, Current, DurableInv, BaseInv, TypeOK,
                NoCursor
  <2>3. pc' = "acked" => HeldUpTo(ack)'
    BY <1>3 DEF HeldUpTo, Current, DurableInv
  <2>4. \A r \in InFlight' : r.epoch = epoch' =>
          NoGap(r)' /\ \A x \in r.rows : UpToDate(r, x)'
    BY <1>3 DEF DurableInv, NoGap, UpToDate, Current, BaseInv, TypeOK, NoCursor
  <2> QED
    BY <1>3, <2>1, <2>2, <2>3, <2>4 DEF DurableInv
<1>4. CASE EmptyRun \/ UNCHANGED vars
  <2>1. InFlight' \subseteq InFlight
    BY <1>4 DEF EmptyRun, vars, runVars, InFlight
  <2>2. /\ UNCHANGED <<epoch, row, stored>>
        /\ cursor' = cursor \/ (pc = "acked" /\ cursor' = ack)
        /\ pc' = "acked" => pc = "acked" /\ ack' = ack
        /\ srvCursor' = srvCursor \/ srvCursor' = NoCursor
    BY <1>4 DEF EmptyRun, vars, edgeVars, runVars, serverVars
  <2> QED
    BY <1>3, <2>1, <2>2
<1>5. CASE Retry \/ GiveUp \/ Refused \/ Advance \/ TransportError \/ Crash
  <2>1. ~ StartRun /\ Next
    BY <1>5 DEF Retry, GiveUp, Refused, Advance, TransportError, Crash, StartRun,
                Next, Worker, EndRun
  <2> QED
    BY <1>3, <1>5, <2>1, NoNewRequest
       DEF Retry, GiveUp, Refused, Advance, TransportError, Crash, EndRun,
           edgeVars, serverVars
<1>6. CASE ServerError \/ (\E r \in late : LateLost(r)) \/ DeployContract
             \/ ResetServerCursor
  <2>1. ~ StartRun /\ Next
    BY <1>6 DEF ServerError, LateLost, DeployContract, ResetServerCursor, StartRun,
                Next, Server, Operator, runVars
  <2> QED
    BY <1>3, <1>6, <2>1, NoNewRequest
       DEF ServerError, LateLost, DeployContract, ResetServerCursor,
           edgeVars, runVars, serverVars
<1>7. CASE ServerAccept
  <2>1. ~ StartRun /\ Next
    BY <1>7 DEF ServerAccept, StartRun, Next, Server
  <2>2. InFlight' \subseteq InFlight /\ req \in InFlight /\ req.epoch = epoch
    BY <1>7, <2>1, NoNewRequest DEF ServerAccept, InFlight, BaseInv
  <2>3. UNCHANGED edgeVars /\ Commit(req) /\ ack' = NewCursor(req)
    BY <1>7 DEF ServerAccept
  <2>4. /\ AckedDurable' /\ CheckpointDurable'
        /\ \A k \in Key :
             0 < row[k].seq /\ row[k].seq <= NewCursor(req) /\ row[k].kind = "good"
               => Current(k) \in stored'
        /\ \A q \in InFlight' :
             q.epoch = epoch => NoGap(q)' /\ \A x \in q.rows : UpToDate(q, x)'
    BY <2>2, <2>3, CommitDurable
  <2>5. HeldUpTo(ack)'
    BY <2>3, <2>4 DEF HeldUpTo, Current, edgeVars
  <2> QED
    BY <2>3, <2>4, <2>5 DEF DurableInv, edgeVars
<1>8. ASSUME NEW r \in late, LateArrives(r)
      PROVE  DurableInv'
  <2>1. ~ StartRun /\ Next
    BY <1>8 DEF LateArrives, StartRun, Next, Server, runVars
  <2>2. InFlight' \subseteq InFlight /\ r \in InFlight
    BY <2>1, NoNewRequest DEF InFlight
  <2>3. UNCHANGED edgeVars /\ UNCHANGED runVars /\ Commit(r) /\ Strategy = "append"
    BY <1>8 DEF LateArrives, NoStaleUpsert, BaseInv
  <2>4. /\ AckedDurable' /\ CheckpointDurable'
        /\ \A n \in Nat : HeldUpTo(n) => HeldUpTo(n)'
        /\ \A q \in InFlight' :
             q.epoch = epoch => NoGap(q)' /\ \A x \in q.rows : UpToDate(q, x)'
    BY <2>2, <2>3, CommitDurable
  <2>5. pc' = "acked" => HeldUpTo(ack)'
    BY <2>3, <2>4 DEF DurableInv, BaseInv, TypeOK, runVars
  <2> QED
    BY <2>3, <2>4, <2>5 DEF DurableInv, edgeVars
<1>9. CASE Reflash
  <2>1. InFlight' \subseteq InFlight
    BY <1>9, NoNewRequest DEF Reflash, EndRun, StartRun, Next, Operator
  <2>2. /\ epoch' = epoch + 1 /\ epoch \in Nat /\ srvCursor' = srvCursor
        /\ row' = [k \in Key |-> Absent] /\ pc' = "idle"
    BY <1>9 DEF Reflash, EndRun, serverVars, BaseInv, TypeOK
  <2>3. \A r \in InFlight' : r.epoch # epoch'
    BY <2>1, <2>2, InFlightType DEF BaseInv, Request
  <2>4. srvCursor.epoch # epoch'
    BY <2>2 DEF BaseInv, TypeOK
  <2> QED
    BY <2>2, <2>3, <2>4
       DEF DurableInv, AckedDurable, CheckpointDurable, HeldUpTo, Absent
<1>10. QED
  BY <1>1, <1>2, <1>4, <1>5, <1>6, <1>7, <1>8, <1>9
     DEF Next, Worker, Server, Operator

\* Where nothing older can replace a newer version, everything acknowledged is
\* held: by the cursor, the checkpoint and the answer in flight.
THEOREM DurableInvariant == NoStaleUpsert => (Spec => [](BaseInv /\ DurableInv))
<1> SUFFICES ASSUME NoStaleUpsert
             PROVE  Spec => [](BaseInv /\ DurableInv)
  OBVIOUS
<1>1. Init => BaseInv /\ DurableInv
  BY InitBase, InitDurable
<1>2. BaseInv /\ DurableInv /\ [Next]_vars => (BaseInv /\ DurableInv)'
  BY StepBase, StepDurable
<1>3. QED
  BY <1>1, <1>2, PTL DEF Spec

\* A row the edge's cursor has passed is on the server in its current version.
THEOREM AckedRowsAreDurable == NoStaleUpsert => (Spec => []AckedDurable)
<1> SUFFICES ASSUME NoStaleUpsert
             PROVE  Spec => []AckedDurable
  OBVIOUS
<1>1. BaseInv /\ DurableInv => AckedDurable
  BY DEF DurableInv
<1>2. QED
  BY <1>1, DurableInvariant, PTL

\* The checkpoint the server keeps for the edge's generation covers only rows it
\* holds.
THEOREM CheckpointIsDurable == NoStaleUpsert => (Spec => []CheckpointDurable)
<1> SUFFICES ASSUME NoStaleUpsert
             PROVE  Spec => []CheckpointDurable
  OBVIOUS
<1>1. BaseInv /\ DurableInv => CheckpointDurable
  BY DEF DurableInv
<1>2. QED
  BY <1>1, DurableInvariant, PTL

-----------------------------------------------------------------------------
(* Positions name rows; nothing stored in an append table is lost.         *)

LEMMA InitUnique == Init => PositionsUnique
BY DEF Init, PositionsUnique, Versions, InFlight, Absent

\* A step that creates no version keeps positions unique.
LEMMA SameVersions ==
  ASSUME PositionsUnique, BaseInv, BaseInv', Versions' \subseteq Versions,
         \/ UNCHANGED <<epoch, counter>>
         \/ epoch' > epoch
  PROVE  PositionsUnique'
<1>1. \A v \in Versions : v \in Version
  BY InFlightType, IncomingType
     DEF Versions, BaseInv, TypeOK, Current, EdgeRow, Version
<1>2. ASSUME NEW v \in Versions'
      PROVE  /\ v.epoch <= epoch'
             /\ v.epoch = epoch' => v.seq <= counter'
  <2>1. v \in Version /\ v.epoch <= epoch /\ (v.epoch = epoch => v.seq <= counter)
    BY <1>1 DEF PositionsUnique
  <2>2. epoch \in Nat /\ epoch' \in Nat
    BY DEF BaseInv, TypeOK
  <2> QED
    BY <2>1, <2>2 DEF Version
<1>3. QED
  BY <1>2 DEF PositionsUnique

\* Every step keeps positions unique.
LEMMA StepUnique ==
  BaseInv /\ BaseInv' /\ PositionsUnique /\ [Next]_vars => PositionsUnique'
<1> SUFFICES ASSUME BaseInv, BaseInv', PositionsUnique, [Next]_vars
             PROVE  PositionsUnique'
  OBVIOUS
<1>1. ASSUME NEW k \in Key, NEW kind \in Kinds, Write(k, kind)
      PROVE  PositionsUnique'
  <2>1. /\ row' = [row EXCEPT ![k] = [seq |-> counter + 1, kind |-> kind]]
        /\ counter' = counter + 1 /\ UNCHANGED <<epoch, stored>>
        /\ InFlight' = InFlight
    BY <1>1 DEF Write, runVars, serverVars, InFlight
  <2>2. row \in [Key -> EdgeRow] /\ counter \in Nat /\ epoch \in Nat
    BY DEF BaseInv, TypeOK
  <2> DEFINE new == [epoch |-> epoch, key |-> k, seq |-> counter + 1]
  <2>3. Versions' \subseteq Versions \cup {new}
    BY <2>1, <2>2 DEF Versions, Current
  <2>4. \A v \in Versions : v.epoch \in Nat /\ v.seq \in Nat
    BY <2>2, InFlightType, IncomingType
       DEF Versions, BaseInv, TypeOK, Current, EdgeRow, Version
  <2>5. \A v \in Versions : v.epoch = epoch => v.seq < counter + 1
    BY <2>2, <2>4 DEF PositionsUnique
  <2> QED
    BY <2>1, <2>2, <2>3, <2>4, <2>5 DEF PositionsUnique
<1>2. CASE StartRun
  <2>1. PICK rows \in SUBSET EdgeRows : req' = [epoch |-> epoch, rows |-> rows]
    BY <1>2 DEF StartRun
  <2>2. UNCHANGED <<epoch, counter, row, late, stored>>
    BY <1>2 DEF StartRun, edgeVars, serverVars
  <2>3. InFlight' = InFlight \cup {req'}
    BY <1>2 DEF StartRun, InFlight
  <2>4. ASSUME NEW r, r.rows = rows, r.epoch = epoch
        PROVE  Stamped(r) \subseteq Versions
    BY <2>4 DEF Stamped, Stamp, EdgeRows, Versions, Current
  <2>5. ASSUME NEW r \in InFlight'
        PROVE  Stamped(r) \subseteq Versions
    BY <2>1, <2>3, <2>4, <2>5 DEF Versions
  <2>6. \A k \in Key : Current(k)' = Current(k)
    BY <2>2 DEF Current
  <2>7. Versions' = {Current(k) : k \in {j \in Key : row[j].seq > 0}}
                      \cup stored \cup UNION {Stamped(r) : r \in InFlight'}
    BY <2>2, <2>6 DEF Versions, Stamped, Stamp
  <2>8. Versions' \subseteq Versions
    BY <2>5, <2>7 DEF Versions
  <2> QED
    BY <2>2, <2>8, SameVersions
<1>3. ASSUME InFlight' \subseteq InFlight, stored' \subseteq Versions,
             \/ UNCHANGED <<epoch, counter, row>>
             \/ epoch' > epoch /\ row' = [k \in Key |-> Absent]
      PROVE  PositionsUnique'
  <2>1. {Current(k) : k \in {j \in Key : row[j].seq > 0}}' \subseteq Versions
    BY <1>3 DEF Versions, Current, Absent
  <2>2. (UNION {Stamped(r) : r \in InFlight})' \subseteq Versions
    BY <1>3 DEF Versions, Stamped, Stamp
  <2>3. Versions' \subseteq Versions
    BY <1>3, <2>1, <2>2 DEF Versions
  <2> QED
    BY <1>3, <2>3, SameVersions
<1>4. ASSUME NEW r \in InFlight, Commit(r)
      PROVE  stored' \subseteq Versions
  BY <1>4, IncomingType, InFlightType DEF Commit, Upsert, Versions, BaseInv
<1>5. stored \subseteq Versions
  BY DEF Versions
<1>6. CASE EmptyRun \/ UNCHANGED vars
  <2>1. InFlight' \subseteq InFlight /\ UNCHANGED <<epoch, counter, row, stored>>
    BY <1>6 DEF EmptyRun, vars, edgeVars, runVars, serverVars, InFlight
  <2> QED
    BY <1>3, <1>5, <2>1
<1>7. CASE Retry \/ GiveUp \/ Refused \/ Advance \/ TransportError \/ Crash
  <2>1. ~ StartRun /\ Next
    BY <1>7 DEF Retry, GiveUp, Refused, Advance, TransportError, Crash, StartRun,
                Next, Worker, EndRun
  <2>2. UNCHANGED <<epoch, counter, row, stored>>
    BY <1>7 DEF Retry, GiveUp, Refused, Advance, TransportError, Crash, edgeVars,
                serverVars
  <2> QED
    BY <1>3, <1>5, <2>1, <2>2, NoNewRequest
<1>8. CASE ServerError \/ (\E r \in late : LateLost(r)) \/ DeployContract
             \/ ResetServerCursor
  <2>1. ~ StartRun /\ Next
    BY <1>8 DEF ServerError, LateLost, DeployContract, ResetServerCursor, StartRun,
                Next, Server, Operator, runVars
  <2>2. UNCHANGED <<epoch, counter, row, stored>>
    BY <1>8 DEF ServerError, LateLost, DeployContract, ResetServerCursor, edgeVars,
                serverVars
  <2> QED
    BY <1>3, <1>5, <2>1, <2>2, NoNewRequest
<1>9. CASE ServerAccept
  <2>1. ~ StartRun /\ Next
    BY <1>9 DEF ServerAccept, StartRun, Next, Server
  <2>2. req \in InFlight /\ Commit(req) /\ UNCHANGED <<epoch, counter, row>>
    BY <1>9 DEF ServerAccept, InFlight, edgeVars
  <2> QED
    BY <1>3, <1>4, <2>1, <2>2, NoNewRequest
<1>10. ASSUME NEW r \in late, LateArrives(r)
       PROVE  PositionsUnique'
  <2>1. ~ StartRun /\ Next
    BY <1>10 DEF LateArrives, StartRun, Next, Server, runVars
  <2>2. r \in InFlight /\ Commit(r) /\ UNCHANGED <<epoch, counter, row>>
    BY <1>10 DEF LateArrives, InFlight, edgeVars
  <2> QED
    BY <1>3, <1>4, <2>1, <2>2, NoNewRequest
<1>11. CASE Reflash
  <2>1. ~ StartRun /\ Next
    BY <1>11 DEF Reflash, EndRun, StartRun, Next, Operator
  <2>2. epoch' > epoch /\ row' = [k \in Key |-> Absent] /\ stored' = stored
    BY <1>11 DEF Reflash, serverVars, BaseInv, TypeOK
  <2> QED
    BY <1>3, <1>5, <2>1, <2>2, NoNewRequest
<1>12. QED
  BY <1>1, <1>2, <1>6, <1>7, <1>8, <1>9, <1>10, <1>11
     DEF Next, Worker, Server, Operator

\* A position of a generation names one row wherever a version of it is found.
THEOREM UniqueInvariant == Spec => [](BaseInv /\ PositionsUnique)
<1>1. Init => BaseInv /\ PositionsUnique
  BY InitBase, InitUnique
<1>2. BaseInv /\ PositionsUnique /\ [Next]_vars => (BaseInv /\ PositionsUnique)'
  BY StepBase, StepUnique
<1>3. QED
  BY <1>1, <1>2, PTL DEF Spec

\* The inductive invariant as a whole, where nothing older replaces a newer version.
THEOREM Inductive == NoStaleUpsert => (Spec => []IInv)
<1> SUFFICES ASSUME NoStaleUpsert PROVE Spec => []IInv
  OBVIOUS
<1>1. Spec => [](BaseInv /\ DurableInv)
  BY DurableInvariant
<1>2. BaseInv /\ DurableInv /\ PositionsUnique => IInv
  BY DEF IInv
<1>3. QED
  BY <1>1, <1>2, UniqueInvariant, PTL

\* The server's table and checkpoint change only when a request commits; an
\* operator may clear the checkpoint.
LEMMA OnlyCommits ==
  ASSUME BaseInv, [Next]_vars
  PROVE  \/ UNCHANGED <<stored, srvCursor>>
         \/ stored' = stored /\ srvCursor' = NoCursor /\ srvCursor # NoCursor
         \/ \E r \in InFlight : Commit(r)
<1> USE DEF edgeVars, runVars, serverVars, vars
<1>1. ASSUME NEW k \in Key, NEW kind \in Kinds, Write(k, kind)
      PROVE  UNCHANGED <<stored, srvCursor>>
  BY <1>1 DEF Write
<1>2. CASE Worker \/ Reflash \/ DeployContract \/ UNCHANGED vars
  BY <1>2 DEF Worker, StartRun, EmptyRun, TransportError, Retry, GiveUp, Refused,
              Advance, Crash, Reflash, DeployContract
<1>3. CASE Server
  BY <1>3 DEF Server, ServerAccept, ServerError, LateArrives, LateLost, InFlight
<1>4. CASE ResetServerCursor
  BY <1>4 DEF ResetServerCursor
<1>5. QED
  BY <1>1, <1>2, <1>3, <1>4 DEF Next, Operator

\* In an append table a commit replaces a version by itself only.
LEMMA CommitAppends ==
  ASSUME Strategy = "append", PositionsUnique, BaseInv,
         NEW r \in InFlight, Commit(r)
  PROVE  stored \subseteq stored'
<1>1. SUFFICES ASSUME NEW v \in stored, NEW w \in Incoming(r), Conflict(v, w)
               PROVE  v = w
  BY DEF Commit, Upsert
<1>2. r \in Request
  BY InFlightType DEF BaseInv
<1>3. v \in Versions /\ w \in Versions
  BY <1>1, <1>2, IncomingType DEF Versions
<1>4. v \in Version /\ w \in Version
  BY <1>1, <1>2, IncomingType DEF BaseInv, TypeOK
<1>5. v.epoch = w.epoch /\ v.seq = w.seq
  BY <1>1 DEF Conflict
<1>6. v.key = w.key
  BY <1>3, <1>5 DEF PositionsUnique
<1>7. QED
  BY <1>4, <1>5, <1>6 DEF Version

\* Late, repeated or from an earlier generation: no request overwrites or removes
\* a row once stored in an append table.
THEOREM AppendHistoryIsKept == Strategy = "append" => (Spec => AppendHistoryKept)
<1> SUFFICES ASSUME Strategy = "append"
             PROVE  Spec => AppendHistoryKept
  OBVIOUS
<1>1. BaseInv /\ PositionsUnique /\ [Next]_vars => [stored \subseteq stored']_stored
  BY OnlyCommits, CommitAppends
<1>2. QED
  BY <1>1, UniqueInvariant, PTL DEF Spec, AppendHistoryKept

\* Within a generation the server's checkpoint never moves back, whatever arrives
\* late and in whatever configuration.
THEOREM CheckpointIsMonotonic == Spec => CheckpointMonotonic
<1>1. BaseInv /\ [Next]_vars =>
        [srvCursor'.epoch = srvCursor.epoch => srvCursor'.val >= srvCursor.val]_srvCursor
  <2> SUFFICES ASSUME BaseInv, [Next]_vars, srvCursor' # srvCursor,
                      srvCursor'.epoch = srvCursor.epoch
               PROVE  srvCursor'.val >= srvCursor.val
    OBVIOUS
  <2>1. CASE \E r \in InFlight : Commit(r)
    <3>1. PICK r \in InFlight : srvCursor' = [epoch |-> r.epoch, val |-> NewCursor(r)]
      BY <2>1 DEF Commit
    <3>2. r \in Request /\ HasLast(r) /\ srvCursor \in [epoch : Nat, val : Nat]
      BY InFlightType DEF BaseInv, TypeOK
    <3> QED
      BY <3>1, <3>2, NewCursorBounds
  <2>2. CASE srvCursor' = NoCursor /\ srvCursor # NoCursor
    BY <2>2 DEF NoCursor, BaseInv, TypeOK
  <2> QED
    BY <2>1, <2>2, OnlyCommits
<1>2. QED
  BY <1>1, BaseInvariant, PTL DEF Spec, CheckpointMonotonic

-----------------------------------------------------------------------------
(* The stream implements the mirror.                                       *)

\* The promise of the abstract specification is the durability of the detailed
\* one.
LEMMA PromiseIsDurability == Mirror!Promised(cursor) <=> AckedDurable
BY DEF Mirror!Promised, Mirror!Held, AckedDurable, HeldUpTo, Current

\* Every step of the stream is a step of the mirror or changes nothing of it.
LEMMA StepImplements ==
  ASSUME BaseInv, BaseInv', AckedDurable', PositionsUnique, [Next]_vars
  PROVE  [Mirror!Step]_(Mirror!mirrorVars)
<1> USE DEF Mirror!Step, Mirror!mirrorVars
<1>1. ASSUME NEW k \in Key, NEW kind \in Kinds, Write(k, kind)
      PROVE  Mirror!Step
  <2>1. row \in [Key -> EdgeRow] /\ counter \in Nat /\ cursor \in 0..counter
    BY DEF BaseInv, TypeOK
  <2>2. row' = [row EXCEPT ![k] = row'[k]] /\ row'[k].seq = counter + 1
    BY <1>1, <2>1 DEF Write
  <2>3. Strategy = "append" => row[k].seq = 0
    BY <1>1 DEF Write, Absent
  <2>4. UNCHANGED <<epoch, cursor, stored>>
    BY <1>1 DEF Write, serverVars
  <2> QED
    BY <2>1, <2>2, <2>3, <2>4 DEF Mirror!WriteVersion
<1>2. ASSUME NEW r \in InFlight, Commit(r), UNCHANGED edgeVars
      PROVE  Mirror!Step
  <2>1. Mirror!Promised(cursor)'
    BY PromiseIsDurability
       DEF Mirror!Promised, Mirror!Held, AckedDurable, HeldUpTo, Current
  <2>2. Strategy = "append" => stored \subseteq stored'
    BY <1>2, CommitAppends
  <2> QED
    BY <1>2, <2>1, <2>2 DEF Mirror!Deliver, edgeVars
<1>3. CASE ServerAccept
  BY <1>2, <1>3 DEF ServerAccept, InFlight
<1>4. ASSUME NEW r \in late, LateArrives(r)
      PROVE  Mirror!Step
  BY <1>2, <1>4 DEF LateArrives, InFlight
<1>5. CASE Advance
  <2>1. cursor' > cursor /\ UNCHANGED <<epoch, row, stored>>
    BY <1>5 DEF Advance, serverVars, BaseInv, TypeOK
  <2>2. Mirror!Promised(cursor)'
    BY DEF Mirror!Promised, Mirror!Held, AckedDurable, HeldUpTo, Current
  <2> QED
    BY <2>1, <2>2 DEF Mirror!Acknowledge
<1>6. CASE Reflash
  <2>1. epoch' # epoch
    BY <1>6 DEF Reflash, BaseInv, TypeOK
  <2> QED
    BY <1>6, <2>1 DEF Reflash, Absent, Mirror!NewGeneration, serverVars
<1>7. CASE StartRun \/ EmptyRun \/ TransportError \/ Retry \/ GiveUp \/ Refused \/ Crash
  BY <1>7 DEF StartRun, EmptyRun, TransportError, Retry, GiveUp, Refused, Crash,
              vars, edgeVars, serverVars
<1>8. CASE ServerError \/ (\E r \in late : LateLost(r)) \/ DeployContract
             \/ ResetServerCursor \/ UNCHANGED vars
  BY <1>8 DEF ServerError, LateLost, DeployContract, ResetServerCursor, vars,
              edgeVars, serverVars
<1>9. QED
  BY <1>1, <1>3, <1>4, <1>5, <1>6, <1>7, <1>8 DEF Next, Worker, Server, Operator

\* The stream implements its abstract specification: the edge's cursor only moves
\* forward, over versions the server holds, and the server loses none of them.
THEOREM StreamImplementsMirror == NoStaleUpsert => (Spec => ImplementsMirror)
<1> SUFFICES ASSUME NoStaleUpsert
             PROVE  Spec => ImplementsMirror
  OBVIOUS
<1>1. Init => Mirror!Start
  BY DEF Init, Mirror!Start, Absent
<1>2. (BaseInv /\ DurableInv /\ PositionsUnique /\ BaseInv' /\ DurableInv' /\ [Next]_vars)
        => [Mirror!Step]_(Mirror!mirrorVars)
  BY StepImplements DEF DurableInv
<1>3. Spec => [](BaseInv /\ DurableInv)
  BY DurableInvariant
<1>4. Spec => [](BaseInv /\ PositionsUnique)
  BY UniqueInvariant
<1>5. QED
  BY <1>1, <1>2, <1>3, <1>4, PTL DEF Spec, ImplementsMirror, Mirror!MirrorSpec

=============================================================================
