-------------------------- MODULE IngestTxn_proofs --------------------------
(***************************************************************************)
(* Proofs about IngestTxn, for every set of keys and sessions, every batch *)
(* limit and bound: overlapping transactions of one generation of the edge *)
(* database.                                                               *)
(***************************************************************************)
EXTENDS IngestTxn, FiniteSetTheorems, WellFoundedInduction, TLAPS

\* No request of an earlier generation is worked on.  Without this KeysNotSkipped
\* is violated: see the run IngestTxn_epoch.
OneGeneration == ~ Overlap

LEMMA Numbers ==
  /\ MaxSeq \in Nat /\ MaxEpoch \in Nat /\ 1 \in 1..MaxEpoch
  /\ 0 \in 0..MaxSeq /\ 0 \in 0..MaxEpoch
  /\ Nobody \notin Session
BY TxnConstantsOK DEF Nobody

LEMMA FreeSession ==
  /\ Free \in Sessions /\ Free.step = "free" /\ Free.locked = {} /\ Free.req = NoRequest
  /\ Free.read = NoCursor /\ Free.ack = 0 /\ NoRequest.rows = {} /\ NoRequest.run = 0
  /\ NoCursor \in Cursor /\ NoCursor.epoch = 0 /\ NoCursor.val = 0
  /\ NoRequest \in Request
BY Numbers DEF Free, Sessions, NoRequest, Request, NoCursor, Cursor

\* The bound on the writes of a generation is no larger than the first one's.
LEMMA Quotient ==
  ASSUME NEW e \in Nat, e > 0
  PROVE  MaxSeq \div e \in Nat /\ MaxSeq \div e <= MaxSeq
<1>1. MaxSeq \in Nat
  BY Numbers
<1>2. QED
  BY <1>1, Z3

\* A request's largest position is that of one of its rows.
LEMMA MaxOfBatch ==
  ASSUME NEW r \in Request, HasLast(r)
  PROVE  /\ BatchMax(r) \in 1..MaxSeq
         /\ \E x \in r.rows : x.seq = BatchMax(r)
         /\ \A x \in r.rows : x.seq <= BatchMax(r)
<1>1. PICK last \in r.rows : \A x \in r.rows : x.seq <= last.seq
  BY DEF HasLast
<1>2. \A x \in r.rows : x.seq \in 1..MaxSeq /\ x.seq \in Nat
  BY Numbers DEF Request, Row
<1> DEFINE all == {x.seq : x \in r.rows}
<1>3. last.seq \in all /\ \A x \in r.rows : x.seq <= last.seq
  BY <1>1
<1>4. \A n \in all : (\A x \in r.rows : x.seq <= n) => n = last.seq
  BY <1>1, <1>2
<1>5. BatchMax(r) = last.seq
  BY <1>3, <1>4 DEF BatchMax
<1>6. QED
  BY <1>1, <1>2, <1>5

\* There is a run id that no session holds.
LEMMA RunIdLeft ==
  ASSUME TypeOK
  PROVE  LET used == {session[u].req.run : u \in Session}
         IN (CHOOSE i \in RunId : i \notin used) \in RunId
<1> DEFINE used == {session[u].req.run : u \in Session}
           n == Cardinality(Session)
<1>1. IsFiniteSet(Session) /\ n \in Nat
  BY TxnConstantsOK, FS_CardinalityType
<1>2. IsFiniteSet(used) /\ Cardinality(used) <= n /\ Cardinality(used) \in Nat
  <2> DEFINE f == [u \in Session |-> session[u].req.run]
  <2>1. f \in Surjection(Session, used)
    <3>1. f \in [Session -> used]
      OBVIOUS
    <3>2. \A t \in used : \E u \in Session : f[u] = t
      OBVIOUS
    <3>3. QED
      BY <3>1, <3>2 DEF Surjection
  <2> HIDE DEF f, used
  <2>2. QED
    BY <1>1, <2>1, FS_Surjection, FS_CardinalityType
<1>3. IsFiniteSet(RunId) /\ Cardinality(RunId) = n + 1
  <2>1. 1 \in Int /\ n + 1 \in Int /\ n + 1 >= 1
    BY <1>1
  <2>2. IsFiniteSet(1..n + 1) /\ Cardinality(1..n + 1) = n + 1
    BY <1>1, <2>1, FS_Interval
  <2>3. QED
    BY <2>2 DEF RunId
<1>4. ~ RunId \subseteq used
  <2>1. RunId \subseteq used => Cardinality(RunId) <= Cardinality(used)
    BY <1>2, FS_Subset
  <2>2. QED
    BY <1>1, <1>2, <1>3, <2>1
<1>5. QED
  BY <1>4

\* Rows read from the edge table: current versions above the cursor, with a last
\* one up to which nothing is left out.
LEMMA BatchRead ==
  ASSUME TypeOK, EdgeInv, NEW rows \in SUBSET EdgeRows, ReadRows(rows)
  PROVE  /\ rows \in SUBSET Row
         /\ \E last \in rows : \A x \in rows : x.seq <= last.seq
         /\ \A x \in rows : cursor < x.seq /\ x.seq <= counter /\ x.seq = row[x.key]
         /\ \A k \in Key : \A last \in rows :
              cursor < row[k] /\ row[k] <= last.seq => [key |-> k, seq |-> row[k]] \in rows
<1>1. PICK top \in EdgeRows : rows = {x \in EdgeRows : x.seq <= top.seq}
  BY DEF ReadRows
<1>2. \A k \in Key : row[k] \in 0..MaxSeq /\ row[k] \in Nat /\ row[k] <= counter
  BY Numbers DEF TypeOK, EdgeInv
<1>3. cursor \in Nat /\ counter \in Nat
  BY Numbers DEF TypeOK
<1>4. \A x \in EdgeRows : /\ x.key \in Key /\ x.seq = row[x.key] /\ cursor < x.seq
                          /\ x.seq \in 1..MaxSeq /\ x \in Row
  BY <1>2, <1>3, Numbers DEF EdgeRows, Row
<1>5. \A k \in Key : cursor < row[k] => [key |-> k, seq |-> row[k]] \in EdgeRows
  BY <1>2, <1>3 DEF EdgeRows
<1>6. \A x \in EdgeRows : x.seq \in Nat
  BY <1>2, <1>4
<1>7. top \in rows /\ \A x \in rows : x.seq <= top.seq
  BY <1>1, <1>6
<1>8. ASSUME NEW k \in Key, NEW last \in rows, cursor < row[k], row[k] <= last.seq
      PROVE  [key |-> k, seq |-> row[k]] \in rows
  <2>1. last.seq <= top.seq /\ last.seq \in Nat /\ top.seq \in Nat /\ row[k] \in Nat
    BY <1>1, <1>2, <1>6, <1>7
  <2>2. row[k] <= top.seq
    BY <1>8, <2>1
  <2>3. QED
    BY <1>1, <1>5, <1>8, <2>2
<1>9. QED
  BY <1>1, <1>2, <1>4, <1>7, <1>8

-----------------------------------------------------------------------------
(* Initially.                                                              *)

LEMMA InitIInv == Init => IInv
<1> SUFFICES ASSUME Init PROVE IInv
  OBVIOUS
<1>1. \A s \in Session : session[s] = Free
  BY DEF Init
<1>2. session \in [Session -> Sessions]
  BY FreeSession DEF Init
<1>3. /\ \E t \in Tables : strategy = t[1] /\ limit = t[2]
      /\ \E n \in 0..MaxSeq : srvCursor = [epoch |-> 0, val |-> n]
  BY TxnConstantsOK DEF Init
<1>a. srvCursor \in Cursor /\ srvCursor.epoch = 0
  BY <1>3, Numbers DEF Cursor
<1>4. TypeOK
  BY <1>1, <1>2, <1>3, <1>a, FreeSession, Numbers DEF Init, TypeOK
<1>5. EdgeInv
  BY DEF Init, EdgeInv
<1>6. RequestInv
  BY <1>1, FreeSession DEF Init, RequestInv, Active
<1>7. LockInv
  BY <1>1, FreeSession DEF LockInv, Working
<1>8. CursorInv
  BY <1>a, FreeSession, Numbers DEF Init, CursorInv
<1>9. ReadInv /\ AnswerInv /\ StoredInv
  BY <1>1, FreeSession DEF Init, ReadInv, AnswerInv, StoredInv
<1>10. QED
  BY <1>4, <1>5, <1>6, <1>7, <1>8, <1>9 DEF IInv

-----------------------------------------------------------------------------
(* A transaction before its commit.                                        *)

Ended == {"free", "answered", "failed"}

\* One session goes on or gives up: what does not depend on the server's tables.
LEMMA PutSession ==
  ASSUME IInv, NEW s \in Session, NEW st \in Sessions, Put(s, st),
         UNCHANGED <<edgeVars, client>>,
         st.locked \subseteq st.req.rows,
         \/ st.step = "free" /\ client # s
         \/ st.step # "free" /\ Active(s) /\ st.req = session[s].req,
         st.step \in {"answered", "failed"} => client = s,
         st.step \in {"cursor", "commit"} => st.locked = st.req.rows,
         st.step \in Ended => st.locked = {},
         Append => \A u \in Session \ {s} : st.locked \cap session[u].locked = {}
  PROVE  /\ session' \in [Session -> Sessions] /\ session'[s] = st
         /\ \A u \in Session : u # s => session'[u] = session[u]
         /\ \A u \in Session : session'[u].locked \subseteq session'[u].req.rows
         /\ EdgeInv' /\ RequestInv' /\ LockInv'
<1>1. /\ session' = [session EXCEPT ![s] = st] /\ session \in [Session -> Sessions]
      /\ session'[s] = st
      /\ \A u \in Session : u # s => session'[u] = session[u]
  BY DEF Put, IInv, TypeOK
<1>2. /\ UNCHANGED <<strategy, limit, epoch, counter, row, cursor>>
      /\ UNCHANGED client
  BY DEF edgeVars
<1>3. session' \in [Session -> Sessions]
      /\ \A u \in Session : session'[u].locked \subseteq session'[u].req.rows
  BY <1>1 DEF IInv, TypeOK
<1>4. EdgeInv'
  BY <1>2 DEF IInv, EdgeInv
<1>5. RequestInv'
  <2>1. ASSUME NEW u \in Session, Active(u)'
        PROVE  session'[u].req = session[u].req /\ Active(u)
    BY <1>1, <2>1 DEF Active
  <2>2. client # Nobody => Active(client)' /\ session'[client].req = session[client].req
    BY <1>1 DEF IInv, RequestInv, TypeOK, Active
  <2>3. \A u \in Session : session'[u].step \in {"answered", "failed"} => client = u
    BY <1>1 DEF IInv, RequestInv
  <2>4. client # Nobody => client \in Session /\ \A x \in session[client].req.rows : cursor < x.seq
    BY DEF IInv, RequestInv, TypeOK
  <2>5. ASSUME NEW u \in Session, Active(u)'
        PROVE  LET r == session'[u].req IN
               /\ r.epoch = epoch /\ r.run \in RunId /\ HasLast(r)
               /\ \A x \in r.rows : x.seq <= counter
               /\ Append => \A x \in r.rows : row[x.key] = x.seq
               /\ Append => \A k \in Key : cursor < row[k] /\ row[k] <= BatchMax(r)
                                             => [key |-> k, seq |-> row[k]] \in r.rows
    BY <2>1, <2>5 DEF IInv, RequestInv
  <2>6. QED
    BY <1>2, <2>2, <2>3, <2>4, <2>5 DEF RequestInv, Append, HasLast, BatchMax, RunId
<1>6. LockInv'
  <2>1. \A u \in Session :
          /\ session'[u].step \in {"cursor", "commit"} => session'[u].locked = session'[u].req.rows
          /\ session'[u].step \notin {"insert", "rows", "cursor", "commit"} => session'[u].locked = {}
    <3>1. st.step \in {"free", "insert", "rows", "cursor", "commit", "answered", "failed"}
      BY DEF Sessions
    <3>2. QED
      BY <1>1, <3>1 DEF IInv, LockInv, Working, Ended
  <2>2. \A u, v \in Session : Append /\ u # v => session'[u].locked \cap session'[v].locked = {}
    <3>1. \A u, v \in Session : Append /\ u # v => session[u].locked \cap session[v].locked = {}
      BY DEF IInv, LockInv
    <3>2. QED
      BY <1>1, <3>1
  <2>3. QED
    BY <1>2, <2>1, <2>2 DEF LockInv, Working, Append
<1>7. QED
  BY <1>1, <1>3, <1>4, <1>5, <1>6

\* Nothing else changes.
LEMMA PutStep ==
  ASSUME IInv, NEW s \in Session, NEW st \in Sessions, Put(s, st),
         UNCHANGED <<edgeVars, client, serverVars>>,
         st.locked \subseteq st.req.rows,
         \/ st.step = "free" /\ client # s
         \/ st.step # "free" /\ Active(s) /\ st.req = session[s].req,
         st.step = "failed" => client = s, st.step # "answered",
         st.step \in {"cursor", "commit"} => st.locked = st.req.rows,
         st.step \in Ended => st.locked = {},
         Append => \A u \in Session \ {s} : st.locked \cap session[u].locked = {},
         st.step = "commit" => st.read = srvCursor
  PROVE  IInv'
<1>1. /\ session' \in [Session -> Sessions] /\ session'[s] = st
      /\ \A u \in Session : u # s => session'[u] = session[u]
      /\ \A u \in Session : session'[u].locked \subseteq session'[u].req.rows
      /\ EdgeInv' /\ RequestInv' /\ LockInv'
  BY PutSession
<1>2. /\ UNCHANGED <<strategy, limit, epoch, counter, row, cursor>>
      /\ UNCHANGED <<client, runs, stored, srvCursor>>
  BY DEF edgeVars, serverVars
<1>3. TypeOK'
  BY <1>1, <1>2 DEF IInv, TypeOK
<1>4. CursorInv' /\ StoredInv'
  BY <1>2 DEF IInv, CursorInv, StoredInv, Append, HeldUpTo
<1>5. ReadInv'
  <2> SUFFICES ASSUME NEW u \in Session, session'[u].step = "commit"
               PROVE  LET read == session'[u].read  top == BatchMax(session'[u].req) IN
                      /\ srvCursor = read \/ srvCursor.epoch = epoch
                      /\ read.epoch = epoch => srvCursor.epoch = epoch /\ read.val <= counter
                      /\ Append /\ read.epoch = epoch => read.val <= srvCursor.val
                      /\ Append /\ (read.epoch # epoch \/ read.val < top) => srvCursor = read
    BY <1>2 DEF ReadInv, Append, BatchMax
  <2>1. CASE u # s
    BY <1>1, <2>1 DEF IInv, ReadInv
  <2>2. CASE u = s
    <3>1. session'[u].read = srvCursor
      BY <1>1, <2>2
    <3>2. srvCursor.val \in Nat /\ (srvCursor.epoch = epoch => srvCursor.val <= counter)
      BY Numbers DEF IInv, TypeOK, Cursor, CursorInv
    <3>3. QED
      BY <3>1, <3>2
  <2>3. QED
    BY <2>1, <2>2
<1>6. AnswerInv'
  <2>1. \A u \in Session : session'[u].step = "answered" => session'[u] = session[u]
    BY <1>1
  <2>2. QED
    BY <1>2, <2>1 DEF IInv, AnswerInv, Append, BatchMax
<1>7. QED
  BY <1>1, <1>3, <1>4, <1>5, <1>6 DEF IInv

\* A transaction that fails is answered 500 if the client still waits.
LEMMA RollbackStep ==
  ASSUME IInv, NEW s \in Session, Working(s), Rollback(s),
         UNCHANGED <<edgeVars, client, serverVars>>
  PROVE  IInv'
<1> DEFINE failed == [Free EXCEPT !.step = "failed", !.ack = 0, !.req = session[s].req]
<1>1. session[s].req \in Request /\ Active(s)
  BY DEF IInv, TypeOK, Sessions, Working, Active
<1>2. CASE client = s
  <2>1. failed \in Sessions /\ failed.step = "failed" /\ failed.locked = {}
        /\ failed.req = session[s].req
    BY <1>1, FreeSession, Numbers DEF Sessions, Free
  <2>2. Put(s, failed)
    BY <1>2 DEF Rollback, Answer
  <2> HIDE DEF failed
  <2>3. QED
    BY <1>1, <1>2, <2>1, <2>2, PutStep
<1>3. CASE client # s
  <2>1. Put(s, Free)
    BY <1>3 DEF Rollback, Answer
  <2>2. QED
    BY <1>3, <2>1, FreeSession, PutStep
<1>4. QED
  BY <1>2, <1>3

LEMMA InsertRunStep ==
  ASSUME IInv, NEW s \in Session, InsertRun(s)
  PROVE  IInv'
<1>1. session[s].step = "insert" /\ UNCHANGED <<edgeVars, client, serverVars>>
  BY DEF InsertRun
<1>2. Working(s) /\ Active(s)
  BY <1>1 DEF Working, Active
<1>3. CASE session[s].req.run \in runs
  BY <1>1, <1>2, <1>3, RollbackStep DEF InsertRun
<1>4. CASE session[s].req.run \notin runs
  <2> DEFINE st == [session[s] EXCEPT !.step = "rows", !.newRun = TRUE]
  <2>1. session[s] \in Sessions
    BY DEF IInv, TypeOK
  <2>2. st \in Sessions /\ st.step = "rows" /\ st.req = session[s].req
        /\ st.locked = session[s].locked
    BY <2>1 DEF Sessions
  <2>3. Put(s, st)
    BY <1>4 DEF InsertRun
  <2>4. session[s].locked \subseteq session[s].req.rows
    BY DEF IInv, TypeOK
  <2>5. Append => \A u \in Session \ {s} : session[s].locked \cap session[u].locked = {}
    BY DEF IInv, LockInv
  <2> HIDE DEF st
  <2>6. QED
    BY <1>1, <1>2, <2>2, <2>3, <2>4, <2>5, PutStep DEF Ended
<1>5. QED
  BY <1>3, <1>4

\* The row that is locked is locked by no other transaction.
LEMMA LockRowStep ==
  ASSUME IInv, NEW s \in Session, LockRow(s)
  PROVE  IInv'
<1>1. session[s].step = "rows" /\ ~ Blocked(s) /\ UNCHANGED <<edgeVars, client, serverVars>>
  BY DEF LockRow
<1>2. PICK x \in session[s].req.rows :
        /\ IsNextRow(s, x)
        /\ LET locked == session[s].locked \cup {x} IN
           Put(s, [session[s] EXCEPT
                     !.locked = locked,
                     !.step = IF locked = session[s].req.rows THEN "cursor" ELSE "rows"])
  BY DEF LockRow
<1> DEFINE locked == session[s].locked \cup {x}
           st == [session[s] EXCEPT !.locked = locked,
                    !.step = IF locked = session[s].req.rows THEN "cursor" ELSE "rows"]
<1>3. session[s] \in Sessions /\ session[s].locked \subseteq session[s].req.rows
      /\ session[s].req.rows \in SUBSET Row
  BY DEF IInv, TypeOK, Sessions, Request
<1>4. locked \in SUBSET Row /\ locked \subseteq session[s].req.rows
  BY <1>3
<1>5. st \in Sessions /\ st.req = session[s].req /\ st.locked = locked
      /\ st.step \in {"cursor", "rows"} /\ (st.step = "cursor" => locked = session[s].req.rows)
  BY <1>3, <1>4 DEF Sessions
<1>6. ASSUME Append, NEW u \in Session \ {s} PROVE locked \cap session[u].locked = {}
  <2>1. session[s].locked \cap session[u].locked = {}
    BY <1>6 DEF IInv, LockInv
  <2>2. ASSUME x \in session[u].locked PROVE FALSE
    <3>1. Working(u)
      BY <2>2 DEF IInv, LockInv
    <3>2. session[s].req.epoch = epoch /\ session[u].req.epoch = epoch
      BY <1>1, <3>1 DEF IInv, RequestInv, Active, Working
    <3>3. Target(session[s].req, x) = Target(session[u].req, x)
      BY <3>2 DEF Target
    <3>4. Target(session[s].req, x) \in Locked(u)
      BY <2>2, <3>3 DEF Locked
    <3>5. WaitsFor(s, u)
      BY <1>1, <1>2, <3>1, <3>4 DEF WaitsFor
    <3>6. QED
      BY <1>1, <3>5 DEF Blocked
  <2>3. QED
    BY <2>1, <2>2
<1>7. Put(s, st) /\ Active(s)
  BY <1>1, <1>2 DEF Active
<1> HIDE DEF st, locked
<1>8. st.step \notin Ended /\ st.step # "free" /\ st.step # "commit"
      /\ st.step # "failed" /\ st.step # "answered"
  BY <1>5 DEF Ended
<1>9. QED
  BY <1>1, <1>4, <1>5, <1>6, <1>7, <1>8, PutStep

LEMMA ReadCursorStep ==
  ASSUME IInv, NEW s \in Session, ReadCursor(s)
  PROVE  IInv'
<1> DEFINE st == [session[s] EXCEPT !.read = srvCursor, !.step = "commit"]
<1>1. session[s].step = "cursor" /\ Put(s, st) /\ UNCHANGED <<edgeVars, client, serverVars>>
  BY DEF ReadCursor
<1>2. session[s] \in Sessions /\ srvCursor \in Cursor
  BY DEF IInv, TypeOK
<1>3. st \in Sessions /\ st.step = "commit" /\ st.req = session[s].req
      /\ st.locked = session[s].locked /\ st.read = srvCursor
  BY <1>2 DEF Sessions
<1>4. session[s].locked = session[s].req.rows /\ Active(s)
  BY <1>1 DEF IInv, LockInv, Active
<1>5. Append => \A u \in Session \ {s} : session[s].locked \cap session[u].locked = {}
  BY DEF IInv, LockInv
<1> HIDE DEF st
<1>6. QED
  BY <1>1, <1>3, <1>4, <1>5, PutStep DEF Ended

\* Who is in a circle waits for somebody.
LEMMA DeadlockedWaits ==
  ASSUME NEW s \in Session, Deadlocked(s)
  PROVE  \E v \in Session : WaitsFor(s, v)
<1> SUFFICES ASSUME \A v \in Session : ~ WaitsFor(s, v) PROVE FALSE
  OBVIOUS
<1> DEFINE set == {}
<1>1. set \in SUBSET Session /\ s \notin set
  OBVIOUS
<1>2. \A u \in set \cup {s}, v \in Session : WaitsFor(u, v) => v \in set
  OBVIOUS
<1> HIDE DEF set
<1>3. QED
  BY <1>1, <1>2 DEF Deadlocked

LEMMA FailureStep ==
  ASSUME IInv, NEW s \in Session, DeadlockAbort(s) \/ CommitConflict(s) \/ Fail(s)
  PROVE  IInv'
<1>1. Working(s)
  BY DeadlockedWaits DEF DeadlockAbort, CommitConflict, Fail, WaitsFor, Working
<1>2. Rollback(s)
  BY DEF DeadlockAbort, CommitConflict, Fail
<1>3. UNCHANGED <<edgeVars, client, serverVars>>
  BY DEF DeadlockAbort, CommitConflict, Fail
<1>4. QED
  BY <1>1, <1>2, <1>3, RollbackStep

-----------------------------------------------------------------------------
(* The commit.                                                             *)

\* The new cursor covers the batch, and is a position the edge has given out.
LEMMA NewValueBounds ==
  ASSUME IInv, NEW s \in Session, session[s].step = "commit"
  PROVE  LET r == session[s].req  top == BatchMax(r)  read == session[s].read
         IN  /\ r \in Request /\ r.epoch = epoch /\ r.run \in RunId /\ Active(s)
             /\ top \in 1..MaxSeq /\ top <= counter
             /\ (\E x \in r.rows : x.seq = top) /\ (\A x \in r.rows : x.seq <= top)
             /\ NewValue(s) \in 1..MaxSeq /\ NewValue(s) <= counter /\ top <= NewValue(s)
             /\ read.epoch = epoch /\ read.val >= top => NewValue(s) = read.val
             /\ read.epoch # epoch \/ read.val < top => NewValue(s) = top
             /\ read \in Cursor
<1> DEFINE r == session[s].req
           read == session[s].read
<1>1. Active(s) /\ r \in Request /\ read \in Cursor
  BY DEF Active, IInv, TypeOK, Sessions
<1>2. r.epoch = epoch /\ r.run \in RunId /\ HasLast(r) /\ \A x \in r.rows : x.seq <= counter
  BY <1>1 DEF IInv, RequestInv
<1>3. /\ BatchMax(r) \in 1..MaxSeq
      /\ \E x \in r.rows : x.seq = BatchMax(r)
      /\ \A x \in r.rows : x.seq <= BatchMax(r)
  BY <1>1, <1>2, MaxOfBatch
<1>4. BatchMax(r) <= counter
  BY <1>2, <1>3
<1>5. read.epoch = epoch => read.val <= counter
  BY DEF IInv, ReadInv
<1>6. read.val \in 0..MaxSeq
  BY <1>1 DEF Cursor
<1>7. NewValue(s) = IF read.epoch = epoch /\ read.val > BatchMax(r) THEN read.val ELSE BatchMax(r)
  BY <1>2 DEF NewValue
<1> HIDE DEF r, read
<1>8. /\ NewValue(s) \in 1..MaxSeq /\ NewValue(s) <= counter /\ BatchMax(r) <= NewValue(s)
      /\ read.epoch = epoch /\ read.val >= BatchMax(r) => NewValue(s) = read.val
      /\ read.epoch # epoch \/ read.val < BatchMax(r) => NewValue(s) = BatchMax(r)
  BY <1>3, <1>4, <1>5, <1>6, <1>7, Numbers
<1>9. QED
  BY <1>1, <1>2, <1>3, <1>4, <1>8 DEF r, read

\* The cursor row after the commit: of this generation, at or above what it was in
\* an append table; unchanged, or raised to the batch from the value read.
LEMMA CursorWritten ==
  ASSUME IInv, NEW s \in Session, session[s].step = "commit",
         session[s].read = NoCursor => srvCursor = NoCursor
  PROVE  LET new == WriteChanged(s)  top == BatchMax(session[s].req)  read == session[s].read
         IN  /\ new \in Cursor /\ new.epoch = epoch /\ new.val <= counter
             /\ Append => NewValue(s) <= new.val
             /\ Append /\ srvCursor.epoch = epoch => srvCursor.val <= new.val
             /\ Append => \/ srvCursor.epoch = epoch /\ new = srvCursor
                          \/ /\ srvCursor = read /\ new.val = top
                             /\ read.epoch # epoch \/ read.val < top
<1> DEFINE new == WriteChanged(s)
           top == BatchMax(session[s].req)
           read == session[s].read
<1>1. /\ session[s].req.epoch = epoch
      /\ top \in 1..MaxSeq /\ top <= counter
      /\ NewValue(s) \in 1..MaxSeq /\ NewValue(s) <= counter /\ top <= NewValue(s)
      /\ read.epoch = epoch /\ read.val >= top => NewValue(s) = read.val
      /\ read.epoch # epoch \/ read.val < top => NewValue(s) = top
      /\ read \in Cursor
  BY NewValueBounds
<1>2. /\ srvCursor = read \/ srvCursor.epoch = epoch
      /\ read.epoch = epoch => srvCursor.epoch = epoch /\ read.val <= counter
      /\ Append /\ read.epoch = epoch => read.val <= srvCursor.val
      /\ Append /\ (read.epoch # epoch \/ read.val < top) => srvCursor = read
  BY DEF IInv, ReadInv
<1>3. /\ srvCursor \in Cursor /\ epoch \in 1..MaxEpoch /\ epoch # 0
      /\ srvCursor.epoch = epoch => srvCursor.val <= counter
  BY Numbers DEF IInv, TypeOK, CursorInv
<1>4. new = [epoch |-> IF epoch = read.epoch THEN srvCursor.epoch ELSE epoch,
             val   |-> IF read # NoCursor /\ NewValue(s) = read.val THEN srvCursor.val
                       ELSE NewValue(s)]
  BY <1>1 DEF WriteChanged
<1> HIDE DEF new, top, read
<1>5. new.epoch = epoch
  BY <1>2, <1>4
<1>6. new.val \in 0..MaxSeq /\ new.val <= counter
  <2>1. CASE read # NoCursor /\ NewValue(s) = read.val
    <3>1. new.val = srvCursor.val
      BY <1>4, <2>1
    <3>2. srvCursor.val <= counter
      BY <1>1, <1>2, <1>3, <2>1
    <3>3. QED
      BY <1>3, <3>1, <3>2 DEF Cursor
  <2>2. CASE ~ (read # NoCursor /\ NewValue(s) = read.val)
    <3>1. new.val = NewValue(s)
      BY <1>4, <2>2
    <3>2. QED
      BY <1>1, <3>1, Numbers
  <2>3. QED
    BY <2>1, <2>2
<1>7. new \in Cursor
  BY <1>3, <1>4, <1>5, <1>6, Numbers DEF Cursor
<1>8. read.val \in Nat /\ top \in Nat /\ srvCursor.val \in Nat /\ NewValue(s) \in Nat
  BY <1>1, <1>3, Numbers DEF Cursor
<1>9. ASSUME Append, read.epoch = epoch, read.val >= top
      PROVE  srvCursor.epoch = epoch /\ new = srvCursor /\ NewValue(s) <= new.val
  <2>1. NewValue(s) = read.val /\ srvCursor.epoch = epoch /\ read.val <= srvCursor.val
    BY <1>1, <1>2, <1>9
  <2>2. read # NoCursor
    BY <1>3, <1>9, FreeSession
  <2>3. new = [epoch |-> srvCursor.epoch, val |-> srvCursor.val]
    BY <1>4, <1>9, <2>1, <2>2
  <2>4. srvCursor = [epoch |-> srvCursor.epoch, val |-> srvCursor.val]
    BY <1>3 DEF Cursor
  <2>5. QED
    BY <2>1, <2>3, <2>4
<1>10. ASSUME Append, read.epoch # epoch \/ read.val < top
       PROVE  /\ srvCursor = read /\ new.val = top /\ NewValue(s) = top
              /\ srvCursor.epoch = epoch => srvCursor.val <= new.val
  <2>1. srvCursor = read /\ NewValue(s) = top
    BY <1>1, <1>2, <1>10
  <2>2. new.val = top
    BY <1>4, <2>1
  <2>3. QED
    BY <1>8, <1>10, <2>1, <2>2
<1>11. (read.epoch = epoch /\ read.val >= top) \/ read.epoch # epoch \/ read.val < top
  BY <1>8
<1>12. Append => NewValue(s) <= new.val
  BY <1>8, <1>9, <1>10, <1>11
<1>13. Append /\ srvCursor.epoch = epoch => srvCursor.val <= new.val
  BY <1>8, <1>9, <1>10, <1>11
<1>14. Append => \/ srvCursor.epoch = epoch /\ new = srvCursor
                 \/ /\ srvCursor = read /\ new.val = top
                    /\ read.epoch # epoch \/ read.val < top
  BY <1>9, <1>10, <1>11
<1>15. QED
  BY <1>5, <1>6, <1>7, <1>12, <1>13, <1>14 DEF new, top, read

\* Two append requests whose last rows are both above the edge's cursor share the
\* lower of the two.
LEMMA SharedRow ==
  ASSUME IInv, Append, NEW s \in Session, NEW u \in Session, Active(s), Active(u),
         cursor < BatchMax(session[s].req), BatchMax(session[s].req) <= BatchMax(session[u].req)
  PROVE  session[s].req.rows \cap session[u].req.rows # {}
<1> DEFINE r == session[s].req
           q == session[u].req
<1>1. r \in Request /\ HasLast(r) /\ \A x \in r.rows : row[x.key] = x.seq
  BY DEF IInv, TypeOK, Sessions, RequestInv
<1>2. PICK x \in r.rows : x.seq = BatchMax(r)
  BY <1>1, MaxOfBatch
<1>3. x.key \in Key /\ x = [key |-> x.key, seq |-> row[x.key]] /\ row[x.key] = BatchMax(r)
  BY <1>1, <1>2 DEF Request, Row
<1>4. \A k \in Key : cursor < row[k] /\ row[k] <= BatchMax(q) => [key |-> k, seq |-> row[k]] \in q.rows
  BY DEF IInv, RequestInv
<1>5. x \in q.rows
  BY <1>3, <1>4
<1>6. QED
  BY <1>2, <1>5

\* An append table loses nothing in an upsert.
LEMMA StoredKept ==
  ASSUME IInv, Append, NEW s \in Session, session[s].step = "commit"
  PROVE  stored \subseteq Upserted(s)
<1> DEFINE r == session[s].req
<1> SUFFICES ASSUME NEW v \in stored PROVE v \in Upserted(s)
  OBVIOUS
<1>1. r.epoch = epoch /\ r \in Request /\ \A x \in r.rows : row[x.key] = x.seq
  BY NewValueBounds DEF IInv, RequestInv
<1>2. v \in [epoch : 0..MaxEpoch, key : Key, seq : 1..MaxSeq]
  BY DEF IInv, TypeOK
<1>3. v.epoch = epoch => row[v.key] = v.seq
  BY DEF IInv, StoredInv
<1>4. CASE \A x \in r.rows : v.epoch # r.epoch \/ v.seq # x.seq
  BY <1>4 DEF Upserted, Append
<1>5. CASE \E x \in r.rows : v.epoch = r.epoch /\ v.seq = x.seq
  <2>1. PICK x \in r.rows : v.epoch = r.epoch /\ v.seq = x.seq
    BY <1>5
  <2>2. x.key \in Key /\ v.key \in Key /\ row[v.key] = row[x.key] /\ row[v.key] > 0
    BY <1>1, <1>2, <1>3, <2>1 DEF Request, Row
  <2>3. v.key = x.key
    BY <2>2 DEF IInv, EdgeInv
  <2>4. v = Version(r, x)
    BY <1>2, <2>1, <2>3 DEF Version
  <2>5. QED
    BY <2>4 DEF Upserted
<1>6. QED
  BY <1>4, <1>5

\* What a commit of an append table covers.
LEMMA CommitCovers ==
  ASSUME IInv, Append, NEW s \in Session, session[s].step = "commit",
         NEW k \in Key, 0 < row[k], row[k] <= BatchMax(session[s].req)
  PROVE  [epoch |-> epoch, key |-> k, seq |-> row[k]] \in Upserted(s)
<1> DEFINE r == session[s].req
<1>1. row[k] \in Nat /\ cursor \in Nat
  BY Numbers DEF IInv, TypeOK
<1>2. CASE row[k] <= cursor
  <2>1. srvCursor.epoch = epoch /\ cursor <= srvCursor.val /\ srvCursor.val \in Nat
    BY <1>1, <1>2, Numbers DEF IInv, CursorInv, TypeOK, Cursor
  <2>2. [epoch |-> epoch, key |-> k, seq |-> row[k]] \in stored
    BY <1>1, <1>2, <2>1 DEF IInv, CursorInv, HeldUpTo
  <2>3. QED
    BY <2>2, StoredKept
<1>3. CASE cursor < row[k]
  <2>1. r.epoch = epoch /\ Active(s)
    BY NewValueBounds
  <2>2. [key |-> k, seq |-> row[k]] \in r.rows
    BY <1>3, <2>1 DEF IInv, RequestInv
  <2>3. QED
    BY <2>1, <2>2 DEF Upserted, Version
<1>4. QED
  BY <1>1, <1>2, <1>3

\* Two append transactions about to commit have not both rows above what the server
\* had: the lower of their last rows would be locked by both.
LEMMA OneAbove ==
  ASSUME IInv, Append, NEW s \in Session, NEW u \in Session, s # u,
         session[s].step = "commit", session[u].step = "commit",
         srvCursor.epoch # epoch \/ srvCursor.val < BatchMax(session[s].req),
         srvCursor.epoch # epoch \/ srvCursor.val < BatchMax(session[u].req)
  PROVE  FALSE
<1>1. /\ cursor \in Nat /\ srvCursor.val \in Nat
      /\ cursor > 0 => srvCursor.epoch = epoch /\ cursor <= srvCursor.val
  BY Numbers DEF IInv, TypeOK, Cursor, CursorInv
<1>2. /\ Active(s) /\ BatchMax(session[s].req) \in 1..MaxSeq
      /\ Active(u) /\ BatchMax(session[u].req) \in 1..MaxSeq
  BY NewValueBounds
<1>3. cursor < BatchMax(session[s].req) /\ cursor < BatchMax(session[u].req)
  BY <1>1, <1>2
<1>4. session[s].req.rows \cap session[u].req.rows = {}
  BY DEF IInv, LockInv
<1>5. CASE BatchMax(session[s].req) <= BatchMax(session[u].req)
  BY <1>2, <1>3, <1>4, <1>5, SharedRow
<1>6. CASE BatchMax(session[u].req) <= BatchMax(session[s].req)
  <2>1. session[u].req.rows \cap session[s].req.rows # {}
    BY <1>2, <1>3, <1>6, SharedRow
  <2>2. QED
    BY <1>4, <2>1
<1>7. QED
  BY <1>2, <1>5, <1>6

\* What the other sessions have read stands after a commit.
LEMMA ReadsStand ==
  ASSUME IInv, NEW s \in Session, session[s].step = "commit",
         session[s].read = NoCursor => srvCursor = NoCursor,
         NEW u \in Session, u # s, session[u].step = "commit"
  PROVE  LET read == session[u].read  top == BatchMax(session[u].req)  new == WriteChanged(s)
         IN  /\ new = read \/ new.epoch = epoch
             /\ read.epoch = epoch => new.epoch = epoch /\ read.val <= counter
             /\ Append /\ read.epoch = epoch => read.val <= new.val
             /\ Append /\ (read.epoch # epoch \/ read.val < top) => new = read
<1> DEFINE read == session[u].read
           top == BatchMax(session[u].req)
           new == WriteChanged(s)
           mine == BatchMax(session[s].req)
<1>1. /\ new.epoch = epoch /\ new \in Cursor
      /\ Append /\ srvCursor.epoch = epoch => srvCursor.val <= new.val
      /\ Append => \/ srvCursor.epoch = epoch /\ new = srvCursor
                   \/ /\ srvCursor = session[s].read /\ new.val = mine
                      /\ session[s].read.epoch # epoch \/ session[s].read.val < mine
  BY CursorWritten
<1>2. /\ read.epoch = epoch => srvCursor.epoch = epoch /\ read.val <= counter
      /\ Append /\ read.epoch = epoch => read.val <= srvCursor.val
      /\ Append /\ (read.epoch # epoch \/ read.val < top) => srvCursor = read
  BY DEF IInv, ReadInv
<1>3. read.val \in Nat /\ new.val \in Nat /\ srvCursor.val \in Nat
  BY <1>1, Numbers DEF IInv, TypeOK, Sessions, Cursor
<1>4. Append /\ read.epoch = epoch => read.val <= new.val
  BY <1>1, <1>2, <1>3
<1>5. ASSUME Append, read.epoch # epoch \/ read.val < top PROVE new = read
  <2>1. srvCursor = read
    BY <1>2, <1>5
  <2>2. CASE new = srvCursor
    BY <2>1, <2>2
  <2>3. CASE srvCursor.epoch # epoch \/ srvCursor.val < mine
    <3>1. srvCursor.epoch # epoch \/ srvCursor.val < top
      BY <1>5, <2>1
    <3>2. QED
      BY <1>5, <2>3, <3>1, OneAbove
  <2>4. QED
    BY <1>1, <1>5, <2>2, <2>3
<1>6. QED
  BY <1>1, <1>2, <1>4, <1>5

LEMMA CommitStep ==
  ASSUME IInv, NEW s \in Session, Commit(s)
  PROVE  IInv'
<1> DEFINE new == WriteChanged(s)
           r == session[s].req
           st == IF client = s
                 THEN [Free EXCEPT !.step = "answered", !.ack = NewValue(s), !.req = r]
                 ELSE Free
<1>1. /\ session[s].step = "commit" /\ (session[s].read = NoCursor => srvCursor = NoCursor)
      /\ stored' = Upserted(s) /\ srvCursor' = new /\ runs' = runs \cup {r.run}
      /\ Put(s, st) /\ UNCHANGED <<edgeVars, client>>
  BY DEF Commit, Answer
<1>2. /\ UNCHANGED <<strategy, limit, epoch, counter, row, cursor>>
      /\ UNCHANGED client
  BY <1>1 DEF edgeVars
<1>3. /\ r \in Request /\ r.epoch = epoch /\ r.run \in RunId /\ Active(s)
      /\ BatchMax(r) \in 1..MaxSeq
      /\ NewValue(s) \in 1..MaxSeq /\ NewValue(s) <= counter /\ BatchMax(r) <= NewValue(s)
  BY <1>1, NewValueBounds
<1>4. /\ new \in Cursor /\ new.epoch = epoch /\ new.val <= counter
      /\ Append => NewValue(s) <= new.val
      /\ Append /\ srvCursor.epoch = epoch => srvCursor.val <= new.val
      /\ Append => \/ srvCursor.epoch = epoch /\ new = srvCursor
                   \/ srvCursor = session[s].read /\ new.val = BatchMax(r)
  BY <1>1, CursorWritten
<1>5. /\ st \in Sessions /\ st.locked = {} /\ st.step \in {"free", "answered"}
      /\ st.step = "free" <=> client # s
      /\ st.step = "answered" => st.req = r /\ st.ack = NewValue(s)
  <2>1. CASE client = s
    <3>1. NewValue(s) \in 0..MaxSeq
      BY <1>3, Numbers
    <3>2. QED
      BY <1>3, <2>1, <3>1, FreeSession DEF Sessions, Free
  <2>2. CASE client # s
    BY <2>2, FreeSession
  <2>3. QED
    BY <2>1, <2>2
<1> HIDE DEF new, st
<1>6. /\ session' \in [Session -> Sessions] /\ session'[s] = st
      /\ \A u \in Session : u # s => session'[u] = session[u]
      /\ \A u \in Session : session'[u].locked \subseteq session'[u].req.rows
      /\ EdgeInv' /\ RequestInv' /\ LockInv'
  BY <1>1, <1>3, <1>5, PutSession
<1>7. TypeOK'
  <2>1. Upserted(s) \subseteq [epoch : 0..MaxEpoch, key : Key, seq : 1..MaxSeq]
    <3>1. \A x \in r.rows : Version(r, x) \in [epoch : 0..MaxEpoch, key : Key, seq : 1..MaxSeq]
      BY <1>3 DEF Version, Request, Row
    <3>2. QED
      BY <3>1 DEF Upserted, IInv, TypeOK
  <2>2. /\ stored' \subseteq [epoch : 0..MaxEpoch, key : Key, seq : 1..MaxSeq]
        /\ runs' \subseteq RunId /\ srvCursor' \in Cursor
    BY <1>1, <1>3, <1>4, <2>1 DEF IInv, TypeOK
  <2>3. /\ \E t \in Tables : strategy = t[1] /\ limit = t[2]
        /\ epoch \in 1..MaxEpoch /\ counter \in 0..MaxSeq /\ row \in [Key -> 0..MaxSeq]
        /\ cursor \in 0..MaxSeq /\ client \in Session \cup {Nobody}
    BY DEF IInv, TypeOK
  <2>4. QED
    BY <1>2, <1>6, <2>2, <2>3 DEF TypeOK
<1>8. ASSUME Append, NEW k \in Key, 0 < row[k], row[k] <= new.val
      PROVE  [epoch |-> epoch, key |-> k, seq |-> row[k]] \in Upserted(s)
  <2>1. CASE srvCursor.epoch = epoch /\ new = srvCursor
    <3>1. [epoch |-> epoch, key |-> k, seq |-> row[k]] \in stored
      BY <1>8, <2>1 DEF IInv, CursorInv, HeldUpTo
    <3>2. QED
      BY <1>1, <1>8, <3>1, StoredKept
  <2>2. CASE new.val = BatchMax(r)
    BY <1>1, <1>8, <2>2, CommitCovers
  <2>3. QED
    BY <1>4, <1>8, <2>1, <2>2
<1>9. CursorInv'
  <2>1. Append /\ cursor > 0 => cursor <= new.val
    <3>1. Append /\ cursor > 0 => srvCursor.epoch = epoch /\ cursor <= srvCursor.val
      BY DEF IInv, CursorInv
    <3>2. cursor \in Nat /\ srvCursor.val \in Nat /\ new.val \in Nat
      BY <1>4, Numbers DEF IInv, TypeOK, Cursor
    <3>3. QED
      BY <1>4, <3>1, <3>2
  <2>2. Append => HeldUpTo(srvCursor.val)'
    BY <1>1, <1>2, <1>8 DEF HeldUpTo
  <2>3. new.epoch <= epoch
    BY <1>4, Numbers DEF IInv, TypeOK
  <2>4. QED
    BY <1>1, <1>2, <1>4, <2>1, <2>2, <2>3 DEF CursorInv, Append
<1>10. ReadInv'
  <2> SUFFICES ASSUME NEW u \in Session, session'[u].step = "commit"
               PROVE  LET read == session'[u].read  top == BatchMax(session'[u].req) IN
                      /\ new = read \/ new.epoch = epoch
                      /\ read.epoch = epoch => new.epoch = epoch /\ read.val <= counter
                      /\ Append /\ read.epoch = epoch => read.val <= new.val
                      /\ Append /\ (read.epoch # epoch \/ read.val < top) => new = read
    BY <1>1, <1>2 DEF ReadInv, Append, BatchMax
  <2>1. u # s /\ session'[u] = session[u]
    BY <1>5, <1>6
  <2>2. QED
    BY <1>1, <2>1, ReadsStand DEF new
<1>11. AnswerInv'
  <2> SUFFICES ASSUME NEW u \in Session, session'[u].step = "answered"
               PROVE  /\ BatchMax(session'[u].req) <= session'[u].ack /\ session'[u].ack <= counter
                      /\ Append => new.epoch = epoch /\ session'[u].ack <= new.val
    BY <1>1, <1>2 DEF AnswerInv, Append, BatchMax
  <2>1. CASE u = s
    BY <1>3, <1>4, <1>5, <1>6, <2>1
  <2>2. CASE u # s
    <3>1. session'[u] = session[u]
      BY <1>6, <2>2
    <3>2. /\ BatchMax(session[u].req) <= session[u].ack /\ session[u].ack <= counter
          /\ Append => srvCursor.epoch = epoch /\ session[u].ack <= srvCursor.val
      BY <3>1 DEF IInv, AnswerInv
    <3>3. session[u].ack \in Nat /\ srvCursor.val \in Nat /\ new.val \in Nat
      BY <1>4, Numbers DEF IInv, TypeOK, Sessions, Cursor
    <3>4. QED
      BY <1>4, <3>1, <3>2, <3>3
  <2>3. QED
    BY <2>1, <2>2
<1>12. StoredInv'
  <2> SUFFICES ASSUME Append, NEW v \in Upserted(s)
               PROVE  v.epoch <= epoch /\ (v.epoch = epoch => v.key \in Key /\ row[v.key] = v.seq)
    BY <1>1, <1>2 DEF StoredInv, Append
  <2>1. CASE v \in stored
    BY <2>1 DEF IInv, StoredInv
  <2>2. CASE v \notin stored
    <3>1. PICK x \in r.rows : v = Version(r, x)
      BY <2>2 DEF Upserted
    <3>2. x.key \in Key /\ row[x.key] = x.seq
      BY <1>3 DEF Request, Row, IInv, RequestInv
    <3>3. epoch \in Nat
      BY Numbers DEF IInv, TypeOK
    <3>4. QED
      BY <1>3, <3>1, <3>2, <3>3 DEF Version
  <2>3. QED
    BY <2>1, <2>2
<1>13. QED
  BY <1>6, <1>7, <1>9, <1>10, <1>11, <1>12 DEF IInv

-----------------------------------------------------------------------------
(* The edge.                                                               *)

\* A write of an append table takes a key that has none yet, and a position above
\* every request's.
LEMMA WriteStep ==
  ASSUME IInv, NEW k \in Key, Write(k)
  PROVE  IInv'
<1>1. /\ counter < MaxSeq \div epoch /\ (Append => row[k] = 0)
      /\ counter' = counter + 1 /\ row' = [row EXCEPT ![k] = counter + 1]
      /\ UNCHANGED <<strategy, limit, epoch, cursor>>
      /\ UNCHANGED <<client, session, runs, stored, srvCursor>>
  BY DEF Write, Append, serverVars
<1>2. /\ counter \in 0..MaxSeq /\ row \in [Key -> 0..MaxSeq] /\ epoch \in 1..MaxEpoch
      /\ cursor \in 0..MaxSeq
  BY DEF IInv, TypeOK
<1>3. counter + 1 \in 1..MaxSeq /\ counter + 1 \in 0..MaxSeq /\ counter \in Nat
  <2>1. epoch \in Nat /\ epoch > 0
    BY <1>2, Numbers
  <2>2. MaxSeq \div epoch \in Nat /\ MaxSeq \div epoch <= MaxSeq
    BY <2>1, Quotient
  <2>3. QED
    BY <1>1, <1>2, <2>2, Numbers
<1>4. /\ row' \in [Key -> 0..MaxSeq] /\ row'[k] = counter + 1
      /\ \A j \in Key : j # k => row'[j] = row[j]
  BY <1>1, <1>2, <1>3
<1>5. TypeOK'
  <2>1. /\ \E t \in Tables : strategy = t[1] /\ limit = t[2]
        /\ client \in Session \cup {Nobody} /\ runs \subseteq RunId
        /\ session \in [Session -> Sessions]
        /\ \A s \in Session : session[s].locked \subseteq session[s].req.rows
        /\ srvCursor \in Cursor
        /\ stored \subseteq [epoch : 0..MaxEpoch, key : Key, seq : 1..MaxSeq]
    BY DEF IInv, TypeOK
  <2>2. QED
    BY <1>1, <1>2, <1>3, <1>4, <2>1 DEF TypeOK
<1>6. EdgeInv'
  <2>1. \A j \in Key : row[j] \in Nat /\ row[j] <= counter
    BY <1>2, Numbers DEF IInv, EdgeInv
  <2>2. \A i, j \in Key : row[i] = row[j] /\ row[i] > 0 => i = j
    BY DEF IInv, EdgeInv
  <2>3. cursor <= counter
    BY DEF IInv, EdgeInv
  <2>4. cursor' <= counter' /\ \A j \in Key : row'[j] <= counter'
    BY <1>1, <1>2, <1>3, <1>4, <2>1, <2>3
  <2>5. \A i, j \in Key : row'[i] = row'[j] /\ row'[i] > 0 => i = j
    BY <1>3, <1>4, <2>1, <2>2
  <2>6. QED
    BY <2>4, <2>5 DEF EdgeInv
<1>7. RequestInv'
  <2>1. ASSUME NEW s \in Session, Active(s)
        PROVE  LET r == session[s].req IN
               /\ r.epoch = epoch /\ r.run \in RunId /\ HasLast(r)
               /\ \A x \in r.rows : x.seq <= counter + 1
               /\ Append => \A x \in r.rows : row'[x.key] = x.seq
               /\ Append => \A j \in Key : cursor < row'[j] /\ row'[j] <= BatchMax(r)
                                             => [key |-> j, seq |-> row'[j]] \in r.rows
    <3> DEFINE r == session[s].req
    <3>1. /\ r.epoch = epoch /\ r.run \in RunId /\ HasLast(r)
          /\ \A x \in r.rows : x.seq <= counter
          /\ Append => \A x \in r.rows : row[x.key] = x.seq
          /\ Append => \A j \in Key : cursor < row[j] /\ row[j] <= BatchMax(r)
                                        => [key |-> j, seq |-> row[j]] \in r.rows
      BY <2>1 DEF IInv, RequestInv
    <3>2. r \in Request /\ \A x \in r.rows : x.key \in Key /\ x.seq \in 1..MaxSeq
      BY DEF IInv, TypeOK, Sessions, Request, Row
    <3>3. BatchMax(r) <= counter /\ BatchMax(r) \in Nat
      <4>1. /\ BatchMax(r) \in 1..MaxSeq /\ \E x \in r.rows : x.seq = BatchMax(r)
        BY <3>1, <3>2, MaxOfBatch
      <4>2. QED
        BY <3>1, <4>1, Numbers
    <3>4. \A x \in r.rows : x.seq <= counter + 1
      BY <1>3, <3>1, <3>2, Numbers
    <3>5. Append => \A x \in r.rows : row'[x.key] = x.seq
      BY <1>1, <1>4, <3>1, <3>2, Numbers
    <3>6. Append => \A j \in Key : cursor < row'[j] /\ row'[j] <= BatchMax(r)
                                     => [key |-> j, seq |-> row'[j]] \in r.rows
      BY <1>3, <1>4, <3>1, <3>3
    <3>7. QED
      BY <3>1, <3>4, <3>5, <3>6
  <2>2. /\ client # Nobody => Active(client) /\ \A x \in session[client].req.rows : cursor < x.seq
        /\ \A s \in Session : session[s].step \in {"answered", "failed"} => client = s
    BY DEF IInv, RequestInv
  <2>3. QED
    BY <1>1, <2>1, <2>2 DEF RequestInv, Active, Append, HasLast, BatchMax, RunId
<1>8. LockInv'
  BY <1>1 DEF IInv, LockInv, Append, Working
<1>9. ASSUME Append, NEW n \in Nat, n <= counter, HeldUpTo(n)
      PROVE  \A j \in Key : 0 < row'[j] /\ row'[j] <= n
                              => [epoch |-> epoch, key |-> j, seq |-> row'[j]] \in stored
  BY <1>3, <1>4, <1>9 DEF HeldUpTo
<1>10. CursorInv'
  <2>1. /\ srvCursor.epoch <= epoch
        /\ srvCursor.epoch = epoch => srvCursor.val <= counter
        /\ Append /\ srvCursor.epoch = epoch => HeldUpTo(srvCursor.val)
        /\ Append /\ cursor > 0 => srvCursor.epoch = epoch /\ cursor <= srvCursor.val
        /\ srvCursor.val \in Nat
    BY Numbers DEF IInv, CursorInv, TypeOK, Cursor
  <2>2. srvCursor.epoch = epoch => srvCursor.val <= counter + 1
    BY <1>3, <2>1
  <2>3. Append /\ srvCursor.epoch = epoch => HeldUpTo(srvCursor.val)'
    BY <1>1, <1>9, <2>1 DEF HeldUpTo
  <2>4. QED
    BY <1>1, <2>1, <2>2, <2>3 DEF CursorInv, Append
<1>11. ReadInv'
  <2>1. \A s \in Session : session[s].read.val \in Nat
    BY Numbers DEF IInv, TypeOK, Sessions, Cursor
  <2>2. ASSUME NEW s \in Session, session[s].step = "commit"
        PROVE  LET read == session[s].read  top == BatchMax(session[s].req) IN
               /\ srvCursor = read \/ srvCursor.epoch = epoch
               /\ read.epoch = epoch => srvCursor.epoch = epoch /\ read.val <= counter + 1
               /\ Append /\ read.epoch = epoch => read.val <= srvCursor.val
               /\ Append /\ (read.epoch # epoch \/ read.val < top) => srvCursor = read
    BY <1>3, <2>1, <2>2 DEF IInv, ReadInv
  <2>3. QED
    BY <1>1, <2>2 DEF ReadInv, Append, BatchMax
<1>12. AnswerInv'
  <2>1. \A s \in Session : session[s].ack \in Nat
    BY Numbers DEF IInv, TypeOK, Sessions
  <2>2. ASSUME NEW s \in Session, session[s].step = "answered"
        PROVE  /\ BatchMax(session[s].req) <= session[s].ack /\ session[s].ack <= counter + 1
               /\ Append => srvCursor.epoch = epoch /\ session[s].ack <= srvCursor.val
    BY <1>3, <2>1, <2>2 DEF IInv, AnswerInv
  <2>3. QED
    BY <1>1, <2>2 DEF AnswerInv, Append, BatchMax
<1>13. StoredInv'
  <2>1. \A v \in stored : v.seq \in 1..MaxSeq
    BY DEF IInv, TypeOK
  <2>2. Append => \A v \in stored :
          v.epoch <= epoch /\ (v.epoch = epoch => v.key \in Key /\ row[v.key] = v.seq)
    BY DEF IInv, StoredInv
  <2>3. Append => \A v \in stored : v.epoch = epoch => row'[v.key] = v.seq
    BY <1>1, <1>4, <2>1, <2>2, Numbers
  <2>4. QED
    BY <1>1, <2>2, <2>3 DEF StoredInv, Append
<1>14. QED
  BY <1>5, <1>6, <1>7, <1>8, <1>10, <1>11, <1>12, <1>13 DEF IInv

\* A request the edge may post, when its cursor is c.
Postable(r, c) ==
  /\ r \in Request /\ r.epoch = epoch /\ r.run \in RunId /\ HasLast(r)
  /\ \A x \in r.rows : c < x.seq /\ x.seq <= counter
  /\ Append => \A x \in r.rows : row[x.key] = x.seq
  /\ Append => \A k \in Key : c < row[k] /\ row[k] <= BatchMax(r)
                                => [key |-> k, seq |-> row[k]] \in r.rows

\* The run begins a request or ends one, and may move its cursor up: the sessions
\* are closed or go on, but the one that has been begun.
LEMMA EdgeStep ==
  ASSUME IInv,
         UNCHANGED <<strategy, limit, epoch, counter, row, stored, srvCursor>>,
         cursor' \in 0..MaxSeq, cursor <= cursor', cursor' <= counter,
         Append /\ cursor' > 0 => srvCursor.epoch = epoch /\ cursor' <= srvCursor.val,
         runs' \subseteq RunId,
         session' \in [Session -> Sessions], client' \in Session \cup {Nobody},
         \A u \in Session : u # client' =>
           \/ session'[u] = Free
           \/ session'[u] = session[u] /\ session[u].step \notin {"answered", "failed"},
         client' # Nobody =>
           /\ session'[client'].step \in {"insert", "rows"}
           /\ session'[client'].locked = {} /\ Postable(session'[client'].req, cursor')
  PROVE  IInv'
<1>1. \A u \in Session :
        \/ session'[u] = Free
        \/ session'[u] = session[u] /\ session[u].step \notin {"answered", "failed"}
        \/ /\ u = client' /\ session'[u].step \in {"insert", "rows"}
           /\ session'[u].locked = {} /\ Postable(session'[u].req, cursor')
  BY Numbers
<1>2. TypeOK'
  <2>1. \A u \in Session : session'[u].locked \subseteq session'[u].req.rows
    BY <1>1, FreeSession DEF IInv, TypeOK
  <2>2. QED
    BY <2>1 DEF IInv, TypeOK
<1>3. EdgeInv'
  BY DEF IInv, EdgeInv
<1>4. RequestInv'
  <2>1. cursor \in Nat /\ cursor' \in Nat /\ \A k \in Key : row[k] \in Nat
    BY Numbers DEF IInv, TypeOK
  <2>2. ASSUME NEW u \in Session, session'[u].step # "free"
        PROVE  LET r == session'[u].req IN
               /\ r.epoch = epoch /\ r.run \in RunId /\ HasLast(r)
               /\ \A x \in r.rows : x.seq <= counter
               /\ Append => \A x \in r.rows : row[x.key] = x.seq
               /\ Append => \A k \in Key : cursor' < row[k] /\ row[k] <= BatchMax(r)
                                             => [key |-> k, seq |-> row[k]] \in r.rows
    <3>1. CASE session'[u] = session[u]
      <4>1. LET r == session[u].req IN
            /\ r.epoch = epoch /\ r.run \in RunId /\ HasLast(r)
            /\ \A x \in r.rows : x.seq <= counter
            /\ Append => \A x \in r.rows : row[x.key] = x.seq
            /\ Append => \A k \in Key : cursor < row[k] /\ row[k] <= BatchMax(r)
                                          => [key |-> k, seq |-> row[k]] \in r.rows
        BY <2>2, <3>1 DEF IInv, RequestInv, Active
      <4>2. \A k \in Key : cursor' < row[k] => cursor < row[k]
        BY <2>1
      <4>3. QED
        BY <3>1, <4>1, <4>2
    <3>2. CASE Postable(session'[u].req, cursor')
      BY <3>2 DEF Postable
    <3>3. QED
      BY <1>1, <2>2, <3>1, <3>2, FreeSession
  <2>3. client' # Nobody => /\ session'[client'].step # "free"
                            /\ \A x \in session'[client'].req.rows : cursor' < x.seq
    BY DEF Postable
  <2>4. \A u \in Session : session'[u].step \notin {"answered", "failed"}
    BY <1>1, FreeSession
  <2>5. QED
    BY <2>2, <2>3, <2>4 DEF RequestInv, Active, Append, HasLast, BatchMax, RunId
<1>5. LockInv'
  <2>1. \A u \in Session : session'[u].locked = {} \/ session'[u] = session[u]
    BY <1>1, FreeSession
  <2>2. \A u \in Session :
          /\ session'[u].step \in {"cursor", "commit"} => session'[u].locked = session'[u].req.rows
          /\ session'[u].step \notin {"insert", "rows", "cursor", "commit"} => session'[u].locked = {}
    BY <1>1, FreeSession DEF IInv, LockInv, Working
  <2>3. \A s, u \in Session : Append /\ s # u => session'[s].locked \cap session'[u].locked = {}
    <3>1. \A s, u \in Session : Append /\ s # u => session[s].locked \cap session[u].locked = {}
      BY DEF IInv, LockInv
    <3>2. QED
      BY <2>1, <3>1
  <2>4. QED
    BY <2>2, <2>3 DEF LockInv, Working, Append
<1>6. CursorInv'
  BY DEF IInv, CursorInv, Append, HeldUpTo
<1>7. ReadInv'
  <2>1. \A u \in Session : session'[u].step = "commit" => session'[u] = session[u]
    BY <1>1, FreeSession
  <2>2. QED
    BY <2>1 DEF IInv, ReadInv, Append, BatchMax
<1>8. AnswerInv'
  <2>1. \A u \in Session : session'[u].step # "answered"
    BY <1>1, FreeSession
  <2>2. QED
    BY <2>1 DEF AnswerInv
<1>9. StoredInv'
  BY DEF IInv, StoredInv, Append
<1>10. QED
  BY <1>2, <1>3, <1>4, <1>5, <1>6, <1>7, <1>8, <1>9 DEF IInv

\* Sending an answer closes its session; the others go on.
LEMMA ClosedSessions ==
  ASSUME IInv
  PROVE  /\ Closed \in [Session -> Sessions]
         /\ \A u \in Session :
              \/ Closed[u] = Free
              \/ Closed[u] = session[u] /\ session[u].step \notin {"answered", "failed"}
<1>1. Closed \in [Session -> Sessions]
  BY FreeSession DEF IInv, TypeOK, Closed
<1>2. ASSUME NEW u \in Session, session[u].step \in {"answered", "failed"} PROVE Closed[u] = Free
  BY <1>2 DEF IInv, RequestInv, Closed, Working
<1>3. \A u \in Session : Closed[u] = Free \/ Closed[u] = session[u]
  BY DEF Closed
<1>4. QED
  BY <1>1, <1>2, <1>3

\* A request is put into a session of its own.
LEMMA Begun ==
  ASSUME IInv, NEW r, Begin(r), Postable(r, cursor)
  PROVE  /\ client' \in Session /\ session' \in [Session -> Sessions]
         /\ \A u \in Session : u # client' =>
              \/ session'[u] = Free
              \/ session'[u] = session[u] /\ session[u].step \notin {"answered", "failed"}
         /\ session'[client'].step \in {"insert", "rows"}
         /\ session'[client'].locked = {} /\ session'[client'].req = r
<1> DEFINE st == [Free EXCEPT !.req = r, !.step = IF r.run \in runs' THEN "rows" ELSE "insert"]
<1>1. PICK s \in Session : session' = [Closed EXCEPT ![s] = st] /\ client' = s
  BY DEF Begin
<1>2. /\ st \in Sessions /\ st.step \in {"insert", "rows"} /\ st.locked = {} /\ st.req = r
  BY FreeSession DEF Postable, Sessions, Free
<1> HIDE DEF st
<1>3. /\ session' \in [Session -> Sessions] /\ session'[s] = st
      /\ \A u \in Session : u # s => session'[u] = Closed[u]
  BY <1>1, <1>2, ClosedSessions
<1>4. QED
  BY <1>1, <1>2, <1>3, ClosedSessions

LEMMA StartRunStep ==
  ASSUME IInv, StartRun
  PROVE  IInv'
<1> DEFINE used == {session[u].req.run : u \in Session}
           run == CHOOSE i \in RunId : i \notin used
<1>1. PICK rows \in SUBSET EdgeRows :
        ReadRows(rows) /\ Begin([run |-> run, epoch |-> epoch, rows |-> rows])
  BY DEF StartRun
<1> DEFINE r == [run |-> run, epoch |-> epoch, rows |-> rows]
<1>2. /\ UNCHANGED <<strategy, limit, epoch, counter, row, cursor>>
      /\ UNCHANGED <<stored, srvCursor>> /\ runs' = runs \cap used
  BY DEF StartRun, edgeVars
<1>3. run \in RunId
  BY RunIdLeft DEF IInv
<1> HIDE DEF run, used
<1>4. Postable(r, cursor)
  <2>1. /\ rows \in SUBSET Row
        /\ \E last \in rows : \A x \in rows : x.seq <= last.seq
        /\ \A x \in rows : cursor < x.seq /\ x.seq <= counter /\ x.seq = row[x.key]
        /\ \A k \in Key : \A last \in rows :
             cursor < row[k] /\ row[k] <= last.seq => [key |-> k, seq |-> row[k]] \in rows
    BY <1>1, BatchRead DEF IInv
  <2>2. r \in Request /\ r.epoch = epoch /\ r.run = run /\ r.rows = rows
    BY <1>3, <2>1 DEF IInv, TypeOK, Request
  <2>3. HasLast(r)
    BY <2>1, <2>2 DEF HasLast
  <2>4. \E x \in r.rows : x.seq = BatchMax(r)
    BY <2>2, <2>3, MaxOfBatch
  <2> HIDE DEF r
  <2>5. \A k \in Key : cursor < row[k] /\ row[k] <= BatchMax(r)
                         => [key |-> k, seq |-> row[k]] \in r.rows
    BY <2>1, <2>2, <2>4
  <2>6. QED
    BY <1>3, <2>1, <2>2, <2>3, <2>5 DEF Postable
<1>5. /\ client' \in Session /\ session' \in [Session -> Sessions]
      /\ \A u \in Session : u # client' =>
           \/ session'[u] = Free
           \/ session'[u] = session[u] /\ session[u].step \notin {"answered", "failed"}
      /\ session'[client'].step \in {"insert", "rows"}
      /\ session'[client'].locked = {} /\ session'[client'].req = r
  BY <1>1, <1>4, Begun
<1> HIDE DEF r
<1>6. /\ cursor \in 0..MaxSeq /\ cursor <= counter /\ cursor <= cursor /\ runs' \subseteq RunId
      /\ Append /\ cursor > 0 => srvCursor.epoch = epoch /\ cursor <= srvCursor.val
  BY <1>2, Numbers DEF IInv, TypeOK, EdgeInv, CursorInv
<1>7. QED
  BY <1>2, <1>4, <1>5, <1>6, EdgeStep

LEMMA RepostStep ==
  ASSUME IInv, Repost
  PROVE  IInv'
<1> DEFINE r == session[client].req
<1>1. /\ client # Nobody /\ Begin(r)
      /\ UNCHANGED <<strategy, limit, epoch, counter, row, cursor>>
      /\ UNCHANGED <<runs, stored, srvCursor>>
  BY DEF Repost, edgeVars, serverVars
<1>2. client \in Session /\ r \in Request
  BY <1>1 DEF IInv, TypeOK, Sessions
<1>3. Active(client) /\ \A x \in r.rows : cursor < x.seq
  BY <1>1 DEF IInv, RequestInv
<1>4. Postable(r, cursor)
  BY <1>2, <1>3 DEF IInv, RequestInv, Postable
<1>5. /\ client' \in Session /\ session' \in [Session -> Sessions]
      /\ \A u \in Session : u # client' =>
           \/ session'[u] = Free
           \/ session'[u] = session[u] /\ session[u].step \notin {"answered", "failed"}
      /\ session'[client'].step \in {"insert", "rows"}
      /\ session'[client'].locked = {} /\ session'[client'].req = r
  BY <1>1, <1>4, Begun
<1> HIDE DEF r
<1>6. /\ cursor \in 0..MaxSeq /\ cursor <= counter /\ cursor <= cursor /\ runs' \subseteq RunId
      /\ Append /\ cursor > 0 => srvCursor.epoch = epoch /\ cursor <= srvCursor.val
  BY <1>1, Numbers DEF IInv, TypeOK, EdgeInv, CursorInv
<1>7. QED
  BY <1>1, <1>4, <1>5, <1>6, EdgeStep

LEMMA LeaveStep ==
  ASSUME IInv, Leave
  PROVE  IInv'
<1>1. /\ session' = Closed /\ client' = Nobody
      /\ UNCHANGED <<strategy, limit, epoch, counter, row, cursor>>
      /\ UNCHANGED <<runs, stored, srvCursor>>
  BY DEF Leave, edgeVars, serverVars
<1>2. /\ cursor \in 0..MaxSeq /\ cursor <= counter /\ cursor <= cursor /\ runs' \subseteq RunId
      /\ Append /\ cursor > 0 => srvCursor.epoch = epoch /\ cursor <= srvCursor.val
  BY <1>1, Numbers DEF IInv, TypeOK, EdgeInv, CursorInv
<1>3. QED
  BY <1>1, <1>2, ClosedSessions, EdgeStep

\* The answer that is taken in lies above the cursor, and the server's is as high.
LEMMA AdvanceUp ==
  ASSUME IInv, Advance
  PROVE  /\ cursor' \in 0..MaxSeq /\ cursor < cursor' /\ cursor' <= counter
         /\ \A x \in session[client].req.rows : x.seq <= cursor'
         /\ Append => srvCursor.epoch = epoch /\ cursor' <= srvCursor.val
<1>1. /\ client # Nobody /\ session[client].step = "answered" /\ cursor' = session[client].ack
      /\ client \in Session
  BY DEF Advance, IInv, TypeOK
<1> DEFINE r == session[client].req
<1>2. /\ BatchMax(r) <= cursor' /\ cursor' <= counter
      /\ Append => srvCursor.epoch = epoch /\ cursor' <= srvCursor.val
  BY <1>1 DEF IInv, AnswerInv
<1>3. HasLast(r) /\ r \in Request /\ \A x \in r.rows : cursor < x.seq
  BY <1>1 DEF IInv, RequestInv, Active, TypeOK, Sessions
<1>4. BatchMax(r) \in 1..MaxSeq /\ \E x \in r.rows : x.seq = BatchMax(r)
  BY <1>3, MaxOfBatch
<1>5. cursor' \in 0..MaxSeq /\ cursor \in 0..MaxSeq
  BY <1>1 DEF IInv, TypeOK, Sessions
<1>6. cursor < BatchMax(r)
  BY <1>3, <1>4
<1>7. \A x \in r.rows : x.seq <= cursor'
  <2>1. \A x \in r.rows : x.seq <= BatchMax(r) /\ x.seq \in Nat
    BY <1>3, MaxOfBatch, Numbers DEF Request, Row
  <2>2. BatchMax(r) \in Nat /\ cursor' \in Nat
    BY <1>4, <1>5, Numbers
  <2>3. QED
    BY <1>2, <2>1, <2>2
<1> HIDE DEF r
<1>8. QED
  BY <1>2, <1>4, <1>5, <1>6, <1>7, Numbers DEF r

LEMMA AdvanceStep ==
  ASSUME IInv, Advance
  PROVE  IInv'
<1>1. /\ session' = Closed /\ client' = Nobody
      /\ UNCHANGED <<strategy, limit, epoch, counter, row>>
      /\ UNCHANGED <<runs, stored, srvCursor>>
  BY DEF Advance, serverVars
<1>2. /\ cursor' \in 0..MaxSeq /\ cursor <= cursor' /\ cursor' <= counter
      /\ Append => srvCursor.epoch = epoch /\ cursor' <= srvCursor.val
  BY AdvanceUp, Numbers DEF IInv, TypeOK
<1>3. runs' \subseteq RunId
  BY <1>1 DEF IInv, TypeOK
<1>4. QED
  BY <1>1, <1>2, <1>3, ClosedSessions, EdgeStep

\* With no request worked on, nothing of the old generation is left but what the
\* server has committed.
LEMMA ReflashStep ==
  ASSUME OneGeneration, IInv, Reflash
  PROVE  IInv'
<1>1. /\ epoch < MaxEpoch /\ \A s \in Session : ~ Working(s)
      /\ epoch' = epoch + 1 /\ counter' = 0 /\ row' = [k \in Key |-> 0] /\ cursor' = 0
      /\ session' = Closed /\ client' = Nobody
      /\ UNCHANGED <<strategy, limit, runs, stored, srvCursor>>
  BY DEF Reflash, OneGeneration, serverVars
<1>2. \A u \in Session : session'[u].step = "free" /\ session'[u].locked = {}
  <2>1. \A u \in Session : session[u].locked = {}
                           /\ session[u].step \notin {"insert", "rows", "cursor", "commit"}
    BY <1>1 DEF IInv, LockInv, Working
  <2>2. \A u \in Session : session[u].step \in
          {"free", "insert", "rows", "cursor", "commit", "answered", "failed"}
    BY DEF IInv, TypeOK, Sessions
  <2>3. QED
    BY <1>1, <2>1, <2>2, ClosedSessions, FreeSession
<1>3. /\ session' \in [Session -> Sessions] /\ epoch + 1 \in 1..MaxEpoch /\ epoch \in Nat
  BY <1>1, ClosedSessions, Numbers DEF IInv, TypeOK
<1>4. TypeOK'
  <2>1. \A s \in Session : session'[s].locked \subseteq session'[s].req.rows
    BY <1>2
  <2>2. QED
    BY <1>1, <1>3, <2>1, Numbers DEF IInv, TypeOK
<1>5. EdgeInv'
  BY <1>1 DEF EdgeInv
<1>6. RequestInv' /\ LockInv' /\ ReadInv' /\ AnswerInv'
  <2>1. RequestInv'
    BY <1>1, <1>2 DEF RequestInv, Active
  <2>2. LockInv'
    BY <1>2 DEF LockInv, Working
  <2>3. ReadInv' /\ AnswerInv'
    BY <1>2 DEF ReadInv, AnswerInv
  <2>4. QED
    BY <2>1, <2>2, <2>3
<1>7. CursorInv'
  <2>1. srvCursor.epoch <= epoch /\ srvCursor.epoch \in Nat
    BY Numbers DEF IInv, CursorInv, TypeOK, Cursor
  <2>2. QED
    BY <1>1, <1>3, <2>1 DEF CursorInv
<1>8. StoredInv'
  <2>1. Append => \A v \in stored : v.epoch <= epoch /\ v.epoch \in Nat
    BY Numbers DEF IInv, StoredInv, TypeOK
  <2>2. QED
    BY <1>1, <1>3, <2>1 DEF StoredInv, Append
<1>9. QED
  BY <1>4, <1>5, <1>6, <1>7, <1>8 DEF IInv

LEMMA StutterStep ==
  ASSUME IInv, UNCHANGED vars
  PROVE  IInv'
<1>1. /\ UNCHANGED <<strategy, limit, epoch, counter, row, cursor>>
      /\ UNCHANGED <<client, session, runs, stored, srvCursor>>
  BY DEF vars, edgeVars, serverVars
<1>2. TypeOK' /\ EdgeInv' /\ StoredInv'
  BY <1>1 DEF IInv, TypeOK, EdgeInv, StoredInv, Append
<1>3. RequestInv' /\ LockInv'
  BY <1>1 DEF IInv, RequestInv, LockInv, Append, Active, Working, HasLast, BatchMax, RunId
<1>4. CursorInv' /\ ReadInv' /\ AnswerInv'
  BY <1>1 DEF IInv, CursorInv, ReadInv, AnswerInv, Append, BatchMax, HeldUpTo
<1>5. QED
  BY <1>2, <1>3, <1>4 DEF IInv

LEMMA NextStep ==
  ASSUME OneGeneration, IInv, [Next]_vars
  PROVE  IInv'
<1>1. ASSUME NEW s \in Session, Transaction(s) PROVE IInv'
  BY <1>1, InsertRunStep, LockRowStep, ReadCursorStep, FailureStep, CommitStep DEF Transaction
<1>2. ASSUME NEW s \in Session, Fail(s) PROVE IInv'
  BY <1>2, FailureStep
<1>3. ASSUME NEW k \in Key, Write(k) PROVE IInv'
  BY <1>3, WriteStep
<1>4. CASE StartRun \/ Repost \/ Leave \/ Advance \/ Reflash
  BY <1>4, StartRunStep, RepostStep, LeaveStep, AdvanceStep, ReflashStep
<1>5. CASE EmptyRun \/ UNCHANGED vars
  BY <1>5, StutterStep DEF EmptyRun
<1>6. QED
  BY <1>1, <1>2, <1>3, <1>4, <1>5 DEF Next, Edge

\* The inductive invariant of the overlapping transactions of one generation: what
\* sessions hold, have read and may answer, against the two cursors and the rows.
THEOREM Inductive == OneGeneration => (Spec => []IInv)
<1> SUFFICES ASSUME OneGeneration PROVE Spec => []IInv
  OBVIOUS
<1>1. Init => IInv
  BY InitIInv
<1>2. IInv /\ [Next]_vars => IInv'
  BY NextStep
<1>3. QED
  BY <1>1, <1>2, PTL DEF Spec

\* Type correctness; among it, that a session never holds locks for rows that are
\* not of the request it works on, which an abort without a rollback would leave.
THEOREM TypeCorrect == OneGeneration => (Spec => []TypeOK)
<1>1. IInv => TypeOK
  BY DEF IInv
<1>2. QED
  BY <1>1, Inductive, PTL

\* However the transactions of one generation overlap, fail and are posted again,
\* a row of an append table that the edge's cursor has passed is committed.
THEOREM AckedIsCommitted == OneGeneration => (Spec => []AckedCommitted)
<1>1. IInv => AckedCommitted
  <2> SUFFICES ASSUME IInv, strategy = "append", NEW k \in Key, 0 < row[k], row[k] <= cursor
               PROVE  [epoch |-> epoch, key |-> k, seq |-> row[k]] \in stored
    BY DEF AckedCommitted, HeldUpTo
  <2>1. row[k] \in Nat /\ cursor \in Nat /\ srvCursor.val \in Nat
    BY Numbers DEF IInv, TypeOK, Cursor
  <2>2. srvCursor.epoch = epoch /\ cursor <= srvCursor.val /\ HeldUpTo(srvCursor.val)
    BY <2>1 DEF IInv, CursorInv, Append
  <2>3. QED
    BY <2>1, <2>2 DEF HeldUpTo
<1>2. QED
  BY <1>1, Inductive, PTL

\* The cursor the edge is told is a position its own generation has given out, in
\* either kind of table: no key that is still to be written is skipped.
THEOREM KeysAreNotSkipped == OneGeneration => (Spec => []KeysNotSkipped)
<1>1. IInv => KeysNotSkipped
  BY DEF IInv, EdgeInv, KeysNotSkipped
<1>2. QED
  BY <1>1, Inductive, PTL

\* The server's cursor of an append table never moves back within a generation,
\* though every transaction computes it from a value read without a lock.
THEOREM CursorIsMonotonic == OneGeneration => (Spec => AppendCursorMonotonic)
<1> SUFFICES ASSUME OneGeneration PROVE Spec => AppendCursorMonotonic
  OBVIOUS
<1>1. ASSUME IInv, [Next]_vars
      PROVE  [strategy = "append" /\ srvCursor'.epoch = srvCursor.epoch
                => srvCursor'.val >= srvCursor.val]_srvCursor
  <2> SUFFICES ASSUME Append, srvCursor'.epoch = srvCursor.epoch, srvCursor' # srvCursor
               PROVE  srvCursor'.val >= srvCursor.val
    BY DEF Append
  <2>1. srvCursor.val \in Nat
    BY <1>1, Numbers DEF IInv, TypeOK, Cursor
  <2>2. PICK s \in Session : Commit(s)
    BY <1>1 DEF Next, Edge, Transaction, InsertRun, LockRow, DeadlockAbort, ReadCursor,
       CommitConflict, Fail, Write, StartRun, EmptyRun, Repost, Leave, Advance, Reflash,
       vars, serverVars
  <2>3. session[s].step = "commit" /\ (session[s].read = NoCursor => srvCursor = NoCursor)
        /\ srvCursor' = WriteChanged(s)
    BY <2>2 DEF Commit
  <2>4. srvCursor'.epoch = epoch /\ (srvCursor.epoch = epoch => srvCursor.val <= srvCursor'.val)
        /\ srvCursor' \in Cursor
    BY <1>1, <2>3, CursorWritten
  <2>5. srvCursor'.val \in Nat
    BY <2>4, Numbers DEF Cursor
  <2>6. QED
    BY <2>1, <2>4, <2>5
<1>2. QED
  BY <1>1, Inductive, PTL DEF Spec, AppendCursorMonotonic

\* Every answer the edge takes moves its cursor forward, in either kind of table and
\* whatever overlapping transactions have made of the server's cursor: the answer
\* is at or above the batch, and the batch above the edge's cursor.
THEOREM EdgeAdvances == OneGeneration => (Spec => EdgeCursorAdvances)
<1> SUFFICES ASSUME OneGeneration PROVE Spec => EdgeCursorAdvances
  OBVIOUS
<1>1. ASSUME IInv, [Next]_vars
      PROVE  [epoch' = epoch => /\ cursor' > cursor
                                /\ \A x \in session[client].req.rows : x.seq <= cursor']_cursor
  <2> SUFFICES ASSUME epoch' = epoch, cursor' # cursor
               PROVE  /\ cursor' > cursor
                      /\ \A x \in session[client].req.rows : x.seq <= cursor'
    OBVIOUS
  <2>1. epoch \in Nat /\ cursor \in Nat
    BY <1>1, Numbers DEF IInv, TypeOK
  <2>2. ~ Reflash
    BY <2>1 DEF Reflash
  <2>3. Advance
    BY <1>1, <2>2 DEF Next, Edge, Transaction, InsertRun, LockRow, DeadlockAbort, ReadCursor,
       Commit, CommitConflict, Fail, Write, StartRun, EmptyRun, Repost, Leave, vars,
       edgeVars
  <2>4. /\ cursor < cursor' /\ cursor' \in Nat
        /\ \A x \in session[client].req.rows : x.seq <= cursor'
    BY <1>1, <2>3, AdvanceUp, Numbers
  <2>5. QED
    BY <2>1, <2>4
<1>2. QED
  BY <1>1, Inductive, PTL DEF Spec, EdgeCursorAdvances

\* The mirror's row, at the position alone.
LEMMA PromiseIsHeld == Mirror!Promised(cursor) <=> HeldUpTo(cursor)
BY DEF Mirror!Promised, Mirror!Held, HeldUpTo

LEMMA StepRefines ==
  ASSUME IInv, IInv', [Next]_vars, Append, ~ UNCHANGED <<epoch, row, cursor, stored>>
  PROVE  Mirror!Step
<1>1. (Mirror!Promised(cursor))'
  <2>1. (HeldUpTo(cursor))'
    <3> SUFFICES ASSUME NEW k \in Key, 0 < row'[k], row'[k] <= cursor'
                 PROVE  [epoch |-> epoch', key |-> k, seq |-> row'[k]] \in stored'
      BY DEF HeldUpTo
    <3>1. row'[k] \in Nat /\ cursor' \in Nat /\ srvCursor'.val \in Nat
      BY Numbers DEF IInv, TypeOK, Cursor
    <3>2. strategy' = strategy
      BY DEF Next, Edge, Transaction, InsertRun, LockRow, DeadlockAbort, ReadCursor, Commit,
         CommitConflict, Fail, Write, StartRun, EmptyRun, Repost, Leave, Advance, Reflash,
         vars, edgeVars
    <3>3. /\ srvCursor'.epoch = epoch' /\ cursor' <= srvCursor'.val
          /\ \A j \in Key : 0 < row'[j] /\ row'[j] <= srvCursor'.val
                => [epoch |-> epoch', key |-> j, seq |-> row'[j]] \in stored'
      BY <3>1, <3>2 DEF IInv, CursorInv, Append, HeldUpTo
    <3>4. QED
      BY <3>1, <3>3
  <2>2. QED
    BY <2>1, PromiseIsHeld, PTL
<1>2. ASSUME NEW s \in Session, Commit(s) PROVE Mirror!Deliver
  <2>1. stored \subseteq stored' /\ UNCHANGED <<epoch, row, cursor>>
    BY <1>2, StoredKept DEF Commit, edgeVars
  <2>2. QED
    BY <1>1, <2>1 DEF Mirror!Deliver
<1>3. ASSUME NEW k \in Key, Write(k) PROVE Mirror!WriteVersion(k)
  <2>1. /\ row[k] = 0 /\ row' = [row EXCEPT ![k] = counter + 1]
        /\ UNCHANGED <<epoch, cursor, stored>>
    BY <1>3 DEF Write, Append, serverVars
  <2>2. row \in [Key -> 0..MaxSeq] /\ cursor <= counter /\ cursor \in Nat /\ counter \in Nat
    BY Numbers DEF IInv, TypeOK, EdgeInv
  <2>3. row'[k] = counter + 1 /\ \A j \in Key : j # k => row'[j] = row[j]
    BY <2>1, <2>2
  <2>4. row'[k] > cursor
    BY <2>2, <2>3
  <2>5. [j \in Key |-> [seq |-> row'[j], kind |-> "good"]]
          = [[j \in Key |-> [seq |-> row[j], kind |-> "good"]]
               EXCEPT ![k] = [seq |-> row'[k], kind |-> "good"]]
    BY <2>3
  <2>6. QED
    BY <2>1, <2>4, <2>5 DEF Mirror!WriteVersion
<1>4. CASE Advance
  <2>1. cursor < cursor' /\ cursor \in Nat /\ cursor' \in Nat
    BY <1>4, AdvanceUp, Numbers DEF IInv, TypeOK
  <2>2. UNCHANGED <<epoch, row, stored>>
    BY <1>4 DEF Advance, serverVars
  <2>3. Mirror!Acknowledge
    BY <1>1, <2>1, <2>2 DEF Mirror!Acknowledge
  <2>4. QED
    BY <2>3 DEF Mirror!Step
<1>5. CASE Reflash
  <2>1. /\ epoch' = epoch + 1 /\ row' = [k \in Key |-> 0] /\ cursor' = 0 /\ stored' = stored
        /\ epoch \in Nat
    BY <1>5, Numbers DEF Reflash, serverVars, IInv, TypeOK
  <2>2. [k \in Key |-> [seq |-> row'[k], kind |-> "good"]]
          = [k \in Key |-> [seq |-> 0, kind |-> "good"]]
    BY <2>1
  <2>3. QED
    BY <2>1, <2>2 DEF Mirror!NewGeneration, Mirror!Step
<1>6. (\E s \in Session : Commit(s)) \/ (\E k \in Key : Write(k)) \/ Advance \/ Reflash
  BY DEF Next, Edge, Transaction, InsertRun, LockRow, DeadlockAbort, ReadCursor,
     CommitConflict, Fail, StartRun, EmptyRun, Repost, Leave, vars, edgeVars, serverVars
<1>7. QED
  BY <1>2, <1>3, <1>4, <1>5, <1>6 DEF Mirror!Step

\* For an append table, the transactions of one generation, however they overlap,
\* implement the promise of a stream: what they lock and read before they commit
\* is not to be seen, and a commit never takes away what was promised.
THEOREM TransactionsImplementMirror == OneGeneration => (Spec => ImplementsMirror)
<1> SUFFICES ASSUME OneGeneration PROVE Spec => ImplementsMirror
  OBVIOUS
<1>1. Init => (strategy = "append" => Mirror!Start)
  BY DEF Init, Mirror!Start
<1>2. IInv /\ IInv' /\ [Next]_vars
        => [strategy = "append" => Mirror!Step]_<<epoch, row, cursor, stored>>
  BY StepRefines DEF Append
<1>3. QED
  BY <1>1, <1>2, Inductive, PTL DEF Spec, ImplementsMirror

-----------------------------------------------------------------------------
(* Deadlocks.                                                              *)

\* The order of the locks is kept where no session locks a row.
LEMMA OrderKept ==
  ASSUME OrderInv, strategy' = strategy,
         \A u \in Session :
           \/ session'[u] = session[u]
           \/ session'[u].step \notin {"insert", "rows"}
           \/ session'[u].locked = {} /\ (session'[u].step = "insert" => ~ session'[u].newRun)
  PROVE  OrderInv'
<1> SUFFICES ASSUME NEW u \in Session
             PROVE  /\ session'[u].step = "insert" =>
                         session'[u].locked = {} /\ ~ session'[u].newRun
                    /\ Append /\ session'[u].step = "rows" =>
                         \A x \in session'[u].locked,
                            y \in session'[u].req.rows \ session'[u].locked : x.seq < y.seq
  BY DEF OrderInv, Append
<1>1. CASE session'[u] = session[u]
  BY <1>1 DEF OrderInv
<1>2. CASE session'[u].step \notin {"insert", "rows"}
  BY <1>2
<1>3. CASE session'[u].locked = {} /\ (session'[u].step = "insert" => ~ session'[u].newRun)
  BY <1>3
<1>4. QED
  BY <1>1, <1>2, <1>3

\* The next row is above those locked, and no other has its position.
LEMMA OrderLockRow ==
  ASSUME IInv, OrderInv, NEW s \in Session, LockRow(s)
  PROVE  OrderInv'
<1>1. session[s].step = "rows" /\ Active(s) /\ strategy' = strategy
  BY DEF LockRow, Active, edgeVars
<1>2. PICK x \in session[s].req.rows :
        /\ IsNextRow(s, x)
        /\ LET locked == session[s].locked \cup {x} IN
           Put(s, [session[s] EXCEPT
                     !.locked = locked,
                     !.step = IF locked = session[s].req.rows THEN "cursor" ELSE "rows"])
  BY DEF LockRow
<1>3. /\ session'[s].req = session[s].req /\ session'[s].locked = session[s].locked \cup {x}
      /\ session'[s].step \in {"cursor", "rows"}
      /\ \A u \in Session : u # s => session'[u] = session[u]
  BY <1>2 DEF Put, IInv, TypeOK, Sessions
<1>4. ASSUME Append, NEW y \in session[s].locked \cup {x},
             NEW z \in session[s].req.rows \ (session[s].locked \cup {x})
      PROVE  y.seq < z.seq
  <2>1. x \in session[s].req.rows \ session[s].locked /\ x.seq <= z.seq
    BY <1>2 DEF IsNextRow
  <2>2. /\ session[s].req.rows \in SUBSET Row
        /\ session[s].locked \subseteq session[s].req.rows
    BY DEF IInv, TypeOK, Sessions, Request
  <2>3. x.seq # z.seq
    <3>1. row[x.key] = x.seq /\ row[z.key] = z.seq
      BY <1>1, <1>4 DEF IInv, RequestInv
    <3>2. x.key \in Key /\ z.key \in Key /\ x.seq > 0 /\ x # z
            /\ x = [key |-> x.key, seq |-> x.seq] /\ z = [key |-> z.key, seq |-> z.seq]
      BY <2>2, Numbers DEF Row
    <3>3. x.seq = z.seq => x.key = z.key
      BY <3>1, <3>2 DEF IInv, EdgeInv
    <3>4. QED
      BY <3>2, <3>3
  <2>4. CASE y = x
    BY <2>1, <2>2, <2>3, <2>4, Numbers DEF Row
  <2>5. CASE y # x
    BY <1>1, <1>4, <2>5 DEF OrderInv
  <2>6. QED
    BY <2>4, <2>5
<1>5. QED
  BY <1>1, <1>3, <1>4 DEF OrderInv, Append

LEMMA OrderStep ==
  ASSUME IInv, OrderInv, [Next]_vars
  PROVE  OrderInv'
<1>0. session \in [Session -> Sessions]
  BY DEF IInv, TypeOK
<1>1. ASSUME NEW s \in Session, NEW step, NEW ack, Answer(s, step, ack),
             step \in {"failed", "answered"}, strategy' = strategy
      PROVE  OrderInv'
  <2>1. /\ session'[s].step \notin {"insert", "rows"}
        /\ \A u \in Session : u # s => session'[u] = session[u]
    BY <1>0, <1>1 DEF Answer, Put, Free
  <2>2. QED
    BY <1>1, <2>1, OrderKept
<1>2. ASSUME NEW s \in Session, InsertRun(s) PROVE OrderInv'
  <2>1. strategy' = strategy
    BY <1>2 DEF InsertRun, edgeVars
  <2>2. CASE session[s].req.run \in runs
    BY <1>1, <1>2, <2>1, <2>2 DEF InsertRun, Rollback
  <2>3. CASE session[s].req.run \notin runs
    <3>1. session' = [session EXCEPT ![s] =
                        [session[s] EXCEPT !.step = "rows", !.newRun = TRUE]]
      BY <1>2, <2>3 DEF InsertRun, Put
    <3>2. /\ session'[s].step = "rows" /\ session'[s].locked = session[s].locked
          /\ \A u \in Session : u # s => session'[u] = session[u]
      BY <1>0, <3>1 DEF Sessions
    <3>3. session[s].locked = {}
      BY <1>2 DEF InsertRun, OrderInv
    <3>4. QED
      BY <2>1, <3>2, <3>3, OrderKept
  <2>4. QED
    BY <2>2, <2>3
<1>3. ASSUME NEW s \in Session, ReadCursor(s) PROVE OrderInv'
  <2>1. /\ session'[s].step = "commit" /\ strategy' = strategy
        /\ \A u \in Session : u # s => session'[u] = session[u]
    BY <1>0, <1>3 DEF ReadCursor, Put, Sessions, edgeVars
  <2>2. QED
    BY <2>1, OrderKept
<1>4. ASSUME NEW s \in Session,
             DeadlockAbort(s) \/ Commit(s) \/ CommitConflict(s) \/ Fail(s)
      PROVE  OrderInv'
  BY <1>1, <1>4 DEF DeadlockAbort, Commit, CommitConflict, Fail, Rollback, edgeVars
<1>5. ASSUME strategy' = strategy,
             \A u \in Session : session'[u] = Closed[u] \/
               /\ session'[u].step \in {"insert", "rows"} /\ session'[u].locked = {}
               /\ ~ session'[u].newRun
      PROVE  OrderInv'
  <2>1. Free.step = "free"
    BY FreeSession
  <2>2. \A u \in Session :
          \/ session'[u] = session[u]
          \/ session'[u].step \notin {"insert", "rows"}
          \/ session'[u].locked = {} /\ (session'[u].step = "insert" => ~ session'[u].newRun)
    BY <1>5, <2>1, ClosedSessions
  <2>3. QED
    BY <1>5, <2>2, OrderKept
<1>6. ASSUME NEW r, Begin(r), strategy' = strategy PROVE OrderInv'
  <2> DEFINE st == [Free EXCEPT !.req = r, !.step = IF r.run \in runs' THEN "rows" ELSE "insert"]
  <2>1. PICK s : session' = [Closed EXCEPT ![s] = st]
    BY <1>6 DEF Begin
  <2>2. st.step \in {"insert", "rows"} /\ st.locked = {} /\ ~ st.newRun
    BY DEF Free
  <2> HIDE DEF st
  <2>3. \A u \in Session : session'[u] = Closed[u] \/ session'[u] = st
    BY <2>1, ClosedSessions
  <2>4. QED
    BY <1>5, <1>6, <2>2, <2>3
<1>7. CASE StartRun \/ Repost
  BY <1>6, <1>7 DEF StartRun, Repost, edgeVars
<1>8. CASE Leave \/ Advance \/ Reflash
  BY <1>5, <1>8 DEF Leave, Advance, Reflash, edgeVars
<1>9. CASE UNCHANGED vars \/ EmptyRun \/ \E k \in Key : Write(k)
  <2>1. session' = session /\ strategy' = strategy
    BY <1>9 DEF vars, edgeVars, EmptyRun, Write
  <2>2. QED
    BY <2>1, OrderKept
<1>10. QED
  BY <1>2, <1>3, <1>4, <1>7, <1>8, <1>9, OrderLockRow DEF Next, Edge, Transaction

\* What a session holds is of rows before those it waits for, so that whoever is
\* waited for, and waits, waits for a later row.
LEMMA NoCircle ==
  ASSUME IInv, OrderInv, Append, NEW s \in Session
  PROVE  ~ Deadlocked(s)
<1>1. \A u, v \in Session : WaitsFor(u, v) =>
        /\ session[v].step # "insert" /\ Working(v)
        /\ session[u].step \in {"rows", "insert"}
  BY DEF WaitsFor, Locked, OrderInv
<1>2. ASSUME NEW u \in Session, NEW v \in Session, WaitsFor(u, v), session[u].step = "rows"
      PROVE  \E x \in session[u].req.rows \ session[u].locked :
               x \in session[v].locked
  <2>1. PICK x \in session[u].req.rows :
          IsNextRow(u, x) /\ Target(session[u].req, x) \in Locked(v)
    BY <1>2 DEF WaitsFor
  <2>2. PICK y \in session[v].locked : Target(session[u].req, x) = Target(session[v].req, y)
    BY <2>1 DEF Locked
  <2>3. Active(u) /\ Active(v)
    BY <1>2 DEF WaitsFor, Working, Active
  <2>4. x.seq = y.seq
    BY <2>2 DEF Target, Append
  <2>5. /\ y \in session[v].req.rows /\ x \in Row /\ y \in Row
        /\ row[x.key] = x.seq /\ row[y.key] = y.seq
    BY <2>3 DEF IInv, RequestInv, TypeOK, Sessions, Request
  <2>6. x = y
    <3>1. /\ x.key \in Key /\ y.key \in Key /\ x.seq > 0
          /\ x = [key |-> x.key, seq |-> x.seq] /\ y = [key |-> y.key, seq |-> y.seq]
      BY <2>5, Numbers DEF Row
    <3>2. x.key = y.key
      BY <2>4, <2>5, <3>1 DEF IInv, EdgeInv
    <3>3. QED
      BY <2>4, <3>1, <3>2
  <2>7. QED
    BY <2>1, <2>6 DEF IsNextRow
<1>3. CASE session[s].step \notin {"insert", "rows"}
  <2>1. \A v \in Session : ~ WaitsFor(s, v)
    BY <1>1, <1>3
  <2>2. QED
    BY <2>1, DeadlockedWaits
<1>4. CASE session[s].step = "insert"
  <2> DEFINE set == {v \in Session : session[v].step # "insert"}
  <2>1. \A u \in set \cup {s}, v \in Session : WaitsFor(u, v) => v \in set
    BY <1>1
  <2>2. set \in SUBSET Session /\ s \notin set
    BY <1>4
  <2>3. QED
    BY <2>1, <2>2 DEF Deadlocked
<1>5. CASE session[s].step = "rows"
  <2>1. CASE \A v \in Session : ~ WaitsFor(s, v)
    BY <2>1, DeadlockedWaits
  <2>2. ASSUME NEW w \in Session, WaitsFor(s, w) PROVE ~ Deadlocked(s)
    <3>1. PICK x \in session[s].req.rows \ session[s].locked :
            \A y \in session[s].req.rows \ session[s].locked : x.seq <= y.seq
      BY <1>5, <2>2 DEF WaitsFor, IsNextRow
    <3> DEFINE above(v) == \A y \in session[v].req.rows \ session[v].locked : x.seq < y.seq
               set == {v \in Session : session[v].step # "insert" /\
                                        (session[v].step = "rows" => above(v))}
    <3>2. x.seq \in Nat /\ \A v \in Session : session[v].req.rows \in SUBSET Row
      BY DEF IInv, TypeOK, Sessions, Request, Row
    <3>3. s \notin set
      BY <1>5, <3>2
    <3>4. ASSUME NEW u \in set \cup {s}, NEW v \in Session, WaitsFor(u, v) PROVE v \in set
      <4>1. u \in Session /\ session[u].step = "rows"
        BY <1>1, <1>5, <3>4
      <4>2. PICK y \in session[u].req.rows \ session[u].locked : y \in session[v].locked
        BY <1>2, <3>4, <4>1
      <4>3. x.seq <= y.seq
        <5>1. y.seq \in Nat
          BY <3>2, <4>1 DEF Row
        <5>2. CASE u = s
          BY <3>1, <5>2
        <5>3. CASE u # s
          BY <3>2, <4>1, <5>1, <5>3
        <5>4. QED
          BY <5>2, <5>3
      <4>4. ASSUME session[v].step = "rows", NEW z \in session[v].req.rows \ session[v].locked
            PROVE  x.seq < z.seq
        <5>1. y.seq < z.seq
          BY <4>2, <4>4 DEF OrderInv
        <5>2. y.seq \in Nat /\ z.seq \in Nat
          BY <3>2, <4>1 DEF Row
        <5>3. QED
          BY <3>2, <4>3, <5>1, <5>2
      <4>5. QED
        BY <1>1, <3>4, <4>1, <4>4
    <3>5. set \in SUBSET Session
      OBVIOUS
    <3> HIDE DEF set
    <3>6. QED
      BY <3>3, <3>4, <3>5 DEF Deadlocked
  <2>3. QED
    BY <2>1, <2>2
<1>6. QED
  BY <1>3, <1>4, <1>5

\* However many requests of an append table overlap, none of them is ever aborted
\* because of a deadlock.
THEOREM NoDeadlock == OneGeneration => (Spec => []AppendNeverDeadlocks)
<1> SUFFICES ASSUME OneGeneration PROVE Spec => []AppendNeverDeadlocks
  OBVIOUS
<1>1. Init => OrderInv
  BY FreeSession DEF Init, OrderInv
<1>2. IInv /\ OrderInv /\ [Next]_vars => OrderInv'
  BY OrderStep
<1>3. IInv /\ OrderInv => AppendNeverDeadlocks
  BY NoCircle DEF AppendNeverDeadlocks, Append
<1>4. QED
  BY <1>1, <1>2, <1>3, Inductive, PTL DEF Spec

-----------------------------------------------------------------------------
(* Progress: who waits, and how far a transaction has come.                *)

\* Among sets of subsets of a finite set there is a minimal one.
LEMMA SmallestSet ==
  ASSUME NEW S, IsFiniteSet(S), NEW Sets \in SUBSET SUBSET S, Sets # {}
  PROVE  \E m \in Sets : \A t \in Sets : t \subseteq m => t = m
<1>1. IsWellFoundedOn(StrictSubsetOrdering(S), SUBSET S)
  BY FS_FiniteSubsetsOfFinite, FS_StrictSubsetOrderingWellFounded
<1>2. PICK m \in Sets : \A t \in Sets : ~ (<<t, m>> \in StrictSubsetOrdering(S))
  BY <1>1, WFMin
<1>3. \A t \in Sets : t \subseteq m => t = m
  BY <1>2 DEF StrictSubsetOrdering
<1>4. QED
  BY <1>3

\* Among the sessions that somebody works on, one does not wait or is in a circle: in
\* a smallest set that holds all its members wait for, each member waits for itself.
LEMMA NotAllWait ==
  ASSUME NEW s \in Session, Working(s)
  PROVE  \E u \in Session : Working(u) /\ (~ Blocked(u) \/ Deadlocked(u))
<1> DEFINE Busy == {u \in Session : Working(u)}
           Closure(set) == \A u \in set, v \in Session : WaitsFor(u, v) => v \in set
           Sets == {set \in SUBSET Busy : set # {} /\ Closure(set)}
<1>1. Busy \in Sets
  BY DEF WaitsFor
<1>2. PICK m \in Sets : \A t \in Sets : t \subseteq m => t = m
  <2>1. IsFiniteSet(Busy) /\ Sets \in SUBSET SUBSET Busy /\ Sets # {}
    BY <1>1, TxnConstantsOK, FS_Subset
  <2> HIDE DEF Sets
  <2>2. QED
    BY <2>1, SmallestSet
<1>3. PICK u \in m : u \in Session /\ Working(u)
  BY <1>2
<1>4. CASE ~ Blocked(u)
  BY <1>3, <1>4
<1>5. CASE Blocked(u)
  <2>1. PICK v \in Session : WaitsFor(u, v)
    BY <1>5 DEF Blocked
  <2>2. v \in m
    BY <1>2, <1>3, <2>1
  <2>3. ASSUME NEW set \in SUBSET Session,
               \A w \in set \cup {u}, x \in Session : WaitsFor(w, x) => x \in set
        PROVE  u \in set
    <3>1. v \in set
      BY <2>1, <2>3
    <3>2. Closure(set \cap m)
      BY <1>2, <2>3
    <3>3. set \cap m \in Sets
      BY <1>2, <2>2, <3>1, <3>2
    <3>4. set \cap m = m
      BY <1>2, <3>3
    <3>5. QED
      BY <3>4
  <2>4. Deadlocked(u)
    BY <2>3 DEF Deadlocked
  <2>5. QED
    BY <1>3, <2>4
<1>6. QED
  BY <1>4, <1>5

\* An upsert with rows left has a next one.
LEMMA NextRowIs ==
  ASSUME IInv, RowsLeftInv, NEW s \in Session, session[s].step = "rows"
  PROVE  \E x \in session[s].req.rows : IsNextRow(s, x)
<1> DEFINE left == session[s].req.rows \ session[s].locked
           Below(x) == 1..x.seq
           all == 1..MaxSeq
           sets == {Below(x) : x \in left}
<1>1. /\ session[s].req.rows \in SUBSET Row
      /\ session[s].locked \subseteq session[s].req.rows
  BY DEF IInv, TypeOK, Sessions, Request
<1>2. left # {}
  <2>1. session[s].locked # session[s].req.rows
    BY DEF RowsLeftInv
  <2>2. left = {} => session[s].req.rows \subseteq session[s].locked
    OBVIOUS
  <2>3. QED
    BY <1>1, <2>1, <2>2
<1>3. \A x \in left : x.seq \in 1..MaxSeq
  BY <1>1 DEF Row
<1>4. IsFiniteSet(all) /\ sets \in SUBSET SUBSET all /\ sets # {}
  <2>1. IsFiniteSet(all)
    BY Numbers, FS_Interval
  <2>2. \A x \in left : Below(x) \subseteq all
    BY <1>3, Numbers
  <2>3. QED
    BY <1>2, <2>1, <2>2
<1>5. PICK m \in sets : \A t \in sets : t \subseteq m => t = m
  <2> HIDE DEF sets, all
  <2>1. QED
    BY <1>4, SmallestSet
<1>6. PICK x \in left : m = Below(x)
  BY <1>5
<1>7. ASSUME NEW y \in left PROVE x.seq <= y.seq
  <2>1. Below(y) \subseteq Below(x) => Below(y) = Below(x)
    BY <1>5, <1>6
  <2>2. QED
    BY <1>3, <2>1, Numbers
<1>8. QED
  BY <1>6, <1>7 DEF IsNextRow

\* The next row is one that was not locked.
LEMMA LockRowAdds ==
  ASSUME IInv, NEW s \in Session, LockRow(s)
  PROVE  /\ session'[s].req = session[s].req /\ session[s].locked \subseteq session'[s].locked
         /\ session[s].locked # session'[s].locked
         /\ session'[s].step = IF session'[s].locked = session[s].req.rows THEN "cursor" ELSE "rows"
         /\ \A u \in Session : u # s => session'[u] = session[u]
<1>1. PICK x \in session[s].req.rows :
        /\ IsNextRow(s, x)
        /\ LET locked == session[s].locked \cup {x} IN
           Put(s, [session[s] EXCEPT
                     !.locked = locked,
                     !.step = IF locked = session[s].req.rows THEN "cursor" ELSE "rows"])
  BY DEF LockRow
<1>2. /\ session'[s].req = session[s].req /\ session'[s].locked = session[s].locked \cup {x}
      /\ session'[s].step = IF session[s].locked \cup {x} = session[s].req.rows
                             THEN "cursor" ELSE "rows"
      /\ \A u \in Session : u # s => session'[u] = session[u]
  BY <1>1 DEF Put, IInv, TypeOK, Sessions
<1>3. x \notin session[s].locked
  BY <1>1 DEF IsNextRow
<1>4. QED
  BY <1>2, <1>3

\* What a step may make of a session: it has got a request, it has ended, or its
\* transaction has come to its next statement.
Started(new) ==
  new.step \in {"insert", "rows"} /\ new.locked = {} /\ new.req.rows # {}

Over(new) == new.step \in {"free", "failed", "answered"}

Inserted(old, new) ==
  /\ old.step = "insert" /\ old.locked = {} /\ new.step = "rows"
  /\ new.locked = {} /\ new.req = old.req

\* The step of another session, or of the edge, starts a request only in a session
\* nobody works on, and ends none.
LEMMA SessionStep ==
  ASSUME IInv, OrderInv, [Next]_vars, NEW s \in Session
  PROVE  \/ session'[s] = session[s] \/ Over(session'[s])
         \/ ~ Working(s) /\ Started(session'[s])
         \/ Inserted(session[s], session'[s]) \/ LockRow(s)
         \/ session[s].step = "cursor" /\ session'[s].step = "commit"
<1>0. session \in [Session -> Sessions]
  BY DEF IInv, TypeOK
<1>1. ASSUME NEW u \in Session, NEW step, NEW ack, Answer(u, step, ack),
             step \in {"failed", "answered"}
      PROVE  session'[s] = session[s] \/ Over(session'[s])
  <2>1. /\ session'[u].step \in {"free", "failed", "answered"}
        /\ u # s => session'[s] = session[s]
    BY <1>0, <1>1 DEF Answer, Put, Free
  <2>2. QED
    BY <2>1 DEF Over
<1>2. ASSUME NEW u \in Session, InsertRun(u)
      PROVE  session'[s] = session[s] \/ Over(session'[s]) \/ Inserted(session[s], session'[s])
  <2>1. CASE session[u].req.run \in runs
    BY <1>1, <1>2, <2>1 DEF InsertRun, Rollback
  <2>2. CASE session[u].req.run \notin runs
    <3>1. session' = [session EXCEPT ![u] =
                        [session[u] EXCEPT !.step = "rows", !.newRun = TRUE]]
      BY <1>2, <2>2 DEF InsertRun, Put
    <3>2. /\ session'[u].step = "rows" /\ session'[u].locked = session[u].locked
          /\ session'[u].req = session[u].req /\ (u # s => session'[s] = session[s])
      BY <1>0, <3>1 DEF Sessions
    <3>3. session[u].step = "insert" /\ session[u].locked = {}
      BY <1>2 DEF InsertRun, OrderInv
    <3>4. QED
      BY <3>2, <3>3 DEF Inserted
  <2>3. QED
    BY <2>1, <2>2
<1>3. ASSUME NEW u \in Session, LockRow(u) PROVE session'[s] = session[s] \/ LockRow(s)
  BY <1>3, LockRowAdds
<1>4. ASSUME NEW u \in Session, ReadCursor(u)
      PROVE  \/ session'[s] = session[s]
             \/ session[s].step = "cursor" /\ session'[s].step = "commit"
  BY <1>0, <1>4 DEF ReadCursor, Put, Sessions
<1>5. ASSUME NEW u \in Session, DeadlockAbort(u) \/ Commit(u) \/ CommitConflict(u) \/ Fail(u)
      PROVE  session'[s] = session[s] \/ Over(session'[s])
  BY <1>1, <1>5 DEF DeadlockAbort, Commit, CommitConflict, Fail, Rollback
<1>6. Closed[s] = session[s] \/ Over(Closed[s])
  BY ClosedSessions, FreeSession DEF Over
<1>7. ASSUME NEW r, Begin(r), r.rows # {}
      PROVE  \/ session'[s] = session[s] \/ Over(session'[s])
             \/ ~ Working(s) /\ Started(session'[s])
  <2> DEFINE st == [Free EXCEPT !.req = r, !.step = IF r.run \in runs' THEN "rows" ELSE "insert"]
             unused == {u \in Session : Closed[u] = Free}
  <2>1. PICK u \in unused : session' = [Closed EXCEPT ![u] = st]
    <3>1. unused # {} /\ session' = [Closed EXCEPT ![CHOOSE u \in unused : TRUE] = st]
      BY <1>7 DEF Begin
    <3> HIDE DEF st, unused
    <3>2. QED
      BY <3>1
  <2>2. Started(st)
    BY <1>7 DEF Started, Free
  <2>3. Closed \in [Session -> Sessions]
    BY ClosedSessions
  <2> HIDE DEF st
  <2>4. CASE u = s
    <3>1. session'[s] = st
      BY <2>1, <2>3, <2>4
    <3>2. ~ Working(s)
      <4>1. Closed[s] = Free
        BY <2>1, <2>4
      <4>2. Working(s) => Closed[s] = session[s]
        BY DEF Closed
      <4>3. QED
        BY <4>1, <4>2, FreeSession DEF Working
    <3>3. QED
      BY <2>2, <3>1, <3>2
  <2>5. CASE u # s
    BY <1>6, <2>1, <2>3, <2>5
  <2>6. QED
    BY <2>4, <2>5
<1>8. CASE StartRun
  <2> DEFINE run == CHOOSE i \in RunId : i \notin {session[u].req.run : u \in Session}
  <2>1. PICK rows \in SUBSET EdgeRows :
          ReadRows(rows) /\ Begin([run |-> run, epoch |-> epoch, rows |-> rows])
    BY <1>8 DEF StartRun
  <2>2. rows # {}
    BY <2>1, BatchRead DEF IInv
  <2>3. QED
    BY <1>7, <2>1, <2>2
<1>9. CASE Repost
  <2>1. Begin(session[client].req) /\ client # Nobody
    BY <1>9 DEF Repost
  <2>2. session[client].req.rows # {}
    BY <2>1 DEF IInv, TypeOK, RequestInv, HasLast
  <2>3. QED
    BY <1>7, <2>1, <2>2
<1>10. CASE Leave \/ Advance \/ Reflash
  BY <1>6, <1>10 DEF Leave, Advance, Reflash
<1>11. CASE UNCHANGED vars \/ EmptyRun \/ \E k \in Key : Write(k)
  BY <1>11 DEF vars, EmptyRun, Write
<1>12. QED
  BY <1>2, <1>3, <1>4, <1>5, <1>8, <1>9, <1>10, <1>11 DEF Next, Edge, Transaction

LEMMA RowsLeftStep ==
  ASSUME IInv, OrderInv, RowsLeftInv, [Next]_vars
  PROVE  RowsLeftInv'
<1> SUFFICES ASSUME NEW s \in Session, session'[s].step = "rows"
             PROVE  session'[s].locked # session'[s].req.rows
  BY DEF RowsLeftInv
<1>1. CASE session'[s] = session[s]
  BY <1>1 DEF RowsLeftInv
<1>2. CASE Started(session'[s])
  BY <1>2 DEF Started
<1>3. CASE Inserted(session[s], session'[s])
  <2>1. session[s].req.rows # {}
    BY <1>3 DEF Inserted, IInv, RequestInv, Active, HasLast
  <2>2. QED
    BY <1>3, <2>1 DEF Inserted
<1>4. CASE LockRow(s)
  BY <1>4, LockRowAdds
<1>5. QED
  BY <1>1, <1>2, <1>3, <1>4, SessionStep DEF Over

\* As long as the server works on requests it can go on with one of them, for every
\* number of sessions and of rows they wait for.
THEOREM SomeoneGoesOn == OneGeneration => (Spec => []TransactionsGoOn)
<1> SUFFICES ASSUME OneGeneration PROVE Spec => []TransactionsGoOn
  OBVIOUS
<1>1. Init => OrderInv /\ RowsLeftInv
  BY FreeSession DEF Init, OrderInv, RowsLeftInv
<1>2. IInv /\ OrderInv /\ RowsLeftInv /\ [Next]_vars => OrderInv' /\ RowsLeftInv'
  BY OrderStep, RowsLeftStep
<1>3. IInv /\ RowsLeftInv => TransactionsGoOn
  <2> SUFFICES ASSUME IInv, RowsLeftInv, \E s \in Session : Working(s)
               PROVE  \E s \in Session : CanGo(s)
    BY DEF TransactionsGoOn
  <2>1. PICK u \in Session : Working(u) /\ (~ Blocked(u) \/ Deadlocked(u))
    BY NotAllWait
  <2>2. session[u].step = "rows" => \E x \in session[u].req.rows : IsNextRow(u, x)
    BY NextRowIs
  <2>3. QED
    BY <2>1, <2>2 DEF CanGo, Working
<1>4. QED
  BY <1>1, <1>2, <1>3, Inductive, PTL DEF Spec

\* A transaction only goes forward, whatever the other sessions and the edge do.
THEOREM TransactionsAdvance == OneGeneration => (Spec => SessionAdvances)
<1> SUFFICES ASSUME OneGeneration PROVE Spec => SessionAdvances
  OBVIOUS
<1>1. Init => OrderInv
  BY FreeSession DEF Init, OrderInv
<1>2. IInv /\ OrderInv /\ [Next]_vars => OrderInv'
  BY OrderStep
<1>3. ASSUME IInv, OrderInv, [Next]_vars, NEW s \in Session, Working(s), session'[s] # session[s]
      PROVE  LET old == session[s]  new == session'[s] IN
             \/ Stage(old) < Stage(new)
             \/ /\ new.step = "rows" /\ old.step = "rows" /\ new.req = old.req
                /\ old.locked \subseteq new.locked /\ old.locked # new.locked
  <2>1. session[s].step \in {"insert", "rows", "cursor", "commit"}
    BY <1>3 DEF Working
  <2>2. CASE Over(session'[s])
    BY <2>1, <2>2 DEF Over, Stage
  <2>3. CASE Inserted(session[s], session'[s])
    BY <2>3 DEF Inserted, Stage
  <2>4. CASE LockRow(s)
    <3>1. session[s].step = "rows"
      BY <2>4 DEF LockRow
    <3>2. CASE session'[s].step = "rows"
      BY <1>3, <2>4, <3>1, <3>2, LockRowAdds
    <3>3. CASE session'[s].step = "cursor"
      BY <3>1, <3>3 DEF Stage
    <3>4. QED
      BY <1>3, <2>4, <3>2, <3>3, LockRowAdds
  <2>5. CASE session[s].step = "cursor" /\ session'[s].step = "commit"
    BY <2>5 DEF Stage
  <2>6. QED
    BY <1>3, <2>2, <2>3, <2>4, <2>5, SessionStep
<1>4. IInv /\ OrderInv /\ [Next]_vars =>
        [\A s \in Session : Working(s) /\ session'[s] # session[s] =>
           LET old == session[s]  new == session'[s] IN
           \/ Stage(old) < Stage(new)
           \/ /\ new.step = "rows" /\ old.step = "rows" /\ new.req = old.req
              /\ old.locked \subseteq new.locked /\ old.locked # new.locked]_session
  BY <1>3
<1>5. QED
  BY <1>1, <1>2, <1>4, Inductive, PTL DEF Spec, SessionAdvances

=============================================================================
