----------------------------- MODULE IngestGate -----------------------------
(***************************************************************************)
(* What stands before ingest_batch: the node's bearer token, the envelope, *)
(* and the sliding window that limits each node.  The handler runs in a    *)
(* pool of threads, each at most one request; register_node.py, a process  *)
(* of its own, changes the tokens meanwhile, and the operator copies the   *)
(* token it prints into the node's edge/.env.                              *)
(*                                                                         *)
(* Tokens are numbered as they are committed: secrets.token_urlsafe never  *)
(* returns one twice, and their SHA-256 is compared as they are.           *)
(***************************************************************************)
EXTENDS Integers, FiniteSets

CONSTANTS
  Node,       \* node ids
  Nobody,     \* no node: a malformed envelope, a request not yet verified
  Thread,     \* the threads of the server's pool
  Operator,   \* the runs of register_node.py that may overlap
  Limit,      \* rate_limit_per_node
  Window,     \* rate_limit_window_seconds, in ticks of the clock
  MaxTime,    \* bound: the clock
  MaxTokens   \* bound: tokens issued

ASSUME GateConstantsOK ==
  /\ Nobody \notin Node /\ IsFiniteSet(Thread) /\ Thread # {}
  /\ Limit \in Nat /\ Window \in Nat \ {0}
  /\ MaxTime \in Nat /\ MaxTokens \in Nat

VARIABLES
  clock,     \* time.monotonic()
  bucket,    \* _buckets: of each node, the stamps kept, each <<number, time>>
  thread,    \* what each thread of the pool is at
  row,       \* edge_nodes: current and previous token, enabled
  script,    \* what each run of register_node.py has read
  issued,    \* tokens issued
  held,      \* NODE_TOKEN in each node's edge/.env
  admitted,  \* history: the requests of each node this server has let pass
  printed,   \* history: the token register_node.py issued last for each node
  grace,     \* history: the token the latest rotation of each node replaced
             \* (None if another run issued one while the rotation ran)
  drained    \* history: batches ingested since the node was disabled

gate     == <<bucket, admitted>>
registry == <<row, script, issued, printed, grace>>
vars == <<clock, gate, thread, registry, held, drained>>

None == 0
Tokens == 1..MaxTokens

Idle == [at |-> "idle", token |-> None, claims |-> Nobody, node |-> Nobody, now |-> 0]
NoRow == [current |-> None, previous |-> None, enabled |-> FALSE]
Done  == [at |-> "done", node |-> Nobody, rotate |-> FALSE, read |-> NoRow]

-----------------------------------------------------------------------------
(* verify_node_token.                                                      *)

Works(n, token) == token \in {row[n].current, row[n].previous} \ {None}

\* A batch is posted with the token of the node's environment, which may be
\* replaced before the token is looked at; its envelope may name any node.
Send(th, n, claims) ==
  /\ thread[th] = Idle /\ held[n] # None
  /\ thread' = [thread EXCEPT ![th] = [Idle EXCEPT !.at = "verify", !.token = held[n], !.claims = claims]]
  /\ UNCHANGED <<clock, gate, registry, held, drained>>

\* 401: no node's token.
Unknown(th) ==
  /\ thread[th].at = "verify"
  /\ \A n \in Node : ~Works(n, thread[th].token)
  /\ thread' = [thread EXCEPT ![th] = Idle]
  /\ UNCHANGED <<clock, gate, registry, held, drained>>

\* Disabled nodes let through (a mutant).
VerifyToken(th, n) ==
  /\ thread[th].at = "verify" /\ Works(n, thread[th].token)
  /\ thread' = [thread EXCEPT ![th] = [@ EXCEPT !.at = "check", !.token = None, !.node = n]]
  /\ UNCHANGED <<clock, gate, registry, held, drained>>

\* 403 when the node is disabled.
Verify(th, n) ==
  /\ thread[th].at = "verify" /\ Works(n, thread[th].token)
  /\ thread' = [thread EXCEPT ![th] =
       IF row[n].enabled THEN [@ EXCEPT !.at = "check", !.token = None, !.node = n] ELSE Idle]
  /\ UNCHANGED <<clock, gate, registry, held, drained>>

\* 422 or 409; otherwise the limiter reads its clock, outside the lock.
Check(th) ==
  /\ thread[th].at = "check"
  /\ thread' = [thread EXCEPT ![th] =
       IF @.claims = @.node
       THEN [@ EXCEPT !.at = "lock", !.claims = Nobody, !.now = clock] ELSE Idle]
  /\ UNCHANGED <<clock, gate, registry, held, drained>>

-----------------------------------------------------------------------------
(* _SlidingWindowLimiter.allow, from the lock on.                          *)

\* A stamp dropped one tick too early (a mutant).
KeptShorter(stamps, now) == {s \in stamps : s[2] > now - Window + 1}

Kept(stamps, now) == {s \in stamps : s[2] > now - Window}

\* A limit passed by one (a mutant).
FullAbove(stamps) == Cardinality(stamps) > Limit

Full(stamps) == Cardinality(stamps) >= Limit

\* 429: a refused request leaves no stamp.
Refuse(th) ==
  LET t == thread[th]
      kept == Kept(bucket[t.node], t.now)
  IN /\ t.at = "lock" /\ Full(kept)
     /\ bucket' = [bucket EXCEPT ![t.node] = kept]
     /\ thread' = [thread EXCEPT ![th] = Idle]
     /\ UNCHANGED <<clock, admitted, registry, held, drained>>

Allow(th) ==
  LET t == thread[th]
      kept == Kept(bucket[t.node], t.now)
      stamp == <<Cardinality(admitted[t.node]), t.now>>
  IN /\ t.at = "lock" /\ ~Full(kept)
     /\ bucket' = [bucket EXCEPT ![t.node] = kept \union {stamp}]
     /\ admitted' = [admitted EXCEPT ![t.node] = @ \union {stamp}]
     /\ thread' = [thread EXCEPT ![th] = [@ EXCEPT !.at = "ingest", !.now = 0]]
     /\ UNCHANGED <<clock, registry, held, drained>>

\* ingest_batch, which does not look at "enabled" again.
Ingest(th) ==
  LET n == thread[th].node IN
  /\ thread[th].at = "ingest"
  /\ drained' = [drained EXCEPT ![n] = IF row[n].enabled THEN @ ELSE @ + 1]
  /\ thread' = [thread EXCEPT ![th] = Idle]
  /\ UNCHANGED <<clock, gate, registry, held>>

-----------------------------------------------------------------------------
(* register_node.py.                                                       *)

\* session.get
Read(o, n, rotate) ==
  /\ script[o] = Done
  /\ script' = [script EXCEPT ![o] = [at |-> "read", node |-> n, rotate |-> rotate, read |-> row[n]]]
  /\ UNCHANGED <<clock, gate, thread, row, issued, printed, grace, held, drained>>

\* The token replaced is kept, rotation or not (a mutant).
WrittenAlways(s, now, token) ==
  [current |-> token,
   previous |-> s.read.current,
   enabled |-> now.enabled \/ ~s.read.enabled]

\* The row as written: of what has changed since it was read.
Written(s, now, token) ==
  [current |-> token,
   previous |-> IF s.rotate THEN s.read.current ELSE now.previous,
   enabled |-> now.enabled \/ ~s.read.enabled]

\* session.commit, then the token is printed.
Register(o) ==
  LET s == script[o]
      n == s.node
  IN /\ s.at = "read" /\ issued < MaxTokens
     /\ s.read.current = None => row[n].current = None
     /\ issued' = issued + 1
     /\ row' = [row EXCEPT ![n] =
          IF s.read.current = None THEN [current |-> issued', previous |-> None, enabled |-> TRUE]
                                   ELSE Written(s, @, issued')]
     /\ grace' = [grace EXCEPT ![n] = IF ~s.rotate THEN @
                                     ELSE IF s.read.current = printed[n] THEN printed[n]
                                     ELSE None]
     /\ printed' = [printed EXCEPT ![n] = issued']
     /\ drained' = [drained EXCEPT ![n] = IF row'[n].enabled THEN 0 ELSE @]
     /\ script' = [script EXCEPT ![o] = Done]
     /\ UNCHANGED <<clock, gate, thread, held>>

\* Two runs create the same node: the second fails on the primary key.
RegisterFails(o) ==
  LET s == script[o] IN
  /\ s.at = "read" /\ s.read.current = None /\ row[s.node].current # None
  /\ script' = [script EXCEPT ![o] = Done]
  /\ UNCHANGED <<clock, gate, thread, row, issued, printed, grace, held, drained>>

-----------------------------------------------------------------------------
(* The operator, the clock and the server process.                         *)

\* The token printed last goes into edge/.env.
Install(n) ==
  /\ printed[n] # held[n]
  /\ held' = [held EXCEPT ![n] = printed[n]]
  /\ UNCHANGED <<clock, gate, thread, registry, drained>>

\* Nothing in the repository clears "enabled": it is done in the database.
Disable(n) ==
  /\ row[n].enabled
  /\ row' = [row EXCEPT ![n].enabled = FALSE]
  /\ UNCHANGED <<clock, gate, thread, script, issued, printed, grace, held, drained>>

Tick ==
  /\ clock < MaxTime
  /\ clock' = clock + 1
  /\ UNCHANGED <<gate, thread, registry, held, drained>>

\* The buckets are in memory: a new process starts with none.
Restart ==
  /\ bucket' = [n \in Node |-> {}] /\ admitted' = [n \in Node |-> {}]
  /\ thread' = [th \in Thread |-> Idle]
  /\ UNCHANGED <<clock, registry, held, drained>>

-----------------------------------------------------------------------------

Init ==
  /\ clock = 0
  /\ bucket = [n \in Node |-> {}] /\ admitted = [n \in Node |-> {}]
  /\ thread = [th \in Thread |-> Idle]
  /\ row = [n \in Node |-> NoRow]
  /\ script = [o \in Operator |-> Done]
  /\ issued = 0
  /\ held = [n \in Node |-> None] /\ printed = [n \in Node |-> None]
  /\ grace = [n \in Node |-> None]
  /\ drained = [n \in Node |-> 0]

Request(th) ==
  \/ \E n \in Node, claims \in Node \union {Nobody} : Send(th, n, claims)
  \/ Unknown(th)
  \/ \E n \in Node : Verify(th, n)
  \/ Check(th)
  \/ Refuse(th)
  \/ Allow(th)
  \/ Ingest(th)

Registration(o) ==
  \/ \E n \in Node, rotate \in BOOLEAN : Read(o, n, rotate)
  \/ Register(o)
  \/ RegisterFails(o)

Next ==
  \/ \E th \in Thread : Request(th)
  \/ \E o \in Operator : Registration(o)
  \/ \E n \in Node : Install(n) \/ Disable(n)
  \/ Tick
  \/ Restart

Spec == Init /\ [][Next]_vars

-----------------------------------------------------------------------------
(* Properties.                                                             *)

Stamps == Nat \X Nat

Threads == [at : {"idle", "verify", "check", "lock", "ingest"}, token : Nat,
            claims : Node \union {Nobody}, node : Node \union {Nobody}, now : Nat]
Rows    == [current : Nat, previous : Nat, enabled : BOOLEAN]
Scripts == [at : {"read", "done"}, node : Node \union {Nobody}, rotate : BOOLEAN, read : Rows]

\* The requests of node n that are past verification.
Within(n) == {th \in Thread : thread[th].node = n}

\* The buckets of a server process never hold more than the limit, and only
\* what the server let pass; a thread that is past verification knows its node.
TypeOK ==
  /\ clock \in 0..MaxTime
  /\ bucket \in [Node -> SUBSET Stamps] /\ admitted \in [Node -> SUBSET Stamps]
  /\ \A n \in Node : bucket[n] \subseteq admitted[n] /\ Cardinality(bucket[n]) =< Limit
  /\ thread \in [Thread -> Threads]
  /\ \A th \in Thread : thread[th].at \in {"check", "lock", "ingest"} <=> thread[th].node \in Node
  /\ row \in [Node -> Rows] /\ script \in [Operator -> Scripts]
  /\ \A o \in Operator : script[o].at = "read" => script[o].node \in Node
  /\ issued \in Nat /\ held \in [Node -> Nat] /\ printed \in [Node -> Nat]
  /\ grace \in [Node -> Nat] /\ drained \in [Node -> Nat]

\* What the limiter promises although a stamp is older than the moment it
\* enters the bucket (auth.py:57-64): of the requests let pass in one process,
\* any interval of Window ticks holds at most Limit, and one more for every
\* other thread that read the clock before the interval's stamps were dropped.
WindowBound ==
  \A n \in Node, end \in 0..clock :
    Cardinality({s \in admitted[n] : end - Window < s[2] /\ s[2] =< end})
      =< Limit + Cardinality(Thread) - 1

\* "the previous token still works until the next rotation"
\* (register_node.py:67): whatever was rotated, reset, re-enabled or not yet
\* copied to the Pi, and however runs of the script overlap, the token issued
\* last for a node is accepted as that node's, and so is the one its latest
\* rotation replaced, unless another run issued a token while that one ran.
TokensHonoured ==
  \A n \in Node : \A token \in {printed[n], grace[n]} \ {None} : Works(n, token)

\* Disabling a node drains it (auth.py:44): after that, only the requests that
\* were already past verification are ingested, at most one of each thread.
DisabledDrains ==
  \A n \in Node : ~row[n].enabled =>
    drained[n] + Cardinality(Within(n)) =< Cardinality(Thread)

-----------------------------------------------------------------------------
(* The inductive invariant.                                                *)

\* The requests that have passed with a stamp in the interval that ends at
\* "end", and those that wait for the lock with such a stamp.
Passed(n, end) == {s \in admitted[n] : end - Window < s[2] /\ s[2] =< end}
Late(n, end)   == {th \in Thread : thread[th].at = "lock" /\ thread[th].node = n /\ thread[th].now =< end}

\* Stamps are numbered, and no stamp is ahead of the clock.
StampInv ==
  /\ \A n \in Node : IsFiniteSet(admitted[n]) /\ \A s \in admitted[n] : s[1] < Cardinality(admitted[n])
  /\ \A th \in Thread : thread[th].now =< clock

\* Either the bucket still holds what has passed in the interval, or the
\* interval is over and only the late ones can add to it.
WindowInv ==
  \A n \in Node, end \in 0..MaxTime :
    \/ Passed(n, end) \subseteq bucket[n]
    \/ /\ end < clock
       /\ Cardinality(Passed(n, end)) + Cardinality(Late(n, end)) =< Limit + Cardinality(Thread) - 1

DrainInv == DisabledDrains /\ \A n \in Node : row[n].enabled => drained[n] = 0

\* A rotation that has not been overtaken leaves the token it replaced in the row,
\* and only a later rotation writes that column again.
TokenInv ==
  \A n \in Node :
    /\ row[n].current = printed[n]
    /\ grace[n] # None => grace[n] = row[n].previous /\ printed[n] # None

IInv == TypeOK /\ StampInv /\ WindowInv /\ DrainInv

=============================================================================
