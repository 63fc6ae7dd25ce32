-------------------------- MODULE IngestGate_proofs --------------------------
(***************************************************************************)
(* Proofs about IngestGate, for every number of nodes, threads and tokens, *)
(* every limit and every window.                                           *)
(***************************************************************************)
EXTENDS IngestGate, FiniteSetTheorems, TLAPS

LEMMA Pool ==
  /\ IsFiniteSet(Thread) /\ Cardinality(Thread) \in Nat /\ Cardinality(Thread) >= 1
  /\ \A some \in SUBSET Thread :
       /\ IsFiniteSet(some) /\ Cardinality(some) \in Nat
       /\ Cardinality(some) <= Cardinality(Thread)
       /\ \A th \in some : Cardinality(some \ {th}) = Cardinality(some) - 1
       /\ some # Thread => Cardinality(some) <= Cardinality(Thread) - 1
<1>1. IsFiniteSet(Thread) /\ Thread # {}
  BY GateConstantsOK
<1>2. Cardinality(Thread) \in Nat /\ Cardinality(Thread) # 0
  BY <1>1, FS_CardinalityType, FS_EmptySet
<1>3. ASSUME NEW some \in SUBSET Thread
      PROVE  /\ IsFiniteSet(some) /\ Cardinality(some) \in Nat
             /\ Cardinality(some) <= Cardinality(Thread)
             /\ \A th \in some : Cardinality(some \ {th}) = Cardinality(some) - 1
             /\ some # Thread => Cardinality(some) <= Cardinality(Thread) - 1
  <2>1. IsFiniteSet(some) /\ Cardinality(some) <= Cardinality(Thread)
    BY <1>1, FS_Subset
  <2>2. Cardinality(some) \in Nat
    BY <2>1, FS_CardinalityType
  <2>3. \A th \in some : Cardinality(some \ {th}) = Cardinality(some) - 1
    BY <2>1, FS_RemoveElement
  <2>4. some # Thread => Cardinality(some) # Cardinality(Thread)
    BY <1>1, FS_Subset
  <2>5. QED
    BY <1>2, <2>1, <2>2, <2>3, <2>4
<1>4. QED
  BY <1>1, <1>2, <1>3

\* Fewer stamps, and one more.
LEMMA Stamping ==
  ASSUME NEW stamps, IsFiniteSet(stamps)
  PROVE  /\ Cardinality(stamps) \in Nat
         /\ \A some \in SUBSET stamps :
              IsFiniteSet(some) /\ Cardinality(some) \in Nat
                /\ Cardinality(some) <= Cardinality(stamps)
<1>1. Cardinality(stamps) \in Nat
  BY FS_CardinalityType
<1>2. \A some \in SUBSET stamps :
        IsFiniteSet(some) /\ Cardinality(some) <= Cardinality(stamps)
  BY FS_Subset
<1>3. \A some \in SUBSET stamps : Cardinality(some) \in Nat
  BY <1>2, FS_CardinalityType
<1>4. QED
  BY <1>1, <1>2, <1>3

LEMMA OneMore ==
  ASSUME NEW stamps, IsFiniteSet(stamps), NEW s
  PROVE  /\ IsFiniteSet(stamps \union {s}) /\ Cardinality(stamps) \in Nat
         /\ Cardinality(stamps \union {s}) \in Nat
         /\ Cardinality(stamps \union {s}) <= Cardinality(stamps) + 1
         /\ s \notin stamps => Cardinality(stamps \union {s}) = Cardinality(stamps) + 1
<1>1. Cardinality(stamps) \in Nat
  BY FS_CardinalityType
<1>2. /\ IsFiniteSet(stamps \union {s})
      /\ s \in stamps => Cardinality(stamps \union {s}) = Cardinality(stamps)
      /\ s \notin stamps => Cardinality(stamps \union {s}) = Cardinality(stamps) + 1
  <2>1. s \in stamps => stamps \union {s} = stamps
    OBVIOUS
  <2>2. QED
    BY <2>1, FS_AddElement
<1>3. QED
  BY <1>1, <1>2

LEMMA Constants ==
  /\ Nobody \notin Node /\ Limit \in Nat /\ Window \in Nat /\ Window > 0
  /\ MaxTime \in Nat /\ MaxTokens \in Nat
  /\ Idle \in Threads /\ Idle.at = "idle" /\ Idle.node = Nobody /\ Idle.now = 0
  /\ NoRow \in Rows /\ ~ NoRow.enabled /\ NoRow.current = None /\ NoRow.previous = None
  /\ Done \in Scripts /\ Done.at = "done"
BY GateConstantsOK DEF Idle, Threads, NoRow, Rows, Done, Scripts, None

LEMMA InitIInv == Init => IInv
<1> SUFFICES ASSUME Init PROVE IInv
  OBVIOUS
<1>1. \A n \in Node : bucket[n] = {} /\ admitted[n] = {}
  BY DEF Init
<1>2. \A th \in Thread : thread[th] = Idle
  BY DEF Init
<1>3. Cardinality({}) = 0 /\ IsFiniteSet({})
  BY FS_EmptySet
<1>4. TypeOK
  <2>1. clock \in 0..MaxTime
    BY Constants DEF Init
  <2>2. \A n \in Node : bucket[n] \subseteq admitted[n] /\ Cardinality(bucket[n]) =< Limit
    BY <1>1, <1>3, Constants
  <2>3. thread \in [Thread -> Threads]
    BY Constants DEF Init
  <2>4. \A th \in Thread : thread[th].at \in {"check", "lock", "ingest"} <=> thread[th].node \in Node
    BY <1>2, Constants
  <2>5. row \in [Node -> Rows] /\ script \in [Operator -> Scripts]
    BY Constants DEF Init
  <2>6. \A o \in Operator : script[o].at = "read" => script[o].node \in Node
    BY Constants DEF Init
  <2>7. QED
    BY <2>1, <2>2, <2>3, <2>4, <2>5, <2>6 DEF Init, TypeOK, None
<1>5. StampInv
  BY <1>1, <1>2, <1>3, Constants DEF Init, StampInv
<1>6. WindowInv
  BY <1>1 DEF WindowInv, Passed
<1>7. DrainInv
  <2>1. \A n \in Node : Within(n) = {}
    BY <1>2, Constants DEF Within
  <2>2. QED
    BY <2>1, <1>3, Pool, Constants DEF Init, DrainInv, DisabledDrains
<1>8. QED
  BY <1>4, <1>5, <1>6, <1>7 DEF IInv

-----------------------------------------------------------------------------
(* Types.                                                                  *)

\* The buckets and what has passed, after any step.
LEMMA BucketStep == IInv /\ [Next]_vars =>
  /\ bucket' \in [Node -> SUBSET Stamps] /\ admitted' \in [Node -> SUBSET Stamps]
  /\ \A n \in Node : bucket'[n] \subseteq admitted'[n] /\ Cardinality(bucket'[n]) =< Limit
  /\ \A n \in Node : IsFiniteSet(admitted'[n])
       /\ \A s \in admitted'[n] : s[1] < Cardinality(admitted'[n])
<1> DEFINE Good == /\ bucket' \in [Node -> SUBSET Stamps] /\ admitted' \in [Node -> SUBSET Stamps]
                   /\ \A n \in Node : bucket'[n] \subseteq admitted'[n] /\ Cardinality(bucket'[n]) =< Limit
                   /\ \A n \in Node : IsFiniteSet(admitted'[n])
                        /\ \A s \in admitted'[n] : s[1] < Cardinality(admitted'[n])
<1> SUFFICES ASSUME IInv, [Next]_vars PROVE Good
  OBVIOUS
<1>0. /\ bucket \in [Node -> SUBSET Stamps] /\ admitted \in [Node -> SUBSET Stamps]
      /\ \A n \in Node : bucket[n] \subseteq admitted[n] /\ Cardinality(bucket[n]) =< Limit
      /\ \A n \in Node : IsFiniteSet(admitted[n])
           /\ \A s \in admitted[n] : s[1] < Cardinality(admitted[n])
      /\ \A th \in Thread : thread[th].at = "lock" => thread[th].node \in Node
      /\ \A th \in Thread : thread[th].now \in Nat
  BY DEF IInv, TypeOK, StampInv, Threads
<1>1. CASE UNCHANGED gate
  BY <1>0, <1>1 DEF gate
<1>2. ASSUME NEW th \in Thread, Refuse(th) PROVE Good
  <2> DEFINE n == thread[th].node
             kept == Kept(bucket[n], thread[th].now)
  <2>1. n \in Node /\ kept \subseteq bucket[n] /\ UNCHANGED admitted
        /\ bucket' = [bucket EXCEPT ![n] = kept]
    BY <1>0, <1>2 DEF Refuse, Kept
  <2>2. Cardinality(kept) <= Limit
    <3>1. IsFiniteSet(bucket[n])
      BY <1>0, <2>1, Stamping
    <3>2. Cardinality(kept) <= Cardinality(bucket[n]) /\ Cardinality(kept) \in Nat
          /\ Cardinality(bucket[n]) \in Nat
      BY <2>1, <3>1, Stamping
    <3>3. QED
      BY <1>0, <2>1, <3>2, Constants
  <2> HIDE DEF kept, n
  <2>3. QED
    BY <1>0, <2>1, <2>2
<1>3. ASSUME NEW th \in Thread, Allow(th) PROVE Good
  <2> DEFINE n == thread[th].node
             kept == Kept(bucket[n], thread[th].now)
             stamp == <<Cardinality(admitted[n]), thread[th].now>>
  <2>1. n \in Node /\ kept \subseteq bucket[n] /\ ~ Full(kept)
        /\ bucket' = [bucket EXCEPT ![n] = kept \union {stamp}]
        /\ admitted' = [admitted EXCEPT ![n] = @ \union {stamp}]
    BY <1>0, <1>3 DEF Allow, Kept
  <2>2. IsFiniteSet(admitted[n]) /\ Cardinality(admitted[n]) \in Nat
    BY <1>0, <2>1, Stamping
  <2>3. stamp \in Stamps /\ stamp[1] = Cardinality(admitted[n])
    BY <1>0, <2>2 DEF Stamps
  <2>4. stamp \notin admitted[n]
    BY <1>0, <2>1, <2>2, <2>3
  <2>5. IsFiniteSet(admitted[n] \union {stamp})
        /\ Cardinality(admitted[n] \union {stamp}) = Cardinality(admitted[n]) + 1
    BY <2>2, <2>4, OneMore
  <2>6. IsFiniteSet(kept)
    BY <1>0, <2>1, <2>2, Stamping
  <2>7. Cardinality(kept \union {stamp}) <= Limit
    <3>1. Cardinality(kept) \in Nat /\ Cardinality(kept \union {stamp}) <= Cardinality(kept) + 1
      BY <2>6, OneMore
    <3>2. ~ Cardinality(kept) >= Limit
      BY <2>1 DEF Full
    <3>3. Cardinality(kept \union {stamp}) \in Nat
      BY <2>6, OneMore
    <3>4. QED
      BY <3>1, <3>2, <3>3, Constants
  <2>8. \A s \in admitted[n] \union {stamp} : s[1] < Cardinality(admitted[n]) + 1
    <3>1. \A s \in admitted[n] : s[1] < Cardinality(admitted[n]) /\ s[1] \in Nat
      BY <1>0, <2>1 DEF Stamps
    <3>2. QED
      BY <2>2, <2>3, <3>1
  <2>9. kept \union {stamp} \subseteq Stamps /\ admitted[n] \union {stamp} \subseteq Stamps
        /\ kept \union {stamp} \subseteq admitted[n] \union {stamp}
    BY <1>0, <2>1, <2>3
  <2> HIDE DEF kept, n, stamp
  <2>10. QED
    BY <1>0, <2>1, <2>5, <2>7, <2>8, <2>9
<1>4. CASE Restart
  <2>1. IsFiniteSet({}) /\ Cardinality({}) = 0
    BY FS_EmptySet
  <2>2. QED
    BY <1>4, <2>1, Constants DEF Restart
<1>5. QED
  <2>1. ASSUME NEW th \in Thread, Request(th) PROVE Good
    BY <1>1, <1>2, <1>3, <2>1 DEF Request, Send, Unknown, Verify, Check, Ingest
  <2>2. ASSUME NEW o \in Operator, Registration(o) PROVE UNCHANGED gate
    BY <2>2 DEF Registration, Read, Register, RegisterFails
  <2>3. ASSUME NEW n \in Node, Install(n) \/ Disable(n) PROVE UNCHANGED gate
    BY <2>3 DEF Install, Disable
  <2>4. Tick \/ UNCHANGED vars => UNCHANGED gate
    BY DEF Tick, vars
  <2> HIDE DEF Good
  <2>5. QED
    BY <1>1, <1>4, <2>1, <2>2, <2>3, <2>4 DEF Next

\* The threads, after any step: types, node and clock reading.
LEMMA ThreadStep == IInv /\ [Next]_vars =>
  /\ clock' \in 0..MaxTime
  /\ thread' \in [Thread -> Threads]
  /\ \A th \in Thread : thread'[th].at \in {"check", "lock", "ingest"} <=> thread'[th].node \in Node
  /\ \A th \in Thread : thread'[th].now =< clock'
<1> DEFINE Good == /\ thread' \in [Thread -> Threads]
                   /\ \A th \in Thread : thread'[th].at \in {"check", "lock", "ingest"}
                                           <=> thread'[th].node \in Node
                   /\ \A th \in Thread : thread'[th].now =< clock'
<1> SUFFICES ASSUME IInv, [Next]_vars PROVE clock' \in 0..MaxTime /\ Good
  BY Zenon
<1>0. /\ clock \in 0..MaxTime /\ clock \in Nat
      /\ thread \in [Thread -> Threads]
      /\ \A th \in Thread : thread[th].at \in {"check", "lock", "ingest"} <=> thread[th].node \in Node
      /\ \A th \in Thread : thread[th].now =< clock
      /\ \A n \in Node : held[n] \in Nat
  BY Constants DEF IInv, TypeOK, StampInv
<1>1. clock' \in 0..MaxTime /\ clock =< clock'
  <2>1. UNCHANGED clock \/ Tick
    <3>1. ASSUME NEW th \in Thread, Request(th) PROVE UNCHANGED clock
      BY <3>1 DEF Request, Send, Unknown, Verify, Check, Refuse, Allow, Ingest
    <3>2. ASSUME NEW o \in Operator, Registration(o) PROVE UNCHANGED clock
      BY <3>2 DEF Registration, Read, Register, RegisterFails
    <3>3. ASSUME NEW n \in Node, Install(n) \/ Disable(n) PROVE UNCHANGED clock
      BY <3>3 DEF Install, Disable
    <3>4. Restart \/ UNCHANGED vars => UNCHANGED clock
      BY DEF Restart, vars
    <3>5. QED
      BY <3>1, <3>2, <3>3, <3>4 DEF Next
  <2>2. QED
    BY <1>0, <2>1, Constants DEF Tick
<1>2. ASSUME NEW th \in Thread, NEW t \in Threads, thread' = [thread EXCEPT ![th] = t],
             t.at \in {"check", "lock", "ingest"} <=> t.node \in Node, t.now =< clock'
      PROVE  Good
  <2>1. \A one \in Thread : thread[one].now \in Nat
    BY <1>0 DEF Threads
  <2>2. QED
    BY <1>0, <1>1, <1>2, <2>1
<1>3. ASSUME UNCHANGED thread PROVE Good
  <2>1. \A one \in Thread : thread[one].now \in Nat
    BY <1>0 DEF Threads
  <2>2. QED
    BY <1>0, <1>1, <1>3, <2>1
<1>4. Idle \in Threads /\ ~ (Idle.at \in {"check", "lock", "ingest"}) /\ Idle.node \notin Node
      /\ Idle.now =< clock' /\ clock' \in Nat
  BY <1>1, Constants
<1> HIDE DEF Good
<1>5. ASSUME NEW th \in Thread, Request(th) PROVE Good
  <2>1. thread[th] \in Threads
    BY <1>0
  <2>2. ASSUME NEW n \in Node, NEW claims \in Node \union {Nobody}, Send(th, n, claims) PROVE Good
    <3> DEFINE t == [Idle EXCEPT !.at = "verify", !.token = held[n], !.claims = claims]
    <3>1. t \in Threads /\ t.at = "verify" /\ t.node = Nobody /\ t.now = 0
      BY <1>0, <2>2, Constants DEF Idle, Threads
    <3>2. thread' = [thread EXCEPT ![th] = t]
      BY <2>2 DEF Send
    <3> HIDE DEF t
    <3>3. QED
      BY <1>2, <1>4, <3>1, <3>2, Constants
  <2>3. CASE Unknown(th) \/ Refuse(th) \/ Ingest(th)
    <3>1. thread' = [thread EXCEPT ![th] = Idle]
      BY <2>3 DEF Unknown, Refuse, Ingest
    <3>2. QED
      BY <1>2, <1>4, <3>1
  <2>4. ASSUME NEW n \in Node, Verify(th, n) PROVE Good
    <3> DEFINE t == [thread[th] EXCEPT !.at = "check", !.token = None, !.node = n]
    <3>1. t \in Threads /\ t.at = "check" /\ t.node = n /\ t.now = thread[th].now
      BY <2>1 DEF Threads, None
    <3>2. thread' = [thread EXCEPT ![th] = t] \/ thread' = [thread EXCEPT ![th] = Idle]
      BY <2>4 DEF Verify
    <3>3. t.now =< clock'
      <4>1. thread[th].now \in Nat /\ thread[th].now =< clock
        BY <1>0, <2>1 DEF Threads
      <4>2. QED
        BY <1>0, <1>1, <1>4, <3>1, <4>1
    <3> HIDE DEF t
    <3>4. QED
      BY <1>2, <1>4, <3>1, <3>2, <3>3
  <2>5. CASE Check(th)
    <3> DEFINE t == [thread[th] EXCEPT !.at = "lock", !.claims = Nobody, !.now = clock]
    <3>1. t \in Threads /\ t.at = "lock" /\ t.node = thread[th].node /\ t.now = clock
      BY <1>0, <2>1 DEF Threads
    <3>2. thread' = [thread EXCEPT ![th] = t] \/ thread' = [thread EXCEPT ![th] = Idle]
      BY <2>5 DEF Check
    <3>3. thread[th].node \in Node
      BY <1>0, <2>5 DEF Check
    <3> HIDE DEF t
    <3>4. QED
      BY <1>1, <1>2, <1>4, <3>1, <3>2, <3>3
  <2>6. CASE Allow(th)
    <3> DEFINE t == [thread[th] EXCEPT !.at = "ingest", !.now = 0]
    <3>1. t \in Threads /\ t.at = "ingest" /\ t.node = thread[th].node /\ t.now = 0
      BY <2>1 DEF Threads
    <3>2. thread' = [thread EXCEPT ![th] = t]
      BY <2>6 DEF Allow
    <3>3. thread[th].node \in Node
      BY <1>0, <2>6 DEF Allow
    <3>4. t.now =< clock'
      BY <1>4, <3>1
    <3> HIDE DEF t
    <3>5. QED
      BY <1>2, <3>1, <3>2, <3>3, <3>4
  <2>7. QED
    BY <1>5, <2>2, <2>3, <2>4, <2>5, <2>6 DEF Request
<1>6. ASSUME Restart PROVE Good
  BY <1>4, <1>6 DEF Restart, Good
<1>7. ASSUME NEW o \in Operator, Registration(o) PROVE Good
  BY <1>3, <1>7 DEF Registration, Read, Register, RegisterFails
<1>8. ASSUME NEW n \in Node, Install(n) \/ Disable(n) PROVE Good
  BY <1>3, <1>8 DEF Install, Disable
<1>9. Tick \/ UNCHANGED vars => Good
  BY <1>3 DEF Tick, vars
<1>10. QED
  BY <1>1, <1>5, <1>6, <1>7, <1>8, <1>9 DEF Next

\* The registry, after any step.
LEMMA RegistryStep == IInv /\ [Next]_vars =>
  /\ row' \in [Node -> Rows] /\ script' \in [Operator -> Scripts]
  /\ \A o \in Operator : script'[o].at = "read" => script'[o].node \in Node
  /\ issued' \in Nat /\ held' \in [Node -> Nat] /\ printed' \in [Node -> Nat]
  /\ grace' \in [Node -> Nat] /\ drained' \in [Node -> Nat]
<1> DEFINE Good == /\ row' \in [Node -> Rows] /\ script' \in [Operator -> Scripts]
                   /\ \A o \in Operator : script'[o].at = "read" => script'[o].node \in Node
                   /\ issued' \in Nat /\ held' \in [Node -> Nat] /\ printed' \in [Node -> Nat]
                   /\ grace' \in [Node -> Nat] /\ drained' \in [Node -> Nat]
<1> SUFFICES ASSUME IInv, [Next]_vars PROVE Good
  OBVIOUS
<1>0. /\ row \in [Node -> Rows] /\ script \in [Operator -> Scripts]
      /\ \A o \in Operator : script[o].at = "read" => script[o].node \in Node
      /\ issued \in Nat /\ held \in [Node -> Nat] /\ printed \in [Node -> Nat]
      /\ grace \in [Node -> Nat] /\ drained \in [Node -> Nat]
      /\ \A th \in Thread : thread[th].at = "ingest" => thread[th].node \in Node
  BY DEF IInv, TypeOK
<1>1. UNCHANGED <<registry, held, drained>> => Good
  BY <1>0 DEF registry
<1>2. ASSUME NEW th \in Thread, Request(th) PROVE Good
  <2>1. CASE Ingest(th)
    <3>1. drained' \in [Node -> Nat]
      BY <1>0, <2>1 DEF Ingest
    <3>2. QED
      BY <1>0, <2>1, <3>1 DEF Ingest, registry
  <2>2. QED
    BY <1>1, <1>2, <2>1 DEF Request, Send, Unknown, Verify, Check, Refuse, Allow
<1>3. ASSUME NEW o \in Operator, Registration(o) PROVE Good
  <2>1. ASSUME NEW n \in Node, NEW rotate \in BOOLEAN, Read(o, n, rotate) PROVE Good
    <3>1. [at |-> "read", node |-> n, rotate |-> rotate, read |-> row[n]] \in Scripts
      BY <1>0 DEF Scripts
    <3>2. QED
      BY <1>0, <2>1, <3>1 DEF Read
  <2>2. CASE RegisterFails(o)
    BY <1>0, <2>2, Constants DEF RegisterFails
  <2>3. CASE Register(o)
    <3> DEFINE n == script[o].node
    <3>1. n \in Node /\ script[o] \in Scripts /\ row[n] \in Rows
      BY <1>0, <2>3 DEF Register
    <3>2. issued' \in Nat
      BY <1>0, <2>3 DEF Register
    <3>3. Written(script[o], row[n], issued') \in Rows
      BY <3>1, <3>2 DEF Written, Rows, Scripts
    <3>4. [current |-> issued', previous |-> None, enabled |-> TRUE] \in Rows
      BY <3>2 DEF Rows, None
    <3>5. row' \in [Node -> Rows]
      BY <1>0, <2>3, <3>1, <3>3, <3>4 DEF Register
    <3>6. script' \in [Operator -> Scripts]
          /\ \A one \in Operator : script'[one].at = "read" => script'[one].node \in Node
      BY <1>0, <2>3, Constants DEF Register
    <3>7. printed' \in [Node -> Nat] /\ drained' \in [Node -> Nat]
      BY <1>0, <2>3, <3>1, <3>2 DEF Register
    <3>8. grace' \in [Node -> Nat]
      <4> DEFINE g == IF ~script[o].rotate THEN grace[n]
                      ELSE IF script[o].read.current = printed[n] THEN printed[n] ELSE None
      <4>1. g \in Nat
        BY <1>0, <3>1 DEF None
      <4>2. grace' = [grace EXCEPT ![n] = g]
        BY <1>0, <2>3, <3>1 DEF Register
      <4>3. QED
        BY <1>0, <4>1, <4>2
    <3>9. UNCHANGED held
      BY <2>3 DEF Register
    <3>10. QED
      BY <1>0, <3>2, <3>5, <3>6, <3>7, <3>8, <3>9
  <2>4. QED
    BY <1>3, <2>1, <2>2, <2>3 DEF Registration
<1>4. ASSUME NEW n \in Node, Install(n) PROVE Good
  BY <1>0, <1>4 DEF Install, registry
<1>5. ASSUME NEW n \in Node, Disable(n) PROVE Good
  <2>1. [row[n] EXCEPT !.enabled = FALSE] \in Rows
    BY <1>0 DEF Rows
  <2>2. QED
    BY <1>0, <1>5, <2>1 DEF Disable
<1>6. Tick \/ Restart \/ UNCHANGED vars => Good
  BY <1>1 DEF Tick, Restart, vars
<1> HIDE DEF Good
<1>7. QED
  BY <1>2, <1>3, <1>4, <1>5, <1>6 DEF Next

LEMMA TypeStep == IInv /\ [Next]_vars => TypeOK' /\ StampInv'
BY BucketStep, ThreadStep, RegistryStep DEF TypeOK, StampInv

-----------------------------------------------------------------------------
(* The window.                                                             *)

\* The requests and threads that WindowInv counts are finitely many.
LEMMA Counted ==
  ASSUME IInv, NEW n \in Node, NEW end \in 0..MaxTime
  PROVE  /\ IsFiniteSet(Passed(n, end)) /\ Cardinality(Passed(n, end)) \in Nat
         /\ Passed(n, end) \subseteq bucket[n] => Cardinality(Passed(n, end)) <= Limit
         /\ Late(n, end) \subseteq Thread
<1>1. IsFiniteSet(admitted[n]) /\ bucket[n] \subseteq admitted[n] /\ Cardinality(bucket[n]) =< Limit
  BY DEF IInv, StampInv, TypeOK
<1>2. Passed(n, end) \subseteq admitted[n]
  BY DEF Passed
<1>3. IsFiniteSet(Passed(n, end)) /\ Cardinality(Passed(n, end)) \in Nat
  BY <1>1, <1>2, Stamping
<1>4. ASSUME Passed(n, end) \subseteq bucket[n] PROVE Cardinality(Passed(n, end)) <= Limit
  <2>1. IsFiniteSet(bucket[n]) /\ Cardinality(bucket[n]) \in Nat
    BY <1>1, Stamping
  <2>2. Cardinality(Passed(n, end)) <= Cardinality(bucket[n])
    BY <1>4, <2>1, Stamping
  <2>3. QED
    BY <1>1, <1>3, <2>1, <2>2, Constants
<1>5. QED
  BY <1>3, <1>4 DEF Late

\* Nothing passes and no late request appears.
LEMMA WindowKept ==
  ASSUME IInv, NEW n \in Node, NEW end \in 0..MaxTime, WindowInv,
         clock \in Nat, clock' \in Nat, clock <= clock',
         bucket'[n] = bucket[n], admitted'[n] = admitted[n],
         end < clock => Late(n, end)' \subseteq Late(n, end)
  PROVE  \/ Passed(n, end)' \subseteq bucket'[n]
         \/ /\ end < clock'
            /\ Cardinality(Passed(n, end)') + Cardinality(Late(n, end)')
                  =< Limit + Cardinality(Thread) - 1
<1>1. Passed(n, end)' = Passed(n, end)
  BY DEF Passed
<1>2. CASE Passed(n, end) \subseteq bucket[n]
  BY <1>1, <1>2
<1>3. CASE ~ Passed(n, end) \subseteq bucket[n]
  <2>1. /\ end < clock
        /\ Cardinality(Passed(n, end)) + Cardinality(Late(n, end)) =< Limit + Cardinality(Thread) - 1
    BY <1>3 DEF WindowInv
  <2>2. Late(n, end)' \subseteq Late(n, end) /\ Late(n, end) \subseteq Thread
    BY <2>1, Counted
  <2>3. Cardinality(Late(n, end)') <= Cardinality(Late(n, end))
        /\ Cardinality(Late(n, end)) \in Nat /\ Cardinality(Late(n, end)') \in Nat
    <3>1. IsFiniteSet(Late(n, end))
      BY <2>2, Pool
    <3>2. QED
      BY <2>2, <3>1, Stamping
  <2>4. Cardinality(Passed(n, end)) \in Nat
    BY Counted
  <2>5. end < clock'
    BY <2>1
  <2>6. QED
    BY <1>1, <2>1, <2>3, <2>4, <2>5, Pool, Constants
<1>4. QED
  BY <1>2, <1>3

\* A thread takes the lock: what it drops is older than the interval, unless
\* the interval was over when it read the clock.
LEMMA WindowLocked ==
  ASSUME IInv, NEW n \in Node, NEW end \in 0..MaxTime, NEW th \in Thread,
         thread[th].at = "lock", thread[th].node = n, UNCHANGED clock,
         NEW t, t.at # "lock", thread' = [thread EXCEPT ![th] = t],
         \/ /\ admitted'[n] = admitted[n]
            /\ bucket'[n] = Kept(bucket[n], thread[th].now)
         \/ \E number \in Nat :
              LET stamp == <<number, thread[th].now>> IN
              /\ admitted'[n] = admitted[n] \union {stamp}
              /\ bucket'[n] = Kept(bucket[n], thread[th].now) \union {stamp}
  PROVE  \/ Passed(n, end)' \subseteq bucket'[n]
         \/ /\ end < clock'
            /\ Cardinality(Passed(n, end)') + Cardinality(Late(n, end)')
                  =< Limit + Cardinality(Thread) - 1
<1> DEFINE now == thread[th].now
<1>1. /\ now \in Nat /\ now <= clock /\ clock \in Nat /\ end \in Nat /\ Window \in Nat
      /\ \A s \in admitted[n] : s[2] \in Nat
      /\ thread \in [Thread -> Threads]
  BY Constants DEF IInv, TypeOK, StampInv, Threads, Stamps
<1>2. /\ IsFiniteSet(Passed(n, end)) /\ Cardinality(Passed(n, end)) \in Nat
      /\ Late(n, end) \subseteq Thread
  BY Counted
<1>3. Late(n, end)' \subseteq Late(n, end) \ {th}
  BY <1>1 DEF Late
<1>4. /\ Cardinality(Late(n, end)) \in Nat /\ Cardinality(Late(n, end)') \in Nat
      /\ Cardinality(Late(n, end)') <= Cardinality(Late(n, end))
      /\ Cardinality(Late(n, end)') <= Cardinality(Thread) - 1
      /\ th \in Late(n, end) => Cardinality(Late(n, end)') <= Cardinality(Late(n, end)) - 1
  <2>1. Late(n, end)' \subseteq Thread /\ Late(n, end)' # Thread
    BY <1>2, <1>3
  <2>2. Cardinality(Late(n, end)') <= Cardinality(Thread) - 1
        /\ Cardinality(Late(n, end)') \in Nat /\ IsFiniteSet(Late(n, end))
    BY <1>2, <2>1, Pool
  <2>3. Cardinality(Late(n, end)') <= Cardinality(Late(n, end)) /\ Cardinality(Late(n, end)) \in Nat
    BY <1>3, <2>2, Stamping
  <2>4. ASSUME th \in Late(n, end)
        PROVE  Cardinality(Late(n, end)') <= Cardinality(Late(n, end)) - 1
    <3>1. IsFiniteSet(Late(n, end) \ {th})
      BY <1>2, Pool
    <3>2. Cardinality(Late(n, end)') <= Cardinality(Late(n, end) \ {th})
      BY <1>3, <3>1, Stamping
    <3>3. Cardinality(Late(n, end) \ {th}) = Cardinality(Late(n, end)) - 1
      BY <1>2, <2>4, Pool
    <3>4. QED
      BY <3>2, <3>3
  <2>5. QED
    BY <2>2, <2>3, <2>4
<1>5. now <= end => th \in Late(n, end)
  BY DEF Late
<1>6. now > end => Passed(n, end)' = Passed(n, end)
  BY <1>1 DEF Passed
<1>7. /\ IsFiniteSet(Passed(n, end)') /\ Cardinality(Passed(n, end)') \in Nat
      /\ Cardinality(Passed(n, end)') <= Cardinality(Passed(n, end)) + 1
  <2>1. CASE Passed(n, end)' \subseteq Passed(n, end)
    BY <1>2, <2>1, Stamping
  <2>2. CASE ~ Passed(n, end)' \subseteq Passed(n, end)
    <3>1. PICK stamp : admitted'[n] = admitted[n] \union {stamp}
      BY <2>2 DEF Passed
    <3>2. Passed(n, end)' = Passed(n, end) \union {stamp}
      BY <2>2, <3>1 DEF Passed
    <3>3. QED
      BY <1>2, <3>2, OneMore
  <2>3. QED
    BY <2>1, <2>2
<1>8. CASE Passed(n, end) \subseteq Kept(bucket[n], now)
  BY <1>8 DEF Passed
<1>9. CASE Passed(n, end) \subseteq bucket[n] /\ ~ Passed(n, end) \subseteq Kept(bucket[n], now)
  <2>1. now > end
    <3>1. PICK s \in Passed(n, end) : s \in bucket[n] /\ s \notin Kept(bucket[n], now)
      BY <1>9
    <3>2. s[2] \in Nat /\ end - Window < s[2] /\ ~ s[2] > now - Window
      BY <1>1, <3>1 DEF Passed, Kept
    <3>3. QED
      BY <1>1, <3>2
  <2>2. Cardinality(Passed(n, end)) <= Limit
    BY <1>9, Counted
  <2>3. QED
    BY <1>1, <1>2, <1>4, <1>6, <2>1, <2>2, Pool, Constants
<1>10. CASE ~ Passed(n, end) \subseteq bucket[n]
  <2>1. /\ end < clock
        /\ Cardinality(Passed(n, end)) + Cardinality(Late(n, end)) =< Limit + Cardinality(Thread) - 1
    BY <1>10 DEF IInv, WindowInv
  <2>2. CASE now <= end
    <3>1. Cardinality(Late(n, end)') <= Cardinality(Late(n, end)) - 1
      BY <1>4, <1>5, <2>2
    <3>2. QED
      BY <1>2, <1>4, <1>7, <2>1, <3>1, Pool, Constants
  <2>3. CASE now > end
    BY <1>2, <1>4, <1>6, <2>1, <2>3, Pool, Constants
  <2>4. QED
    BY <1>1, <2>2, <2>3
<1>11. QED
  BY <1>8, <1>9, <1>10

LEMMA WindowStep == IInv /\ [Next]_vars => WindowInv'
<1> SUFFICES ASSUME IInv, [Next]_vars, NEW n \in Node, NEW end \in 0..MaxTime
             PROVE  \/ Passed(n, end)' \subseteq bucket'[n]
                    \/ /\ end < clock'
                       /\ Cardinality(Passed(n, end)') + Cardinality(Late(n, end)')
                             =< Limit + Cardinality(Thread) - 1
  BY DEF WindowInv
<1> DEFINE Goal == \/ Passed(n, end)' \subseteq bucket'[n]
                   \/ /\ end < clock'
                      /\ Cardinality(Passed(n, end)') + Cardinality(Late(n, end)')
                            =< Limit + Cardinality(Thread) - 1
<1>0. /\ WindowInv /\ clock \in Nat /\ clock' \in Nat /\ thread \in [Thread -> Threads]
      /\ bucket \in [Node -> SUBSET Stamps] /\ admitted \in [Node -> SUBSET Stamps]
      /\ \A th \in Thread : thread[th].at = "lock" => thread[th].node \in Node
      /\ end \in Nat
  BY ThreadStep, Constants DEF IInv, TypeOK
<1>1. ASSUME UNCHANGED gate, clock <= clock', end < clock => Late(n, end)' \subseteq Late(n, end)
      PROVE  Goal
  BY <1>0, <1>1, WindowKept DEF gate
<1>2. UNCHANGED thread => Late(n, end)' \subseteq Late(n, end)
  BY DEF Late
<1>3. ASSUME NEW th \in Thread, NEW t, thread' = [thread EXCEPT ![th] = t],
             t.at # "lock" \/ ~ t.now <= end
      PROVE  Late(n, end)' \subseteq Late(n, end)
  <2>1. \A one \in Late(n, end)' : one \in Thread /\ thread'[one].at = "lock"
          /\ thread'[one].node = n /\ thread'[one].now <= end
    BY DEF Late
  <2>2. ASSUME NEW one \in Late(n, end)' PROVE one \in Late(n, end)
    <3>1. CASE one # th
      BY <1>0, <1>3, <2>1, <3>1 DEF Late
    <3>2. CASE one = th
      <4>1. thread'[th] = t
        BY <1>0, <1>3
      <4>2. t.at = "lock" /\ t.now <= end
        BY <2>1, <3>2, <4>1
      <4>3. ~ t.now <= end /\ t.now <= end
        BY <1>3, <4>2
      <4>4. QED
        BY <4>3
    <3>3. QED
      BY <3>1, <3>2
  <2>3. QED
    BY <2>2
<1>4. ASSUME UNCHANGED <<clock, gate>>, Late(n, end)' \subseteq Late(n, end)
      PROVE  Goal
  <2>1. clock <= clock'
    BY <1>0, <1>4
  <2>2. UNCHANGED gate
    BY <1>4
  <2>3. QED
    BY <1>1, <1>4, <2>1, <2>2
<1> HIDE DEF Goal
<1>5. ASSUME NEW th \in Thread, Request(th) PROVE Goal
  <2>1. ASSUME NEW one \in Node, NEW claims \in Node \union {Nobody}, Send(th, one, claims) PROVE Goal
    <3> DEFINE t == [Idle EXCEPT !.at = "verify", !.token = held[one], !.claims = claims]
    <3>1. t.at # "lock"
      BY DEF Idle
    <3>2. thread' = [thread EXCEPT ![th] = t] /\ UNCHANGED <<clock, gate>>
      BY <2>1 DEF Send
    <3> HIDE DEF t
    <3>3. QED
      BY <1>3, <1>4, <3>1, <3>2
  <2>2. CASE Unknown(th) \/ Ingest(th)
    <3>1. thread' = [thread EXCEPT ![th] = Idle] /\ UNCHANGED <<clock, gate>> /\ Idle.at # "lock"
      BY <2>2, Constants DEF Unknown, Ingest
    <3>2. QED
      BY <1>3, <1>4, <3>1
  <2>3. ASSUME NEW one \in Node, Verify(th, one) PROVE Goal
    <3> DEFINE t == [thread[th] EXCEPT !.at = "check", !.token = None, !.node = one]
    <3>1. t.at # "lock" /\ Idle.at # "lock"
      BY <1>0, Constants DEF Threads
    <3>2. UNCHANGED <<clock, gate>>
          /\ (thread' = [thread EXCEPT ![th] = t] \/ thread' = [thread EXCEPT ![th] = Idle])
      BY <2>3 DEF Verify
    <3> HIDE DEF t
    <3>3. QED
      BY <1>3, <1>4, <3>1, <3>2
  <2>4. CASE Check(th)
    <3> DEFINE t == [thread[th] EXCEPT !.at = "lock", !.claims = Nobody, !.now = clock]
    <3>1. t.at = "lock" /\ t.now = clock
      BY <1>0 DEF Threads
    <3>2. UNCHANGED gate /\ clock <= clock'
      BY <1>0, <2>4 DEF Check
    <3>3. CASE thread' = [thread EXCEPT ![th] = t]
      <4>1. end < clock => ~ t.now <= end
        BY <1>0, <3>1
      <4> HIDE DEF t
      <4>2. QED
        BY <1>1, <1>3, <3>2, <3>3, <4>1
    <3>4. CASE thread' = [thread EXCEPT ![th] = Idle]
      BY <1>1, <1>3, <3>2, <3>4, Constants
    <3>5. QED
      BY <2>4, <3>3, <3>4 DEF Check
  <2>5. CASE Refuse(th)
    <3>1. /\ thread[th].at = "lock" /\ UNCHANGED <<clock, admitted>>
          /\ thread' = [thread EXCEPT ![th] = Idle]
          /\ bucket' = [bucket EXCEPT ![thread[th].node] = Kept(bucket[thread[th].node], thread[th].now)]
      BY <2>5 DEF Refuse
    <3>2. CASE thread[th].node = n
      <4>1. bucket'[n] = Kept(bucket[n], thread[th].now)
        BY <1>0, <3>1, <3>2
      <4>2. Idle.at # "lock"
        BY Constants
      <4>3. QED
        BY <3>1, <3>2, <4>1, <4>2, WindowLocked DEF Goal
    <3>3. CASE thread[th].node # n
      <4>1. bucket'[n] = bucket[n] /\ admitted'[n] = admitted[n] /\ clock <= clock'
        BY <1>0, <3>1, <3>3
      <4>2. Late(n, end)' \subseteq Late(n, end)
        BY <1>3, <3>1, Constants
      <4>3. QED
        BY <1>0, <4>1, <4>2, WindowKept DEF Goal
    <3>4. QED
      BY <3>2, <3>3
  <2>6. CASE Allow(th)
    <3> DEFINE m == thread[th].node
               stamp == <<Cardinality(admitted[m]), thread[th].now>>
               t == [thread[th] EXCEPT !.at = "ingest", !.now = 0]
    <3>1. /\ thread[th].at = "lock" /\ UNCHANGED clock /\ m \in Node
          /\ thread' = [thread EXCEPT ![th] = t]
          /\ bucket' = [bucket EXCEPT ![m] = Kept(bucket[m], thread[th].now) \union {stamp}]
          /\ admitted' = [admitted EXCEPT ![m] = @ \union {stamp}]
      BY <1>0, <2>6 DEF Allow
    <3>2. t.at # "lock"
      BY <1>0 DEF Threads
    <3>3. Cardinality(admitted[m]) \in Nat
      BY <3>1, FS_CardinalityType DEF IInv, StampInv
    <3> HIDE DEF t
    <3>4. CASE m = n
      <4>1. /\ bucket'[n] = Kept(bucket[n], thread[th].now) \union {<<Cardinality(admitted[m]), thread[th].now>>}
            /\ admitted'[n] = admitted[n] \union {<<Cardinality(admitted[m]), thread[th].now>>}
        BY <1>0, <3>1, <3>4
      <4>2. \E number \in Nat :
              LET one == <<number, thread[th].now>> IN
              /\ admitted'[n] = admitted[n] \union {one}
              /\ bucket'[n] = Kept(bucket[n], thread[th].now) \union {one}
        BY <3>3, <4>1
      <4>3. thread[th].node = n
        BY <3>4
      <4> HIDE DEF m, stamp
      <4>4. QED
        BY <3>1, <3>2, <4>2, <4>3, WindowLocked DEF Goal
    <3>5. CASE m # n
      <4>1. bucket'[n] = bucket[n] /\ admitted'[n] = admitted[n] /\ clock <= clock'
        BY <1>0, <3>1, <3>5
      <4>2. Late(n, end)' \subseteq Late(n, end)
        BY <1>3, <3>1, <3>2
      <4>3. QED
        BY <1>0, <4>1, <4>2, WindowKept DEF Goal
    <3>6. QED
      BY <3>4, <3>5
  <2>7. QED
    BY <1>5, <2>1, <2>2, <2>3, <2>4, <2>5, <2>6 DEF Request
<1>6. ASSUME NEW o \in Operator, Registration(o) PROVE Goal
  <2>1. UNCHANGED <<clock, gate, thread>>
    BY <1>6 DEF Registration, Read, Register, RegisterFails
  <2>2. QED
    BY <1>2, <1>4, <2>1
<1>7. ASSUME NEW m \in Node, Install(m) \/ Disable(m) PROVE Goal
  <2>1. UNCHANGED <<clock, gate, thread>>
    BY <1>7 DEF Install, Disable
  <2>2. QED
    BY <1>2, <1>4, <2>1
<1>8. ASSUME Tick PROVE Goal
  <2>1. clock <= clock'
    BY <1>0, <1>8 DEF Tick
  <2>2. UNCHANGED gate
    BY <1>8 DEF Tick
  <2>3. UNCHANGED thread
    BY <1>8 DEF Tick
  <2>4. QED
    BY <1>1, <1>2, <2>1, <2>2, <2>3
<1>9. CASE Restart
  BY <1>9 DEF Restart, Goal, Passed
<1>10. ASSUME UNCHANGED vars PROVE Goal
  <2>1. UNCHANGED <<clock, gate>>
    BY <1>10 DEF vars
  <2>2. UNCHANGED thread
    BY <1>10 DEF vars
  <2>3. QED
    BY <1>2, <1>4, <2>1, <2>2
<1>11. QED
  BY <1>5, <1>6, <1>7, <1>8, <1>9, <1>10 DEF Next, Goal

-----------------------------------------------------------------------------
(* Draining a disabled node.                                               *)

LEMMA DrainStep == IInv /\ [Next]_vars => DrainInv'
<1> SUFFICES ASSUME IInv, [Next]_vars, NEW n \in Node
             PROVE  /\ (~ row[n].enabled =>
                          drained[n] + Cardinality(Within(n)) =< Cardinality(Thread))'
                    /\ (row[n].enabled => drained[n] = 0)'
  BY DEF DrainInv, DisabledDrains
<1> DEFINE Goal == /\ ~ row'[n].enabled =>
                        drained'[n] + Cardinality(Within(n)') =< Cardinality(Thread)
                   /\ row'[n].enabled => drained'[n] = 0
<1>0. /\ ~ row[n].enabled => drained[n] + Cardinality(Within(n)) =< Cardinality(Thread)
      /\ row[n].enabled => drained[n] = 0
      /\ drained \in [Node -> Nat] /\ row \in [Node -> Rows] /\ thread \in [Thread -> Threads]
      /\ \A th \in Thread : thread[th].at \in {"check", "lock", "ingest"} <=> thread[th].node \in Node
  BY DEF IInv, DrainInv, DisabledDrains, TypeOK
<1>1. /\ Within(n) \subseteq Thread /\ Within(n)' \subseteq Thread
      /\ Cardinality(Within(n)) \in Nat /\ Cardinality(Within(n)') \in Nat
      /\ Cardinality(Within(n)') <= Cardinality(Thread) /\ Cardinality(Thread) \in Nat
      /\ drained[n] \in Nat
  <2>1. Within(n) \subseteq Thread /\ Within(n)' \subseteq Thread
    BY DEF Within
  <2>2. QED
    BY <1>0, <2>1, Pool
<1>2. Within(n)' \subseteq Within(n) => Cardinality(Within(n)') <= Cardinality(Within(n))
  <2>1. IsFiniteSet(Within(n))
    BY <1>1, Pool
  <2>2. QED
    BY <2>1, Stamping
<1>3. ASSUME row'[n].enabled = row[n].enabled, drained'[n] = drained[n],
             ~ row[n].enabled => Within(n)' \subseteq Within(n)
      PROVE  Goal
  BY <1>0, <1>1, <1>2, <1>3
<1>4. UNCHANGED thread => Within(n)' \subseteq Within(n)
  BY DEF Within
<1>5. ASSUME NEW th \in Thread, NEW t, thread' = [thread EXCEPT ![th] = t],
             t.node # n \/ thread[th].node = n
      PROVE  Within(n)' \subseteq Within(n)
  BY <1>0, <1>5 DEF Within
<1> HIDE DEF Goal
<1>6. ASSUME NEW th \in Thread, Request(th) PROVE Goal
  <2>1. ASSUME NEW m \in Node, NEW claims \in Node \union {Nobody}, Send(th, m, claims) PROVE Goal
    <3> DEFINE t == [Idle EXCEPT !.at = "verify", !.token = held[m], !.claims = claims]
    <3>1. t.node # n
      BY Constants DEF Idle
    <3>2. thread' = [thread EXCEPT ![th] = t]
      BY <2>1 DEF Send
    <3>3. row' = row /\ drained' = drained
      BY <2>1 DEF Send, registry
    <3> HIDE DEF t
    <3>4. QED
      BY <1>3, <1>5, <3>1, <3>2, <3>3
  <2>2. CASE Unknown(th) \/ Refuse(th)
    <3>1. thread' = [thread EXCEPT ![th] = Idle] /\ Idle.node # n
      BY <2>2, Constants DEF Unknown, Refuse
    <3>2. row' = row /\ drained' = drained
      BY <2>2 DEF Unknown, Refuse, registry
    <3>3. QED
      BY <1>3, <1>5, <3>1, <3>2
  <2>3. ASSUME NEW m \in Node, Verify(th, m) PROVE Goal
    <3> DEFINE t == [thread[th] EXCEPT !.at = "check", !.token = None, !.node = m]
    <3>1. t.node = m /\ Idle.node # n
      BY <1>0, Constants DEF Threads
    <3>2. \/ thread' = [thread EXCEPT ![th] = t] /\ row[m].enabled
          \/ thread' = [thread EXCEPT ![th] = Idle]
      BY <2>3 DEF Verify
    <3>3. row' = row /\ drained' = drained
      BY <2>3 DEF Verify, registry
    <3> HIDE DEF t
    <3>4. ~ row[n].enabled => Within(n)' \subseteq Within(n)
      BY <1>5, <3>1, <3>2
    <3>5. QED
      BY <1>3, <3>3, <3>4
  <2>4. CASE Check(th)
    <3> DEFINE t == [thread[th] EXCEPT !.at = "lock", !.claims = Nobody, !.now = clock]
    <3>1. t.node = thread[th].node /\ Idle.node # n
      BY <1>0, Constants DEF Threads
    <3>2. thread' = [thread EXCEPT ![th] = t] \/ thread' = [thread EXCEPT ![th] = Idle]
      BY <2>4 DEF Check
    <3>3. row' = row /\ drained' = drained
      BY <2>4 DEF Check, registry
    <3> HIDE DEF t
    <3>4. QED
      BY <1>3, <1>5, <3>1, <3>2, <3>3
  <2>5. CASE Allow(th)
    <3> DEFINE t == [thread[th] EXCEPT !.at = "ingest", !.now = 0]
    <3>1. t.node = thread[th].node
      BY <1>0 DEF Threads
    <3>2. thread' = [thread EXCEPT ![th] = t]
      BY <2>5 DEF Allow
    <3>3. row' = row /\ drained' = drained
      BY <2>5 DEF Allow, registry
    <3> HIDE DEF t
    <3>4. QED
      BY <1>3, <1>5, <3>1, <3>2, <3>3
  <2>6. CASE Ingest(th)
    <3> DEFINE m == thread[th].node
    <3>1. /\ m \in Node /\ row' = row /\ thread' = [thread EXCEPT ![th] = Idle]
          /\ drained' = [drained EXCEPT ![m] = IF row[m].enabled THEN @ ELSE @ + 1]
      BY <1>0, <2>6 DEF Ingest, registry
    <3>2. Within(n)' \subseteq Within(n)
      BY <1>5, <3>1, Constants
    <3>3. CASE m # n \/ row[n].enabled
      <4>1. drained'[n] = drained[n]
        BY <1>0, <3>1, <3>3
      <4>2. QED
        BY <1>3, <3>1, <3>2, <4>1
    <3>4. CASE m = n /\ ~ row[n].enabled
      <4>1. drained'[n] = drained[n] + 1
        BY <1>0, <3>1, <3>4
      <4>2. th \in Within(n) /\ Within(n)' \subseteq Within(n) \ {th}
        BY <1>0, <3>1, <3>4, Constants DEF Within
      <4>3. IsFiniteSet(Within(n) \ {th})
            /\ Cardinality(Within(n) \ {th}) = Cardinality(Within(n)) - 1
        BY <1>1, <4>2, Pool
      <4>4. Cardinality(Within(n)') <= Cardinality(Within(n)) - 1
        BY <4>2, <4>3, Stamping
      <4>5. QED
        BY <1>0, <1>1, <3>1, <3>4, <4>1, <4>4 DEF Goal
    <3>5. QED
      BY <3>3, <3>4
  <2>7. QED
    BY <1>6, <2>1, <2>2, <2>3, <2>4, <2>5, <2>6 DEF Request
<1>7. ASSUME NEW o \in Operator, Registration(o) PROVE Goal
  <2>1. Within(n)' \subseteq Within(n)
    BY <1>4, <1>7 DEF Registration, Read, Register, RegisterFails
  <2>2. CASE UNCHANGED <<row, drained>>
    BY <1>3, <2>1, <2>2
  <2>3. CASE Register(o)
    <3> DEFINE m == script[o].node
    <3>1. /\ m \in Node
          /\ drained' = [drained EXCEPT ![m] = IF row'[m].enabled THEN 0 ELSE @]
          /\ row' = [row EXCEPT ![m] =
               IF script[o].read.current = None
               THEN [current |-> issued', previous |-> None, enabled |-> TRUE]
               ELSE Written(script[o], @, issued')]
      BY <2>3 DEF Register, IInv, TypeOK
    <3>2. CASE m # n
      <4>1. row'[n] = row[n] /\ drained'[n] = drained[n]
        BY <1>0, <3>1, <3>2
      <4>2. QED
        BY <1>3, <2>1, <4>1
    <3>3. CASE m = n
      <4>1. drained'[n] = IF row'[n].enabled THEN 0 ELSE drained[n]
        BY <1>0, <3>1, <3>3
      <4>2. row[n].enabled => row'[n].enabled
        BY <1>0, <3>1, <3>3 DEF Written
      <4>3. ~ row'[n].enabled =>
              drained'[n] = drained[n] /\ Cardinality(Within(n)') <= Cardinality(Within(n))
        BY <1>2, <2>1, <4>1
      <4>4. QED
        BY <1>0, <1>1, <4>1, <4>2, <4>3 DEF Goal
    <3>4. QED
      BY <3>2, <3>3
  <2>4. QED
    BY <1>7, <2>2, <2>3 DEF Registration, Read, RegisterFails
<1>8. ASSUME NEW m \in Node, Install(m) PROVE Goal
  <2>1. row' = row /\ drained' = drained
    BY <1>8 DEF Install, registry
  <2>2. UNCHANGED thread
    BY <1>8 DEF Install
  <2>3. QED
    BY <1>3, <1>4, <2>1, <2>2
<1>9. ASSUME NEW m \in Node, Disable(m) PROVE Goal
  <2>1. /\ row[m].enabled /\ row' = [row EXCEPT ![m].enabled = FALSE]
        /\ drained' = drained
    BY <1>9 DEF Disable
  <2>2. UNCHANGED thread
    BY <1>9 DEF Disable
  <2>3. CASE m # n
    <3>1. row'[n] = row[n]
      BY <1>0, <2>1, <2>3
    <3>2. QED
      BY <1>3, <1>4, <2>1, <2>2, <3>1
  <2>4. CASE m = n
    <3>1. drained'[n] = 0 /\ ~ row'[n].enabled
      BY <1>0, <2>1, <2>4 DEF Rows
    <3>2. QED
      BY <1>1, <3>1 DEF Goal
  <2>5. QED
    BY <2>3, <2>4
<1>10. ASSUME Tick \/ UNCHANGED vars PROVE Goal
  <2>1. row' = row /\ drained' = drained
    BY <1>10 DEF Tick, vars, registry
  <2>2. UNCHANGED thread
    BY <1>10 DEF Tick, vars
  <2>3. QED
    BY <1>3, <1>4, <2>1, <2>2
<1>11. ASSUME Restart PROVE Goal
  <2>1. row' = row /\ drained' = drained
    BY <1>11 DEF Restart, registry
  <2>2. Within(n)' \subseteq Within(n)
    BY <1>11, Constants DEF Restart, Within
  <2>3. QED
    BY <1>3, <2>1, <2>2
<1>12. QED
  BY <1>6, <1>7, <1>8, <1>9, <1>10, <1>11 DEF Next, Goal

-----------------------------------------------------------------------------
(* Theorems.                                                               *)

\* The inductive invariant behind the gate's properties: besides the types, a
\* window either still has all that passed in it in the bucket or is over and
\* can only grow by the threads that read the clock in time (auth.py:57-64).
THEOREM Inductive == Spec => []IInv
<1>1. IInv /\ [Next]_vars => IInv'
  BY TypeStep, WindowStep, DrainStep DEF IInv
<1>2. QED
  BY InitIInv, <1>1, PTL DEF Spec

\* A bucket never holds more than the limit, and only what has passed.
THEOREM TypeCorrect == Spec => []TypeOK
<1>1. IInv => TypeOK
  BY DEF IInv
<1>2. QED
  BY Inductive, <1>1, PTL

\* Any window holds at most the limit and one request for each other thread.
THEOREM WindowIsBounded == Spec => []WindowBound
<1>1. IInv => WindowBound
  <2> SUFFICES ASSUME IInv, NEW n \in Node, NEW end \in 0..clock
               PROVE  Cardinality(Passed(n, end)) =< Limit + Cardinality(Thread) - 1
    BY DEF WindowBound, Passed
  <2>1. clock \in 0..MaxTime
    BY DEF IInv, TypeOK
  <2>2. end \in 0..MaxTime
    BY <2>1, Constants
  <2>3. Cardinality(Passed(n, end)) \in Nat
        /\ (Passed(n, end) \subseteq bucket[n] => Cardinality(Passed(n, end)) <= Limit)
    BY <2>2, Counted
  <2>4. Cardinality(Late(n, end)) \in Nat
    BY <2>2, Counted, Pool
  <2>5. \/ Passed(n, end) \subseteq bucket[n]
        \/ Cardinality(Passed(n, end)) + Cardinality(Late(n, end)) =< Limit + Cardinality(Thread) - 1
    BY <2>2 DEF IInv, WindowInv
  <2>6. QED
    BY <2>3, <2>4, <2>5, Pool, Constants
<1>2. QED
  BY Inductive, <1>1, PTL

\* A disabled node is ingested at most once more by each thread.
THEOREM DisablingDrains == Spec => []DisabledDrains
<1>1. IInv => DisabledDrains
  BY DEF IInv, DrainInv
<1>2. QED
  BY Inductive, <1>1, PTL

-----------------------------------------------------------------------------
(* Tokens.                                                                 *)

LEMMA TokenStep == TypeOK /\ TokenInv /\ [Next]_vars => TokenInv'
<1> SUFFICES ASSUME TypeOK, TokenInv, [Next]_vars PROVE TokenInv'
  OBVIOUS
<1> DEFINE Told(n) == /\ row[n].current = printed[n]
                      /\ grace[n] # None => grace[n] = row[n].previous /\ printed[n] # None
<1>0. /\ row \in [Node -> Rows] /\ script \in [Operator -> Scripts] /\ issued \in Nat
      /\ printed \in [Node -> Nat] /\ grace \in [Node -> Nat]
      /\ \A o \in Operator : script[o].at = "read" => script[o].node \in Node
  BY DEF TypeOK
<1>1. \A n \in Node : Told(n)
  BY DEF TokenInv
<1>2. (\A n \in Node : Told(n)') => TokenInv'
  BY DEF TokenInv
<1>3. CASE UNCHANGED <<row, printed, grace>>
  BY <1>1, <1>2, <1>3
<1>4. ASSUME NEW o \in Operator, Register(o) PROVE TokenInv'
  <2>0. PICK m \in Node : m = script[o].node
    BY <1>0, <1>4 DEF Register
  <2> DEFINE s == script[o]
             now == row[m]
  <2>1. /\ issued' = issued + 1
        /\ s.read.current = None => now.current = None
        /\ row' = [row EXCEPT ![m] =
             IF s.read.current = None
             THEN [current |-> issued', previous |-> None, enabled |-> TRUE]
             ELSE Written(s, @, issued')]
        /\ grace' = [grace EXCEPT ![m] = IF ~s.rotate THEN @
                                         ELSE IF s.read.current = printed[m] THEN printed[m]
                                         ELSE None]
        /\ printed' = [printed EXCEPT ![m] = issued']
    BY <1>4, <2>0 DEF Register
  <2>2. issued' # None /\ Told(m)
    BY <1>0, <1>1, <2>1 DEF None
  <2>3. ASSUME NEW n \in Node, n # m PROVE Told(n)'
    BY <1>0, <1>1, <2>1, <2>3
  <2>4. row'[m].current = issued' /\ printed'[m] = issued'
    BY <1>0, <2>1 DEF Written
  <2>5. CASE s.read.current = None
    \* The node is new: nothing has been issued for it.
    <3>1. printed[m] = None /\ grace[m] = None
      BY <2>1, <2>2, <2>5
    <3>2. grace'[m] = None
      BY <1>0, <2>1, <3>1
    <3>3. Told(m)'
      BY <2>4, <3>2
    <3>4. QED
      BY <1>2, <2>3, <3>3
  <2>6. CASE s.read.current # None
    <3>1. row'[m].previous = IF s.rotate THEN s.read.current ELSE now.previous
      BY <1>0, <2>1, <2>6 DEF Written
    <3>2. grace'[m] = IF ~s.rotate THEN grace[m]
                      ELSE IF s.read.current = printed[m] THEN printed[m] ELSE None
      BY <1>0, <2>1
    <3>3. Told(m)'
      BY <2>2, <2>4, <3>1, <3>2
    <3>4. QED
      BY <1>2, <2>3, <3>3
  <2>7. QED
    BY <2>5, <2>6
<1>5. ASSUME NEW n \in Node, Disable(n) PROVE TokenInv'
  <2>1. row' = [row EXCEPT ![n].enabled = FALSE] /\ UNCHANGED <<printed, grace>>
    BY <1>5 DEF Disable
  <2>2. \A m \in Node : row'[m].current = row[m].current /\ row'[m].previous = row[m].previous
    BY <1>0, <2>1 DEF Rows
  <2>3. QED
    BY <1>1, <1>2, <2>1, <2>2
<1>6. ASSUME NEW th \in Thread, Request(th) PROVE UNCHANGED registry
  BY <1>6 DEF Request, Send, Unknown, Verify, Check, Refuse, Allow, Ingest
<1>7. ASSUME NEW o \in Operator,
             RegisterFails(o) \/ \E n \in Node, rotate \in BOOLEAN : Read(o, n, rotate)
      PROVE  UNCHANGED <<row, printed, grace>>
  BY <1>7 DEF Read, RegisterFails
<1>8. ASSUME NEW n \in Node, Install(n) PROVE UNCHANGED registry
  BY <1>8 DEF Install
<1>9. Tick \/ Restart \/ UNCHANGED vars => UNCHANGED registry
  BY DEF Tick, Restart, vars
<1>10. TokenInv' \/ UNCHANGED <<row, printed, grace>>
  BY <1>4, <1>5, <1>6, <1>7, <1>8, <1>9 DEF Next, Registration, registry
<1>11. QED
  BY <1>3, <1>10

\* The token issued last and the one the latest rotation replaced are accepted,
\* however many runs of the script overlap (register_node.py:49-67).
THEOREM TokensAreHonoured == Spec => []TokensHonoured
<1>1. Init => TokenInv
  BY Constants DEF Init, TokenInv
<1>2. TokenInv => TokensHonoured
  BY DEF TokenInv, TokensHonoured, Works
<1>3. TypeOK /\ TokenInv /\ [Next]_vars => TokenInv'
  BY TokenStep
<1>4. QED
  BY TypeCorrect, <1>1, <1>2, <1>3, PTL DEF Spec

=============================================================================
