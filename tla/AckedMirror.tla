---------------------------- MODULE AckedMirror ----------------------------
(***************************************************************************)
(* What one stream promises, without worker, requests or transactions: the *)
(* Pi writes versions of rows, some of them reach the server's table in    *)
(* any order and any number of times, and from time to time the edge moves *)
(* a cursor forward.  The cursor is a promise: the Pi never looks below it *)
(* again, so whatever is below it must be on the server and stay there.    *)
(***************************************************************************)
EXTENDS Integers

CONSTANTS Key, Strategy

VARIABLES
  epoch,   \* generation of the edge database
  row,     \* position and kind of the current version of each key
  cursor,  \* everything up to here is promised
  stored   \* versions on the server

mirrorVars == <<epoch, row, cursor, stored>>

Held(k) == [epoch |-> epoch, key |-> k, seq |-> row[k].seq] \in stored

Promised(n) ==
  \A k \in Key : 0 < row[k].seq /\ row[k].seq <= n /\ row[k].kind = "good" => Held(k)

Start ==
  /\ epoch = 1 /\ row = [k \in Key |-> [seq |-> 0, kind |-> "good"]]
  /\ cursor = 0 /\ stored = {}

\* A new version is never born below the cursor.
WriteVersion(k) ==
  /\ row' = [row EXCEPT ![k] = row'[k]] /\ row'[k].seq > cursor
  /\ Strategy = "append" => row[k].seq = 0
  /\ UNCHANGED <<epoch, cursor, stored>>

\* The server's table changes, without losing anything promised; in an append
\* table, without losing anything.
Deliver ==
  /\ Promised(cursor)'
  /\ Strategy = "append" => stored \subseteq stored'
  /\ UNCHANGED <<epoch, row, cursor>>

\* The cursor moves, forward and over versions that are held.
Acknowledge ==
  /\ cursor' > cursor
  /\ Promised(cursor)'
  /\ UNCHANGED <<epoch, row, stored>>

\* A new generation starts empty and promises nothing; the server keeps what
\* the earlier ones delivered.
NewGeneration ==
  /\ epoch' # epoch
  /\ row' = [k \in Key |-> [seq |-> 0, kind |-> "good"]] /\ cursor' = 0
  /\ UNCHANGED stored

Step ==
  \/ \E k \in Key : WriteVersion(k)
  \/ Deliver \/ Acknowledge \/ NewGeneration

MirrorSpec == Start /\ [][Step]_mirrorVars

=============================================================================
