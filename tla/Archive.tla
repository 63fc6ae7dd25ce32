------------------------------ MODULE Archive ------------------------------
(***************************************************************************)
(* What the server's tables promise a reader, without transactions, runs   *)
(* of the retention job or sessions: a row that has once been shown is     *)
(* shown until it is older than its table's retention.                     *)
(***************************************************************************)
EXTENDS Integers

CONSTANT Retain   \* for each table how long its rows are kept

VARIABLES
  now,   \* the time
  shown  \* the rows a reader finds

archiveVars == <<now, shown>>

Start == now = 0 /\ shown = {}

\* The rows of a batch come in, those it repeats among them.
Acknowledge == shown \subseteq shown' /\ UNCHANGED now

\* Rows disappear, expired ones only.
Forget ==
  /\ shown' \subseteq shown
  /\ \A r \in shown \ shown' : r.at < now - Retain[r.table]
  /\ UNCHANGED now

Pass == now' > now /\ UNCHANGED shown

ArchiveSpec == Start /\ [][Acknowledge \/ Forget \/ Pass]_archiveVars

=============================================================================
