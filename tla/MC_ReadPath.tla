---------------------------- MODULE MC_ReadPath ----------------------------
(* Instances of ReadPath for TLC. *)
EXTENDS ReadPath, TLC

\* Nodes and sessions are interchangeable: a row's reading depends on its time.
Symmetry == Permutations(Node) \cup Permutations(Session)

\* Two intervals of the epoch and the hour of a zone half an hour ahead.
TestedWidth == [i \in {"5m", "1h"} |-> IF i = "1h" THEN 4 ELSE 2]

\* The default range, an open and a closed one.
TestedRanges == {<<None, None>>, <<1, None>>, <<0, 4>>}

\* Rows of a Pi whose clock is a tick ahead, and rows that arrive late.
TestedSkew == {1, -4}

TestedRetain == [t \in Table |-> IF t = "weather" THEN 2 ELSE 3]

\* Temperatures around and below zero; distances with a strike overhead.
Readings == [weather |-> <<-10, -9, 10, -10, 5, -1, 7>>, event |-> <<10, 0, 30, 5, 40, 10, 20>>]

TestedMeasure ==
  [r \in [table : Table, node : Node, at : 0..MaxTime + Ahead] |-> Readings[r.table][r.at + 1]]

=============================================================================
