---------------------------- MODULE MC_IngestTxn ----------------------------
(* Instances of IngestTxn for TLC. *)
EXTENDS IngestTxn

\* Batches of two, which can block each other crosswise; and, in a summary table,
\* batches of one, which may share no row, of a new node (two sessions may both insert
\* its cursor row) and of one that has been reflashed before.
TestedTables ==
  {<<"append", 2, 0>>, <<"summary", 1, 0>>, <<"summary", 1, 2>>, <<"summary", 2, 0>>}

SingleRowTables == {<<"append", 1, 0>>, <<"summary", 1, 0>>}

=============================================================================
