---------------------------- MODULE MC_IngestGate ----------------------------
(* Names for TLC: the threads of the pool are interchangeable, and so are  *)
(* the runs of register_node.py.                                           *)
EXTENDS IngestGate, TLC

CONSTANTS n1, t1, t2, o1, o2

Symmetry == Permutations(Thread) \cup Permutations(Operator)

=============================================================================
