--------------------------- MODULE MC_StreamSync ---------------------------
(* Instances of StreamSync for TLC. *)
EXTENDS StreamSync, TLC

\* Keys are interchangeable: nothing compares them but for equality.  Used by
\* the runs that check safety only.
KeySymmetry == Permutations(Key)

=============================================================================
