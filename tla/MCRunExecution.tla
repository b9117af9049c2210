--------------------------- MODULE MCRunExecution ---------------------------
(***************************************************************************)
(* RunExecution on small instances.  The configurations give the constants *)
(* their values; job ids and postings are interchangeable model values.    *)
(***************************************************************************)
EXTENDS RunExecution, TLC

Symmetry == Permutations(Jobs) \cup Permutations(Hashes)
=============================================================================
