--------------------------- MODULE MCServiceCalls ---------------------------
(***************************************************************************)
(* Small instances of ServiceCalls for TLC.  Threads are interchangeable.  *)
(***************************************************************************)
EXTENDS ServiceCalls, TLC

Symmetry == Permutations(Threads)
=============================================================================
