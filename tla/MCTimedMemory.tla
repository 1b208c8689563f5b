---------------------------- MODULE MCTimedMemory ----------------------------
(***************************************************************************)
(* Small instances of TimedMemory for TLC.                                 *)
(***************************************************************************)
EXTENDS TimedMemory, TLC

Symmetry == Permutations(Conversations) \cup Permutations(Writers)

=============================================================================
