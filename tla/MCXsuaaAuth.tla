----------------------------- MODULE MCXsuaaAuth -----------------------------
(***************************************************************************)
(* Small instances of XsuaaAuth for TLC.  Threads are interchangeable.     *)
(***************************************************************************)
EXTENDS XsuaaAuth, TLC

Symmetry == Permutations(Threads)

=============================================================================
