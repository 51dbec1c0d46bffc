------------------------------ MODULE MCBCache ------------------------------
(***************************************************************************)
(* Instances of BCache for TLC.                                            *)
(***************************************************************************)
EXTENDS BCache, TLC

Symmetry == Permutations(Procs) \cup Permutations(Blocks) \cup Permutations(Bufs)
=============================================================================
