------------------------------- MODULE MCPipe -------------------------------
(***************************************************************************)
(* Instances of Pipe for TLC.                                              *)
(***************************************************************************)
EXTENDS Pipe, TLC

\* First is told apart by Init and Killable by Kill; the others are alike.
Symmetry == Permutations(Procs \ {First})
=============================================================================
