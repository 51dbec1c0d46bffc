----------------------------- MODULE MCFileData -----------------------------
(***************************************************************************)
(* Instances of FileData for TLC.                                          *)
(***************************************************************************)
EXTENDS FileData, TLC

TwoFiles == [f \in Files |-> IF f = "d" THEN "root" ELSE IF f = "f1" THEN "i1" ELSE "i2"]

OneHostFile == <<[ino |-> "i1", n |-> 5]>>

Symm == Permutations(Procs)
=============================================================================
