------------------------------- MODULE MCLog -------------------------------
(***************************************************************************)
(* An instance of Log for TLC.  There are as many blocks as the log holds, *)
(* so that the log can be full; two of them are only written with what     *)
(* they hold.                                                              *)
(***************************************************************************)
EXTENDS Log

CONSTANTS b1, b2, b3, b4

Four == {b1, b2, b3, b4}
Constant == {b3, b4}
FewWrites == {w \in Blocks \X Vals : w[1] \in Constant => w[2] = 0}

\* mkfs writes zeroes to the log.
MCInit ==
  /\ Init
  /\ logData = [i \in 1..LOGBLOCKS |-> 0]
  /\ \A b \in Constant : home[b] = 0

MCSpec == MCInit /\ [][Next]_vars /\ Fairness
=============================================================================
