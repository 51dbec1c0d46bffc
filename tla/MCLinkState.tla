---------------------------- MODULE MCLinkState ----------------------------
(***************************************************************************)
(* Instances of LinkState for TLC.                                         *)
(***************************************************************************)
EXTENDS LinkState

Line == {<<1, 2>>, <<2, 3>>}

\* Bounds on the commands of each router: both ends of the second link start, and
\* one of them again.
Starts == [r \in Routers |-> IF r = 1 THEN 0 ELSE IF r = 2 THEN 2 ELSE 1]
First1 == [r \in Routers |-> IF r = 1 THEN 1 ELSE 0]
=============================================================================
