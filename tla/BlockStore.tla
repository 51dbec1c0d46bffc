----------------------------- MODULE BlockStore -----------------------------
(***************************************************************************)
(* What the buffer cache of xv6 promises its callers (kernel/bio.c,        *)
(* header comment lines 1-15): one copy of every block, used by one        *)
(* process at a time, which finds there what the last user left.           *)
(***************************************************************************)
CONSTANTS Procs, Blocks, Vals, None

VARIABLES
  val,      \* block -> its current contents
  owner     \* block -> the process that uses it, or None

vars == <<val, owner>>

Init == val \in [Blocks -> Vals] /\ owner = [k \in Blocks |-> None]

Bread(p, k) ==
  /\ owner[k] = None
  /\ owner' = [owner EXCEPT ![k] = p]
  /\ UNCHANGED val

Modify(p, k, v) ==
  /\ owner[k] = p
  /\ val' = [val EXCEPT ![k] = v]
  /\ UNCHANGED owner

Brelse(p, k) ==
  /\ owner[k] = p
  /\ owner' = [owner EXCEPT ![k] = None]
  /\ UNCHANGED val

Next ==
  \E p \in Procs, k \in Blocks :
    Bread(p, k) \/ Brelse(p, k) \/ \E v \in Vals : Modify(p, k, v)

Spec == Init /\ [][Next]_vars
=============================================================================
