----------------------------- MODULE AtomicDisk -----------------------------
(***************************************************************************)
(* What the logging layer of xv6 promises to the file system (kernel/log.c *)
(* header comment, lines 10-32): the disk moves from one transaction       *)
(* boundary to the next in a single step, whatever the point of a crash.   *)
(* There is no log, no cache and no header here, only two block maps: what *)
(* a crash would leave behind, and what a running system call reads.       *)
(***************************************************************************)
CONSTANTS Procs, Blocks, Vals

VARIABLES
  durable,    \* the contents a crash (and its recovery) leaves on the disk
  volatile,   \* the contents a running system call sees
  active      \* the processes between begin_op() and end_op()

vars == <<durable, volatile, active>>

TypeOK ==
  /\ durable \in [Blocks -> Vals]
  /\ volatile \in [Blocks -> Vals]
  /\ active \subseteq Procs

Init ==
  /\ durable \in [Blocks -> Vals]
  /\ volatile = durable
  /\ active = {}

Begin(p) ==
  /\ p \notin active
  /\ active' = active \cup {p}
  /\ UNCHANGED <<durable, volatile>>

\* Only a process inside an operation changes a block.
Write(p, b, v) ==
  /\ p \in active
  /\ volatile' = [volatile EXCEPT ![b] = v]
  /\ UNCHANGED <<durable, active>>

End(p) ==
  /\ p \in active
  /\ active' = active \ {p}
  /\ UNCHANGED <<durable, volatile>>

\* Everything the finished operations wrote becomes durable at once, and
\* never while an operation is half way.
Commit ==
  /\ active = {}
  /\ durable' = volatile
  /\ UNCHANGED <<volatile, active>>

\* A crash loses what was not committed, and nothing else.
Crash ==
  /\ volatile' = durable
  /\ active' = {}
  /\ UNCHANGED durable

Next ==
  \/ \E p \in Procs : Begin(p) \/ End(p)
  \/ \E p \in Procs, b \in Blocks, v \in Vals : Write(p, b, v)
  \/ Commit
  \/ Crash

Spec == Init /\ [][Next]_vars
=============================================================================
