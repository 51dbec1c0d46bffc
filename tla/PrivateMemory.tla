--------------------------- MODULE PrivateMemory ---------------------------
(***************************************************************************)
(* What xv6 promises a user process about its memory: pages of its own     *)
(* that only it changes, zero when they are new, copied by fork, replaced  *)
(* as a whole by exec, and left alone by a call that fails.                *)
(***************************************************************************)
EXTENDS Naturals

CONSTANTS
  Procs,
  Values,     \* what a page may hold
  Zero,       \* what a new page holds
  Images,     \* what exec may load: functions from pages to values
  MaxPages    \* bound: pages of a process

VARIABLE space   \* process -> its pages, empty if there is no such process

NoSpace == <<>>

Init == space = [p \in Procs |-> NoSpace]

Store(p) ==
  \E v \in DOMAIN space[p], x \in Values : space' = [space EXCEPT ![p][v] = x]

Resize(p) ==
  \E n \in 0..MaxPages :
    space' = [space EXCEPT ![p] = [v \in 0..(n - 1) |-> IF v \in DOMAIN @ THEN @[v] ELSE Zero]]

Fork(p, c) == space[c] = NoSpace /\ space' = [space EXCEPT ![c] = space[p]]

Exec(p) == \E i \in Images : space' = [space EXCEPT ![p] = i]

End(p) == space' = [space EXCEPT ![p] = NoSpace]

\* The first process comes with exec; there is none before it.
First(p) == (\A q \in Procs : space[q] = NoSpace) /\ Exec(p)

Next ==
  \E p \in Procs :
    \/ First(p)
    \/ /\ space[p] # NoSpace
       /\ Store(p) \/ Resize(p) \/ (\E c \in Procs : Fork(p, c)) \/ Exec(p) \/ End(p)

Spec == Init /\ [][Next]_space
=============================================================================
