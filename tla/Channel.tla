------------------------------ MODULE Channel ------------------------------
(***************************************************************************)
(* What a pipe promises (kernel/pipe.c): a bounded first-in first-out      *)
(* channel of bytes with two ends that can each be closed once.  A byte    *)
(* enters only while both ends are open; what is in the channel stays      *)
(* readable after the write end has been closed.                           *)
(***************************************************************************)
EXTENDS Naturals, Sequences

CONSTANTS Bytes, PIPESIZE

VARIABLES queue, readopen, writeopen

vars == <<queue, readopen, writeopen>>

Init == queue = <<>> /\ readopen = TRUE /\ writeopen = TRUE

Put(c) ==
  /\ readopen /\ writeopen
  /\ Len(queue) < PIPESIZE
  /\ queue' = Append(queue, c)
  /\ UNCHANGED <<readopen, writeopen>>

Get ==
  /\ readopen
  /\ queue # <<>>
  /\ queue' = Tail(queue)
  /\ UNCHANGED <<readopen, writeopen>>

CloseRead == readopen /\ readopen' = FALSE /\ UNCHANGED <<queue, writeopen>>

CloseWrite == writeopen /\ writeopen' = FALSE /\ UNCHANGED <<queue, readopen>>

Next == (\E c \in Bytes : Put(c)) \/ Get \/ CloseRead \/ CloseWrite

Spec == Init /\ [][Next]_vars
=============================================================================
