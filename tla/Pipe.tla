-------------------------------- MODULE Pipe --------------------------------
(***************************************************************************)
(* One pipe of xv6 (kernel/pipe.c) shared by several processes, with the   *)
(* reference counts of its two file structures (kernel/file.c) and kills   *)
(* (kernel/proc.c).                                                        *)
(*                                                                         *)
(* pi->lock serialises the bodies of piperead, pipewrite and pipeclose;    *)
(* a step of the model is what one of them does between two points where   *)
(* another processor may interfere: acquiring the lock, one turn of a      *)
(* loop (a kill needs no pi->lock), going to sleep.                        *)
(***************************************************************************)
EXTENDS Naturals, Sequences, FiniteSets

CONSTANTS
  Procs,       \* processes
  First,       \* the process that calls pipe()
  Killable,    \* the processes somebody may kill
  Bytes,       \* byte values
  PIPESIZE,
  UINT,        \* 2^32 in the code: nread and nwrite wrap there
  MaxN         \* largest byte count of a read or a write

Free == "free"

ASSUME PipeAssumption ==
  /\ First \in Procs
  /\ Free \notin Procs
  /\ Killable \subseteq Procs
  /\ PIPESIZE \in Nat \ {0}
  /\ UINT \in Nat
  /\ \E k \in 2..UINT : UINT = k * PIPESIZE
  /\ MaxN \in Nat \ {0}

VARIABLES
  data, nread, nwrite, readopen, writeopen,   \* struct pipe
  lock,      \* the process that holds pi->lock, or Free
  freed,     \* kfree(pi) was called
  ends,      \* process -> the ends it has a file descriptor for
  pc,        \* process -> where it is
  i, n,      \* process -> bytes done, bytes asked for
  killed     \* processes with p->killed set

pipe == <<data, nread, nwrite, readopen, writeopen>>
vars == <<data, nread, nwrite, readopen, writeopen, lock, freed, ends, pc,
          i, n, killed>>

Ends == {"r", "w"}
\* *_acq: in acquire(&pi->lock); *_loop: at the top of the loop; *_wait: about
\* to call sleep(); *_sleep: SLEEPING; *_woken: RUNNABLE inside sleep().
ReadPcs  == {"r_acq", "r_empty", "r_wait", "r_sleep", "r_woken", "r_copy"}
WritePcs == {"w_acq", "w_loop", "w_wait", "w_sleep", "w_woken"}
ClosePcs == {"c_r", "c_w"}

TypeOK ==
  /\ data \in [0..PIPESIZE-1 -> Bytes]
  /\ nread \in 0..UINT-1 /\ nwrite \in 0..UINT-1
  /\ readopen \in BOOLEAN /\ writeopen \in BOOLEAN
  /\ lock \in Procs \cup {Free}
  /\ freed \in BOOLEAN
  /\ ends \in [Procs -> SUBSET Ends]
  /\ pc \in [Procs -> {"idle"} \cup ReadPcs \cup WritePcs \cup ClosePcs]
  /\ i \in [Procs -> 0..MaxN]
  /\ n \in [Procs -> 0..MaxN]
  /\ killed \subseteq Procs

\* pipealloc() by First; a fresh page, so data is arbitrary.
Init ==
  /\ data \in [0..PIPESIZE-1 -> Bytes]
  /\ nread = 0 /\ nwrite = 0
  /\ readopen = TRUE /\ writeopen = TRUE
  /\ lock = Free
  /\ freed = FALSE
  /\ ends = [p \in Procs |-> IF p = First THEN Ends ELSE {}]
  /\ pc = [p \in Procs |-> "idle"]
  /\ i = [p \in Procs |-> 0]
  /\ n = [p \in Procs |-> 0]
  /\ killed = {}

-----------------------------------------------------------------------------
Empty == nread = nwrite
Full_NoWrap ==                 \* mutant: the sum is not reduced to a uint
  nwrite = nread + PIPESIZE

Full == nwrite = (nread + PIPESIZE) % UINT

Refs(e) == {p \in Procs : e \in ends[p]}

Goto(p, l) == pc' = [pc EXCEPT ![p] = l]

\* wakeup(chan) by p, which goes on at l: sleepers at s become runnable.
WakeupGoto(s, woken, p, l) ==
  pc' = [q \in Procs |-> IF q = p THEN l
                         ELSE IF pc[q] = s THEN woken ELSE pc[q]]
WakeReaders(p, l) == WakeupGoto("r_sleep", "r_woken", p, l)
WakeWriters(p, l) == WakeupGoto("w_sleep", "w_woken", p, l)

\* acquire(&pi->lock)
Acquire(p, from, to) ==
  /\ pc[p] = from
  /\ lock = Free
  /\ lock' = p
  /\ Goto(p, to)
  /\ UNCHANGED <<pipe, freed, ends, i, n, killed>>

\* Back in user space: the loop variables are gone.
Forget(p) ==
  /\ i' = [i EXCEPT ![p] = 0]
  /\ n' = [n EXCEPT ![p] = 0]

\* release(&pi->lock) and return.
Return(p) == lock' = Free /\ Forget(p)

\* sleep(chan, &pi->lock): p->lock is taken before pi->lock is released, so
\* becoming a sleeper and releasing the lock are one step for wakeup().
Sleep(p, from, to) ==
  /\ pc[p] = from
  /\ lock' = Free
  /\ Goto(p, to)
  /\ UNCHANGED <<pipe, freed, ends, i, n, killed>>

-----------------------------------------------------------------------------
\* A process forks: the child gets the parent's descriptors (filedup).
Fork(p, q) ==
  /\ pc[p] = "idle" /\ ends[p] # {}
  /\ pc[q] = "idle" /\ ends[q] = {} /\ q \notin killed
  /\ ends' = [ends EXCEPT ![q] = ends[p]]
  /\ UNCHANGED <<pipe, lock, freed, pc, i, n, killed>>

\* fileclose() of one descriptor, at close() or exit().  The last reference
\* goes on to pipeclose().
FileClose(p, e) ==
  /\ pc[p] = "idle"
  /\ e \in ends[p]
  /\ ends' = [ends EXCEPT ![p] = @ \ {e}]
  /\ IF Refs(e) = {p}
     THEN Goto(p, IF e = "r" THEN "c_r" ELSE "c_w")
     ELSE UNCHANGED pc
  /\ UNCHANGED <<pipe, lock, freed, i, n, killed>>

PipeClose_FreeEarly(p) ==      \* mutant: frees when either end is closed
  /\ lock = Free
  /\ pc[p] \in ClosePcs
  /\ writeopen' = (writeopen /\ pc[p] # "c_w")
  /\ readopen' = (readopen /\ pc[p] # "c_r")
  /\ freed' = TRUE
  /\ IF pc[p] = "c_w" THEN WakeReaders(p, "idle") ELSE WakeWriters(p, "idle")
  /\ UNCHANGED <<data, nread, nwrite, lock, ends, i, n, killed>>

\* pipeclose(): a single critical section.
PipeClose(p) ==
  /\ lock = Free
  /\ \/ /\ pc[p] = "c_w"
        /\ writeopen' = FALSE
        /\ WakeReaders(p, "idle")
        /\ freed' = (freed \/ ~readopen)
        /\ UNCHANGED readopen
     \/ /\ pc[p] = "c_r"
        /\ readopen' = FALSE
        /\ WakeWriters(p, "idle")
        /\ freed' = (freed \/ ~writeopen)
        /\ UNCHANGED writeopen
  /\ UNCHANGED <<data, nread, nwrite, lock, ends, i, n, killed>>

-----------------------------------------------------------------------------
\* write(fd, addr, m): filewrite calls pipewrite.
Write(p, m) ==
  /\ pc[p] = "idle" /\ "w" \in ends[p]
  /\ n' = [n EXCEPT ![p] = m]
  /\ Goto(p, "w_acq")
  /\ UNCHANGED <<pipe, lock, freed, ends, i, killed>>

WriteAcquire(p) == Acquire(p, "w_acq", "w_loop") \/ Acquire(p, "w_woken", "w_loop")

\* One turn of the loop of pipewrite, or its exit.
WriteAbort(p) ==          \* readopen == 0 || killed(pr): return -1
  /\ pc[p] = "w_loop" /\ i[p] < n[p]
  /\ ~readopen \/ p \in killed
  /\ Return(p)
  /\ Goto(p, "idle")
  /\ UNCHANGED <<pipe, freed, ends, killed>>

WriteFull(p) ==           \* DOC: pipewrite-full
  /\ pc[p] = "w_loop" /\ i[p] < n[p]
  /\ readopen /\ p \notin killed
  /\ Full
  /\ WakeReaders(p, "w_wait")
  /\ UNCHANGED <<pipe, lock, freed, ends, i, n, killed>>

WriteSleep(p) == Sleep(p, "w_wait", "w_sleep")

WriteByte(p, c) ==        \* copyin succeeds
  /\ pc[p] = "w_loop" /\ i[p] < n[p]
  /\ readopen /\ p \notin killed
  /\ ~Full
  /\ data' = [data EXCEPT ![nwrite % PIPESIZE] = c]
  /\ nwrite' = (nwrite + 1) % UINT
  /\ i' = [i EXCEPT ![p] = @ + 1]
  /\ UNCHANGED <<nread, readopen, writeopen, lock, freed, ends, pc, n, killed>>

WriteFault(p) ==          \* copyin fails: break
  /\ pc[p] = "w_loop" /\ i[p] < n[p]
  /\ readopen /\ p \notin killed
  /\ ~Full
  /\ WakeReaders(p, "idle")
  /\ Return(p)
  /\ UNCHANGED <<pipe, freed, ends, killed>>

WriteDone(p) ==
  /\ pc[p] = "w_loop" /\ i[p] = n[p]
  /\ WakeReaders(p, "idle")
  /\ Return(p)
  /\ UNCHANGED <<pipe, freed, ends, killed>>

-----------------------------------------------------------------------------
\* read(fd, addr, m): fileread calls piperead.
Read(p, m) ==
  /\ pc[p] = "idle" /\ "r" \in ends[p]
  /\ n' = [n EXCEPT ![p] = m]
  /\ Goto(p, "r_acq")
  /\ UNCHANGED <<pipe, lock, freed, ends, i, killed>>

ReadAcquire(p) == Acquire(p, "r_acq", "r_empty") \/ Acquire(p, "r_woken", "r_empty")

ReadKilled(p) ==          \* return -1
  /\ pc[p] = "r_empty" /\ Empty /\ writeopen /\ p \in killed
  /\ Return(p)
  /\ Goto(p, "idle")
  /\ UNCHANGED <<pipe, freed, ends, killed>>

ReadEmpty(p) ==           \* DOC: pipe-empty
  /\ pc[p] = "r_empty" /\ Empty /\ writeopen /\ p \notin killed
  /\ Goto(p, "r_wait")
  /\ UNCHANGED <<pipe, lock, freed, ends, i, n, killed>>

ReadSleep(p) == Sleep(p, "r_wait", "r_sleep")

ReadReady(p) ==
  /\ pc[p] = "r_empty" /\ ~(Empty /\ writeopen)
  /\ Goto(p, "r_copy")
  /\ UNCHANGED <<pipe, lock, freed, ends, i, n, killed>>

\* One byte leaves the buffer, before copyout is tried; the reader's memory, where
\* it goes, is not modelled.
Consume == ~Empty /\ nread' = (nread + 1) % UINT

ReadByte(p) ==            \* copyout succeeds
  /\ pc[p] = "r_copy" /\ i[p] < n[p]
  /\ Consume
  /\ i' = [i EXCEPT ![p] = @ + 1]
  /\ UNCHANGED <<data, nwrite, readopen, writeopen, lock, freed, ends, pc, n,
                 killed>>

ReadFault(p) ==           \* copyout fails: the byte is lost, break
  /\ pc[p] = "r_copy" /\ i[p] < n[p]
  /\ Consume
  /\ WakeWriters(p, "idle")
  /\ Return(p)
  /\ UNCHANGED <<data, nwrite, readopen, writeopen, freed, ends, killed>>

ReadDone_NoWakeup(p) ==        \* mutant: writers are not woken
  /\ pc[p] = "r_copy" /\ (i[p] = n[p] \/ Empty)
  /\ Goto(p, "idle")
  /\ Return(p)
  /\ UNCHANGED <<pipe, freed, ends, killed>>

ReadDone(p) ==
  /\ pc[p] = "r_copy" /\ (i[p] = n[p] \/ Empty)
  /\ WakeWriters(p, "idle")
  /\ Return(p)
  /\ UNCHANGED <<pipe, freed, ends, killed>>

-----------------------------------------------------------------------------
\* kkill(): needs p->lock only, so it may come at any time.
Kill(p) ==
  /\ p \in Killable \ killed
  /\ killed' = killed \cup {p}
  /\ Goto(p, CASE pc[p] = "r_sleep" -> "r_woken"
               [] pc[p] = "w_sleep" -> "w_woken"
               [] OTHER -> pc[p])
  /\ UNCHANGED <<pipe, lock, freed, ends, i, n>>

Next ==
  \/ \E p, q \in Procs : Fork(p, q)
  \/ \E p \in Procs, e \in Ends : FileClose(p, e)
  \/ \E p \in Procs : PipeClose(p)
  \/ \E p \in Procs, m \in 1..MaxN : Write(p, m) \/ Read(p, m)
  \/ \E p \in Procs : \/ WriteAcquire(p) \/ WriteAbort(p) \/ WriteFull(p)
                      \/ WriteSleep(p) \/ WriteFault(p) \/ WriteDone(p)
  \/ \E p \in Procs, c \in Bytes : WriteByte(p, c)
  \/ \E p \in Procs : \/ ReadAcquire(p) \/ ReadKilled(p) \/ ReadEmpty(p)
                      \/ ReadSleep(p) \/ ReadReady(p) \/ ReadByte(p)
                      \/ ReadFault(p) \/ ReadDone(p)
  \/ \E p \in Procs : Kill(p)

Spec == Init /\ [][Next]_vars

-----------------------------------------------------------------------------
(* Properties *)

\* The bytes between nread and nwrite, oldest first, whatever wrapped.
Count == (nwrite + UINT - nread) % UINT
Queue == [k \in 1..Count |-> data[(nread + k - 1) % PIPESIZE]]

Chan == INSTANCE Channel WITH queue <- Queue

\* The pipe implements a bounded FIFO channel: no byte is lost, duplicated,
\* reordered or overwritten, also where nread and nwrite wrap, and no byte
\* enters after an end was closed.
IsChannel == Chan!Spec

WriterSleepsWhenFull ==
  \A p \in Procs : pc[p] = "w_sleep" => Full /\ readopen

ReaderSleepsWhenEmpty ==
  \A p \in Procs : pc[p] = "r_sleep" => Empty /\ writeopen

\* No wakeup is missed.  A writer sleeps only on a full pipe that can still be
\* read: whoever made room or closed the read end has woken it (piperead,
\* pipeclose).  A reader sleeps only on an empty pipe that can still be written
\* (pipewrite, pipeclose); this is claimed as long as nobody is killed, since a
\* killed writer returns -1 without the wakeup for the bytes it has written.
NoMissedWakeup ==
  lock = Free => /\ WriterSleepsWhenFull
                 /\ killed = {} => ReaderSleepsWhenEmpty

\* The page of the pipe is freed once both ends are closed and nobody uses it
\* from then on, in a system call or in pipeclose(); and it is freed when nobody
\* refers to it any more.
FreedInTime ==
  LET quiet == \A p \in Procs : pc[p] = "idle" /\ ends[p] = {}
  IN (freed <=> quiet) /\ (freed => ~readopen /\ ~writeopen)

-----------------------------------------------------------------------------
(* The inductive invariant behind NoMissedWakeup and FreedInTime *)

Holding == {"r_empty", "r_wait", "r_copy", "w_loop", "w_wait"}

\* pi->lock is held exactly where the code is inside its critical sections.
LockOwner == \A p \in Procs : pc[p] \in Holding <=> lock = p

\* Who is about to sleep has just tested, and the lock keeps the answer true.
TestedUnderLock ==
  \A p \in Procs : /\ pc[p] = "w_wait" => Full /\ readopen
                   /\ pc[p] = "r_wait" => Empty /\ writeopen

\* Between making room and the wakeup, a reader holds the lock.
WritersWoken ==
  \A p \in Procs : pc[p] = "w_sleep" =>
    readopen /\ (Full \/ \E q \in Procs : pc[q] = "r_copy")

\* Between the bytes and the wakeup, a writer holds the lock.
ReadersWoken ==
  killed = {} =>
    \A p \in Procs : pc[p] = "r_sleep" =>
      writeopen /\ (Empty \/ \E q \in Procs : pc[q] = "w_loop")

\* A call on the pipe is made through a descriptor.
CallsHaveEnds ==
  \A p \in Procs : /\ pc[p] \in ReadPcs => "r" \in ends[p]
                   /\ pc[p] \in WritePcs => "w" \in ends[p]

\* One process closes an end for good, and nobody refers to that end.
OneCloser ==
  \A p \in Procs :
    /\ pc[p] = "c_r" => \A q \in Procs : "r" \notin ends[q] /\ (pc[q] = "c_r" => q = p)
    /\ pc[p] = "c_w" => \A q \in Procs : "w" \notin ends[q] /\ (pc[q] = "c_w" => q = p)

\* An end is open as long as it is referred to or still being closed.
OpenWhileUsed ==
  /\ readopen <=> \E p \in Procs : "r" \in ends[p] \/ pc[p] = "c_r"
  /\ writeopen <=> \E p \in Procs : "w" \in ends[p] \/ pc[p] = "c_w"
  /\ freed <=> ~readopen /\ ~writeopen

PipeInv ==
  /\ TypeOK
  /\ LockOwner
  /\ TestedUnderLock
  /\ WritersWoken
  /\ ReadersWoken
  /\ CallsHaveEnds
  /\ OneCloser
  /\ OpenWhileUsed

\* The counters never get further apart than the buffer is long.
WithinBuffer == Count <= PIPESIZE
=============================================================================
