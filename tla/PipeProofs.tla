----------------------------- MODULE PipeProofs -----------------------------
(***************************************************************************)
(* Proofs about Pipe, for any number of processes, any buffer and counter  *)
(* size and any kills: PipeInv is inductive, and no wakeup is missed, the  *)
(* page is freed when nobody uses it any more and not before, and the pipe *)
(* implements Channel.                                                     *)
(***************************************************************************)
EXTENDS Pipe, Integers, SequenceTheorems, TLAPS

-----------------------------------------------------------------------------
(* Numbers *)

\* Quotient and remainder.
LEMMA DivMod ==
  ASSUME NEW R \in Nat \ {0}, NEW x \in Nat
  PROVE  x % R \in 0..R-1 /\ x \div R \in Nat /\ x = R * (x \div R) + (x % R)
OBVIOUS

\* The remainder is unique.
LEMMA ModUnique ==
  ASSUME NEW R \in Nat \ {0}, NEW q \in Nat, NEW r \in 0..R-1
  PROVE  (R * q + r) % R = r
OBVIOUS

\* Multiples of R do not change the remainder.
LEMMA ModPeriod ==
  ASSUME NEW R \in Nat \ {0}, NEW m \in Nat, NEW k \in Nat
  PROVE  (m * R + k) % R = k % R
<1>1. PICK q \in Nat, r \in 0..R-1 : k = R * q + r /\ r = k % R
  BY DivMod
<1>2. m * R + k = R * (m + q) + r /\ m + q \in Nat
  BY <1>1
<1> QED
  BY <1>1, <1>2, ModUnique

\* Fewer than R steps apart, remainders differ.
LEMMA ModDistinct ==
  ASSUME NEW R \in Nat \ {0}, NEW x \in Nat, NEW k \in Nat, NEW a \in Nat,
         k < a, a - k < R
  PROVE  (x + k) % R # (x + a) % R
<1> SUFFICES ASSUME (x + k) % R = (x + a) % R PROVE FALSE
  OBVIOUS
<1>1. PICK q \in Nat, r \in 0..R-1 : x + k = R * q + r /\ r = (x + k) % R
  BY DivMod, x + k \in Nat
<1>2. PICK t \in Nat, u \in 0..R-1 : x + a = R * t + u /\ u = (x + a) % R
  BY DivMod, x + a \in Nat
<1>3. PICK d \in Int : d = t - q /\ R * d = a - k
  BY <1>1, <1>2
<1>4. d > 0 /\ d < 1
  BY <1>3
<1> QED
  BY <1>4

\* The remainder of a number below 2 * R: at most one R is taken off.
LEMMA ModOnce ==
  ASSUME NEW R \in Nat \ {0}, NEW x \in Nat, x < R + R
  PROVE  (x < R => x % R = x) /\ (x >= R => x % R = x - R)
OBVIOUS

-----------------------------------------------------------------------------
\* kfork() hands on descriptors that are in use.
LEMMA ForkInv ==
  ASSUME PipeInv, NEW p \in Procs, NEW q \in Procs, Fork(p, q)
  PROVE  PipeInv'
<1>0. TypeOK /\ LockOwner /\ TestedUnderLock /\ WritersWoken /\ ReadersWoken
      /\ CallsHaveEnds /\ OneCloser /\ OpenWhileUsed
  BY DEF PipeInv
<1>1. TypeOK'
  BY <1>0, PipeAssumption DEF Fork, TypeOK, ReadPcs, WritePcs, ClosePcs, Ends, pipe
<1>2. LockOwner' /\ TestedUnderLock'
  BY <1>0, PipeAssumption DEF Fork, TypeOK, LockOwner, TestedUnderLock, Holding, Free,
     Empty, Full,
     pipe
<1>3. WritersWoken'
  BY <1>0, PipeAssumption DEF Fork, TypeOK, LockOwner, TestedUnderLock, WritersWoken,
     Holding, Free, Full,
     pipe
<1>4. ReadersWoken'
  BY <1>0, PipeAssumption DEF Fork, TypeOK, LockOwner, TestedUnderLock, ReadersWoken,
     CallsHaveEnds, OpenWhileUsed,
     ReadPcs, Holding, Free, Empty, pipe
<1>5. CallsHaveEnds' /\ OneCloser' /\ OpenWhileUsed'
  BY <1>0 DEF Fork, TypeOK, CallsHaveEnds, OneCloser, OpenWhileUsed, ReadPcs, WritePcs,
     ClosePcs, Ends,
     pipe
<1> QED
  BY <1>1, <1>2, <1>3, <1>4, <1>5 DEF PipeInv

\* The last reference goes from the descriptor to pipeclose().
LEMMA FileCloseInv ==
  ASSUME PipeInv, NEW p \in Procs, NEW e \in Ends, FileClose(p, e)
  PROVE  PipeInv'
<1>0. TypeOK /\ LockOwner /\ TestedUnderLock /\ WritersWoken /\ ReadersWoken
      /\ CallsHaveEnds /\ OneCloser /\ OpenWhileUsed
  BY DEF PipeInv
<1>1. TypeOK'
  BY <1>0, PipeAssumption DEF FileClose, Refs, Goto, TypeOK, ReadPcs, WritePcs, ClosePcs,
     Ends, pipe
<1>2. LockOwner' /\ TestedUnderLock'
  BY <1>0, PipeAssumption DEF FileClose, Refs, Goto, TypeOK, LockOwner, TestedUnderLock,
     Holding, Free, Empty, Full,
     pipe
<1>3. WritersWoken'
  BY <1>0, PipeAssumption DEF FileClose, Refs, Goto, TypeOK, LockOwner, TestedUnderLock,
     WritersWoken, Holding, Free, Full,
     pipe
<1>4. ReadersWoken'
  BY <1>0, PipeAssumption DEF FileClose, Refs, Goto, TypeOK, LockOwner, TestedUnderLock,
     ReadersWoken, CallsHaveEnds, OpenWhileUsed,
     ReadPcs, Holding, Free, Empty, pipe
<1>5. /\ pc[p] = "idle" /\ e \in ends[p]
      /\ ends' = [ends EXCEPT ![p] = @ \ {e}]
      /\ UNCHANGED <<readopen, writeopen, freed>>
  BY DEF FileClose, pipe
<1>6. ASSUME Refs(e) = {p} PROVE CallsHaveEnds' /\ OneCloser' /\ OpenWhileUsed'
  <2>1. \A q \in Procs : e \notin ends'[q]
    BY <1>0, <1>5, <1>6 DEF Refs, TypeOK
  <2>2. pc' = [pc EXCEPT ![p] = IF e = "r" THEN "c_r" ELSE "c_w"]
    BY <1>6 DEF FileClose, Goto
  <2>3. CallsHaveEnds'
    BY <1>0, <1>5, <2>2 DEF TypeOK, CallsHaveEnds, ReadPcs, WritePcs, Ends
  <2>4. OneCloser'
    BY <1>0, <1>5, <2>1, <2>2 DEF TypeOK, OneCloser, Ends
  <2>5. OpenWhileUsed'
    BY <1>0, <1>5, <2>1, <2>2 DEF TypeOK, OpenWhileUsed, Ends
  <2> QED
    BY <2>3, <2>4, <2>5
<1>7. ASSUME Refs(e) # {p} PROVE CallsHaveEnds' /\ OneCloser' /\ OpenWhileUsed'
  <2>1. PICK q \in Procs : q # p /\ e \in ends[q]
    BY <1>5, <1>7 DEF Refs
  <2>2. pc' = pc
    BY <1>7 DEF FileClose
  <2>3. CallsHaveEnds' /\ OneCloser'
    BY <1>0, <1>5, <2>2 DEF TypeOK, CallsHaveEnds, OneCloser, ReadPcs, WritePcs
  <2>4. \A f \in Ends : (\E x \in Procs : f \in ends'[x]) <=> (\E x \in Procs : f \in ends[x])
    BY <1>0, <1>5, <2>1 DEF TypeOK
  <2>5. OpenWhileUsed'
    BY <1>0, <1>5, <2>2, <2>4 DEF OpenWhileUsed, Ends
  <2> QED
    BY <2>3, <2>5
<1> QED
  BY <1>1, <1>2, <1>3, <1>4, <1>6, <1>7 DEF PipeInv

\* pipeclose() runs with nobody inside, and wakes the other side.
LEMMA PipeCloseInv ==
  ASSUME PipeInv, NEW p \in Procs, PipeClose(p)
  PROVE  PipeInv'
<1>0. TypeOK /\ LockOwner /\ TestedUnderLock /\ WritersWoken /\ ReadersWoken
      /\ CallsHaveEnds /\ OneCloser /\ OpenWhileUsed
  BY DEF PipeInv
<1>1. /\ lock = Free /\ UNCHANGED <<data, nread, nwrite, lock, ends, i, n, killed>>
      /\ \A q \in Procs : pc[q] \notin Holding
  BY <1>0, PipeAssumption DEF PipeClose, LockOwner
<1>2. CASE pc[p] = "c_w"
  <2>1. /\ writeopen' = FALSE /\ freed' = (freed \/ ~readopen) /\ readopen' = readopen
        /\ pc' = [q \in Procs |-> IF q = p THEN "idle"
                                  ELSE IF pc[q] = "r_sleep" THEN "r_woken" ELSE pc[q]]
    BY <1>2 DEF PipeClose, WakeReaders, WakeupGoto
  <2>2. TypeOK'
    BY <1>0, <1>1, <2>1 DEF TypeOK, ReadPcs
  <2>3. LockOwner' /\ TestedUnderLock' /\ WritersWoken' /\ ReadersWoken'
    BY <1>0, <1>1, <2>1, PipeAssumption
       DEF LockOwner, TestedUnderLock, WritersWoken, ReadersWoken, Holding, Full, Empty
  <2>4. CallsHaveEnds' /\ OneCloser'
    BY <1>0, <1>1, <2>1 DEF TypeOK, CallsHaveEnds, OneCloser, ReadPcs, WritePcs
  <2>5. OpenWhileUsed'
    BY <1>0, <1>1, <1>2, <2>1 DEF TypeOK, OneCloser, OpenWhileUsed
  <2> QED
    BY <2>2, <2>3, <2>4, <2>5 DEF PipeInv
<1>3. CASE pc[p] = "c_r"
  <2>1. /\ readopen' = FALSE /\ freed' = (freed \/ ~writeopen) /\ writeopen' = writeopen
        /\ pc' = [q \in Procs |-> IF q = p THEN "idle"
                                  ELSE IF pc[q] = "w_sleep" THEN "w_woken" ELSE pc[q]]
    BY <1>3 DEF PipeClose, WakeWriters, WakeupGoto
  <2>2. TypeOK'
    BY <1>0, <1>1, <2>1 DEF TypeOK, WritePcs
  <2>3. LockOwner' /\ TestedUnderLock' /\ WritersWoken' /\ ReadersWoken'
    BY <1>0, <1>1, <2>1, PipeAssumption
       DEF LockOwner, TestedUnderLock, WritersWoken, ReadersWoken, Holding, Full, Empty
  <2>4. CallsHaveEnds' /\ OneCloser'
    BY <1>0, <1>1, <2>1 DEF TypeOK, CallsHaveEnds, OneCloser, ReadPcs, WritePcs
  <2>5. OpenWhileUsed'
    BY <1>0, <1>1, <1>3, <2>1 DEF TypeOK, OneCloser, OpenWhileUsed
  <2> QED
    BY <2>2, <2>3, <2>4, <2>5 DEF PipeInv
<1> QED
  BY <1>2, <1>3 DEF PipeClose

\* A write starts.
LEMMA WriteInv ==
  ASSUME PipeInv, NEW p \in Procs, NEW m \in 1..MaxN, Write(p, m)
  PROVE  PipeInv'
<1>0. TypeOK /\ LockOwner /\ TestedUnderLock /\ WritersWoken /\ ReadersWoken
      /\ CallsHaveEnds /\ OneCloser /\ OpenWhileUsed
  BY DEF PipeInv
<1>1. TypeOK'
  BY <1>0, PipeAssumption DEF Write, Goto, TypeOK, ReadPcs, WritePcs, ClosePcs, Ends, pipe
<1>2. LockOwner' /\ TestedUnderLock'
  BY <1>0, PipeAssumption DEF Write, Goto, TypeOK, LockOwner, TestedUnderLock, Holding,
     Free, Empty, Full,
     pipe
<1>3. WritersWoken'
  BY <1>0, PipeAssumption DEF Write, Goto, TypeOK, LockOwner, TestedUnderLock,
     WritersWoken, Holding, Free, Full,
     pipe
<1>4. ReadersWoken'
  BY <1>0, PipeAssumption DEF Write, Goto, TypeOK, LockOwner, TestedUnderLock,
     ReadersWoken, CallsHaveEnds, OpenWhileUsed,
     ReadPcs, Holding, Free, Empty, pipe
<1>5. CallsHaveEnds' /\ OneCloser' /\ OpenWhileUsed'
  BY <1>0 DEF Write, Goto, TypeOK, CallsHaveEnds, OneCloser, OpenWhileUsed, ReadPcs,
     WritePcs, ClosePcs, Ends,
     pipe
<1> QED
  BY <1>1, <1>2, <1>3, <1>4, <1>5 DEF PipeInv

\* A writer enters.
LEMMA WriteAcquireInv ==
  ASSUME PipeInv, NEW p \in Procs, WriteAcquire(p)
  PROVE  PipeInv'
<1>0. TypeOK /\ LockOwner /\ TestedUnderLock /\ WritersWoken /\ ReadersWoken
      /\ CallsHaveEnds /\ OneCloser /\ OpenWhileUsed
  BY DEF PipeInv
<1>1. TypeOK'
  BY <1>0, PipeAssumption DEF WriteAcquire, Acquire, Goto, TypeOK, ReadPcs, WritePcs,
     ClosePcs, Ends, pipe
<1>2. LockOwner' /\ TestedUnderLock'
  BY <1>0, PipeAssumption DEF WriteAcquire, Acquire, Goto, TypeOK, LockOwner,
     TestedUnderLock, Holding, Free, Empty, Full,
     pipe
<1>3. WritersWoken'
  BY <1>0, PipeAssumption DEF WriteAcquire, Acquire, Goto, TypeOK, LockOwner,
     TestedUnderLock, WritersWoken, Holding, Free, Full,
     pipe
<1>4. ReadersWoken'
  BY <1>0, PipeAssumption DEF WriteAcquire, Acquire, Goto, TypeOK, LockOwner,
     TestedUnderLock, ReadersWoken, CallsHaveEnds, OpenWhileUsed,
     ReadPcs, Holding, Free, Empty, pipe
<1>5. /\ pc[p] \in {"w_acq", "w_woken"} /\ pc' = [pc EXCEPT ![p] = "w_loop"]
      /\ UNCHANGED <<readopen, writeopen, freed, ends>>
  BY DEF WriteAcquire, Acquire, Goto, pipe
<1>6. CallsHaveEnds' /\ OneCloser' /\ OpenWhileUsed'
  BY <1>0, <1>5 DEF TypeOK, CallsHaveEnds, OneCloser, OpenWhileUsed, ReadPcs, WritePcs
<1> QED
  BY <1>1, <1>2, <1>3, <1>4, <1>6 DEF PipeInv

\* A writer leaves without a wakeup: somebody was killed, or there is no reader.
LEMMA WriteAbortInv ==
  ASSUME PipeInv, NEW p \in Procs, WriteAbort(p)
  PROVE  PipeInv'
<1>0. TypeOK /\ LockOwner /\ TestedUnderLock /\ WritersWoken /\ ReadersWoken
      /\ CallsHaveEnds /\ OneCloser /\ OpenWhileUsed
  BY DEF PipeInv
<1>1. TypeOK'
  BY <1>0, PipeAssumption DEF WriteAbort, Return, Forget, Goto, TypeOK, ReadPcs,
     WritePcs, ClosePcs, Ends, pipe
<1>2. LockOwner' /\ TestedUnderLock'
  BY <1>0, PipeAssumption DEF WriteAbort, Return, Forget, Goto, TypeOK, LockOwner,
     TestedUnderLock, Holding, Free, Empty, Full,
     pipe
<1>3. WritersWoken'
  BY <1>0, PipeAssumption DEF WriteAbort, Return, Forget, Goto, TypeOK, LockOwner,
     TestedUnderLock, WritersWoken, Holding, Free, Full,
     pipe
<1>4. ReadersWoken'
  BY <1>0, PipeAssumption DEF WriteAbort, Return, Forget, Goto, TypeOK, LockOwner,
     TestedUnderLock, ReadersWoken, CallsHaveEnds, OpenWhileUsed,
     ReadPcs, Holding, Free, Empty, pipe
<1>5. CallsHaveEnds' /\ OneCloser' /\ OpenWhileUsed'
  BY <1>0 DEF WriteAbort, Return, Forget, Goto, TypeOK, CallsHaveEnds, OneCloser,
     OpenWhileUsed, ReadPcs, WritePcs, ClosePcs, Ends,
     pipe
<1> QED
  BY <1>1, <1>2, <1>3, <1>4, <1>5 DEF PipeInv

\* A writer wakes the readers before it waits.
LEMMA WriteFullInv ==
  ASSUME PipeInv, NEW p \in Procs, WriteFull(p)
  PROVE  PipeInv'
<1>0. TypeOK /\ LockOwner /\ TestedUnderLock /\ WritersWoken /\ ReadersWoken
      /\ CallsHaveEnds /\ OneCloser /\ OpenWhileUsed
  BY DEF PipeInv
<1>1. TypeOK'
  BY <1>0, PipeAssumption DEF WriteFull, WakeReaders, WakeupGoto, TypeOK, ReadPcs,
     WritePcs, ClosePcs, Ends, pipe
<1>2. LockOwner' /\ TestedUnderLock'
  BY <1>0, PipeAssumption DEF WriteFull, WakeReaders, WakeupGoto, TypeOK, LockOwner,
     TestedUnderLock, Holding, Free, Empty, Full,
     pipe
<1>3. WritersWoken'
  BY <1>0, PipeAssumption DEF WriteFull, WakeReaders, WakeupGoto, TypeOK, LockOwner,
     TestedUnderLock, WritersWoken, Holding, Free, Full,
     pipe
<1>4. ReadersWoken'
  BY <1>0, PipeAssumption DEF WriteFull, WakeReaders, WakeupGoto, TypeOK, LockOwner,
     TestedUnderLock, ReadersWoken, CallsHaveEnds, OpenWhileUsed,
     ReadPcs, Holding, Free, Empty, pipe
<1>5. CallsHaveEnds' /\ OneCloser' /\ OpenWhileUsed'
  BY <1>0 DEF WriteFull, WakeReaders, WakeupGoto, TypeOK, CallsHaveEnds, OneCloser,
     OpenWhileUsed, ReadPcs, WritePcs, ClosePcs, Ends,
     pipe
<1> QED
  BY <1>1, <1>2, <1>3, <1>4, <1>5 DEF PipeInv

\* It sleeps on what it has just tested.
LEMMA WriteSleepInv ==
  ASSUME PipeInv, NEW p \in Procs, WriteSleep(p)
  PROVE  PipeInv'
<1>0. TypeOK /\ LockOwner /\ TestedUnderLock /\ WritersWoken /\ ReadersWoken
      /\ CallsHaveEnds /\ OneCloser /\ OpenWhileUsed
  BY DEF PipeInv
<1>1. TypeOK'
  BY <1>0, PipeAssumption DEF WriteSleep, Sleep, Goto, TypeOK, ReadPcs, WritePcs,
     ClosePcs, Ends, pipe
<1>2. LockOwner' /\ TestedUnderLock'
  BY <1>0, PipeAssumption DEF WriteSleep, Sleep, Goto, TypeOK, LockOwner,
     TestedUnderLock, Holding, Free, Empty, Full,
     pipe
<1>3. WritersWoken'
  BY <1>0, PipeAssumption DEF WriteSleep, Sleep, Goto, TypeOK, LockOwner,
     TestedUnderLock, WritersWoken, Holding, Free, Full,
     pipe
<1>4. ReadersWoken'
  BY <1>0, PipeAssumption DEF WriteSleep, Sleep, Goto, TypeOK, LockOwner,
     TestedUnderLock, ReadersWoken, CallsHaveEnds, OpenWhileUsed,
     ReadPcs, Holding, Free, Empty, pipe
<1>5. CallsHaveEnds' /\ OneCloser' /\ OpenWhileUsed'
  BY <1>0 DEF WriteSleep, Sleep, Goto, TypeOK, CallsHaveEnds, OneCloser, OpenWhileUsed,
     ReadPcs, WritePcs, ClosePcs, Ends,
     pipe
<1> QED
  BY <1>1, <1>2, <1>3, <1>4, <1>5 DEF PipeInv

\* A byte enters: no writer sleeps, or the pipe would be full.
LEMMA WriteByteInv ==
  ASSUME PipeInv, NEW p \in Procs, NEW c \in Bytes, WriteByte(p, c)
  PROVE  PipeInv'
<1>0. TypeOK /\ LockOwner /\ TestedUnderLock /\ WritersWoken /\ ReadersWoken
      /\ CallsHaveEnds /\ OneCloser /\ OpenWhileUsed
  BY DEF PipeInv
<1>1. TypeOK'
  BY <1>0, PipeAssumption DEF WriteByte, TypeOK, ReadPcs, WritePcs, ClosePcs, Ends, pipe
<1>2. LockOwner' /\ TestedUnderLock'
  BY <1>0, PipeAssumption DEF WriteByte, TypeOK, LockOwner, TestedUnderLock, Holding,
     Free, Empty, Full,
     pipe
<1>3. WritersWoken'
  BY <1>0, PipeAssumption DEF WriteByte, TypeOK, LockOwner, TestedUnderLock,
     WritersWoken, Holding, Free, Full,
     pipe
<1>4. ReadersWoken'
  BY <1>0, PipeAssumption DEF WriteByte, TypeOK, LockOwner, TestedUnderLock,
     ReadersWoken, CallsHaveEnds, OpenWhileUsed,
     ReadPcs, Holding, Free, Empty, pipe
<1>5. CallsHaveEnds' /\ OneCloser' /\ OpenWhileUsed'
  BY <1>0 DEF WriteByte, TypeOK, CallsHaveEnds, OneCloser, OpenWhileUsed, ReadPcs,
     WritePcs, ClosePcs, Ends,
     pipe
<1> QED
  BY <1>1, <1>2, <1>3, <1>4, <1>5 DEF PipeInv

\* A writer that stops early wakes the readers too.
LEMMA WriteFaultInv ==
  ASSUME PipeInv, NEW p \in Procs, WriteFault(p)
  PROVE  PipeInv'
<1>0. TypeOK /\ LockOwner /\ TestedUnderLock /\ WritersWoken /\ ReadersWoken
      /\ CallsHaveEnds /\ OneCloser /\ OpenWhileUsed
  BY DEF PipeInv
<1>1. TypeOK'
  BY <1>0, PipeAssumption DEF WriteFault, Return, Forget, WakeReaders, WakeupGoto,
     TypeOK, ReadPcs, WritePcs, ClosePcs, Ends, pipe
<1>2. LockOwner' /\ TestedUnderLock'
  BY <1>0, PipeAssumption DEF WriteFault, Return, Forget, WakeReaders, WakeupGoto,
     TypeOK, LockOwner, TestedUnderLock, Holding, Free, Empty, Full,
     pipe
<1>3. WritersWoken'
  BY <1>0, PipeAssumption DEF WriteFault, Return, Forget, WakeReaders, WakeupGoto,
     TypeOK, LockOwner, TestedUnderLock, WritersWoken, Holding, Free, Full,
     pipe
<1>4. ReadersWoken'
  BY <1>0, PipeAssumption DEF WriteFault, Return, Forget, WakeReaders, WakeupGoto,
     TypeOK, LockOwner, TestedUnderLock, ReadersWoken, CallsHaveEnds, OpenWhileUsed,
     ReadPcs, Holding, Free, Empty, pipe
<1>5. CallsHaveEnds' /\ OneCloser' /\ OpenWhileUsed'
  BY <1>0 DEF WriteFault, Return, Forget, WakeReaders, WakeupGoto, TypeOK, CallsHaveEnds,
     OneCloser, OpenWhileUsed, ReadPcs, WritePcs, ClosePcs, Ends,
     pipe
<1> QED
  BY <1>1, <1>2, <1>3, <1>4, <1>5 DEF PipeInv

\* And so does one that is done.
LEMMA WriteDoneInv ==
  ASSUME PipeInv, NEW p \in Procs, WriteDone(p)
  PROVE  PipeInv'
<1>0. TypeOK /\ LockOwner /\ TestedUnderLock /\ WritersWoken /\ ReadersWoken
      /\ CallsHaveEnds /\ OneCloser /\ OpenWhileUsed
  BY DEF PipeInv
<1>1. TypeOK'
  BY <1>0, PipeAssumption DEF WriteDone, Return, Forget, WakeReaders, WakeupGoto, TypeOK,
     ReadPcs, WritePcs, ClosePcs, Ends, pipe
<1>2. LockOwner' /\ TestedUnderLock'
  BY <1>0, PipeAssumption DEF WriteDone, Return, Forget, WakeReaders, WakeupGoto, TypeOK,
     LockOwner, TestedUnderLock, Holding, Free, Empty, Full,
     pipe
<1>3. WritersWoken'
  BY <1>0, PipeAssumption DEF WriteDone, Return, Forget, WakeReaders, WakeupGoto, TypeOK,
     LockOwner, TestedUnderLock, WritersWoken, Holding, Free, Full,
     pipe
<1>4. ReadersWoken'
  BY <1>0, PipeAssumption DEF WriteDone, Return, Forget, WakeReaders, WakeupGoto, TypeOK,
     LockOwner, TestedUnderLock, ReadersWoken, CallsHaveEnds, OpenWhileUsed,
     ReadPcs, Holding, Free, Empty, pipe
<1>5. CallsHaveEnds' /\ OneCloser' /\ OpenWhileUsed'
  BY <1>0 DEF WriteDone, Return, Forget, WakeReaders, WakeupGoto, TypeOK, CallsHaveEnds,
     OneCloser, OpenWhileUsed, ReadPcs, WritePcs, ClosePcs, Ends,
     pipe
<1> QED
  BY <1>1, <1>2, <1>3, <1>4, <1>5 DEF PipeInv

\* A read starts.
LEMMA ReadInv ==
  ASSUME PipeInv, NEW p \in Procs, NEW m \in 1..MaxN, Read(p, m)
  PROVE  PipeInv'
<1>0. TypeOK /\ LockOwner /\ TestedUnderLock /\ WritersWoken /\ ReadersWoken
      /\ CallsHaveEnds /\ OneCloser /\ OpenWhileUsed
  BY DEF PipeInv
<1>1. TypeOK'
  BY <1>0, PipeAssumption DEF Read, Goto, TypeOK, ReadPcs, WritePcs, ClosePcs, Ends, pipe
<1>2. LockOwner' /\ TestedUnderLock'
  BY <1>0, PipeAssumption DEF Read, Goto, TypeOK, LockOwner, TestedUnderLock, Holding,
     Free, Empty, Full,
     pipe
<1>3. WritersWoken'
  BY <1>0, PipeAssumption DEF Read, Goto, TypeOK, LockOwner, TestedUnderLock,
     WritersWoken, Holding, Free, Full,
     pipe
<1>4. ReadersWoken'
  BY <1>0, PipeAssumption DEF Read, Goto, TypeOK, LockOwner, TestedUnderLock,
     ReadersWoken, CallsHaveEnds, OpenWhileUsed,
     ReadPcs, Holding, Free, Empty, pipe
<1>5. CallsHaveEnds' /\ OneCloser' /\ OpenWhileUsed'
  BY <1>0 DEF Read, Goto, TypeOK, CallsHaveEnds, OneCloser, OpenWhileUsed, ReadPcs,
     WritePcs, ClosePcs, Ends,
     pipe
<1> QED
  BY <1>1, <1>2, <1>3, <1>4, <1>5 DEF PipeInv

\* A reader enters.
LEMMA ReadAcquireInv ==
  ASSUME PipeInv, NEW p \in Procs, ReadAcquire(p)
  PROVE  PipeInv'
<1>0. TypeOK /\ LockOwner /\ TestedUnderLock /\ WritersWoken /\ ReadersWoken
      /\ CallsHaveEnds /\ OneCloser /\ OpenWhileUsed
  BY DEF PipeInv
<1>1. TypeOK'
  BY <1>0, PipeAssumption DEF ReadAcquire, Acquire, Goto, TypeOK, ReadPcs, WritePcs,
     ClosePcs, Ends, pipe
<1>2. LockOwner' /\ TestedUnderLock'
  BY <1>0, PipeAssumption DEF ReadAcquire, Acquire, Goto, TypeOK, LockOwner,
     TestedUnderLock, Holding, Free, Empty, Full,
     pipe
<1>3. WritersWoken'
  BY <1>0, PipeAssumption DEF ReadAcquire, Acquire, Goto, TypeOK, LockOwner,
     TestedUnderLock, WritersWoken, Holding, Free, Full,
     pipe
<1>4. ReadersWoken'
  BY <1>0, PipeAssumption DEF ReadAcquire, Acquire, Goto, TypeOK, LockOwner,
     TestedUnderLock, ReadersWoken, CallsHaveEnds, OpenWhileUsed,
     ReadPcs, Holding, Free, Empty, pipe
<1>5. /\ pc[p] \in {"r_acq", "r_woken"} /\ pc' = [pc EXCEPT ![p] = "r_empty"]
      /\ UNCHANGED <<readopen, writeopen, freed, ends>>
  BY DEF ReadAcquire, Acquire, Goto, pipe
<1>6. CallsHaveEnds' /\ OneCloser' /\ OpenWhileUsed'
  BY <1>0, <1>5 DEF TypeOK, CallsHaveEnds, OneCloser, OpenWhileUsed, ReadPcs, WritePcs
<1> QED
  BY <1>1, <1>2, <1>3, <1>4, <1>6 DEF PipeInv

\* A killed reader leaves an empty pipe behind.
LEMMA ReadKilledInv ==
  ASSUME PipeInv, NEW p \in Procs, ReadKilled(p)
  PROVE  PipeInv'
<1>0. TypeOK /\ LockOwner /\ TestedUnderLock /\ WritersWoken /\ ReadersWoken
      /\ CallsHaveEnds /\ OneCloser /\ OpenWhileUsed
  BY DEF PipeInv
<1>1. TypeOK'
  BY <1>0, PipeAssumption DEF ReadKilled, Return, Forget, Goto, TypeOK, ReadPcs,
     WritePcs, ClosePcs, Ends, pipe
<1>2. LockOwner' /\ TestedUnderLock'
  BY <1>0, PipeAssumption DEF ReadKilled, Return, Forget, Goto, TypeOK, LockOwner,
     TestedUnderLock, Holding, Free, Empty, Full,
     pipe
<1>3. WritersWoken'
  BY <1>0, PipeAssumption DEF ReadKilled, Return, Forget, Goto, TypeOK, LockOwner,
     TestedUnderLock, WritersWoken, Holding, Free, Full,
     pipe
<1>4. ReadersWoken'
  BY <1>0, PipeAssumption DEF ReadKilled, Return, Forget, Goto, TypeOK, LockOwner,
     TestedUnderLock, ReadersWoken, CallsHaveEnds, OpenWhileUsed,
     ReadPcs, Holding, Free, Empty, pipe
<1>5. CallsHaveEnds' /\ OneCloser' /\ OpenWhileUsed'
  BY <1>0 DEF ReadKilled, Return, Forget, Goto, TypeOK, CallsHaveEnds, OneCloser,
     OpenWhileUsed, ReadPcs, WritePcs, ClosePcs, Ends,
     pipe
<1> QED
  BY <1>1, <1>2, <1>3, <1>4, <1>5 DEF PipeInv

\* A reader is about to wait.
LEMMA ReadEmptyInv ==
  ASSUME PipeInv, NEW p \in Procs, ReadEmpty(p)
  PROVE  PipeInv'
<1>0. TypeOK /\ LockOwner /\ TestedUnderLock /\ WritersWoken /\ ReadersWoken
      /\ CallsHaveEnds /\ OneCloser /\ OpenWhileUsed
  BY DEF PipeInv
<1>1. TypeOK'
  BY <1>0, PipeAssumption DEF ReadEmpty, Goto, TypeOK, ReadPcs, WritePcs, ClosePcs, Ends,
     pipe
<1>2. LockOwner' /\ TestedUnderLock'
  BY <1>0, PipeAssumption DEF ReadEmpty, Goto, TypeOK, LockOwner, TestedUnderLock,
     Holding, Free, Empty, Full,
     pipe
<1>3. WritersWoken'
  BY <1>0, PipeAssumption DEF ReadEmpty, Goto, TypeOK, LockOwner, TestedUnderLock,
     WritersWoken, Holding, Free, Full,
     pipe
<1>4. ReadersWoken'
  BY <1>0, PipeAssumption DEF ReadEmpty, Goto, TypeOK, LockOwner, TestedUnderLock,
     ReadersWoken, CallsHaveEnds, OpenWhileUsed,
     ReadPcs, Holding, Free, Empty, pipe
<1>5. CallsHaveEnds' /\ OneCloser' /\ OpenWhileUsed'
  BY <1>0 DEF ReadEmpty, Goto, TypeOK, CallsHaveEnds, OneCloser, OpenWhileUsed, ReadPcs,
     WritePcs, ClosePcs, Ends,
     pipe
<1> QED
  BY <1>1, <1>2, <1>3, <1>4, <1>5 DEF PipeInv

\* It sleeps on what it has just tested.
LEMMA ReadSleepInv ==
  ASSUME PipeInv, NEW p \in Procs, ReadSleep(p)
  PROVE  PipeInv'
<1>0. TypeOK /\ LockOwner /\ TestedUnderLock /\ WritersWoken /\ ReadersWoken
      /\ CallsHaveEnds /\ OneCloser /\ OpenWhileUsed
  BY DEF PipeInv
<1>1. TypeOK'
  BY <1>0, PipeAssumption DEF ReadSleep, Sleep, Goto, TypeOK, ReadPcs, WritePcs,
     ClosePcs, Ends, pipe
<1>2. LockOwner' /\ TestedUnderLock'
  BY <1>0, PipeAssumption DEF ReadSleep, Sleep, Goto, TypeOK, LockOwner, TestedUnderLock,
     Holding, Free, Empty, Full,
     pipe
<1>3. WritersWoken'
  BY <1>0, PipeAssumption DEF ReadSleep, Sleep, Goto, TypeOK, LockOwner, TestedUnderLock,
     WritersWoken, Holding, Free, Full,
     pipe
<1>4. ReadersWoken'
  BY <1>0, PipeAssumption DEF ReadSleep, Sleep, Goto, TypeOK, LockOwner, TestedUnderLock,
     ReadersWoken, CallsHaveEnds, OpenWhileUsed,
     ReadPcs, Holding, Free, Empty, pipe
<1>5. CallsHaveEnds' /\ OneCloser' /\ OpenWhileUsed'
  BY <1>0 DEF ReadSleep, Sleep, Goto, TypeOK, CallsHaveEnds, OneCloser, OpenWhileUsed,
     ReadPcs, WritePcs, ClosePcs, Ends,
     pipe
<1> QED
  BY <1>1, <1>2, <1>3, <1>4, <1>5 DEF PipeInv

\* There is something to read, or nothing will come.
LEMMA ReadReadyInv ==
  ASSUME PipeInv, NEW p \in Procs, ReadReady(p)
  PROVE  PipeInv'
<1>0. TypeOK /\ LockOwner /\ TestedUnderLock /\ WritersWoken /\ ReadersWoken
      /\ CallsHaveEnds /\ OneCloser /\ OpenWhileUsed
  BY DEF PipeInv
<1>1. TypeOK'
  BY <1>0, PipeAssumption DEF ReadReady, Goto, TypeOK, ReadPcs, WritePcs, ClosePcs, Ends,
     pipe
<1>2. LockOwner' /\ TestedUnderLock'
  BY <1>0, PipeAssumption DEF ReadReady, Goto, TypeOK, LockOwner, TestedUnderLock,
     Holding, Free, Empty, Full,
     pipe
<1>3. WritersWoken'
  BY <1>0, PipeAssumption DEF ReadReady, Goto, TypeOK, LockOwner, TestedUnderLock,
     WritersWoken, Holding, Free, Full,
     pipe
<1>4. ReadersWoken'
  BY <1>0, PipeAssumption DEF ReadReady, Goto, TypeOK, LockOwner, TestedUnderLock,
     ReadersWoken, CallsHaveEnds, OpenWhileUsed,
     ReadPcs, Holding, Free, Empty, pipe
<1>5. CallsHaveEnds' /\ OneCloser' /\ OpenWhileUsed'
  BY <1>0 DEF ReadReady, Goto, TypeOK, CallsHaveEnds, OneCloser, OpenWhileUsed, ReadPcs,
     WritePcs, ClosePcs, Ends,
     pipe
<1> QED
  BY <1>1, <1>2, <1>3, <1>4, <1>5 DEF PipeInv

\* A byte leaves: the writers it makes room for are woken at the end.
LEMMA ReadByteInv ==
  ASSUME PipeInv, NEW p \in Procs, ReadByte(p)
  PROVE  PipeInv'
<1>0. TypeOK /\ LockOwner /\ TestedUnderLock /\ WritersWoken /\ ReadersWoken
      /\ CallsHaveEnds /\ OneCloser /\ OpenWhileUsed
  BY DEF PipeInv
<1>1. TypeOK'
  BY <1>0, PipeAssumption DEF ReadByte, Consume, TypeOK, ReadPcs, WritePcs, ClosePcs,
     Ends, pipe
<1>2. LockOwner' /\ TestedUnderLock'
  BY <1>0, PipeAssumption DEF ReadByte, Consume, TypeOK, LockOwner, TestedUnderLock,
     Holding, Free, Empty, Full,
     pipe
<1>3. WritersWoken'
  BY <1>0, PipeAssumption DEF ReadByte, Consume, TypeOK, LockOwner, TestedUnderLock,
     WritersWoken, Holding, Free, Full,
     pipe
<1>4. ReadersWoken'
  BY <1>0, PipeAssumption DEF ReadByte, Consume, TypeOK, LockOwner, TestedUnderLock,
     ReadersWoken, CallsHaveEnds, OpenWhileUsed,
     ReadPcs, Holding, Free, Empty, pipe
<1>5. CallsHaveEnds' /\ OneCloser' /\ OpenWhileUsed'
  BY <1>0 DEF ReadByte, Consume, TypeOK, CallsHaveEnds, OneCloser, OpenWhileUsed,
     ReadPcs, WritePcs, ClosePcs, Ends,
     pipe
<1> QED
  BY <1>1, <1>2, <1>3, <1>4, <1>5 DEF PipeInv

\* A reader that stops early wakes the writers.
LEMMA ReadFaultInv ==
  ASSUME PipeInv, NEW p \in Procs, ReadFault(p)
  PROVE  PipeInv'
<1>0. TypeOK /\ LockOwner /\ TestedUnderLock /\ WritersWoken /\ ReadersWoken
      /\ CallsHaveEnds /\ OneCloser /\ OpenWhileUsed
  BY DEF PipeInv
<1>1. TypeOK'
  BY <1>0, PipeAssumption DEF ReadFault, Consume, Return, Forget, WakeWriters,
     WakeupGoto, TypeOK, ReadPcs, WritePcs, ClosePcs, Ends, pipe
<1>2. LockOwner' /\ TestedUnderLock'
  BY <1>0, PipeAssumption DEF ReadFault, Consume, Return, Forget, WakeWriters,
     WakeupGoto, TypeOK, LockOwner, TestedUnderLock, Holding, Free, Empty, Full,
     pipe
<1>3. WritersWoken'
  BY <1>0, PipeAssumption DEF ReadFault, Consume, Return, Forget, WakeWriters,
     WakeupGoto, TypeOK, LockOwner, TestedUnderLock, WritersWoken, Holding, Free, Full,
     pipe
<1>4. ReadersWoken'
  BY <1>0, PipeAssumption DEF ReadFault, Consume, Return, Forget, WakeWriters,
     WakeupGoto, TypeOK, LockOwner, TestedUnderLock, ReadersWoken, CallsHaveEnds,
     OpenWhileUsed,
     ReadPcs, Holding, Free, Empty, pipe
<1>5. CallsHaveEnds' /\ OneCloser' /\ OpenWhileUsed'
  BY <1>0 DEF ReadFault, Consume, Return, Forget, WakeWriters, WakeupGoto, TypeOK,
     CallsHaveEnds, OneCloser, OpenWhileUsed, ReadPcs, WritePcs, ClosePcs, Ends,
     pipe
<1> QED
  BY <1>1, <1>2, <1>3, <1>4, <1>5 DEF PipeInv

\* And so does one that is done.
LEMMA ReadDoneInv ==
  ASSUME PipeInv, NEW p \in Procs, ReadDone(p)
  PROVE  PipeInv'
<1>0. TypeOK /\ LockOwner /\ TestedUnderLock /\ WritersWoken /\ ReadersWoken
      /\ CallsHaveEnds /\ OneCloser /\ OpenWhileUsed
  BY DEF PipeInv
<1>1. TypeOK'
  BY <1>0, PipeAssumption DEF ReadDone, Return, Forget, WakeWriters, WakeupGoto, TypeOK,
     ReadPcs, WritePcs, ClosePcs, Ends, pipe
<1>2. LockOwner' /\ TestedUnderLock'
  BY <1>0, PipeAssumption DEF ReadDone, Return, Forget, WakeWriters, WakeupGoto, TypeOK,
     LockOwner, TestedUnderLock, Holding, Free, Empty, Full,
     pipe
<1>3. WritersWoken'
  BY <1>0, PipeAssumption DEF ReadDone, Return, Forget, WakeWriters, WakeupGoto, TypeOK,
     LockOwner, TestedUnderLock, WritersWoken, Holding, Free, Full,
     pipe
<1>4. ReadersWoken'
  BY <1>0, PipeAssumption DEF ReadDone, Return, Forget, WakeWriters, WakeupGoto, TypeOK,
     LockOwner, TestedUnderLock, ReadersWoken, CallsHaveEnds, OpenWhileUsed,
     ReadPcs, Holding, Free, Empty, pipe
<1>5. CallsHaveEnds' /\ OneCloser' /\ OpenWhileUsed'
  BY <1>0 DEF ReadDone, Return, Forget, WakeWriters, WakeupGoto, TypeOK, CallsHaveEnds,
     OneCloser, OpenWhileUsed, ReadPcs, WritePcs, ClosePcs, Ends,
     pipe
<1> QED
  BY <1>1, <1>2, <1>3, <1>4, <1>5 DEF PipeInv

\* kkill() turns a sleeper into one that is awake.
LEMMA KillInv ==
  ASSUME PipeInv, NEW p \in Procs, Kill(p)
  PROVE  PipeInv'
<1>0. TypeOK /\ LockOwner /\ TestedUnderLock /\ WritersWoken /\ ReadersWoken
      /\ CallsHaveEnds /\ OneCloser /\ OpenWhileUsed
  BY DEF PipeInv
<1>1. TypeOK'
  BY <1>0, PipeAssumption DEF Kill, Goto, TypeOK, ReadPcs, WritePcs, ClosePcs, Ends, pipe
<1>2. LockOwner' /\ TestedUnderLock'
  BY <1>0, PipeAssumption DEF Kill, Goto, TypeOK, LockOwner, TestedUnderLock, Holding,
     Free, Empty, Full,
     pipe
<1>3. WritersWoken'
  BY <1>0, PipeAssumption DEF Kill, Goto, TypeOK, LockOwner, TestedUnderLock,
     WritersWoken, Holding, Free, Full,
     pipe
<1>4. ReadersWoken'
  BY <1>0, PipeAssumption DEF Kill, Goto, TypeOK, LockOwner, TestedUnderLock,
     ReadersWoken, CallsHaveEnds, OpenWhileUsed,
     ReadPcs, Holding, Free, Empty, pipe
<1>5. CallsHaveEnds' /\ OneCloser' /\ OpenWhileUsed'
  BY <1>0 DEF Kill, Goto, TypeOK, CallsHaveEnds, OneCloser, OpenWhileUsed, ReadPcs,
     WritePcs, ClosePcs, Ends,
     pipe
<1> QED
  BY <1>1, <1>2, <1>3, <1>4, <1>5 DEF PipeInv

-----------------------------------------------------------------------------
\* A new pipe satisfies the invariant.
LEMMA InitInv == Init => PipeInv
<1> SUFFICES ASSUME Init PROVE PipeInv
  OBVIOUS
<1>1. TypeOK
  <2>1. 0 \in 0..UINT-1 /\ 0 \in 0..MaxN
    BY PipeAssumption
  <2>2. ends \in [Procs -> SUBSET Ends]
    BY DEF Init, Ends
  <2> QED
    BY <2>1, <2>2 DEF Init, TypeOK
<1>2. LockOwner /\ TestedUnderLock /\ WritersWoken /\ ReadersWoken
  BY PipeAssumption DEF Init, LockOwner, TestedUnderLock, WritersWoken, ReadersWoken,
     Holding, Free
<1>3. CallsHaveEnds /\ OneCloser /\ OpenWhileUsed
  BY PipeAssumption DEF Init, CallsHaveEnds, OneCloser, OpenWhileUsed, ReadPcs, WritePcs,
     Ends
<1> QED
  BY <1>1, <1>2, <1>3 DEF PipeInv

\* Every step of the system calls of all processes preserves it.
LEMMA NextInv == PipeInv /\ [Next]_vars => PipeInv'
<1> SUFFICES ASSUME PipeInv, [Next]_vars PROVE PipeInv'
  OBVIOUS
<1>1. CASE UNCHANGED vars
  BY <1>1 DEF PipeInv, vars, TypeOK, LockOwner, TestedUnderLock, WritersWoken, ReadersWoken,
     CallsHaveEnds, OneCloser, OpenWhileUsed, Full, Empty
<1>2. CASE Next
  BY <1>2, ForkInv, FileCloseInv, PipeCloseInv, WriteInv, WriteAcquireInv, WriteAbortInv,
     WriteFullInv, WriteSleepInv, WriteByteInv, WriteFaultInv, WriteDoneInv, ReadInv,
     ReadAcquireInv, ReadKilledInv, ReadEmptyInv, ReadSleepInv, ReadReadyInv,
     ReadByteInv, ReadFaultInv, ReadDoneInv, KillInv
     DEF Next
<1> QED
  BY <1>1, <1>2

\* PipeInv holds in every state of every behaviour.
THEOREM PipeInvariant == Spec => []PipeInv
<1> QED
  BY InitInv, NextInv, PTL DEF Spec

\* Whoever makes room, adds bytes or closes an end has woken the sleepers that
\* wait for it when it releases pi->lock.
THEOREM WakeupsNotMissed == Spec => []NoMissedWakeup
<1>1. PipeInv => NoMissedWakeup
  <2> SUFFICES ASSUME PipeInv, lock = Free
               PROVE  WriterSleepsWhenFull /\ (killed = {} => ReaderSleepsWhenEmpty)
    BY DEF NoMissedWakeup
  <2>1. \A p \in Procs : pc[p] \notin Holding
    BY PipeAssumption DEF PipeInv, LockOwner
  <2> QED
    BY <2>1 DEF PipeInv, WritersWoken, ReadersWoken, Holding, WriterSleepsWhenFull,
       ReaderSleepsWhenEmpty
<1> QED
  BY <1>1, PipeInvariant, PTL

\* pipeclose() frees the page when the last descriptor of both ends is gone, and
\* nobody is in a call on the pipe then or later.
THEOREM FreedWhenUnused == Spec => []FreedInTime
<1>1. PipeInv => FreedInTime
  <2> SUFFICES ASSUME PipeInv PROVE FreedInTime
    OBVIOUS
  <2>1. ASSUME freed PROVE \A p \in Procs : pc[p] = "idle" /\ ends[p] = {}
    BY <2>1 DEF PipeInv, TypeOK, CallsHaveEnds, OpenWhileUsed, ReadPcs, WritePcs,
     ClosePcs, Ends
  <2>2. ASSUME \A p \in Procs : pc[p] = "idle" /\ ends[p] = {} PROVE freed
    BY <2>2 DEF PipeInv, OpenWhileUsed
  <2> QED
    BY <2>1, <2>2 DEF PipeInv, OpenWhileUsed, FreedInTime
<1> QED
  BY <1>1, PipeInvariant, PTL

-----------------------------------------------------------------------------
(* The counters, where they wrap *)

\* The counters wrap at a multiple of the buffer size, at least twice it.
LEMMA Sizes ==
  /\ PIPESIZE \in Nat \ {0} /\ UINT \in Nat \ {0} /\ PIPESIZE < UINT
  /\ \E k \in Nat : UINT = k * PIPESIZE
<1>1. PICK k \in 2..UINT : UINT = k * PIPESIZE
  BY PipeAssumption
<1>2. PIPESIZE \in Nat \ {0} /\ UINT \in Nat /\ k \in Nat /\ k >= 2
  BY PipeAssumption
<1>3. k * PIPESIZE >= 2 * PIPESIZE
  BY <1>2
<1> QED
  BY <1>1, <1>2, <1>3

\* Reducing a sum to a uint takes off at most one UINT.
LEMMA UintMod ==
  \A x \in Nat : x < UINT + UINT =>
    (x < UINT => x % UINT = x) /\ (x >= UINT => x % UINT = x - UINT)
<1>1. UINT \in Nat \ {0}
  BY Sizes
<1> QED
  BY <1>1, ModOnce

\* Count is the distance of the counters, and tells empty from full.
LEMMA CountIs ==
  ASSUME TypeOK
  PROVE  /\ Count \in 0..UINT-1
         /\ Count = IF nread <= nwrite THEN nwrite - nread ELSE nwrite + UINT - nread
         /\ Empty <=> Count = 0
         /\ Full <=> Count = PIPESIZE
<1>1. /\ PIPESIZE \in Nat \ {0} /\ UINT \in Nat \ {0} /\ PIPESIZE < UINT
      /\ nread \in 0..UINT-1 /\ nwrite \in 0..UINT-1
  BY Sizes DEF TypeOK
<1>2. /\ nwrite + UINT - nread \in Nat /\ nwrite + UINT - nread < UINT + UINT
      /\ nread + PIPESIZE \in Nat /\ nread + PIPESIZE < UINT + UINT
  BY <1>1
<1>3. /\ nwrite + UINT - nread < UINT
           => (nwrite + UINT - nread) % UINT = nwrite + UINT - nread
      /\ nwrite + UINT - nread >= UINT
           => (nwrite + UINT - nread) % UINT = nwrite + UINT - nread - UINT
  BY <1>1, <1>2, UintMod
<1>4. Count = IF nread <= nwrite THEN nwrite - nread ELSE nwrite + UINT - nread
  BY <1>1, <1>3 DEF Count
<1>5. /\ nread + PIPESIZE < UINT => (nread + PIPESIZE) % UINT = nread + PIPESIZE
      /\ nread + PIPESIZE >= UINT => (nread + PIPESIZE) % UINT = nread + PIPESIZE - UINT
  BY <1>1, <1>2, UintMod
<1>6. Full <=> Count = PIPESIZE
  BY <1>1, <1>4, <1>5 DEF Full
<1> QED
  BY <1>1, <1>4, <1>6 DEF Empty

\* The distance of the counters, as a formula of a state.
CountDistance ==
  Count = IF nread <= nwrite THEN nwrite - nread ELSE nwrite + UINT - nread

\* It holds in every state.
LEMMA CountTyped == TypeOK => CountDistance
  BY CountIs DEF CountDistance

\* Adding the wrap-around changes no position in the buffer.
LEMMA WrapKeepsPosition ==
  ASSUME NEW x \in Nat
  PROVE  (x + UINT) % PIPESIZE = x % PIPESIZE
<1>1. PICK k \in Nat : UINT = k * PIPESIZE
  BY Sizes
<1>2. (k * PIPESIZE + x) % PIPESIZE = x % PIPESIZE
  BY Sizes, ModPeriod
<1>3. x + UINT = k * PIPESIZE + x
  BY <1>1, Sizes
<1> QED
  BY <1>2, <1>3

\* The position a writer uses comes right behind the last byte.
LEMMA WritePosition ==
  ASSUME TypeOK
  PROVE  nwrite % PIPESIZE = (nread + Count) % PIPESIZE
<1>1. UINT \in Nat \ {0} /\ nread \in 0..UINT-1 /\ nwrite \in 0..UINT-1 /\ nwrite \in Nat
  BY Sizes DEF TypeOK
<1>2. CASE nread <= nwrite
  <2>1. nread + Count = nwrite
    BY <1>1, <1>2, CountIs
  <2> QED
    BY <2>1
<1>3. CASE ~(nread <= nwrite)
  <2>1. nread + Count = nwrite + UINT
    BY <1>1, <1>3, CountIs
  <2> QED
    BY <1>1, <2>1, WrapKeepsPosition
<1> QED
  BY <1>2, <1>3

\* The next value of a counter.
LEMMA NextCounter ==
  ASSUME NEW x \in 0..UINT-1
  PROVE  (x + 1) % UINT = IF x + 1 = UINT THEN 0 ELSE x + 1
<1>1. UINT \in Nat \ {0} /\ 1 < UINT
  BY Sizes
<1>2. x + 1 \in Nat /\ x + 1 < UINT + UINT
  BY <1>1
<1>3. /\ x + 1 < UINT => (x + 1) % UINT = x + 1
      /\ x + 1 >= UINT => (x + 1) % UINT = x + 1 - UINT
  BY <1>1, <1>2, UintMod
<1> QED
  BY <1>1, <1>3

\* The queue of the channel is a sequence of Count bytes.
QueueIs ==
  /\ Queue \in Seq(Bytes) /\ Len(Queue) = Count /\ Count \in Nat
  /\ \A k \in 1..Count : Queue[k] = data[(nread + k - 1) % PIPESIZE]

\* It is so in every state.
LEMMA QueueSeq == TypeOK => QueueIs
<1> SUFFICES ASSUME TypeOK PROVE QueueIs
  OBVIOUS
<1>1. Count \in Nat /\ nread \in Nat /\ data \in [0..PIPESIZE-1 -> Bytes]
  BY CountIs, Sizes DEF TypeOK
<1>2. ASSUME NEW k \in 1..Count
      PROVE  data[(nread + k - 1) % PIPESIZE] \in Bytes
  <2>1. nread + k - 1 \in Nat
    BY <1>1
  <2>2. (nread + k - 1) % PIPESIZE \in 0..PIPESIZE-1
    BY <2>1, Sizes, DivMod
  <2> QED
    BY <1>1, <2>2
<1>3. Queue \in [1..Count -> Bytes]
  BY <1>2 DEF Queue
<1>4. Queue \in Seq(Bytes)
  BY <1>1, <1>3, SeqDef
<1>5. Len(Queue) = Count
  <2>1. DOMAIN Queue = 1..Count /\ DOMAIN Queue = 1..Len(Queue) /\ Len(Queue) \in Nat
    BY <1>3, <1>4, LenProperties
  <2> QED
    BY <1>1, <2>1
<1> QED
  BY <1>1, <1>4, <1>5 DEF Queue, QueueIs

-----------------------------------------------------------------------------
(* The steps of the channel *)

ChannelStep == [Chan!Next]_(Chan!vars)

\* What does not touch struct pipe is invisible in the channel.
LEMMA Stutters ==
  ASSUME WithinBuffer, UNCHANGED <<data, nread, nwrite, readopen, writeopen>>
  PROVE  WithinBuffer' /\ ChannelStep
<1>1. Count' = Count
  BY DEF Count
<1>2. Queue' = Queue
  BY <1>1 DEF Queue
<1> QED
  BY <1>1, <1>2 DEF WithinBuffer, ChannelStep, Chan!vars

\* A turn of pipewrite puts its byte behind all others and overwrites none.
LEMMA WriteByteStep ==
  ASSUME PipeInv, WithinBuffer, NEW p \in Procs, NEW c \in Bytes, WriteByte(p, c)
  PROVE  WithinBuffer' /\ ChannelStep
<1>0. TypeOK /\ TypeOK'
  BY WriteByteInv DEF PipeInv
<1>1. /\ pc[p] = "w_loop" /\ readopen /\ ~Full
      /\ data' = [data EXCEPT ![nwrite % PIPESIZE] = c]
      /\ nwrite' = (nwrite + 1) % UINT
      /\ nread' = nread /\ readopen' = readopen /\ writeopen' = writeopen
  BY DEF WriteByte
<1>2. writeopen
  BY <1>1 DEF PipeInv, CallsHaveEnds, OpenWhileUsed, WritePcs
<1>3. /\ UINT \in Nat \ {0} /\ PIPESIZE \in Nat \ {0} /\ PIPESIZE < UINT
      /\ nread \in 0..UINT-1 /\ nwrite \in 0..UINT-1
      /\ nwrite' = IF nwrite + 1 = UINT THEN 0 ELSE nwrite + 1
  BY <1>0, <1>1, Sizes, NextCounter DEF TypeOK
<1>4. Count \in Nat /\ Count < PIPESIZE
  BY <1>0, <1>1, <1>3, CountIs DEF WithinBuffer
<1>5. Count' = Count + 1
  <2>1. Count = IF nread <= nwrite THEN nwrite - nread ELSE nwrite + UINT - nread
    BY <1>0, CountIs
  <2>2. Count' = IF nread' <= nwrite' THEN nwrite' - nread' ELSE nwrite' + UINT - nread'
    <3>1. CountDistance'
      BY <1>0, CountTyped, PTL
    <3> QED
      BY <3>1 DEF CountDistance
  <2> QED
    BY <1>1, <1>3, <1>4, <2>1, <2>2
<1>6. QueueIs /\ QueueIs'
  BY <1>0, QueueSeq, PTL
<1>7. Queue' = Append(Queue, c)
  <2>1. /\ Append(Queue, c) \in Seq(Bytes) /\ Len(Append(Queue, c)) = Count + 1
        /\ \A k \in 1..Count : Append(Queue, c)[k] = Queue[k]
        /\ Append(Queue, c)[Count + 1] = c
    BY <1>6, AppendProperties DEF QueueIs
  <2>2. Queue' \in Seq(Bytes) /\ Len(Queue') = Count + 1
    BY <1>5, <1>6 DEF QueueIs
  <2>3. nwrite % PIPESIZE = (nread + Count) % PIPESIZE /\ nwrite % PIPESIZE \in 0..PIPESIZE-1
    BY <1>0, <1>3, WritePosition, DivMod
  <2>4. ASSUME NEW k \in 1..Count
        PROVE  Queue'[k] = Queue[k]
    <3>0. k \in 1..Count'
      BY <1>4, <1>5
    <3>1. /\ Queue[k] = data[(nread + k - 1) % PIPESIZE]
          /\ Queue'[k] = data'[(nread + k - 1) % PIPESIZE]
      BY <1>1, <1>6, <3>0 DEF QueueIs
    <3>2. nread \in Nat /\ k - 1 \in Nat /\ k - 1 < Count /\ Count - (k - 1) < PIPESIZE
      BY <1>3, <1>4
    <3>3. (nread + (k - 1)) % PIPESIZE # (nread + Count) % PIPESIZE
      BY <1>3, <1>4, <3>2, ModDistinct
    <3>4. nread + k - 1 = nread + (k - 1) /\ nread + k - 1 \in Nat
      BY <3>2
    <3>5. (nread + k - 1) % PIPESIZE \in 0..PIPESIZE-1
      BY <1>3, <3>4, DivMod
    <3>6. (nread + k - 1) % PIPESIZE # nwrite % PIPESIZE
      BY <2>3, <3>3, <3>4
    <3> QED
      BY <1>0, <1>1, <3>1, <3>5, <3>6 DEF TypeOK
  <2>5. Queue'[Count + 1] = c
    <3>1. Queue'[Count + 1] = data'[(nread + (Count + 1) - 1) % PIPESIZE]
      BY <1>1, <1>4, <1>5, <1>6 DEF QueueIs
    <3>2. nread + (Count + 1) - 1 = nread + Count
      BY <1>3, <1>4
    <3>3. Queue'[Count + 1] = data'[nwrite % PIPESIZE]
      BY <2>3, <3>1, <3>2
    <3> QED
      BY <1>0, <1>1, <2>3, <3>3 DEF TypeOK
  <2>6. ASSUME NEW k \in 1..(Count + 1)
        PROVE  Queue'[k] = Append(Queue, c)[k]
    <3>1. k \in 1..Count \/ k = Count + 1
      BY <1>4
    <3> QED
      BY <2>1, <2>4, <2>5, <3>1
  <2> QED
    BY <2>1, <2>2, <2>6, SeqEqual
<1>8. Chan!Put(c)
  <2>1. Len(Queue) < PIPESIZE
    BY <1>4, <1>6 DEF QueueIs
  <2> QED
    BY <1>1, <1>2, <1>7, <2>1 DEF Chan!Put
<1>9. WithinBuffer'
  BY <1>3, <1>4, <1>5 DEF WithinBuffer
<1> QED
  BY <1>8, <1>9 DEF ChannelStep, Chan!Next

\* A turn of piperead takes the oldest byte.
LEMMA ConsumeStep ==
  ASSUME TypeOK, TypeOK', WithinBuffer, readopen, Consume,
         UNCHANGED <<data, nwrite, readopen, writeopen>>
  PROVE  WithinBuffer' /\ ChannelStep
<1>1. ~Empty /\ nread' = (nread + 1) % UINT
  BY DEF Consume
<1>2. /\ UINT \in Nat \ {0} /\ PIPESIZE \in Nat \ {0} /\ PIPESIZE < UINT
      /\ nread \in 0..UINT-1 /\ nwrite \in 0..UINT-1
      /\ nread' = IF nread + 1 = UINT THEN 0 ELSE nread + 1
  BY <1>1, Sizes, NextCounter DEF TypeOK
<1>3. Count \in Nat /\ Count > 0 /\ Count <= PIPESIZE
  BY <1>1, <1>2, CountIs DEF WithinBuffer
<1>4. Count' = Count - 1
  <2>1. Count = IF nread <= nwrite THEN nwrite - nread ELSE nwrite + UINT - nread
    BY CountIs
  <2>2. Count' = IF nread' <= nwrite' THEN nwrite' - nread' ELSE nwrite' + UINT - nread'
    <3>1. CountDistance'
      BY CountTyped, PTL
    <3> QED
      BY <3>1 DEF CountDistance
  <2> QED
    BY <1>2, <1>3, <2>1, <2>2
<1>5. QueueIs /\ QueueIs'
  BY QueueSeq, PTL
<1>6. Queue # <<>>
  BY <1>3, <1>5, EmptySeq DEF QueueIs
<1>7. Queue' = Tail(Queue)
  <2>1. /\ Tail(Queue) \in Seq(Bytes) /\ Len(Tail(Queue)) = Count - 1
        /\ \A k \in 1..(Count - 1) : Tail(Queue)[k] = Queue[k + 1]
    BY <1>5, <1>6, HeadTailProperties DEF QueueIs
  <2>2. Queue' \in Seq(Bytes) /\ Len(Queue') = Count - 1
    BY <1>4, <1>5 DEF QueueIs
  <2>3. ASSUME NEW k \in 1..(Count - 1)
        PROVE  Queue'[k] = Queue[k + 1]
    <3>1. k + 1 \in 1..Count /\ k \in Nat /\ k - 1 \in Nat
      BY <1>3
    <3>2. /\ Queue[k + 1] = data[(nread + (k + 1) - 1) % PIPESIZE]
          /\ Queue'[k] = data[(nread' + k - 1) % PIPESIZE]
      BY <1>4, <1>5, <3>1 DEF QueueIs
    <3>3. CASE nread + 1 = UINT
      <4>1. nread + (k + 1) - 1 = (k - 1) + UINT /\ nread' + k - 1 = k - 1
        BY <1>2, <3>1, <3>3
      <4>2. ((k - 1) + UINT) % PIPESIZE = (k - 1) % PIPESIZE
        BY <3>1, WrapKeepsPosition
      <4> QED
        BY <3>2, <4>1, <4>2
    <3>4. CASE nread + 1 # UINT
      <4>1. nread + (k + 1) - 1 = nread' + k - 1
        BY <1>2, <3>1, <3>4
      <4> QED
        BY <3>2, <4>1
    <3> QED
      BY <3>3, <3>4
  <2>4. \A k \in 1..Len(Queue') : Queue'[k] = Tail(Queue)[k]
    BY <2>1, <2>2, <2>3
  <2> QED
    BY <2>1, <2>2, <2>4, SeqEqual
<1>8. Chan!Get
  BY <1>6, <1>7 DEF Chan!Get
<1>9. WithinBuffer'
  BY <1>2, <1>3, <1>4 DEF WithinBuffer
<1> QED
  BY <1>8, <1>9 DEF ChannelStep, Chan!Next

\* Both ways to read a byte, with and without a fault in copyout.
LEMMA ReadStep ==
  ASSUME PipeInv, WithinBuffer, NEW p \in Procs, ReadByte(p) \/ ReadFault(p)
  PROVE  WithinBuffer' /\ ChannelStep
<1>1. TypeOK /\ TypeOK'
  BY ReadByteInv, ReadFaultInv DEF PipeInv
<1>2. pc[p] = "r_copy" /\ Consume /\ UNCHANGED <<data, nwrite, readopen, writeopen>>
  BY DEF ReadByte, ReadFault
<1>3. readopen
  BY <1>2 DEF PipeInv, CallsHaveEnds, OpenWhileUsed, ReadPcs
<1> QED
  BY <1>1, <1>2, <1>3, ConsumeStep

\* pipeclose closes an end that is still open.
LEMMA PipeCloseStep ==
  ASSUME PipeInv, WithinBuffer, NEW p \in Procs, PipeClose(p)
  PROVE  WithinBuffer' /\ ChannelStep
<1>1. UNCHANGED <<data, nread, nwrite>>
  BY DEF PipeClose
<1>2. Count' = Count
  BY <1>1 DEF Count
<1>3. Queue' = Queue
  BY <1>1, <1>2 DEF Queue
<1>4. CASE pc[p] = "c_w" /\ writeopen' = FALSE /\ readopen' = readopen
  <2>1. writeopen
    BY <1>4 DEF PipeInv, OpenWhileUsed
  <2> QED
    BY <1>2, <1>3, <1>4, <2>1 DEF WithinBuffer, Chan!CloseWrite, Chan!Next, ChannelStep
<1>5. CASE pc[p] = "c_r" /\ readopen' = FALSE /\ writeopen' = writeopen
  <2>1. readopen
    BY <1>5 DEF PipeInv, OpenWhileUsed
  <2> QED
    BY <1>2, <1>3, <1>5, <2>1 DEF WithinBuffer, Chan!CloseRead, Chan!Next, ChannelStep
<1> QED
  BY <1>4, <1>5 DEF PipeClose

\* Every step of the pipe is a step of the channel, or invisible there.
LEMMA NextChannel ==
  ASSUME PipeInv, WithinBuffer, [Next]_vars
  PROVE  WithinBuffer' /\ ChannelStep
<1>1. ASSUME NEW p \in Procs, NEW q \in Procs, Fork(p, q)
      PROVE  WithinBuffer' /\ ChannelStep
  BY <1>1, Stutters DEF Fork, pipe
<1>2. ASSUME NEW p \in Procs, NEW e \in Ends, FileClose(p, e)
      PROVE  WithinBuffer' /\ ChannelStep
  BY <1>2, Stutters DEF FileClose, pipe
<1>3. ASSUME NEW p \in Procs, PipeClose(p) PROVE WithinBuffer' /\ ChannelStep
  BY <1>3, PipeCloseStep
<1>4. ASSUME NEW p \in Procs, NEW m \in 1..MaxN, Write(p, m) \/ Read(p, m)
      PROVE  WithinBuffer' /\ ChannelStep
  BY <1>4, Stutters DEF Write, Read, pipe
<1>5. ASSUME NEW p \in Procs,
             \/ WriteAcquire(p) \/ WriteAbort(p) \/ WriteFull(p)
             \/ WriteSleep(p) \/ WriteFault(p) \/ WriteDone(p)
      PROVE  WithinBuffer' /\ ChannelStep
  BY <1>5, Stutters DEF WriteAcquire, Acquire, WriteAbort, WriteFull, WriteSleep, Sleep,
     WriteFault, WriteDone, pipe
<1>6. ASSUME NEW p \in Procs, NEW c \in Bytes, WriteByte(p, c)
      PROVE  WithinBuffer' /\ ChannelStep
  BY <1>6, WriteByteStep
<1>7. ASSUME NEW p \in Procs,
             \/ ReadAcquire(p) \/ ReadKilled(p) \/ ReadEmpty(p) \/ ReadSleep(p)
             \/ ReadReady(p) \/ ReadDone(p)
      PROVE  WithinBuffer' /\ ChannelStep
  BY <1>7, Stutters DEF ReadAcquire, Acquire, ReadKilled, ReadEmpty, ReadSleep, Sleep,
     ReadReady, ReadDone, pipe
<1>8. ASSUME NEW p \in Procs, ReadByte(p) \/ ReadFault(p)
      PROVE  WithinBuffer' /\ ChannelStep
  BY <1>8, ReadStep
<1>9. ASSUME NEW p \in Procs, Kill(p) PROVE WithinBuffer' /\ ChannelStep
  BY <1>9, Stutters DEF Kill, pipe
<1>10. CASE UNCHANGED vars
  BY <1>10, Stutters DEF vars
<1> QED
  BY <1>1, <1>2, <1>3, <1>4, <1>5, <1>6, <1>7, <1>8, <1>9, <1>10 DEF Next

\* A new pipe is an empty channel with both ends open.
LEMMA InitChannel == Init => WithinBuffer /\ Chan!Init
<1> SUFFICES ASSUME Init PROVE WithinBuffer /\ Chan!Init
  OBVIOUS
<1>1. TypeOK
  BY InitInv DEF PipeInv
<1>2. Count = 0
  BY <1>1, CountIs DEF Init, Empty
<1>3. Queue \in Seq(Bytes) /\ Len(Queue) = 0
  BY <1>1, <1>2, QueueSeq DEF QueueIs
<1>4. Queue = <<>>
  BY <1>3, EmptySeq
<1> QED
  BY <1>2, <1>4, Sizes DEF Init, WithinBuffer, Chan!Init

\* pipe.c implements a bounded first-in first-out channel, for any number of
\* readers, writers, kills and faults: no byte is lost, duplicated, reordered
\* or overwritten, also where the 32-bit counters wrap.
THEOREM PipeIsChannel == Spec => IsChannel
<1>1. Init => WithinBuffer /\ Chan!Init
  BY InitChannel
<1>2. PipeInv /\ WithinBuffer /\ [Next]_vars => WithinBuffer' /\ [Chan!Next]_(Chan!vars)
  BY NextChannel DEF ChannelStep
<1> QED
  BY <1>1, <1>2, PipeInvariant, PTL DEF Spec, IsChannel, Chan!Spec
=============================================================================
