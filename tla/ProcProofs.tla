----------------------------- MODULE ProcProofs -----------------------------
(***************************************************************************)
(* Proofs about Proc, for any process table and any number of CPUs:        *)
(* ProcInv is inductive, no kernel stack is used twice, no process is left *)
(* without a parent that can wait for it, and no exit goes unnoticed.      *)
(***************************************************************************)
EXTENDS Proc, TLAPS

\* The scheduler of a CPU picks a process that is off every CPU.
LEMMA ScheduleInv ==
  ASSUME ProcInv, NEW c \in Cpus, NEW p \in Slots, Schedule(c, p)
  PROVE  ProcInv'
<1>0. TypeOK /\ StackExclusive /\ PcOfState /\ ChildOfFork /\ InitLives
      /\ Adopted /\ Reparenting /\ Scanned /\ ParentAwake
  BY DEF ProcInv
<1>1. TypeOK'
  BY <1>0, ProcAssumption DEF Schedule, shared, TypeOK, States, Pcs, PcOfState
<1>2. StackExclusive'
  BY <1>0, ProcAssumption DEF Schedule, shared, StackExclusive, TypeOK
<1>3. PcOfState'
  BY <1>0, ProcAssumption DEF Schedule, shared, PcOfState, TypeOK
<1>4. ChildOfFork'
  BY <1>0, ProcAssumption DEF Schedule, shared, ChildOfFork, TypeOK
<1>5. InitLives'
  BY <1>0, ProcAssumption DEF Schedule, shared, InitLives, Live, TypeOK
<1>6. Adopted'
  BY <1>0, ProcAssumption DEF Schedule, shared, Adopted, Live, TypeOK
<1>7. Reparenting'
  BY <1>0, ProcAssumption DEF Schedule, shared, Reparenting, Children, TypeOK
<1>8. Scanned'
  BY <1>0, ProcAssumption DEF Schedule, shared, Scanned, Children, TypeOK
<1>9. ParentAwake'
  BY <1>0, ProcAssumption DEF Schedule, shared, ParentAwake, TypeOK
<1> QED
  BY <1>1, <1>2, <1>3, <1>4, <1>5, <1>6, <1>7, <1>8, <1>9 DEF ProcInv

\* The CPU has left the stack of the process before it releases its lock.
LEMMA SwitchOutInv ==
  ASSUME ProcInv, NEW c \in Cpus, SwitchOut(c)
  PROVE  ProcInv'
<1>0. TypeOK /\ StackExclusive /\ PcOfState /\ ChildOfFork /\ InitLives
      /\ Adopted /\ Reparenting /\ Scanned /\ ParentAwake
  BY DEF ProcInv
<1>1. TypeOK'
  BY <1>0, ProcAssumption DEF SwitchOut, shared, TypeOK, States, Pcs
<1>2. StackExclusive'
  BY <1>0, ProcAssumption DEF SwitchOut, shared, StackExclusive, TypeOK
<1>3. PcOfState'
  BY <1>0, ProcAssumption DEF SwitchOut, shared, PcOfState, TypeOK
<1>4. ChildOfFork'
  BY <1>0, ProcAssumption DEF SwitchOut, shared, ChildOfFork, TypeOK
<1>5. InitLives'
  BY <1>0, ProcAssumption DEF SwitchOut, shared, InitLives, Live, TypeOK
<1>6. Adopted'
  BY <1>0, ProcAssumption DEF SwitchOut, shared, Adopted, Live, TypeOK
<1>7. Reparenting'
  BY <1>0, ProcAssumption DEF SwitchOut, shared, Reparenting, Children, TypeOK
<1>8. Scanned'
  BY <1>0, ProcAssumption DEF SwitchOut, shared, Scanned, Children, TypeOK
<1>9. ParentAwake'
  BY <1>0, ProcAssumption DEF SwitchOut, shared, ParentAwake, TypeOK
<1> QED
  BY <1>1, <1>2, <1>3, <1>4, <1>5, <1>6, <1>7, <1>8, <1>9 DEF ProcInv

\* A timer interrupt sends the process to the scheduler.
LEMMA YieldInv ==
  ASSUME ProcInv, NEW p \in Slots, Yield(p)
  PROVE  ProcInv'
<1>0. TypeOK /\ StackExclusive /\ PcOfState /\ ChildOfFork /\ InitLives
      /\ Adopted /\ Reparenting /\ Scanned /\ ParentAwake
  BY DEF ProcInv
<1>1. TypeOK'
  BY <1>0, ProcAssumption DEF Yield, Executing, shared, TypeOK, States, Pcs
<1>2. StackExclusive'
  BY <1>0, ProcAssumption DEF Yield, Executing, shared, StackExclusive, TypeOK
<1>3. PcOfState'
  BY <1>0, ProcAssumption DEF Yield, Executing, shared, PcOfState, TypeOK
<1>4. ChildOfFork'
  BY <1>0, ProcAssumption DEF Yield, Executing, shared, ChildOfFork, TypeOK
<1>5. InitLives'
  BY <1>0, ProcAssumption DEF Yield, Executing, shared, InitLives, Live, TypeOK
<1>6. Adopted'
  BY <1>0, ProcAssumption DEF Yield, Executing, shared, Adopted, Live, TypeOK
<1>7. Reparenting'
  BY <1>0, ProcAssumption DEF Yield, Executing, shared, Reparenting, Children, TypeOK
<1>8. Scanned'
  BY <1>0, ProcAssumption DEF Yield, Executing, shared, Scanned, Children, TypeOK
<1>9. ParentAwake'
  BY <1>0, ProcAssumption DEF Yield, Executing, shared, ParentAwake, TypeOK
<1> QED
  BY <1>1, <1>2, <1>3, <1>4, <1>5, <1>6, <1>7, <1>8, <1>9 DEF ProcInv

\* A kill wakes its victim.
LEMMA KillInv ==
  ASSUME ProcInv, NEW p \in Slots, Kill(p)
  PROVE  ProcInv'
<1>0. TypeOK /\ StackExclusive /\ PcOfState /\ ChildOfFork /\ InitLives
      /\ Adopted /\ Reparenting /\ Scanned /\ ParentAwake
  BY DEF ProcInv
<1>1. TypeOK'
  BY <1>0, ProcAssumption DEF Kill, shared, TypeOK, States, Pcs
<1>2. StackExclusive'
  BY <1>0, ProcAssumption DEF Kill, shared, StackExclusive, TypeOK
<1>3. PcOfState'
  BY <1>0, ProcAssumption DEF Kill, shared, PcOfState, TypeOK
<1>4. ChildOfFork'
  BY <1>0, ProcAssumption DEF Kill, shared, ChildOfFork, TypeOK
<1>5. InitLives'
  BY <1>0, ProcAssumption DEF Kill, shared, InitLives, Live, TypeOK
<1>6. Adopted'
  BY <1>0, ProcAssumption DEF Kill, shared, Adopted, Live, TypeOK
<1>7. Reparenting'
  BY <1>0, ProcAssumption DEF Kill, shared, Reparenting, Children, TypeOK
<1>8. Scanned'
  BY <1>0, ProcAssumption DEF Kill, shared, Scanned, Children, TypeOK
<1>9. ParentAwake'
  BY <1>0, ProcAssumption DEF Kill, shared, ParentAwake, TypeOK
<1> QED
  BY <1>1, <1>2, <1>3, <1>4, <1>5, <1>6, <1>7, <1>8, <1>9 DEF ProcInv

\* A process starts to exit.
LEMMA ExitInv ==
  ASSUME ProcInv, NEW p \in Slots, Exit(p)
  PROVE  ProcInv'
<1>0. TypeOK /\ StackExclusive /\ PcOfState /\ ChildOfFork /\ InitLives
      /\ Adopted /\ Reparenting /\ Scanned /\ ParentAwake
  BY DEF ProcInv
<1>1. TypeOK'
  BY <1>0, ProcAssumption DEF Exit, At, Executing, Goto, shared, TypeOK, States, Pcs
<1>2. StackExclusive'
  BY <1>0, ProcAssumption DEF Exit, At, Executing, Goto, shared, StackExclusive,
     TypeOK
<1>3. PcOfState'
  BY <1>0, ProcAssumption DEF Exit, At, Executing, Goto, shared, PcOfState, TypeOK
<1>4. ChildOfFork'
  BY <1>0, ProcAssumption DEF Exit, At, Executing, Goto, shared, ChildOfFork, TypeOK
<1>5. InitLives'
  BY <1>0, ProcAssumption DEF Exit, At, Executing, Goto, shared, InitLives, Live,
     TypeOK
<1>6. Adopted'
  BY <1>0, ProcAssumption DEF Exit, At, Executing, Goto, shared, Adopted, Live, TypeOK
<1>7. Reparenting'
  BY <1>0, ProcAssumption DEF Exit, At, Executing, Goto, shared, Reparenting,
     Children, TypeOK
<1>8. Scanned'
  BY <1>0, ProcAssumption DEF Exit, At, Executing, Goto, shared, Scanned, Children,
     TypeOK
<1>9. ParentAwake'
  BY <1>0, ProcAssumption DEF Exit, At, Executing, Goto, shared, ParentAwake, TypeOK
<1> QED
  BY <1>1, <1>2, <1>3, <1>4, <1>5, <1>6, <1>7, <1>8, <1>9 DEF ProcInv

\* A process starts to wait.
LEMMA WaitInv ==
  ASSUME ProcInv, NEW p \in Slots, Wait(p)
  PROVE  ProcInv'
<1>0. TypeOK /\ StackExclusive /\ PcOfState /\ ChildOfFork /\ InitLives
      /\ Adopted /\ Reparenting /\ Scanned /\ ParentAwake
  BY DEF ProcInv
<1>1. TypeOK'
  BY <1>0, ProcAssumption DEF Wait, At, Executing, Goto, shared, TypeOK, States, Pcs
<1>2. StackExclusive'
  BY <1>0, ProcAssumption DEF Wait, At, Executing, Goto, shared, StackExclusive,
     TypeOK
<1>3. PcOfState'
  BY <1>0, ProcAssumption DEF Wait, At, Executing, Goto, shared, PcOfState, TypeOK
<1>4. ChildOfFork'
  BY <1>0, ProcAssumption DEF Wait, At, Executing, Goto, shared, ChildOfFork, TypeOK
<1>5. InitLives'
  BY <1>0, ProcAssumption DEF Wait, At, Executing, Goto, shared, InitLives, Live,
     TypeOK
<1>6. Adopted'
  BY <1>0, ProcAssumption DEF Wait, At, Executing, Goto, shared, Adopted, Live, TypeOK
<1>7. Reparenting'
  BY <1>0, ProcAssumption DEF Wait, At, Executing, Goto, shared, Reparenting,
     Children, TypeOK
<1>8. Scanned'
  BY <1>0, ProcAssumption DEF Wait, At, Executing, Goto, shared, Scanned, Children,
     TypeOK
<1>9. ParentAwake'
  BY <1>0, ProcAssumption DEF Wait, At, Executing, Goto, shared, ParentAwake, TypeOK
<1> QED
  BY <1>1, <1>2, <1>3, <1>4, <1>5, <1>6, <1>7, <1>8, <1>9 DEF ProcInv

\* kfork() takes a free slot.
LEMMA ForkInv ==
  ASSUME ProcInv, NEW p \in Slots, NEW q \in Slots, Fork(p, q)
  PROVE  ProcInv'
<1>0. TypeOK /\ StackExclusive /\ PcOfState /\ ChildOfFork /\ InitLives
      /\ Adopted /\ Reparenting /\ Scanned /\ ParentAwake
  BY DEF ProcInv
<1>1. TypeOK'
  BY <1>0, ProcAssumption DEF Fork, At, Executing, Goto, shared, TypeOK, States, Pcs
<1>2. StackExclusive'
  BY <1>0, ProcAssumption DEF Fork, At, Executing, Goto, shared, StackExclusive,
     TypeOK
<1>3. PcOfState'
  BY <1>0, ProcAssumption DEF Fork, At, Executing, Goto, shared, PcOfState, TypeOK
<1>4. ChildOfFork'
  BY <1>0, ProcAssumption DEF Fork, At, Executing, Goto, shared, ChildOfFork, TypeOK
<1>5. InitLives'
  BY <1>0, ProcAssumption DEF Fork, At, Executing, Goto, shared, InitLives, Live,
     TypeOK
<1>6. Adopted'
  BY <1>0, ProcAssumption DEF Fork, At, Executing, Goto, shared, Adopted, Live, TypeOK
<1>7. Reparenting'
  BY <1>0, ProcAssumption DEF Fork, At, Executing, Goto, shared, Reparenting,
     Children, TypeOK
<1>8. Scanned'
  BY <1>0, ProcAssumption DEF Fork, At, Executing, Goto, shared, Scanned, Children,
     TypeOK
<1>9. ParentAwake'
  BY <1>0, ProcAssumption DEF Fork, At, Executing, Goto, shared, ParentAwake, TypeOK
<1> QED
  BY <1>1, <1>2, <1>3, <1>4, <1>5, <1>6, <1>7, <1>8, <1>9 DEF ProcInv

\* The child gets its parent, under wait_lock.
LEMMA ForkParentInv ==
  ASSUME ProcInv, NEW p \in Slots, ForkParent(p)
  PROVE  ProcInv'
<1>0. TypeOK /\ StackExclusive /\ PcOfState /\ ChildOfFork /\ InitLives
      /\ Adopted /\ Reparenting /\ Scanned /\ ParentAwake
  BY DEF ProcInv
<1>1. TypeOK'
  BY <1>0, ProcAssumption DEF ForkParent, At, Executing, Goto, shared, TypeOK, States,
     Pcs
<1>2. StackExclusive'
  BY <1>0, ProcAssumption DEF ForkParent, At, Executing, Goto, shared, StackExclusive,
     TypeOK
<1>3. PcOfState'
  BY <1>0, ProcAssumption DEF ForkParent, At, Executing, Goto, shared, PcOfState,
     TypeOK
<1>4. ChildOfFork'
  BY <1>0, ProcAssumption DEF ForkParent, At, Executing, Goto, shared, ChildOfFork,
     TypeOK
<1>5. InitLives'
  BY <1>0, ProcAssumption DEF ForkParent, At, Executing, Goto, shared, InitLives,
     Live, TypeOK
<1>6. Adopted'
  BY <1>0, ProcAssumption DEF ForkParent, At, Executing, Goto, shared, Adopted, Live,
     TypeOK
<1>7. Reparenting'
  BY <1>0, ProcAssumption DEF ForkParent, At, Executing, Goto, shared, Reparenting,
     Children, TypeOK
<1>8. Scanned'
  BY <1>0, ProcAssumption DEF ForkParent, At, Executing, Goto, shared, Scanned,
     Children, TypeOK
<1>9. ParentAwake'
  BY <1>0, ProcAssumption DEF ForkParent, At, Executing, Goto, shared, ParentAwake,
     TypeOK
<1> QED
  BY <1>1, <1>2, <1>3, <1>4, <1>5, <1>6, <1>7, <1>8, <1>9 DEF ProcInv

\* The child can run.
LEMMA ForkRunInv ==
  ASSUME ProcInv, NEW p \in Slots, ForkRun(p)
  PROVE  ProcInv'
<1>0. TypeOK /\ StackExclusive /\ PcOfState /\ ChildOfFork /\ InitLives
      /\ Adopted /\ Reparenting /\ Scanned /\ ParentAwake
  BY DEF ProcInv
<1>1. TypeOK'
  BY <1>0, ProcAssumption DEF ForkRun, At, Executing, Goto, shared, TypeOK, States,
     Pcs, PcOfState, ChildOfFork
<1>2. StackExclusive'
  BY <1>0, ProcAssumption DEF ForkRun, At, Executing, Goto, shared, StackExclusive,
     TypeOK, PcOfState, ChildOfFork
<1>3. PcOfState'
  BY <1>0, ProcAssumption DEF ForkRun, At, Executing, Goto, shared, PcOfState, TypeOK,
     StackExclusive, ChildOfFork
<1>4. ChildOfFork'
  BY <1>0, ProcAssumption DEF ForkRun, At, Executing, Goto, shared, ChildOfFork,
     TypeOK
<1>5. InitLives'
  BY <1>0, ProcAssumption DEF ForkRun, At, Executing, Goto, shared, InitLives, Live,
     TypeOK
<1>6. Adopted'
  BY <1>0, ProcAssumption DEF ForkRun, At, Executing, Goto, shared, Adopted, Live,
     TypeOK, PcOfState, ChildOfFork, InitLives, Reparenting, Children
<1>7. Reparenting'
  BY <1>0, ProcAssumption DEF ForkRun, At, Executing, Goto, shared, Reparenting,
     Children, TypeOK
<1>8. Scanned'
  BY <1>0, ProcAssumption DEF ForkRun, At, Executing, Goto, shared, Scanned, Children,
     TypeOK
<1>9. ParentAwake'
  BY <1>0, ProcAssumption DEF ForkRun, At, Executing, Goto, shared, ParentAwake,
     TypeOK
<1> QED
  BY <1>1, <1>2, <1>3, <1>4, <1>5, <1>6, <1>7, <1>8, <1>9 DEF ProcInv

\* kexit() takes wait_lock.
LEMMA ExitLockInv ==
  ASSUME ProcInv, NEW p \in Slots, ExitLock(p)
  PROVE  ProcInv'
<1>0. TypeOK /\ StackExclusive /\ PcOfState /\ ChildOfFork /\ InitLives
      /\ Adopted /\ Reparenting /\ Scanned /\ ParentAwake
  BY DEF ProcInv
<1>1. TypeOK'
  BY <1>0, ProcAssumption DEF ExitLock, At, Executing, Goto, shared, TypeOK, States,
     Pcs, Children
<1>2. StackExclusive'
  BY <1>0, ProcAssumption DEF ExitLock, At, Executing, Goto, shared, StackExclusive,
     TypeOK
<1>3. PcOfState'
  BY <1>0, ProcAssumption DEF ExitLock, At, Executing, Goto, shared, PcOfState, TypeOK
<1>4. ChildOfFork'
  BY <1>0, ProcAssumption DEF ExitLock, At, Executing, Goto, shared, ChildOfFork,
     TypeOK
<1>5. InitLives'
  BY <1>0, ProcAssumption DEF ExitLock, At, Executing, Goto, shared, InitLives, Live,
     TypeOK
<1>6. Adopted'
  BY <1>0, ProcAssumption DEF ExitLock, At, Executing, Goto, shared, Adopted, Live,
     TypeOK
<1>7. Reparenting'
  BY <1>0, ProcAssumption DEF ExitLock, At, Executing, Goto, shared, Reparenting,
     Children, TypeOK
<1>8. Scanned'
  BY <1>0, ProcAssumption DEF ExitLock, At, Executing, Goto, shared, Scanned,
     Children, TypeOK
<1>9. ParentAwake'
  BY <1>0, ProcAssumption DEF ExitLock, At, Executing, Goto, shared, ParentAwake,
     TypeOK
<1> QED
  BY <1>1, <1>2, <1>3, <1>4, <1>5, <1>6, <1>7, <1>8, <1>9 DEF ProcInv

\* init adopts a child and is awake.
LEMMA ReparentInv ==
  ASSUME ProcInv, NEW p \in Slots, NEW k \in Slots, Reparent(p, k)
  PROVE  ProcInv'
<1>0. TypeOK /\ StackExclusive /\ PcOfState /\ ChildOfFork /\ InitLives
      /\ Adopted /\ Reparenting /\ Scanned /\ ParentAwake
  BY DEF ProcInv
<1>1. TypeOK'
  BY <1>0, ProcAssumption DEF Reparent, At, Executing, Wakeup, shared, TypeOK, States,
     Pcs
<1>2. StackExclusive'
  BY <1>0, ProcAssumption DEF Reparent, At, Executing, Wakeup, shared, StackExclusive,
     TypeOK
<1>3. PcOfState'
  BY <1>0, ProcAssumption DEF Reparent, At, Executing, Wakeup, shared, PcOfState,
     TypeOK
<1>4. ChildOfFork'
  BY <1>0, ProcAssumption DEF Reparent, At, Executing, Wakeup, shared, ChildOfFork,
     TypeOK
<1>5. InitLives'
  BY <1>0, ProcAssumption DEF Reparent, At, Executing, Wakeup, shared, InitLives,
     Live, TypeOK
<1>6. Adopted'
  BY <1>0, ProcAssumption DEF Reparent, At, Executing, Wakeup, shared, Adopted, Live,
     TypeOK, PcOfState, ChildOfFork, InitLives, Reparenting, Children
<1>7. Reparenting'
  BY <1>0, ProcAssumption DEF Reparent, At, Executing, Wakeup, shared, Reparenting,
     Children, TypeOK, PcOfState, InitLives
<1>8. Scanned'
  BY <1>0, ProcAssumption DEF Reparent, At, Executing, Wakeup, shared, Scanned,
     Children, TypeOK, PcOfState, ChildOfFork
<1>9. ParentAwake'
  BY <1>0, ProcAssumption DEF Reparent, At, Executing, Wakeup, shared, ParentAwake,
     TypeOK, PcOfState, ChildOfFork, Scanned, Children
<1> QED
  BY <1>1, <1>2, <1>3, <1>4, <1>5, <1>6, <1>7, <1>8, <1>9 DEF ProcInv

\* The parent of the exiting process is awake.
LEMMA ExitWakeupInv ==
  ASSUME ProcInv, NEW p \in Slots, ExitWakeup(p)
  PROVE  ProcInv'
<1>0. TypeOK /\ StackExclusive /\ PcOfState /\ ChildOfFork /\ InitLives
      /\ Adopted /\ Reparenting /\ Scanned /\ ParentAwake
  BY DEF ProcInv
<1>1. TypeOK'
  BY <1>0, ProcAssumption DEF ExitWakeup, At, Executing, Goto, Wakeup, shared, TypeOK,
     States, Pcs
<1>2. StackExclusive'
  BY <1>0, ProcAssumption DEF ExitWakeup, At, Executing, Goto, Wakeup, shared,
     StackExclusive, TypeOK
<1>3. PcOfState'
  BY <1>0, ProcAssumption DEF ExitWakeup, At, Executing, Goto, Wakeup, shared,
     PcOfState, TypeOK
<1>4. ChildOfFork'
  BY <1>0, ProcAssumption DEF ExitWakeup, At, Executing, Goto, Wakeup, shared,
     ChildOfFork, TypeOK
<1>5. InitLives'
  BY <1>0, ProcAssumption DEF ExitWakeup, At, Executing, Goto, Wakeup, shared,
     InitLives, Live, TypeOK
<1>6. Adopted'
  BY <1>0, ProcAssumption DEF ExitWakeup, At, Executing, Goto, Wakeup, shared,
     Adopted, Live, TypeOK
<1>7. Reparenting'
  BY <1>0, ProcAssumption DEF ExitWakeup, At, Executing, Goto, Wakeup, shared,
     Reparenting, Children, TypeOK
<1>8. Scanned'
  BY <1>0, ProcAssumption DEF ExitWakeup, At, Executing, Goto, Wakeup, shared,
     Scanned, Children, TypeOK
<1>9. ParentAwake'
  BY <1>0, ProcAssumption DEF ExitWakeup, At, Executing, Goto, Wakeup, shared,
     ParentAwake, TypeOK, PcOfState, ChildOfFork, Scanned, Children
<1> QED
  BY <1>1, <1>2, <1>3, <1>4, <1>5, <1>6, <1>7, <1>8, <1>9 DEF ProcInv

\* The process is a zombie without children.
LEMMA ExitZombieInv ==
  ASSUME ProcInv, NEW p \in Slots, ExitZombie(p)
  PROVE  ProcInv'
<1>0. TypeOK /\ StackExclusive /\ PcOfState /\ ChildOfFork /\ InitLives
      /\ Adopted /\ Reparenting /\ Scanned /\ ParentAwake
  BY DEF ProcInv
<1>1. TypeOK'
  BY <1>0, ProcAssumption DEF ExitZombie, At, Executing, shared, TypeOK, States, Pcs
<1>2. StackExclusive'
  BY <1>0, ProcAssumption DEF ExitZombie, At, Executing, shared, StackExclusive,
     TypeOK
<1>3. PcOfState'
  BY <1>0, ProcAssumption DEF ExitZombie, At, Executing, shared, PcOfState, TypeOK
<1>4. ChildOfFork'
  BY <1>0, ProcAssumption DEF ExitZombie, At, Executing, shared, ChildOfFork, TypeOK
<1>5. InitLives'
  BY <1>0, ProcAssumption DEF ExitZombie, At, Executing, shared, InitLives, Live,
     TypeOK
<1>6. Adopted'
  BY <1>0, ProcAssumption DEF ExitZombie, At, Executing, shared, Adopted, Live,
     TypeOK, PcOfState, ChildOfFork, InitLives, Reparenting, Children
<1>7. Reparenting'
  BY <1>0, ProcAssumption DEF ExitZombie, At, Executing, shared, Reparenting,
     Children, TypeOK
<1>8. Scanned'
  BY <1>0, ProcAssumption DEF ExitZombie, At, Executing, shared, Scanned, Children,
     TypeOK, PcOfState, ChildOfFork
<1>9. ParentAwake'
  BY <1>0, ProcAssumption DEF ExitZombie, At, Executing, shared, ParentAwake, TypeOK
<1> QED
  BY <1>1, <1>2, <1>3, <1>4, <1>5, <1>6, <1>7, <1>8, <1>9 DEF ProcInv

\* kwait() takes wait_lock.
LEMMA WaitLockInv ==
  ASSUME ProcInv, NEW p \in Slots, WaitLock(p)
  PROVE  ProcInv'
<1>0. TypeOK /\ StackExclusive /\ PcOfState /\ ChildOfFork /\ InitLives
      /\ Adopted /\ Reparenting /\ Scanned /\ ParentAwake
  BY DEF ProcInv
<1>1. TypeOK'
  BY <1>0, ProcAssumption DEF WaitLock, At, Executing, Goto, shared, TypeOK, States,
     Pcs, Children
<1>2. StackExclusive'
  BY <1>0, ProcAssumption DEF WaitLock, At, Executing, Goto, shared, StackExclusive,
     TypeOK
<1>3. PcOfState'
  BY <1>0, ProcAssumption DEF WaitLock, At, Executing, Goto, shared, PcOfState, TypeOK
<1>4. ChildOfFork'
  BY <1>0, ProcAssumption DEF WaitLock, At, Executing, Goto, shared, ChildOfFork,
     TypeOK
<1>5. InitLives'
  BY <1>0, ProcAssumption DEF WaitLock, At, Executing, Goto, shared, InitLives, Live,
     TypeOK
<1>6. Adopted'
  BY <1>0, ProcAssumption DEF WaitLock, At, Executing, Goto, shared, Adopted, Live,
     TypeOK
<1>7. Reparenting'
  BY <1>0, ProcAssumption DEF WaitLock, At, Executing, Goto, shared, Reparenting,
     Children, TypeOK
<1>8. Scanned'
  BY <1>0, ProcAssumption DEF WaitLock, At, Executing, Goto, shared, Scanned,
     Children, TypeOK
<1>9. ParentAwake'
  BY <1>0, ProcAssumption DEF WaitLock, At, Executing, Goto, shared, ParentAwake,
     TypeOK
<1> QED
  BY <1>1, <1>2, <1>3, <1>4, <1>5, <1>6, <1>7, <1>8, <1>9 DEF ProcInv

\* A child that has not exited is passed over.
LEMMA WaitSkipInv ==
  ASSUME ProcInv, NEW p \in Slots, NEW k \in Slots, WaitSkip(p, k)
  PROVE  ProcInv'
<1>0. TypeOK /\ StackExclusive /\ PcOfState /\ ChildOfFork /\ InitLives
      /\ Adopted /\ Reparenting /\ Scanned /\ ParentAwake
  BY DEF ProcInv
<1>1. TypeOK'
  BY <1>0, ProcAssumption DEF WaitSkip, At, Executing, shared, TypeOK, States, Pcs
<1>2. StackExclusive'
  BY <1>0, ProcAssumption DEF WaitSkip, At, Executing, shared, StackExclusive, TypeOK
<1>3. PcOfState'
  BY <1>0, ProcAssumption DEF WaitSkip, At, Executing, shared, PcOfState, TypeOK
<1>4. ChildOfFork'
  BY <1>0, ProcAssumption DEF WaitSkip, At, Executing, shared, ChildOfFork, TypeOK
<1>5. InitLives'
  BY <1>0, ProcAssumption DEF WaitSkip, At, Executing, shared, InitLives, Live, TypeOK
<1>6. Adopted'
  BY <1>0, ProcAssumption DEF WaitSkip, At, Executing, shared, Adopted, Live, TypeOK
<1>7. Reparenting'
  BY <1>0, ProcAssumption DEF WaitSkip, At, Executing, shared, Reparenting, Children,
     TypeOK
<1>8. Scanned'
  BY <1>0, ProcAssumption DEF WaitSkip, At, Executing, shared, Scanned, Children,
     TypeOK
<1>9. ParentAwake'
  BY <1>0, ProcAssumption DEF WaitSkip, At, Executing, shared, ParentAwake, TypeOK
<1> QED
  BY <1>1, <1>2, <1>3, <1>4, <1>5, <1>6, <1>7, <1>8, <1>9 DEF ProcInv

\* The slot of a zombie becomes free.
LEMMA WaitReapInv ==
  ASSUME ProcInv, NEW p \in Slots, NEW k \in Slots, WaitReap(p, k)
  PROVE  ProcInv'
<1>0. TypeOK /\ StackExclusive /\ PcOfState /\ ChildOfFork /\ InitLives
      /\ Adopted /\ Reparenting /\ Scanned /\ ParentAwake
  BY DEF ProcInv
<1>1. TypeOK'
  BY <1>0, ProcAssumption DEF WaitReap, At, Executing, shared, TypeOK, States, Pcs,
     PcOfState
<1>2. StackExclusive'
  BY <1>0, ProcAssumption DEF WaitReap, At, Executing, shared, StackExclusive, TypeOK
<1>3. PcOfState'
  BY <1>0, ProcAssumption DEF WaitReap, At, Executing, shared, PcOfState, TypeOK
<1>4. ChildOfFork'
  BY <1>0, ProcAssumption DEF WaitReap, At, Executing, shared, ChildOfFork, TypeOK
<1>5. InitLives'
  BY <1>0, ProcAssumption DEF WaitReap, At, Executing, shared, InitLives, Live, TypeOK
<1>6. Adopted'
  BY <1>0, ProcAssumption DEF WaitReap, At, Executing, shared, Adopted, Live, TypeOK
<1>7. Reparenting'
  BY <1>0, ProcAssumption DEF WaitReap, At, Executing, shared, Reparenting, Children,
     TypeOK
<1>8. Scanned'
  BY <1>0, ProcAssumption DEF WaitReap, At, Executing, shared, Scanned, Children,
     TypeOK
<1>9. ParentAwake'
  BY <1>0, ProcAssumption DEF WaitReap, At, Executing, shared, ParentAwake, TypeOK
<1> QED
  BY <1>1, <1>2, <1>3, <1>4, <1>5, <1>6, <1>7, <1>8, <1>9 DEF ProcInv

\* The exit status cannot be copied out.
LEMMA WaitFaultInv ==
  ASSUME ProcInv, NEW p \in Slots, NEW k \in Slots, WaitFault(p, k)
  PROVE  ProcInv'
<1>0. TypeOK /\ StackExclusive /\ PcOfState /\ ChildOfFork /\ InitLives
      /\ Adopted /\ Reparenting /\ Scanned /\ ParentAwake
  BY DEF ProcInv
<1>1. TypeOK'
  BY <1>0, ProcAssumption DEF WaitFault, At, Executing, WaitReturn, Goto, shared,
     TypeOK, States, Pcs
<1>2. StackExclusive'
  BY <1>0, ProcAssumption DEF WaitFault, At, Executing, WaitReturn, Goto, shared,
     StackExclusive, TypeOK
<1>3. PcOfState'
  BY <1>0, ProcAssumption DEF WaitFault, At, Executing, WaitReturn, Goto, shared,
     PcOfState, TypeOK
<1>4. ChildOfFork'
  BY <1>0, ProcAssumption DEF WaitFault, At, Executing, WaitReturn, Goto, shared,
     ChildOfFork, TypeOK
<1>5. InitLives'
  BY <1>0, ProcAssumption DEF WaitFault, At, Executing, WaitReturn, Goto, shared,
     InitLives, Live, TypeOK
<1>6. Adopted'
  BY <1>0, ProcAssumption DEF WaitFault, At, Executing, WaitReturn, Goto, shared,
     Adopted, Live, TypeOK
<1>7. Reparenting'
  BY <1>0, ProcAssumption DEF WaitFault, At, Executing, WaitReturn, Goto, shared,
     Reparenting, Children, TypeOK
<1>8. Scanned'
  BY <1>0, ProcAssumption DEF WaitFault, At, Executing, WaitReturn, Goto, shared,
     Scanned, Children, TypeOK
<1>9. ParentAwake'
  BY <1>0, ProcAssumption DEF WaitFault, At, Executing, WaitReturn, Goto, shared,
     ParentAwake, TypeOK
<1> QED
  BY <1>1, <1>2, <1>3, <1>4, <1>5, <1>6, <1>7, <1>8, <1>9 DEF ProcInv

\* Nothing to wait for.
LEMMA WaitNoneInv ==
  ASSUME ProcInv, NEW p \in Slots, WaitNone(p)
  PROVE  ProcInv'
<1>0. TypeOK /\ StackExclusive /\ PcOfState /\ ChildOfFork /\ InitLives
      /\ Adopted /\ Reparenting /\ Scanned /\ ParentAwake
  BY DEF ProcInv
<1>1. TypeOK'
  BY <1>0, ProcAssumption DEF WaitNone, At, Executing, WaitReturn, Goto, shared,
     TypeOK, States, Pcs
<1>2. StackExclusive'
  BY <1>0, ProcAssumption DEF WaitNone, At, Executing, WaitReturn, Goto, shared,
     StackExclusive, TypeOK
<1>3. PcOfState'
  BY <1>0, ProcAssumption DEF WaitNone, At, Executing, WaitReturn, Goto, shared,
     PcOfState, TypeOK
<1>4. ChildOfFork'
  BY <1>0, ProcAssumption DEF WaitNone, At, Executing, WaitReturn, Goto, shared,
     ChildOfFork, TypeOK
<1>5. InitLives'
  BY <1>0, ProcAssumption DEF WaitNone, At, Executing, WaitReturn, Goto, shared,
     InitLives, Live, TypeOK
<1>6. Adopted'
  BY <1>0, ProcAssumption DEF WaitNone, At, Executing, WaitReturn, Goto, shared,
     Adopted, Live, TypeOK
<1>7. Reparenting'
  BY <1>0, ProcAssumption DEF WaitNone, At, Executing, WaitReturn, Goto, shared,
     Reparenting, Children, TypeOK
<1>8. Scanned'
  BY <1>0, ProcAssumption DEF WaitNone, At, Executing, WaitReturn, Goto, shared,
     Scanned, Children, TypeOK
<1>9. ParentAwake'
  BY <1>0, ProcAssumption DEF WaitNone, At, Executing, WaitReturn, Goto, shared,
     ParentAwake, TypeOK
<1> QED
  BY <1>1, <1>2, <1>3, <1>4, <1>5, <1>6, <1>7, <1>8, <1>9 DEF ProcInv

\* All children are alive: the process will sleep.
LEMMA WaitDecideInv ==
  ASSUME ProcInv, NEW p \in Slots, WaitDecide(p)
  PROVE  ProcInv'
<1>0. TypeOK /\ StackExclusive /\ PcOfState /\ ChildOfFork /\ InitLives
      /\ Adopted /\ Reparenting /\ Scanned /\ ParentAwake
  BY DEF ProcInv
<1>1. TypeOK'
  BY <1>0, ProcAssumption DEF WaitDecide, At, Executing, Goto, shared, TypeOK, States,
     Pcs
<1>2. StackExclusive'
  BY <1>0, ProcAssumption DEF WaitDecide, At, Executing, Goto, shared, StackExclusive,
     TypeOK
<1>3. PcOfState'
  BY <1>0, ProcAssumption DEF WaitDecide, At, Executing, Goto, shared, PcOfState,
     TypeOK
<1>4. ChildOfFork'
  BY <1>0, ProcAssumption DEF WaitDecide, At, Executing, Goto, shared, ChildOfFork,
     TypeOK
<1>5. InitLives'
  BY <1>0, ProcAssumption DEF WaitDecide, At, Executing, Goto, shared, InitLives,
     Live, TypeOK
<1>6. Adopted'
  BY <1>0, ProcAssumption DEF WaitDecide, At, Executing, Goto, shared, Adopted, Live,
     TypeOK
<1>7. Reparenting'
  BY <1>0, ProcAssumption DEF WaitDecide, At, Executing, Goto, shared, Reparenting,
     Children, TypeOK
<1>8. Scanned'
  BY <1>0, ProcAssumption DEF WaitDecide, At, Executing, Goto, shared, Scanned,
     Children, TypeOK
<1>9. ParentAwake'
  BY <1>0, ProcAssumption DEF WaitDecide, At, Executing, Goto, shared, ParentAwake,
     TypeOK
<1> QED
  BY <1>1, <1>2, <1>3, <1>4, <1>5, <1>6, <1>7, <1>8, <1>9 DEF ProcInv

\* The process sleeps, and gives wait_lock up.
LEMMA WaitSleepInv ==
  ASSUME ProcInv, NEW p \in Slots, WaitSleep(p)
  PROVE  ProcInv'
<1>0. TypeOK /\ StackExclusive /\ PcOfState /\ ChildOfFork /\ InitLives
      /\ Adopted /\ Reparenting /\ Scanned /\ ParentAwake
  BY DEF ProcInv
<1>1. TypeOK'
  BY <1>0, ProcAssumption DEF WaitSleep, At, Executing, Goto, shared, TypeOK, States,
     Pcs
<1>2. StackExclusive'
  BY <1>0, ProcAssumption DEF WaitSleep, At, Executing, Goto, shared, StackExclusive,
     TypeOK
<1>3. PcOfState'
  BY <1>0, ProcAssumption DEF WaitSleep, At, Executing, Goto, shared, PcOfState,
     TypeOK
<1>4. ChildOfFork'
  BY <1>0, ProcAssumption DEF WaitSleep, At, Executing, Goto, shared, ChildOfFork,
     TypeOK
<1>5. InitLives'
  BY <1>0, ProcAssumption DEF WaitSleep, At, Executing, Goto, shared, InitLives, Live,
     TypeOK
<1>6. Adopted'
  BY <1>0, ProcAssumption DEF WaitSleep, At, Executing, Goto, shared, Adopted, Live,
     TypeOK
<1>7. Reparenting'
  BY <1>0, ProcAssumption DEF WaitSleep, At, Executing, Goto, shared, Reparenting,
     Children, TypeOK
<1>8. Scanned'
  BY <1>0, ProcAssumption DEF WaitSleep, At, Executing, Goto, shared, Scanned,
     Children, TypeOK
<1>9. ParentAwake'
  BY <1>0, ProcAssumption DEF WaitSleep, At, Executing, Goto, shared, ParentAwake,
     TypeOK, PcOfState, ChildOfFork, Scanned, Children
<1> QED
  BY <1>1, <1>2, <1>3, <1>4, <1>5, <1>6, <1>7, <1>8, <1>9 DEF ProcInv

-----------------------------------------------------------------------------
\* userinit() leaves one process, init.
LEMMA InitInv == Init => ProcInv
<1> SUFFICES ASSUME Init PROVE ProcInv
  OBVIOUS
<1>1. TypeOK
  BY ProcAssumption DEF Init, TypeOK, States, Pcs
<1>2. StackExclusive /\ PcOfState /\ ChildOfFork
  BY ProcAssumption DEF Init, StackExclusive, PcOfState, ChildOfFork
<1>3. InitLives /\ Adopted /\ Reparenting /\ Scanned /\ ParentAwake
  BY ProcAssumption DEF Init, InitLives, Live, Adopted, Reparenting, Scanned, Children,
     ParentAwake
<1> QED
  BY <1>1, <1>2, <1>3 DEF ProcInv

\* Every step of the processes and of the schedulers preserves the invariant.
LEMMA NextInv == ProcInv /\ [Next]_vars => ProcInv'
<1> SUFFICES ASSUME ProcInv, [Next]_vars PROVE ProcInv'
  OBVIOUS
<1>1. CASE UNCHANGED vars
  BY <1>1 DEF vars, ProcInv, TypeOK, StackExclusive, PcOfState, ChildOfFork, InitLives,
     Live, Adopted, Reparenting, Scanned, Children, ParentAwake
<1>2. ASSUME NEW p \in Slots, ForkStep(p) \/ ExitStep(p) \/ WaitStep(p) PROVE ProcInv'
  BY <1>2, ForkParentInv, ForkRunInv, ExitLockInv, ReparentInv, ExitWakeupInv,
     ExitZombieInv, WaitLockInv, WaitSkipInv, WaitReapInv, WaitNoneInv, WaitDecideInv,
     WaitSleepInv DEF ForkStep, ExitStep, WaitStep
<1>3. CASE Next
  BY <1>2, <1>3, ScheduleInv, SwitchOutInv, YieldInv, KillInv, ExitInv, WaitInv, ForkInv,
     WaitFaultInv DEF Next
<1> QED
  BY <1>1, <1>3

\* ProcInv holds in every state of every behaviour.
THEOREM ProcInvariant == Spec => []ProcInv
<1> QED
  BY InitInv, NextInv, PTL DEF Spec

\* A kernel stack is used by one CPU at a time: p->lock is handed over in sched().
THEOREM StacksExclusive == Spec => []StackExclusive
<1>1. ProcInv => StackExclusive
  BY DEF ProcInv
<1> QED
  BY <1>1, ProcInvariant, PTL

\* kexit() strands no child, also when parent and child exit at the same time.
THEOREM OrphansAdopted == Spec => []NoOrphan
<1>1. ProcInv => NoOrphan
  BY DEF ProcInv, Adopted, NoOrphan
<1> QED
  BY <1>1, ProcInvariant, PTL

\* kwait() misses no exit: a sleeping parent has no zombie child.
THEOREM ExitsNotMissed == Spec => []NoMissedExit
<1>1. ProcInv => NoMissedExit
  BY DEF ProcInv, PcOfState, ParentAwake, NoMissedExit
<1> QED
  BY <1>1, ProcInvariant, PTL
=============================================================================
