------------------------------- MODULE Clock -------------------------------
(***************************************************************************)
(* Interrupts, spin locks and the clock of xv6: push_off() and pop_off()   *)
(* of spinlock.c, the traps of trap.c that the timer causes, sys_pause()   *)
(* and the switches of proc.c between a process and its CPU's scheduler,   *)
(* from start() and main() on.                                             *)
(*                                                                         *)
(* A kernel thread is a stack of frames; a timer interrupt pushes one, on  *)
(* the stack of whatever thread the CPU runs, wherever that thread is.     *)
(* push_off() and the test-and-set of acquire() are two steps, so that a   *)
(* CPU can be seen spinning with its interrupts off.                       *)
(***************************************************************************)
EXTENDS Integers, Sequences, FiniteSets

CONSTANTS
  NProc, NCpu,
  UINT,        \* bound: ticks counts modulo UINT, 2^32 in the code
  MaxN,        \* bound: the longest pause
  MaxKills     \* bound: processes killed

ASSUME ClockAssumption == /\ NProc \in Nat \ {0} /\ NCpu \in Nat \ {0}
                          /\ MaxN \in Nat /\ UINT \in Nat /\ MaxN < UINT
                          /\ MaxKills \in Nat

VARIABLES
  intr, noff, intena,       \* CPU -> SIE, and struct cpu
  cur,                      \* CPU -> the thread on it
  lock,                     \* lock -> the CPU that holds it, or NoCpu
  frame,                    \* thread -> its calls, the innermost first
  saved,                    \* process -> intena of its sched()
  state, killed,            \* struct proc
  started, first,           \* of main() and forkret()
  ticks, ticks0, n,         \* and the locals of sys_pause()
  lapsed                    \* process -> ticks since its pause began, at most n

cpuvars == <<intr, noff, intena>>
procvars == <<saved, state, killed>>
clockvars == <<ticks, ticks0, n, lapsed>>
bootvars == <<started, first>>
vars == <<cpuvars, cur, lock, frame, procvars, bootvars, clockvars>>

Procs == 1..NProc
Cpus == 0..(NCpu - 1)
NoCpu == NCpu
Sched(c) == NProc + 1 + c        \* the thread of scheduler() on c
Threads == Procs \cup {Sched(c) : c \in Cpus}
tickslock == 0
Locks == {tickslock} \cup Procs  \* p stands for p->lock

Killed(p) == p \in killed

Frame(l, i) == [at |-> l, i |-> i]

\* start(): every hart comes to main() with its interrupts off.
start ==
  /\ intr = [c \in Cpus |-> FALSE] /\ noff = [c \in Cpus |-> 0]
  /\ intena = [c \in Cpus |-> FALSE]
  /\ cur = [c \in Cpus |-> Sched(c)]
  /\ frame = [t \in Threads |-> <<Frame(IF t \in Procs THEN "forkret" ELSE "main", 1)>>]

Init ==
  /\ start
  /\ lock = [l \in Locks |-> NoCpu]
  /\ saved = [p \in Procs |-> FALSE]
  /\ state = [p \in Procs |-> "UNUSED"] /\ killed = {}
  /\ started = FALSE /\ first = TRUE
  /\ ticks = 0 /\ ticks0 = [p \in Procs |-> 0]
  /\ n = [p \in Procs |-> 0] /\ lapsed = [p \in Procs |-> 0]

-----------------------------------------------------------------------------
Top(c) == Head(frame[cur[c]])
At(c, l) == Top(c).at = l
AtProc(c, l) == cur[c] \in Procs /\ At(c, l)
GotoI(c, l, i) == frame' = [frame EXCEPT ![cur[c]] = <<Frame(l, i)>> \o Tail(@)]
Goto(c, l) == GotoI(c, l, Top(c).i)

PushOff(c) ==
  /\ intena' = [intena EXCEPT ![c] = IF noff[c] = 0 THEN intr[c] ELSE @]
  /\ noff' = [noff EXCEPT ![c] = @ + 1]
  /\ intr' = [intr EXCEPT ![c] = FALSE]

\* The end of acquire(): the lock is free and the CPU takes it.
Take(c, l) == lock[l] = NoCpu /\ lock' = [lock EXCEPT ![l] = c]

PopOff(c) ==
  /\ noff' = [noff EXCEPT ![c] = @ - 1]
  /\ intr' = [intr EXCEPT ![c] = @ \/ (noff[c] = 1 /\ intena[c])]
  /\ UNCHANGED intena

Release(c, l) ==
  /\ lock' = [lock EXCEPT ![l] = NoCpu]
  /\ PopOff(c)

\* The first half of acquire(), on the way from label a to label b.
Off(c, a, b) ==
  /\ At(c, a)
  /\ PushOff(c)
  /\ Goto(c, b)
  /\ UNCHANGED <<cur, lock, procvars, bootvars, clockvars>>

\* sched(): to the scheduler, to continue at label b.
Switch(c, b) ==
  /\ saved' = [saved EXCEPT ![cur[c]] = intena[c]]
  /\ cur' = [cur EXCEPT ![c] = Sched(c)]
  /\ Goto(c, b)

-----------------------------------------------------------------------------
(* main() and scheduler() *)
Boot(c) ==               \* ends with userinit()
  /\ At(c, "main") /\ c = 0
  /\ state' = [state EXCEPT ![1] = "RUNNABLE"]
  /\ started' = TRUE
  /\ Goto(c, "top")
  /\ UNCHANGED <<cpuvars, cur, lock, saved, killed, first, clockvars>>

BootWait(c) ==           \* the other harts wait for the first
  /\ At(c, "main") /\ c # 0 /\ started
  /\ Goto(c, "top")
  /\ UNCHANGED <<cpuvars, cur, lock, procvars, bootvars, clockvars>>

IntrOn(c) ==
  /\ At(c, "top")
  /\ intr' = [intr EXCEPT ![c] = TRUE]
  /\ Goto(c, "on")
  /\ UNCHANGED <<noff, intena, cur, lock, procvars, bootvars, clockvars>>

IntrOff(c) ==
  /\ At(c, "on")
  /\ intr' = [intr EXCEPT ![c] = FALSE]
  /\ GotoI(c, "scan", 1)
  /\ UNCHANGED <<noff, intena, cur, lock, procvars, bootvars, clockvars>>

ScanLock(c) ==
  /\ At(c, "scanlock")
  /\ Take(c, Top(c).i)
  /\ Goto(c, "look")
  /\ UNCHANGED <<cpuvars, cur, procvars, bootvars, clockvars>>

Run_NoIntena(c) ==       \* mutant: sched() does not restore intena
  LET p == Top(c).i
  IN  /\ At(c, "look") /\ state[p] = "RUNNABLE"
      /\ state' = [state EXCEPT ![p] = "RUNNING"]
      /\ cur' = [cur EXCEPT ![c] = p]
      /\ Goto(c, "back")
      /\ UNCHANGED <<cpuvars, lock, saved, killed, bootvars, clockvars>>

\* swtch() to p; the end of sched() restores its intena, forkret() has none.
Run(c) ==
  LET p == Top(c).i
  IN  /\ At(c, "look") /\ state[p] = "RUNNABLE"
      /\ state' = [state EXCEPT ![p] = "RUNNING"]
      /\ cur' = [cur EXCEPT ![c] = p]
      /\ intena' = [intena EXCEPT ![c] = IF Head(frame[p]).at = "forkret" THEN @ ELSE saved[p]]
      /\ saved' = [saved EXCEPT ![p] = FALSE]
      /\ Goto(c, "back")
      /\ UNCHANGED <<intr, noff, lock, killed, bootvars, clockvars>>

ScanNext(c) ==
  LET p == Top(c).i
  IN  /\ At(c, "back") \/ (At(c, "look") /\ state[p] # "RUNNABLE")
      /\ Release(c, p)
      /\ IF p < NProc THEN GotoI(c, "scan", p + 1) ELSE Goto(c, "top")
      /\ UNCHANGED <<cur, procvars, bootvars, clockvars>>

-----------------------------------------------------------------------------
(* Processes: forkret(), usertrap() and sys_pause() *)
Forkret(c) ==
  /\ AtProc(c, "forkret")
  /\ Release(c, cur[c])
  /\ Goto(c, IF first THEN "fsinit" ELSE "ret")
  /\ UNCHANGED <<cur, procvars, bootvars, clockvars>>

\* The first process has fsinit() done and its program loaded.
Fsinit(c) ==
  /\ AtProc(c, "fsinit")
  /\ first' = FALSE
  /\ Goto(c, "ret")
  /\ UNCHANGED <<cpuvars, cur, lock, procvars, started, clockvars>>

\* kfork(), as far as the child is concerned: module Proc has the rest.
Fork(c, p) ==
  /\ AtProc(c, "user")
  /\ state[p] = "UNUSED" /\ lock[p] = NoCpu
  /\ state' = [state EXCEPT ![p] = "RUNNABLE"]
  /\ UNCHANGED <<cpuvars, cur, lock, frame, saved, killed, bootvars, clockvars>>

\* The end of usertrap(): kexit() if killed, else prepare_return() and sret.
ReturnToUser(c) ==
  /\ AtProc(c, "ret")
  /\ IF Killed(cur[c])
     THEN Goto(c, "exit") /\ UNCHANGED intr
     ELSE Goto(c, "user") /\ intr' = [intr EXCEPT ![c] = TRUE]
  /\ UNCHANGED <<noff, intena, cur, lock, procvars, bootvars, clockvars>>

\* ecall, to the first acquire() of sys_pause(k); usertrap() exits if killed.
Pause(c, k) ==
  LET p == cur[c]
  IN  /\ AtProc(c, "user")
      /\ IF Killed(p)
         THEN Goto(c, "exit") /\ UNCHANGED n
         ELSE /\ Goto(c, "pause")
              /\ n' = [n EXCEPT ![p] = IF k < 0 THEN 0 ELSE k]
      /\ UNCHANGED <<cpuvars, cur, lock, procvars, bootvars, ticks, ticks0, lapsed>>

PauseStart(c) ==
  /\ AtProc(c, "pauselock")
  /\ Take(c, tickslock)
  /\ ticks0' = [ticks0 EXCEPT ![cur[c]] = ticks]
  /\ lapsed' = [lapsed EXCEPT ![cur[c]] = 0]
  /\ Goto(c, "test")
  /\ UNCHANGED <<cpuvars, cur, procvars, bootvars, ticks, n>>

PauseAgain(c) ==
  /\ AtProc(c, "againlock")
  /\ Take(c, tickslock)
  /\ Goto(c, "test")
  /\ UNCHANGED <<cpuvars, cur, procvars, bootvars, clockvars>>

Waits_Compare(p) == ticks < (ticks0[p] + n[p]) % UINT    \* mutant: not a difference

\* ticks - ticks0 < n, on uints
Waits(p) == (ticks - ticks0[p]) % UINT < n[p]

\* The loop ends, or the process is killed: both release and return.  The
\* locals are gone.
PauseEnd(c) ==
  /\ AtProc(c, "test")
  /\ ~Waits(cur[c]) \/ Killed(cur[c])
  /\ Release(c, tickslock)
  /\ ticks0' = [ticks0 EXCEPT ![cur[c]] = 0]
  /\ n' = [n EXCEPT ![cur[c]] = 0]
  /\ lapsed' = [lapsed EXCEPT ![cur[c]] = 0]
  /\ Goto(c, "ret")
  /\ UNCHANGED <<cur, procvars, bootvars, ticks>>

\* sleep(): push_off() of acquire(&p->lock), with tickslock held.
PauseSleep(c) ==
  /\ AtProc(c, "test") /\ Waits(cur[c]) /\ ~Killed(cur[c])
  /\ PushOff(c)
  /\ Goto(c, "sleeplock")
  /\ UNCHANGED <<cur, lock, procvars, bootvars, clockvars>>

\* The rest of sleep(), under p->lock: release(&tickslock) and sched().
Sleep(c) ==
  /\ AtProc(c, "sleep")
  /\ Release(c, tickslock)
  /\ state' = [state EXCEPT ![cur[c]] = "SLEEPING"]
  /\ Switch(c, "woken")
  /\ UNCHANGED <<killed, bootvars, clockvars>>

SleepLock(c) ==
  /\ AtProc(c, "sleeplock")
  /\ Take(c, cur[c])
  /\ Goto(c, "sleep")
  /\ UNCHANGED <<cpuvars, cur, procvars, bootvars, clockvars>>

Woken_KeepLock(c) ==     \* mutant: reacquires tickslock before it releases p->lock
  AtProc(c, "woken") /\ Off(c, "woken", "againlock")

Woken(c) ==
  /\ AtProc(c, "woken")
  /\ Release(c, cur[c])
  /\ Goto(c, "again")
  /\ UNCHANGED <<cur, procvars, bootvars, clockvars>>

\* The end of kexit(): the parent's side is the subject of module Proc.
Exit(c) ==
  /\ AtProc(c, "exitlock")
  /\ Take(c, cur[c])
  /\ state' = [state EXCEPT ![cur[c]] = "ZOMBIE"]
  /\ Switch(c, "zombie")
  /\ UNCHANGED <<cpuvars, killed, bootvars, clockvars>>

\* kkill() of p, by a process outside the model, under p->lock.
Kill(p) ==
  /\ lock[p] = NoCpu
  /\ p \notin killed /\ state[p] \notin {"UNUSED", "ZOMBIE"} /\ Cardinality(killed) < MaxKills
  /\ killed' = killed \cup {p}
  /\ state' = [state EXCEPT ![p] = IF @ = "SLEEPING" THEN "RUNNABLE" ELSE @]
  /\ UNCHANGED <<cpuvars, cur, lock, frame, saved, bootvars, clockvars>>

-----------------------------------------------------------------------------
(* The timer: usertrap() or kerneltrap(), devintr(), clockintr() *)
Interrupt(c) ==
  /\ intr[c]
  /\ intr' = [intr EXCEPT ![c] = FALSE]
  /\ frame' = [frame EXCEPT ![cur[c]] = <<Frame("trap", 1)>> \o @]
  /\ UNCHANGED <<noff, intena, cur, lock, procvars, bootvars, clockvars>>

\* Only CPU 0 counts ticks.
OtherClock(c) ==
  /\ c # 0
  /\ At(c, "trap")
  /\ Goto(c, "timer")
  /\ UNCHANGED <<cpuvars, cur, lock, procvars, bootvars, clockvars>>

Tick(c) ==
  /\ At(c, "ticklock")
  /\ Take(c, tickslock)
  /\ ticks' = (ticks + 1) % UINT
  /\ lapsed' = [p \in Procs |-> IF lapsed[p] < n[p] THEN lapsed[p] + 1 ELSE n[p]]
  /\ GotoI(c, "wake", 1)
  /\ UNCHANGED <<cpuvars, cur, procvars, bootvars, ticks0, n>>

Wakeup_Last(c) ==        \* mutant: the loop misses the last slot
  LET p == Top(c).i
  IN  /\ At(c, "wake") /\ p <= NProc
      /\ p # cur[c] => lock[p] = NoCpu
      /\ state' = [state EXCEPT ![p] = IF p # cur[c] /\ p # NProc /\ @ = "SLEEPING"
                                       THEN "RUNNABLE" ELSE @]
      /\ GotoI(c, "wake", p + 1)
      /\ UNCHANGED <<cpuvars, cur, lock, saved, killed, bootvars, clockvars>>

\* One round of wakeup(&ticks), which takes p->lock but not the caller's own.
Wakeup(c) ==
  LET p == Top(c).i
  IN  /\ At(c, "wake") /\ p <= NProc
      /\ p # cur[c] => lock[p] = NoCpu
      /\ state' = [state EXCEPT ![p] = IF p # cur[c] /\ @ = "SLEEPING"
                                       THEN "RUNNABLE" ELSE @]
      /\ GotoI(c, "wake", p + 1)
      /\ UNCHANGED <<cpuvars, cur, lock, saved, killed, bootvars, clockvars>>

TickEnd(c) ==
  /\ At(c, "wake") /\ Top(c).i > NProc
  /\ Release(c, tickslock)
  /\ Goto(c, "timer")
  /\ UNCHANGED <<cur, procvars, bootvars, clockvars>>

\* usertrap() exits here if the process is killed; both then yield().
InUser(c) == Len(frame[cur[c]]) = 2 /\ frame[cur[c]][2].at = "user"

TrapExit(c) ==
  /\ At(c, "timer") /\ InUser(c) /\ Killed(cur[c])
  /\ frame' = [frame EXCEPT ![cur[c]] = <<Frame("exit", 1)>>]
  /\ UNCHANGED <<cpuvars, cur, lock, procvars, bootvars, clockvars>>

TrapYield(c) ==
  /\ AtProc(c, "timer") /\ ~(InUser(c) /\ Killed(cur[c]))
  /\ Off(c, "timer", "yieldlock")

NoYield(c) ==            \* myproc() == 0
  /\ At(c, "timer") /\ cur[c] \notin Procs
  /\ Goto(c, "trapret")
  /\ UNCHANGED <<cpuvars, cur, lock, procvars, bootvars, clockvars>>

Yield(c) ==
  /\ AtProc(c, "yieldlock")
  /\ Take(c, cur[c])
  /\ state' = [state EXCEPT ![cur[c]] = "RUNNABLE"]
  /\ Switch(c, "yielded")
  /\ UNCHANGED <<cpuvars, killed, bootvars, clockvars>>

Yielded(c) ==
  /\ AtProc(c, "yielded")
  /\ Release(c, cur[c])
  /\ Goto(c, "trapret")
  /\ UNCHANGED <<cur, procvars, bootvars, clockvars>>

\* The saved sstatus, or prepare_return()'s, enables interrupts again.
TrapReturn(c) ==
  /\ At(c, "trapret")
  /\ frame' = [frame EXCEPT ![cur[c]] = Tail(@)]
  /\ intr' = [intr EXCEPT ![c] = TRUE]
  /\ UNCHANGED <<noff, intena, cur, lock, procvars, bootvars, clockvars>>

-----------------------------------------------------------------------------
\* The push_off() half of the acquire()s that start a critical section.
Acquire(c) ==
  \/ Off(c, "scan", "scanlock")
  \/ Off(c, "pause", "pauselock")
  \/ Off(c, "again", "againlock")
  \/ Off(c, "exit", "exitlock")
  \/ c = 0 /\ Off(c, "trap", "ticklock")

Scheduler(c) == Boot(c) \/ BootWait(c) \/ IntrOn(c) \/ IntrOff(c) \/ ScanLock(c) \/ Run(c) \/ ScanNext(c)

Process(c) ==
  \/ Forkret(c) \/ Fsinit(c) \/ \E p \in Procs : Fork(c, p)
  \/ ReturnToUser(c) \/ \E k \in -1..MaxN : Pause(c, k)
  \/ PauseStart(c) \/ PauseAgain(c) \/ PauseEnd(c) \/ PauseSleep(c)
  \/ SleepLock(c) \/ Sleep(c) \/ Woken(c) \/ Exit(c)

Trap(c) ==
  \/ Interrupt(c) \/ OtherClock(c) \/ Tick(c) \/ Wakeup(c) \/ TickEnd(c)
  \/ TrapExit(c) \/ TrapYield(c) \/ NoYield(c) \/ Yield(c) \/ Yielded(c)
  \/ TrapReturn(c)

Next ==
  \/ \E c \in Cpus : Acquire(c) \/ Scheduler(c) \/ Process(c) \/ Trap(c)
  \/ \E p \in Procs : Kill(p)

Spec == Init /\ [][Next]_vars

-----------------------------------------------------------------------------
Holding(c, l) == lock[l] = c

\* The lock that c spins on, or none.
Spins(c) ==
  CASE Top(c).at \in {"pauselock", "againlock", "ticklock"} -> {tickslock}
    [] Top(c).at \in {"sleeplock", "yieldlock", "exitlock"} -> {cur[c]}
    [] Top(c).at = "scanlock" -> {Top(c).i}
    [] OTHER -> {}

\* The same, with the locks wakeup() takes.
Wants(c) == Spins(c) \cup (IF At(c, "wake") THEN {Top(c).i} \cap (Procs \ {cur[c]}) ELSE {})

\* The locks that the code at c's place counts on holding.
Needs(c) ==
  CASE Top(c).at \in {"test", "sleeplock", "wake"} -> {tickslock}
    [] Top(c).at = "sleep" -> {tickslock, cur[c]}
    [] Top(c).at \in {"forkret", "woken", "yielded"} -> {cur[c]}
    [] Top(c).at \in {"look", "back"} -> {Top(c).i}
    [] OTHER -> {}

\* Where a thread can be: in scheduler(), in a process, in a trap handler.
SchedPlaces == {"main", "top", "on", "scan", "scanlock", "look", "back"}
ProcPlaces == {"forkret", "fsinit", "ret", "user", "exit", "exitlock", "zombie",
               "pause", "pauselock", "test", "sleeplock", "sleep", "woken", "again",
               "againlock"}
TrapPlaces == {"trap", "ticklock", "wake", "timer", "yieldlock", "yielded", "trapret"}
Places == SchedPlaces \cup ProcPlaces \cup TrapPlaces

TypeOK ==
  /\ intr \in [Cpus -> BOOLEAN] /\ intena \in [Cpus -> BOOLEAN]
  /\ noff \in [Cpus -> Nat]
  /\ cur \in [Cpus -> Threads]
  /\ lock \in [Locks -> Cpus \cup {NoCpu}]
  /\ frame \in [Threads -> Seq([at : Places, i : Nat])]
  /\ \A t \in Threads : Len(frame[t]) \in 1..2
  /\ saved \in [Procs -> BOOLEAN] /\ killed \subseteq Procs
  /\ state \in [Procs -> {"UNUSED", "RUNNABLE", "RUNNING", "SLEEPING", "ZOMBIE"}]
  /\ started \in BOOLEAN /\ first \in BOOLEAN
  /\ ticks \in 0..(UINT - 1) /\ ticks0 \in [Procs -> 0..(UINT - 1)]
  /\ n \in [Procs -> 0..MaxN] /\ lapsed \in [Procs -> 0..MaxN]

\* No panic of the trap and lock code: acquire() of a lock that the CPU holds,
\* release() of one that it does not hold, pop_off() with interrupts on or too
\* often, sched() with another lock or with interrupts on, kerneltrap() with
\* interrupts on.  No hart schedules before main() has initialised the kernel,
\* and fsinit() is done once, before any other process runs.
NoPanic ==
  \A c \in Cpus :
    /\ \A l \in Wants(c) : ~Holding(c, l)
    /\ \A l \in Needs(c) : Holding(c, l)
    /\ Needs(c) # {} => ~intr[c] /\ noff[c] >= 1
    /\ At(c, "yieldlock") \/ At(c, "exitlock") => noff[c] = 1 /\ ~intr[c]
    /\ At(c, "sleep") => noff[c] = 2
    /\ At(c, "trap") => ~intr[c]
    /\ ~At(c, "main") => started
    /\ first /\ cur[c] \in Procs => cur[c] = 1

\* push_off() and pop_off() are matched, across the switches that take a lock
\* from a process to a scheduler and a process from one CPU to another: noff
\* counts the locks, and a process has interrupts on exactly when it holds no
\* lock and is neither in a handler nor at the edge of the kernel.
InterruptsMatched ==
  \A c \in Cpus :
    /\ noff[c] = Cardinality({l \in Locks : Holding(c, l)}) + Cardinality(Spins(c))
    /\ cur[c] \in Procs /\ Top(c).at \notin {"fsinit", "ret", "exit"} =>
         (intr[c] <=> noff[c] = 0 /\ Len(frame[cur[c]]) = 1)

\* No CPU is stuck: none panics, and the CPUs never spin in a circle, each with
\* interrupts off on a lock that another one of them holds.
NeverStuck ==
  NoPanic /\ \A S \in (SUBSET Cpus) \ {{}} : \E c \in S : \A l \in Wants(c) : lock[l] \notin S

\* No tick is missed: a process asleep in sys_pause() has to wait longer at the
\* current tick, or clockintr() is still on its way to wake it.
TickNotMissed ==
  \A p \in Procs : state[p] = "SLEEPING" =>
    \/ Waits(p)
    \/ \E c \in Cpus : At(c, "wake") /\ Top(c).i <= p

\* sys_pause(n) is over only when n ticks have gone by, although ticks wraps.
NotEarly ==
  \A c \in Cpus : AtProc(c, "test") /\ ~Waits(cur[c]) => lapsed[cur[c]] = n[cur[c]]

-----------------------------------------------------------------------------
(* The inductive invariant behind the properties *)

\* Thread -> where it is, and where it was when it was interrupted (the same,
\* if it was not).
place == [t \in Threads |-> Head(frame[t]).at]
arg == [t \in Threads |-> Head(frame[t]).i]
trapped == {t \in Threads : Len(frame[t]) = 2}
base == [t \in Threads |-> frame[t][Len(frame[t])].at]
baseArg == [t \in Threads |-> frame[t][Len(frame[t])].i]

Interruptible == {"top", "on", "scan", "fsinit", "ret", "user", "exit", "pause", "again"}

\* A handler runs on top of interruptible code, and only processes yield.
PlacesOK ==
  \A t \in Threads :
    /\ base[t] \in IF t \in Procs THEN ProcPlaces ELSE SchedPlaces
    /\ base[t] \in {"scan", "scanlock", "look", "back"} => baseArg[t] \in Procs
    /\ t \in trapped => place[t] \in TrapPlaces /\ base[t] \in Interruptible
    /\ t \notin trapped => place[t] = base[t] /\ arg[t] = baseArg[t]
    /\ place[t] \in {"yieldlock", "yielded"} => t \in Procs
    /\ place[t] = "wake" => arg[t] \in 1..(NProc + 1)

\* A CPU runs its scheduler or a process that its scheduler waits for; a
\* process is RUNNING on one CPU.
OnCpu ==
  /\ \A c \in Cpus : cur[c] # Sched(c) =>
       /\ cur[c] \in Procs /\ state[cur[c]] = "RUNNING"
       /\ Sched(c) \notin trapped /\ place[Sched(c)] = "back" /\ arg[Sched(c)] = cur[c]
  /\ \A c, d \in Cpus : cur[c] = cur[d] => c = d
  /\ \A p \in Procs : state[p] = "RUNNING" => \E c \in Cpus : cur[c] = p

\* Where a process that is not running goes on.
OffCpu ==
  \A p \in Procs :
    /\ state[p] = "UNUSED" => place[p] = "forkret"
    /\ state[p] = "RUNNABLE" => place[p] \in {"forkret", "woken", "yielded"}
    /\ state[p] = "SLEEPING" => place[p] = "woken"
    /\ state[p] = "ZOMBIE" <=> place[p] = "zombie"
    /\ state[p] # "RUNNING" => /\ place[p] = "woken" => saved[p]
                               /\ place[p] = "yielded" => ~saved[p]

\* A CPU holds the locks its code counts on, and no other.
HoldsRight(c) ==
  /\ lock[tickslock] = c <=> place[cur[c]] \in {"test", "sleeplock", "sleep", "wake"}
  /\ \A p \in Procs : lock[p] = c <=>
       \/ cur[c] = p /\ place[p] \in {"sleep", "forkret", "woken", "yielded"}
       \/ place[cur[c]] \in {"look", "back"} /\ arg[cur[c]] = p

LocksHeld == \A c \in Cpus : HoldsRight(c)

\* How many push_off() are pending at a place.
Pending(a) ==
  IF a \in {"sleeplock", "sleep"} THEN 2
  ELSE IF a \in {"scanlock", "look", "back", "forkret", "exitlock", "pauselock", "test",
                 "woken", "againlock", "ticklock", "wake", "yieldlock", "yielded"}
       THEN 1 ELSE 0

\* noff follows the place; intr is on where an interrupt can come, and off in
\* handlers; intena remembers which of them it is.
CountsRight(c) ==
  /\ noff[c] = Pending(place[cur[c]])
  /\ intr[c] => place[cur[c]] \in Interruptible
  /\ place[cur[c]] \in {"user", "pause", "again"} => intr[c]
  /\ place[cur[c]] \in {"pauselock", "againlock", "test", "sleeplock", "sleep", "woken"}
       => intena[c]
  /\ place[cur[c]] \in {"ticklock", "wake", "yieldlock", "yielded"} => ~intena[c]

IntrState == \A c \in Cpus : CountsRight(c)

\* Nothing runs before main() is done, and only process 1 before fsinit().
BootOrder ==
  /\ started <=> base[Sched(0)] # "main"
  /\ ~started => /\ \A c \in Cpus : base[Sched(c)] = "main"
                 /\ \A p \in Procs : state[p] = "UNUSED"
  /\ first => \A p \in Procs : /\ base[p] \in {"forkret", "fsinit"}
                               /\ p # 1 => state[p] = "UNUSED"

TimedPlaces == {"test", "sleeplock", "sleep", "woken", "again", "againlock"}

\* Until the time is over, ticks - ticks0 is the number of ticks gone by; and
\* who goes to sleep has to wait.
TimeRight(p) ==
  /\ lapsed[p] <= n[p]
  /\ base[p] \notin TimedPlaces \cup {"pause", "pauselock"} => n[p] = 0
  /\ base[p] \in TimedPlaces /\ lapsed[p] < n[p] => (ticks - ticks0[p]) % UINT = lapsed[p]
  /\ base[p] \in {"sleeplock", "sleep"} => Waits(p)

TimeCounted == \A p \in Procs : TimeRight(p)

\* A sleeper has to wait longer, or wakeup() has not come to it yet.
SleepersTimed ==
  \A p \in Procs : state[p] = "SLEEPING" =>
    \/ Waits(p)
    \/ \E c \in Cpus : place[cur[c]] = "wake" /\ arg[cur[c]] <= p

ClockInv ==
  /\ TypeOK /\ PlacesOK /\ OnCpu /\ OffCpu /\ LocksHeld /\ IntrState /\ BootOrder
  /\ TimeCounted /\ SleepersTimed
=============================================================================
