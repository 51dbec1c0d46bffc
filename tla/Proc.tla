-------------------------------- MODULE Proc --------------------------------
(***************************************************************************)
(* The process table of xv6 (kernel/proc.c): fork, exit, wait, kill,       *)
(* sleep/wakeup and the per-CPU schedulers, on several CPUs.               *)
(*                                                                         *)
(* A step is what one CPU does between two points where another CPU can    *)
(* interfere.  p->lock is released within the step that takes it, except   *)
(* on the way out of a process (sleep, yield, exit), where sched() hands   *)
(* it to the scheduler: the set plk holds the processes in that window.    *)
(* wait_lock is held over many steps and has a holder.                     *)
(***************************************************************************)
EXTENDS Naturals, FiniteSets

CONSTANTS
  Slots,       \* the process table, proc[NPROC]
  initproc,    \* the slot of init
  Cpus,
  Killable,    \* the slots kkill() may find
  None

ASSUME ProcAssumption ==
  /\ initproc \in Slots
  /\ Killable \subseteq Slots \ {initproc}   \* killing init panics the kernel
  /\ None \notin Slots \cup Cpus

VARIABLES
  state, parent, chan, killed,    \* struct proc
  plk,         \* processes whose p->lock is held on the way to the scheduler
  waitlk,      \* holder of wait_lock, or None
  cpu,         \* CPU -> the process on it (c->proc), or None
  pc,          \* process -> where its kernel thread is
  child,       \* process -> np of kfork, or None
  todo         \* process -> slots the loop of reparent or kwait has left

shared == <<waitlk, child, todo>>
vars == <<state, parent, chan, killed, plk, waitlk, cpu, pc, child, todo>>

States == {"UNUSED", "USED", "SLEEPING", "RUNNABLE", "RUNNING", "ZOMBIE"}
Pcs == {"user", "fork_parent", "fork_run", "exit", "exit_reparent",
        "exit_zombie", "wait", "wait_scan", "wait_sleep"}

TypeOK ==
  /\ state \in [Slots -> States]
  /\ parent \in [Slots -> Slots \cup {None}]
  /\ chan \in [Slots -> Slots \cup {None}]
  /\ killed \subseteq Slots
  /\ plk \subseteq Slots
  /\ waitlk \in Slots \cup {None}
  /\ cpu \in [Cpus -> Slots \cup {None}]
  /\ pc \in [Slots -> Pcs]
  /\ child \in [Slots -> Slots \cup {None}]
  /\ todo \in [Slots -> SUBSET Slots]
  /\ \A p \in Slots : child[p] = None <=> pc[p] \notin {"fork_parent", "fork_run"}
  /\ \A p \in Slots : waitlk = p <=>
       /\ state[p] = "RUNNING"
       /\ pc[p] \in {"exit_reparent", "exit_zombie", "wait_scan", "wait_sleep"}

\* userinit(): one RUNNABLE process, init.
Init ==
  /\ state = [p \in Slots |-> IF p = initproc THEN "RUNNABLE" ELSE "UNUSED"]
  /\ parent = [p \in Slots |-> None]
  /\ chan = [p \in Slots |-> None]
  /\ killed = {}
  /\ plk = {}
  /\ waitlk = None
  /\ cpu = [c \in Cpus |-> None]
  /\ pc = [p \in Slots |-> "user"]
  /\ child = [p \in Slots |-> None]
  /\ todo = [p \in Slots |-> {}]

-----------------------------------------------------------------------------
\* p's kernel thread executes on some CPU (and is not inside sched()).
Executing(p) == state[p] = "RUNNING" /\ p \notin plk

At(p, l) == Executing(p) /\ pc[p] = l

Goto(p, l) == pc' = [pc EXCEPT ![p] = l]

Children(p) == {k \in Slots : parent[k] = p}

\* wakeup(q), for the channel q that only process q sleeps on (kwait): takes
\* q->lock, so it waits until q is off its CPU.
Wakeup(q) ==
  /\ q \notin plk
  /\ state' = [state EXCEPT ![q] = IF @ = "SLEEPING" /\ chan[q] = q
                                   THEN "RUNNABLE" ELSE @]

-----------------------------------------------------------------------------
Schedule_NoLock(c, p) ==       \* mutant: does not take p->lock
  /\ cpu[c] = None
  /\ state[p] = "RUNNABLE"
  /\ state' = [state EXCEPT ![p] = "RUNNING"]
  /\ cpu' = [cpu EXCEPT ![c] = p]
  /\ chan' = [chan EXCEPT ![p] = None]
  /\ UNCHANGED <<parent, killed, plk, pc, shared>>

\* scheduler(): run p on c; p's first act is to release p->lock, and, in
\* sleep(), to clear p->chan.
Schedule(c, p) ==
  /\ cpu[c] = None
  /\ p \notin plk
  /\ state[p] = "RUNNABLE"
  /\ state' = [state EXCEPT ![p] = "RUNNING"]
  /\ cpu' = [cpu EXCEPT ![c] = p]
  /\ chan' = [chan EXCEPT ![p] = None]
  /\ UNCHANGED <<parent, killed, plk, pc, shared>>

\* swtch() back in scheduler(): c->proc = 0, release(&p->lock).
SwitchOut(c) ==
  /\ cpu[c] \in plk
  /\ plk' = plk \ {cpu[c]}
  /\ cpu' = [cpu EXCEPT ![c] = None]
  /\ UNCHANGED <<state, parent, chan, killed, pc, shared>>

\* yield(): a timer interrupt; not while a spinlock keeps interrupts off.
Yield(p) ==
  /\ Executing(p)
  /\ waitlk # p
  /\ state' = [state EXCEPT ![p] = "RUNNABLE"]
  /\ plk' = plk \cup {p}
  /\ UNCHANGED <<parent, chan, killed, cpu, pc, shared>>

\* kkill(): sets the flag and wakes a sleeper, under the victim's lock.
Kill(p) ==
  /\ p \in Killable \ killed
  /\ state[p] # "UNUSED"
  /\ p \notin plk
  /\ killed' = killed \cup {p}
  /\ state' = [state EXCEPT ![p] = IF @ = "SLEEPING" THEN "RUNNABLE" ELSE @]
  /\ UNCHANGED <<parent, chan, plk, cpu, pc, shared>>

-----------------------------------------------------------------------------
\* kfork(), to the first release of np->lock: an UNUSED slot becomes USED.
\* A failed allocation or copy gives the slot back under the same lock.
Fork(p, np) ==
  /\ At(p, "user")
  /\ p \notin killed
  /\ state[np] = "UNUSED" /\ np \notin plk
  /\ state' = [state EXCEPT ![np] = "USED"]
  /\ child' = [child EXCEPT ![p] = np]
  /\ Goto(p, "fork_parent")
  /\ UNCHANGED <<parent, chan, killed, plk, waitlk, cpu, todo>>

ForkParent(p) ==
  /\ At(p, "fork_parent")
  /\ waitlk = None
  /\ parent' = [parent EXCEPT ![child[p]] = p]
  /\ Goto(p, "fork_run")
  /\ UNCHANGED <<state, chan, killed, plk, cpu, shared>>

ForkRun(p) ==
  /\ At(p, "fork_run")
  /\ state' = [state EXCEPT ![child[p]] = "RUNNABLE"]
  /\ child' = [child EXCEPT ![p] = None]
  /\ Goto(p, "user")
  /\ UNCHANGED <<parent, chan, killed, plk, waitlk, cpu, todo>>

-----------------------------------------------------------------------------
\* kexit(), called by the process or, once it is killed, by usertrap().
Exit(p) ==
  /\ At(p, "user")
  /\ p # initproc
  /\ Goto(p, "exit")
  /\ UNCHANGED <<state, parent, chan, killed, plk, cpu, shared>>

ExitLock(p) ==
  /\ At(p, "exit")
  /\ waitlk = None
  /\ waitlk' = p
  /\ todo' = [todo EXCEPT ![p] = Children(p)]
  /\ Goto(p, "exit_reparent")
  /\ UNCHANGED <<state, parent, chan, killed, plk, cpu, child>>

Reparent_NotOrphans(p, k) ==   \* mutant: zombies are skipped
  /\ At(p, "exit_reparent")
  /\ k \in todo[p]
  /\ parent' = [parent EXCEPT ![k] = IF state[k] = "ZOMBIE" THEN @ ELSE initproc]
  /\ Wakeup(initproc)
  /\ todo' = [todo EXCEPT ![p] = @ \ {k}]
  /\ UNCHANGED <<chan, killed, plk, cpu, pc, waitlk, child>>

Reparent_NoWakeup(p, k) ==     \* mutant: init is not woken
  /\ At(p, "exit_reparent")
  /\ k \in todo[p]
  /\ parent' = [parent EXCEPT ![k] = initproc]
  /\ todo' = [todo EXCEPT ![p] = @ \ {k}]
  /\ UNCHANGED <<state, chan, killed, plk, cpu, pc, waitlk, child>>

\* reparent(): one child goes to init, and init is woken.
Reparent(p, k) ==
  /\ At(p, "exit_reparent")
  /\ k \in todo[p]
  /\ parent' = [parent EXCEPT ![k] = initproc]
  /\ Wakeup(initproc)
  /\ todo' = [todo EXCEPT ![p] = @ \ {k}]
  /\ UNCHANGED <<chan, killed, plk, cpu, pc, waitlk, child>>

\* wakeup(p->parent)
ExitWakeup(p) ==
  /\ At(p, "exit_reparent")
  /\ todo[p] = {}
  /\ Wakeup(parent[p])
  /\ Goto(p, "exit_zombie")
  /\ UNCHANGED <<parent, chan, killed, plk, cpu, shared>>

\* p->state = ZOMBIE under p->lock, release(&wait_lock), sched().
ExitZombie(p) ==
  /\ At(p, "exit_zombie")
  /\ state' = [state EXCEPT ![p] = "ZOMBIE"]
  /\ plk' = plk \cup {p}
  /\ waitlk' = None
  /\ UNCHANGED <<parent, chan, killed, cpu, pc, child, todo>>

-----------------------------------------------------------------------------
Wait(p) ==
  /\ At(p, "user")
  /\ p \notin killed
  /\ Goto(p, "wait")
  /\ UNCHANGED <<state, parent, chan, killed, plk, cpu, shared>>

\* acquire(&wait_lock), at entry and at the end of sleep().
WaitLock(p) ==
  /\ At(p, "wait")
  /\ waitlk = None
  /\ waitlk' = p
  /\ todo' = [todo EXCEPT ![p] = Children(p)]
  /\ Goto(p, "wait_scan")
  /\ UNCHANGED <<state, parent, chan, killed, plk, cpu, child>>

\* The loop looks at child k, which has not exited.
WaitSkip(p, k) ==
  /\ At(p, "wait_scan")
  /\ k \in todo[p] \ plk
  /\ state[k] # "ZOMBIE"
  /\ todo' = [todo EXCEPT ![p] = @ \ {k}]
  /\ UNCHANGED <<state, parent, chan, killed, plk, cpu, pc, waitlk, child>>

\* Back to user space with wait_lock released.
WaitReturn(p) ==
  /\ waitlk' = None
  /\ todo' = [todo EXCEPT ![p] = {}]
  /\ Goto(p, "user")

\* The loop finds the zombie k: freeproc(k), return its pid.  Taking k->lock
\* makes sure that k is off its CPU.
WaitReap(p, k) ==
  /\ At(p, "wait_scan")
  /\ k \in todo[p] \ plk
  /\ state[k] = "ZOMBIE"
  /\ state' = [state EXCEPT ![k] = "UNUSED"]
  /\ parent' = [parent EXCEPT ![k] = None]
  /\ chan' = [chan EXCEPT ![k] = None]
  /\ killed' = killed \ {k}
  /\ waitlk' = None
  /\ todo' = [todo EXCEPT ![p] = {}]
  /\ pc' = [pc EXCEPT ![p] = "user", ![k] = "user"]
  /\ UNCHANGED <<plk, cpu, child>>

\* copyout() of the exit status fails: the zombie stays for the next wait().
\* (init passes no address, user/init.c.)
WaitFault(p, k) ==
  /\ At(p, "wait_scan")
  /\ p # initproc
  /\ k \in todo[p] \ plk
  /\ state[k] = "ZOMBIE"
  /\ WaitReturn(p)
  /\ UNCHANGED <<state, parent, chan, killed, plk, cpu, child>>

\* No children, or killed: return -1.
WaitNone(p) ==
  /\ At(p, "wait_scan")
  /\ todo[p] = {}
  /\ Children(p) = {} \/ p \in killed
  /\ WaitReturn(p)
  /\ UNCHANGED <<state, parent, chan, killed, plk, cpu, child>>

\* Children, but no zombie, and not killed: going to sleep().
WaitDecide(p) ==
  /\ At(p, "wait_scan")
  /\ todo[p] = {}
  /\ Children(p) # {} /\ p \notin killed
  /\ Goto(p, "wait_sleep")
  /\ UNCHANGED <<state, parent, chan, killed, plk, cpu, shared>>

\* sleep(p, &wait_lock): p->lock is taken, then wait_lock is released.
WaitSleep(p) ==
  /\ At(p, "wait_sleep")
  /\ state' = [state EXCEPT ![p] = "SLEEPING"]
  /\ chan' = [chan EXCEPT ![p] = p]
  /\ plk' = plk \cup {p}
  /\ waitlk' = None
  /\ Goto(p, "wait")
  /\ UNCHANGED <<parent, killed, cpu, child, todo>>

-----------------------------------------------------------------------------
ForkStep(p) == ForkParent(p) \/ ForkRun(p)
ExitStep(p) ==
  \/ ExitLock(p) \/ ExitWakeup(p) \/ ExitZombie(p)
  \/ \E k \in Slots : Reparent(p, k)
WaitStep(p) ==
  \/ WaitLock(p) \/ WaitNone(p) \/ WaitDecide(p) \/ WaitSleep(p)
  \/ \E k \in Slots : WaitSkip(p, k) \/ WaitReap(p, k)

Next ==
  \/ \E c \in Cpus, p \in Slots : Schedule(c, p)
  \/ \E c \in Cpus : SwitchOut(c)
  \/ \E p \in Slots : Yield(p) \/ Kill(p) \/ Exit(p) \/ Wait(p)
  \/ \E p, q \in Slots : Fork(p, q) \/ WaitFault(p, q)
  \/ \E p \in Slots : ForkStep(p) \/ ExitStep(p) \/ WaitStep(p)

Spec == Init /\ [][Next]_vars

-----------------------------------------------------------------------------
(* Properties *)

\* No kernel stack is used twice: a process is on at most one CPU, its slot
\* is then neither free nor being set up, and it is off its CPU when another
\* CPU may pick it (the hand-over of p->lock in sched() and scheduler()).
StackExclusive ==
  /\ \A c, d \in Cpus : c # d /\ cpu[c] # None => cpu[c] # cpu[d]
  /\ \A p \in Slots :
       (\E c \in Cpus : cpu[c] = p) <=> (state[p] = "RUNNING" \/ p \in plk)
  /\ \A p \in plk : state[p] \in {"RUNNABLE", "SLEEPING", "ZOMBIE"}

Live == {p \in Slots : state[p] \notin {"UNUSED", "ZOMBIE"}}

\* Every process but init and a child that kfork() is still setting up has a
\* parent that can wait for it: exit never strands a child, also when parent
\* and child exit at the same time.
NoOrphan ==
  waitlk = None =>
    \A p \in Slots \ {initproc} :
      state[p] # "UNUSED" =>
        \/ parent[p] \in Live
        \/ \E q \in Live : pc[q] = "fork_parent" /\ child[q] = p

\* No missed wakeup in kwait(): when nobody holds wait_lock, a process asleep
\* in kwait() has no zombie child.
NoMissedExit ==
  waitlk = None =>
    \A p, k \in Slots :
      state[p] = "SLEEPING" /\ parent[k] = p => state[k] # "ZOMBIE"

-----------------------------------------------------------------------------
(* The inductive invariant *)

\* Where a process can be in each state of its slot.
PcOfState ==
  \A p \in Slots :
    /\ state[p] \in {"UNUSED", "USED"} => pc[p] = "user"
    /\ state[p] = "ZOMBIE" => pc[p] = "exit_zombie"
    /\ state[p] = "SLEEPING" => pc[p] = "wait" /\ chan[p] = p
    /\ pc[p] \in {"exit_reparent", "wait_scan", "wait_sleep"} => state[p] = "RUNNING"
    /\ pc[p] = "exit_zombie" => state[p] \in {"RUNNING", "ZOMBIE"}

\* The child of a kfork() in progress belongs to it alone.
ChildOfFork ==
  \A p \in Slots : child[p] # None =>
    /\ state[child[p]] = "USED"
    /\ \A q \in Slots : child[q] = child[p] => q = p

\* init never exits.
InitLives ==
  /\ initproc \in Live
  /\ state[initproc] # "USED"
  /\ pc[initproc] \notin {"exit", "exit_reparent", "exit_zombie"}

\* NoOrphan, also while wait_lock is held.
Adopted ==
  \A p \in Slots \ {initproc} :
    state[p] # "UNUSED" =>
      \/ parent[p] \in Live
      \/ \E q \in Live : pc[q] = "fork_parent" /\ child[q] = p

\* The loop of reparent() has the children that are left ahead of it.
Reparenting ==
  \A p \in Slots :
    /\ pc[p] = "exit_reparent" => Children(p) \subseteq todo[p]
    /\ pc[p] = "exit_zombie" => Children(p) = {}

\* The loop of kwait() has seen no zombie; what it has seen stays true until
\* the process sleeps, because nobody else gets wait_lock.
Scanned ==
  \A p \in Slots : \A k \in Children(p) :
    /\ pc[p] = "wait_scan" => k \in todo[p] \/ state[k] # "ZOMBIE"
    /\ pc[p] = "wait_sleep" => state[k] # "ZOMBIE"

\* The parent of a process about to become a zombie, or that is one, is awake.
ParentAwake ==
  \A p, k \in Slots :
    parent[k] = p /\ pc[k] = "exit_zombie" => state[p] # "SLEEPING"

ProcInv ==
  /\ TypeOK /\ StackExclusive /\ PcOfState /\ ChildOfFork /\ InitLives
  /\ Adopted /\ Reparenting /\ Scanned /\ ParentAwake
=============================================================================
