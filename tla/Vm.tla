--------------------------------- MODULE Vm ---------------------------------
(***************************************************************************)
(* Physical pages and user address spaces of xv6: kalloc.c, vm.c, exec.c   *)
(* and the parts of proc.c, sysproc.c, sysfile.c and trap.c that allocate  *)
(* and free them.  Every page comes from one free list, so any kalloc()    *)
(* may fail because of what other processes hold, and the error path after *)
(* it has to give back what was taken, once.                               *)
(*                                                                         *)
(* Addresses count half pages (PGSIZE is 2), page tables have three levels *)
(* of Fan entries.  One round of a loop over pages is a step; giving pages *)
(* back is one with what follows.  kalloc() takes the lowest free page:    *)
(* which one it is makes no difference.                                    *)
(***************************************************************************)
EXTENDS Integers, Sequences, FiniteSets, TLC

CONSTANTS
  Procs,      \* 1..n; process 1 is init
  NPages,     \* physical pages
  Fan,        \* entries of a page-table page
  Programs,   \* ELF files: sequences of [va, memsz, filesz, flags]
  Sizes,      \* by how much sbrk changes the size
  MaxSz,      \* bound: the size of a process, at most up to the trap frame
  MaxArgs,    \* MAXARG
  MaxCalls,   \* bound: stores, faults and system calls
  Marks       \* what processes write into pages

ASSUME VmAssumption ==
  /\ 1 \in Procs /\ NPages \in Nat /\ Fan \in Nat \ {0} /\ MaxSz \in Nat /\ MaxArgs \in Nat
  /\ MaxCalls \in Nat
  /\ Sizes \subseteq Nat \ {0}

VARIABLES
  free,       \* kmem.freelist
  mem,        \* page -> its contents
  proc,       \* process -> [state, tf, as, sz]
  call,       \* process -> the system call it is in
  err,        \* the panic, if there was one
  calls       \* stores, faults and system calls left

vars == <<free, mem, proc, call, err, calls>>

Pages == 1..NPages
PGSIZE == 2
PGROUNDUP(sz) == (sz + PGSIZE - 1) \div PGSIZE      \* as a page number
MAXVA == Fan * Fan * Fan                            \* in pages
TRAMPOLINE == MAXVA - 1
TRAPFRAME == MAXVA - 2
USERSTACK == 1
Trampoline == 0                                     \* the page of trampoline.S

\* The bound of a process's size that the code lacks: sbrk() may go further.
ASSUME SizeAssumption == PGROUNDUP(MaxSz) <= TRAPFRAME

Junk == "junk"
Zero == "zero"
File == "file"
Args == "args"
Values == Marks \cup {Zero, File, Args}

Empty == [v \in {} |-> 0]

-----------------------------------------------------------------------------
(* Memory: what a call works on.  m is [free, mem, dirs, leaf, ok, err], an *)
(* address space with the free list.                                       *)

\* kfree(): a page already in the list would be handed out twice.
kfree(m, pgs) ==
  [m EXCEPT !.free = @ \cup pgs,
            !.mem = [pg \in Pages |-> IF pg \in pgs THEN Junk ELSE @[pg]],
            !.err = IF pgs \cap m.free # {} THEN "kfree twice" ELSE @]

\* kalloc()
Lowest(s) == CHOOSE pg \in s : \A q \in s : pg <= q

\* The page-table pages walk() goes through below the root.
Root == <<2, 0>>
Dir(level, v) == <<level, IF level = 1 THEN v \div (Fan * Fan) ELSE v \div Fan>>

\* One level of walk(pagetable, va, 1).
Descend(m, d) ==
  IF ~m.ok \/ d \in DOMAIN m.dirs THEN m
  ELSE IF m.free = {} THEN [m EXCEPT !.ok = FALSE]
  ELSE [m EXCEPT !.free = @ \ {Lowest(m.free)}, !.dirs = (d :> Lowest(m.free)) @@ @]

walk(m, v) ==
  IF v >= MAXVA THEN [m EXCEPT !.err = "walk", !.ok = FALSE]
  ELSE Descend(Descend(m, Dir(1, v)), Dir(0, v))

mappages(m, v, pa, perm) ==
  LET w == walk(m, v)
  IN IF ~w.ok THEN w
     ELSE IF v \in DOMAIN w.leaf THEN [w EXCEPT !.err = "remap"]
     ELSE [w EXCEPT !.leaf = (v :> [pa |-> pa, perm |-> perm]) @@ @]

\* uvmunmap() of the pages vs.
uvmunmap(m, vs, do_free) ==
  LET gone == vs \cap DOMAIN m.leaf
      n == [m EXCEPT !.leaf = [v \in DOMAIN @ \ gone |-> @[v]],
                     !.err = IF \E v \in vs : v >= MAXVA THEN "walk" ELSE @]
  IN IF do_free THEN kfree(n, {m.leaf[v].pa : v \in gone}) ELSE n

\* uvmfree() with freewalk().
uvmfree(m, sz) ==
  LET n == uvmunmap(m, 0..(PGROUNDUP(sz) - 1), TRUE)
      f == kfree(n, {n.dirs[d] : d \in DOMAIN n.dirs})
  IN [f EXCEPT !.dirs = Empty, !.err = IF n.leaf # Empty THEN "freewalk" ELSE @]

uvmdealloc(m, old, new) == uvmunmap(m, PGROUNDUP(new)..(PGROUNDUP(old) - 1), TRUE)

\* Mutant: the page whose mapping failed is not given back.
Unmapped_Leak(w, pg) == w

\* mappages() failed: its page goes back.
Unmapped(w, pg) == kfree(w, {pg})

\* A page for v: kalloc(), its first contents, mappages().
MapNew(m, v, x, perm) ==
  IF m.free = {} THEN [m EXCEPT !.ok = FALSE]
  ELSE LET pg == Lowest(m.free)
           w == mappages([m EXCEPT !.free = @ \ {pg}, !.mem[pg] = x], v, pg, perm)
       IN IF w.ok THEN w ELSE Unmapped(w, pg)

proc_freepagetable(m, sz) == uvmfree(uvmunmap(m, {TRAMPOLINE, TRAPFRAME}, FALSE), sz)

\* proc_pagetable(): the root, the trampoline, the trapframe; nothing stays
\* behind when one of them fails.
proc_pagetable(m, tf) ==
  IF m.free = {} THEN [m EXCEPT !.ok = FALSE]
  ELSE LET r == [m EXCEPT !.free = @ \ {Lowest(m.free)}, !.dirs = Root :> Lowest(m.free),
                          !.leaf = Empty]
           t == mappages(r, TRAMPOLINE, Trampoline, {"x"})
           f == IF t.ok THEN mappages(t, TRAPFRAME, tf, {"w"}) ELSE t
       IN IF f.ok THEN f ELSE proc_freepagetable(f, 0)

-----------------------------------------------------------------------------
(* The kernel's page table, built at boot from the same pages.  Of its       *)
(* direct maps of devices and memory nothing is said.                        *)

KSTACK(p) == TRAMPOLINE - 2 * p      \* processes count from 1

kvmmap(m, v, pa, perm) ==
  LET w == mappages(m, v, pa, perm)
  IN IF w.ok THEN w ELSE [w EXCEPT !.err = "kvmmap"]

proc_mapstacks(m) ==
  LET upto[p \in 0..Cardinality(Procs)] ==
        IF p = 0 THEN m
        ELSE LET pg == Lowest(upto[p - 1].free)
             IN kvmmap([upto[p - 1] EXCEPT !.free = @ \ {pg}], KSTACK(p), pg, {"w"})
  IN upto[Cardinality(Procs)]

kvmmake ==
  LET root == Lowest(Pages)
      m == [free |-> Pages \ {root}, mem |-> [pg \in Pages |-> Junk], dirs |-> Root :> root,
            leaf |-> Empty, ok |-> TRUE, err |-> ""]
  IN proc_mapstacks(kvmmap(m, TRAMPOLINE, Trampoline, {"x"}))

\* There is memory for the kernel and for the first process.
ASSUME BootAssumption == kvmmake.err = "" /\ Cardinality(kvmmake.free) >= 4

-----------------------------------------------------------------------------
NoSpace == [dirs |-> Empty, leaf |-> Empty]
Unused == [state |-> "UNUSED", tf |-> 0, as |-> NoSpace, sz |-> 0]
Idle == [op |-> "none"]

\* Memory as the process with address space as sees it ...
Mem(as) == [free |-> free, mem |-> mem, dirs |-> as.dirs, leaf |-> as.leaf, ok |-> TRUE, err |-> err]
\* ... its address space after a call worked on it ...
Space(m) == [dirs |-> m.dirs, leaf |-> m.leaf]
\* ... and the rest.
Keep(m) == free' = m.free /\ mem' = m.mem /\ err' = m.err

\* userinit(): init has a trapframe and an empty page table, and starts in kexec().
Init ==
  LET tf == Lowest(kvmmake.free)
      m == proc_pagetable([kvmmake EXCEPT !.free = @ \ {tf}, !.dirs = Empty, !.leaf = Empty], tf)
  IN /\ free = m.free /\ mem = m.mem /\ err = m.err
     /\ proc = [p \in Procs |->
                  IF p = 1 THEN [state |-> "RUN", tf |-> tf, as |-> Space(m), sz |-> 0] ELSE Unused]
     /\ calls = MaxCalls
     /\ call = [p \in Procs |-> IF p = 1 THEN [op |-> "open", argv |-> {}] ELSE Idle]

\* p is in user mode, with its code there, and does something.
User(p) ==
  /\ err = "" /\ proc[p].state = "RUN" /\ call[p].op = "none"
  /\ 0 \in DOMAIN proc[p].as.leaf
  /\ calls > 0 /\ calls' = calls - 1

In(p, op) == err = "" /\ call[p].op = op /\ UNCHANGED calls
Return(p) == call' = [call EXCEPT ![p] = Idle]

\* walkaddr(): the page is mapped for user mode.
walkaddr(p, v) == v \in DOMAIN proc[p].as.leaf /\ "u" \in proc[p].as.leaf[v].perm

\* Mutant: junk is not cleared.
vmfault_Junk(p, a) ==
  IF a >= proc[p].sz THEN [Mem(proc[p].as) EXCEPT !.ok = FALSE]
  ELSE IF a \div PGSIZE >= MAXVA THEN [Mem(proc[p].as) EXCEPT !.ok = FALSE, !.err = "walk"]
  ELSE IF a \div PGSIZE \in DOMAIN proc[p].as.leaf THEN [Mem(proc[p].as) EXCEPT !.ok = FALSE]
  ELSE MapNew(Mem(proc[p].as), a \div PGSIZE, Junk, {"u", "w"})

\* vmfault() at address a, ismapped() included.
vmfault(p, a) ==
  IF a >= proc[p].sz THEN [Mem(proc[p].as) EXCEPT !.ok = FALSE]
  ELSE IF a \div PGSIZE >= MAXVA THEN [Mem(proc[p].as) EXCEPT !.ok = FALSE, !.err = "walk"]
  ELSE IF a \div PGSIZE \in DOMAIN proc[p].as.leaf THEN [Mem(proc[p].as) EXCEPT !.ok = FALSE]
  ELSE MapNew(Mem(proc[p].as), a \div PGSIZE, Zero, {"u", "w"})

\* A store by the program.
Store(p, v, x) ==
  /\ User(p)
  /\ walkaddr(p, v) /\ "w" \in proc[p].as.leaf[v].perm
  /\ mem' = [mem EXCEPT ![proc[p].as.leaf[v].pa] = x]
  /\ UNCHANGED <<free, proc, call, err>>

\* usertrap() on a store that is not allowed: the page is brought in, or the
\* process is killed and exits (init makes no access that kills it).
Fault(p, a) ==
  LET m == vmfault(p, a)
      v == a \div PGSIZE
  IN /\ User(p)
     /\ ~(walkaddr(p, v) /\ "w" \in proc[p].as.leaf[v].perm)
     /\ p # 1 \/ m.ok \/ m.err # ""
     /\ Keep(m)
     /\ proc' = [proc EXCEPT ![p].as = Space(m), ![p].state = IF m.ok THEN @ ELSE "ZOMBIE"]
     /\ UNCHANGED call

\* copyout() of one page of a system call's result; copyin() faults the same way
\* and writes nothing.
copyout(p, a, x) ==
  LET v == a \div PGSIZE
      m == IF walkaddr(p, v) THEN Mem(proc[p].as) ELSE vmfault(p, a)
      writes == m.ok /\ "w" \in m.leaf[v].perm
  IN /\ User(p)
     /\ Keep(IF writes THEN [m EXCEPT !.mem[m.leaf[v].pa] = x] ELSE m)
     /\ proc' = [proc EXCEPT ![p].as = Space(m)]
     /\ UNCHANGED call

-----------------------------------------------------------------------------
(* sbrk *)

\* Lazy growth only changes the size.
SbrkLazy(p, n) ==
  /\ User(p) /\ proc[p].sz + n <= MaxSz
  /\ proc' = [proc EXCEPT ![p].sz = @ + n]
  /\ UNCHANGED <<free, mem, call, err>>

\* sz - n has not wrapped round: uvmdealloc() only frees if it is smaller than sz.
Shrinks(sz, n) == sz >= n

\* growproc(-n)
Shrink(p, n) ==
  LET sz == proc[p].sz
      m == uvmdealloc(Mem(proc[p].as), sz, sz - n)
  IN /\ User(p) /\ Shrinks(sz, n)
     /\ Keep(m) /\ proc' = [proc EXCEPT ![p].as = Space(m), ![p].sz = sz - n]
     /\ UNCHANGED call

SbrkEager(p, n) ==
  /\ User(p) /\ proc[p].sz + n <= MaxSz
  /\ call' = [call EXCEPT ![p] = [op |-> "grow", v |-> PGROUNDUP(proc[p].sz), to |-> proc[p].sz + n]]
  /\ UNCHANGED <<free, mem, proc, err>>

\* Mutant: the pages taken before the failure stay.
Undo_Not(m, from, v) == m

\* uvmalloc() fails at page v: what it took from page `from' on goes back.
Undo(m, from, v) == uvmunmap(m, from..(v - 1), TRUE)

\* A round of uvmalloc() in growproc(), and its end.
Grow(p) ==
  LET c == call[p]
      m == MapNew(Mem(proc[p].as), c.v, Zero, {"u", "w"})
      u == Undo(m, PGROUNDUP(proc[p].sz), c.v)
  IN /\ In(p, "grow")
     /\ \/ /\ c.v >= PGROUNDUP(c.to)
           /\ proc' = [proc EXCEPT ![p].sz = c.to]
           /\ Return(p) /\ UNCHANGED <<free, mem, err>>
        \/ /\ c.v < PGROUNDUP(c.to) /\ m.ok
           /\ Keep(m) /\ proc' = [proc EXCEPT ![p].as = Space(m)]
           /\ call' = [call EXCEPT ![p].v = @ + 1]
        \/ /\ c.v < PGROUNDUP(c.to) /\ ~m.ok
           /\ Keep(u) /\ proc' = [proc EXCEPT ![p].as = Space(u)]
           /\ Return(p)

-----------------------------------------------------------------------------
(* fork, exit, wait *)

\* allocproc(): a trapframe, then a page table; freeproc() if either fails.
Fork(p, c) ==
  /\ User(p) /\ proc[c].state = "UNUSED" /\ \A q \in Procs : q < c => proc[q].state # "UNUSED"
  /\ IF free = {} THEN UNCHANGED <<free, mem, proc, call, err>>
     ELSE LET tf == Lowest(free)
              m == proc_pagetable([Mem(NoSpace) EXCEPT !.free = @ \ {tf}], tf)
          IN IF m.ok
             THEN /\ Keep(m)
                  /\ proc' = [proc EXCEPT ![c] = [state |-> "USED", tf |-> tf, as |-> Space(m), sz |-> 0]]
                  /\ call' = [call EXCEPT ![p] = [op |-> "fork", child |-> c, v |-> 0]]
             ELSE Keep(kfree(m, {tf})) /\ UNCHANGED <<proc, call>>

\* freeproc()
freeproc(c, m) ==
  /\ Keep(proc_freepagetable(kfree(m, {proc[c].tf}), proc[c].sz))
  /\ proc' = [proc EXCEPT ![c] = Unused]

\* A round of uvmcopy(), and the end of kfork().
uvmcopy(p) ==
  LET c == call[p].child
      v == call[p].v
      from == proc[p].as.leaf
      m == MapNew(Mem(proc[c].as), v, mem[from[v].pa], from[v].perm)
      Copy == call' = [call EXCEPT ![p].v = @ + 1]
  IN /\ In(p, "fork")
     /\ \/ /\ v >= PGROUNDUP(proc[p].sz)
           /\ proc' = [proc EXCEPT ![c].sz = proc[p].sz, ![c].state = "RUN"]
           /\ Return(p) /\ UNCHANGED <<free, mem, err>>
        \/ /\ v < PGROUNDUP(proc[p].sz) /\ v \notin DOMAIN from
           /\ Copy /\ UNCHANGED <<free, mem, proc, err>>
        \/ /\ v < PGROUNDUP(proc[p].sz) /\ v \in DOMAIN from /\ m.ok
           /\ Copy /\ Keep(m) /\ proc' = [proc EXCEPT ![c].as = Space(m)]
        \/ /\ v < PGROUNDUP(proc[p].sz) /\ v \in DOMAIN from /\ ~m.ok
           /\ freeproc(c, Undo(m, 0, v))
           /\ Return(p)

\* kexit(): the memory stays until the parent's kwait().
Exit(p) ==
  /\ User(p) /\ p # 1
  /\ proc' = [proc EXCEPT ![p].state = "ZOMBIE"]
  /\ UNCHANGED <<free, mem, call, err>>

kwait(c) ==
  /\ err = "" /\ proc[c].state = "ZOMBIE"
  /\ freeproc(c, Mem(proc[c].as))
  /\ UNCHANGED <<call, calls>>

-----------------------------------------------------------------------------
(* exec *)

sys_exec(p) ==
  /\ User(p)
  /\ call' = [call EXCEPT ![p] = [op |-> "args", argv |-> {}]]
  /\ UNCHANGED <<free, mem, proc, err>>

\* The end of sys_exec(): the argument pages go back.
Done(p, m, argv) == Keep(kfree(m, argv)) /\ Return(p)

\* fetchaddr() of a pointer at a that is not mapped: copyin() brings the page in,
\* or the call fails.
fetchaddr(p, a) ==
  LET m == vmfault(p, a)
  IN /\ err = "" /\ call[p].op = "args" /\ Cardinality(call[p].argv) < MaxArgs
     /\ calls > 0 /\ calls' = calls - 1
     /\ ~walkaddr(p, a \div PGSIZE)
     /\ proc' = [proc EXCEPT ![p].as = Space(m)]
     /\ IF m.ok THEN Keep(m) /\ UNCHANGED call ELSE Done(p, m, call[p].argv)

\* fetchstr() of an argument at a; copyinstr() brings in no page.
FetchArg(p, a) ==
  LET argv == call[p].argv
      pg == Lowest(free)
      m == [Mem(NoSpace) EXCEPT !.free = @ \ {pg}]
  IN /\ In(p, "args")
     /\ \/ /\ Cardinality(argv) >= MaxArgs \/ free = {}
           /\ Done(p, Mem(NoSpace), argv)
        \/ /\ Cardinality(argv) < MaxArgs /\ free # {} /\ walkaddr(p, a \div PGSIZE)
           /\ Keep(m) /\ call' = [call EXCEPT ![p].argv = @ \cup {pg}]
        \/ /\ Cardinality(argv) < MaxArgs /\ free # {} /\ ~walkaddr(p, a \div PGSIZE)
           /\ Done(p, m, argv \cup {pg})
     /\ UNCHANGED proc

\* The null pointer at the end of the arguments.
LastArg(p) ==
  /\ In(p, "args")
  /\ call' = [call EXCEPT ![p] = [op |-> "open", argv |-> @.argv]]
  /\ UNCHANGED <<free, mem, proc, err>>

\* kexec() up to the new page table; the file may be missing or no ELF file.
ExecOpen(p) ==
  LET m == proc_pagetable(Mem(NoSpace), proc[p].tf)
  IN /\ In(p, "open")
     /\ \/ \E prog \in Programs :
             /\ m.ok /\ Keep(m)
             /\ call' = [call EXCEPT ![p] = [op |-> "segment", argv |-> @.argv, segs |-> prog,
                                             as |-> Space(m), sz |-> 0]]
        \/ ~m.ok /\ Done(p, m, call[p].argv)
        \/ Done(p, Mem(NoSpace), call[p].argv)
     /\ UNCHANGED proc

\* bad: the new address space goes, the old one stays.
Bad(p, m, sz) == Done(p, proc_freepagetable(m, sz), call[p].argv)

\* The next program header; the file may end before it.
ExecSegment(p) ==
  LET c == call[p]
      s == Head(c.segs)
      to == PGSIZE * s.va + s.memsz
  IN /\ In(p, "segment") /\ c.segs # <<>>
     /\ \/ /\ s.memsz >= s.filesz /\ to > c.sz
           /\ call' = [call EXCEPT ![p] = [op |-> "alloc", argv |-> c.argv, segs |-> c.segs,
                                           as |-> c.as, sz |-> c.sz, v |-> PGROUNDUP(c.sz),
                                           to |-> to, perm |-> {"u"} \cup s.flags]]
           /\ UNCHANGED <<free, mem, err>>
        \/ /\ s.memsz >= s.filesz /\ to <= c.sz /\ c.sz > 0
           /\ call' = [call EXCEPT ![p].op = "load"]
           /\ UNCHANGED <<free, mem, err>>
        \/ Bad(p, Mem(c.as), c.sz)
     /\ UNCHANGED proc

\* A round of uvmalloc() in kexec(), and its end.
ExecAlloc(p) ==
  LET c == call[p]
      m == MapNew(Mem(c.as), c.v, Zero, c.perm)
      After == [op |-> IF c.segs = <<>> THEN "stack" ELSE "load", argv |-> c.argv, segs |-> c.segs, as |-> c.as, sz |-> c.to]
  IN /\ In(p, "alloc")
     /\ \/ /\ c.v >= PGROUNDUP(c.to)
           /\ call' = [call EXCEPT ![p] = After] /\ UNCHANGED <<free, mem, err>>
        \/ /\ c.v < PGROUNDUP(c.to) /\ m.ok
           /\ Keep(m) /\ call' = [call EXCEPT ![p].as = Space(m), ![p].v = @ + 1]
        \/ /\ c.v < PGROUNDUP(c.to) /\ ~m.ok
           /\ Bad(p, Undo(m, PGROUNDUP(c.sz), c.v), c.sz)
     /\ UNCHANGED proc

\* The pages a segment's file part covers.
Loaded(s) == s.va..(s.va + PGROUNDUP(s.filesz) - 1)

\* loadseg(); the file may be too short.
ExecLoad(p) ==
  LET c == call[p]
      vs == Loaded(Head(c.segs))
      pas == {c.as.leaf[v].pa : v \in vs \cap DOMAIN c.as.leaf}
  IN /\ In(p, "load")
     /\ \/ /\ err' = IF vs \subseteq DOMAIN c.as.leaf THEN err ELSE "loadseg"
           /\ mem' = [pg \in Pages |-> IF pg \in pas THEN File ELSE mem[pg]]
           /\ call' = [call EXCEPT ![p].op = "segment", ![p].segs = Tail(@)]
           /\ UNCHANGED free
        \/ Bad(p, Mem(c.as), c.sz)
     /\ UNCHANGED proc

\* After the last header: the stack and its guard.
ExecStack(p) ==
  LET c == call[p]
      sz == PGSIZE * PGROUNDUP(c.sz)
  IN /\ In(p, "segment") /\ c.segs = <<>>
     /\ call' = [call EXCEPT ![p] = [op |-> "alloc", argv |-> c.argv, segs |-> <<>>,
                                     as |-> c.as, sz |-> sz, v |-> PGROUNDUP(sz),
                                     to |-> sz + PGSIZE * (USERSTACK + 1), perm |-> {"u", "w"}]]
     /\ UNCHANGED <<free, mem, proc, err>>

\* The guard page is not for the user.
uvmclear(as, v) == [as EXCEPT !.leaf[v].perm = @ \ {"u"}]

OldSize(p) == proc[p].sz

\* uvmclear() of the guard, the arguments copied to the stack, which may be too
\* small, and the commit.
ExecCommit(p) ==
  LET c == call[p]
      top == PGROUNDUP(c.sz) - 1
      as == uvmclear(c.as, top - USERSTACK)
      old == proc_freepagetable(Mem(proc[p].as), OldSize(p))
  IN /\ In(p, "stack")
     /\ \/ /\ Done(p, [old EXCEPT !.mem[as.leaf[top].pa] = Args], c.argv)
           /\ proc' = [proc EXCEPT ![p].as = as, ![p].sz = c.sz]
        \/ /\ Bad(p, Mem(as), c.sz)
           /\ UNCHANGED proc

-----------------------------------------------------------------------------
Addresses == 0..(MaxSz + 1)

Step(p) ==
  \/ Grow(p) \/ uvmcopy(p) \/ LastArg(p)
  \/ (\E a \in Addresses : fetchaddr(p, a) \/ FetchArg(p, a))
  \/ ExecOpen(p) \/ ExecSegment(p) \/ ExecAlloc(p) \/ ExecLoad(p) \/ ExecStack(p) \/ ExecCommit(p)

Sbrk(p, n) == SbrkLazy(p, n) \/ SbrkEager(p, n) \/ Shrink(p, n)

Next ==
  \E p \in Procs :
    \/ Step(p)
    \/ \E v \in 0..PGROUNDUP(MaxSz), x \in Marks : Store(p, v, x)
    \/ \E a \in Addresses, x \in Marks : copyout(p, a, x)
    \/ \E a \in Addresses : Fault(p, a)
    \/ \E n \in Sizes : Sbrk(p, n)
    \/ \E c \in Procs : Fork(p, c)
    \/ Exit(p) \/ kwait(p) \/ sys_exec(p)

Spec == Init /\ [][Next]_vars
-----------------------------------------------------------------------------
\* One type invariant: pages, sizes and address spaces are of their kinds.
TypeOK ==
  /\ free \subseteq Pages
  /\ \A pg \in Pages : mem[pg] \in Values \cup {Junk}
  /\ \A p \in Procs :
       /\ proc[p].state \in {"UNUSED", "USED", "RUN", "ZOMBIE"}
       /\ proc[p].sz \in 0..MaxSz
       /\ DOMAIN proc[p].as.leaf \subseteq 0..(MAXVA - 1)

\* The address spaces there are: of processes, and under construction in kexec().
Built(p) == IF "as" \in DOMAIN call[p] THEN call[p].as ELSE NoSpace
Argv(p) == IF "argv" \in DOMAIN call[p] THEN call[p].argv ELSE {}

\* The uses of page pg by an address space, the trapframe aside.
Uses(as, pg) ==
  {d \in DOMAIN as.dirs : as.dirs[d] = pg}
  \cup {v \in DOMAIN as.leaf \ {TRAMPOLINE, TRAPFRAME} : as.leaf[v].pa = pg}

\* Its uses by process p.
Owners(p, pg) ==
  {<<p, "trapframe">> : x \in {proc[p].tf} \cap {pg}}
  \cup {<<p, "argv">> : x \in Argv(p) \cap {pg}}
  \cup {<<p, "as", u>> : u \in Uses(proc[p].as, pg)}
  \cup {<<p, "exec", u>> : u \in Uses(Built(p), pg)}

\* Every page is in the free list or used once: none is lost by an error path,
\* none freed while in use, none shared by two processes or with the kernel.
PageOnce ==
  \A pg \in Pages :
    LET owners == UNION {Owners(p, pg) : p \in Procs}
                    \cup {<<"kernel", u>> : u \in Uses(kvmmake, pg)}
    IN IF pg \in free THEN owners = {} ELSE Cardinality(owners) = 1

\* While sizes stay below the trap frame, no panic, on any path where memory runs
\* out: no remap (vm.c:166), no leaf left for freewalk(), no page freed twice, no
\* segment to load where nothing is mapped (exec.c:163).  Beyond it the code does
\* panic, and MaxSz leaves that out: sys_sbrk() grows a process lazily without a
\* limit (sysproc.c:58), growth across the trap frame ends in "remap", and a
\* fault above MAXVA in "walk", where vmfault() should return 0 (vm.c:450).
NoPanic == err = ""

\* What kexec() has to load for a program.
Image(prog) ==
  LET end == CHOOSE n \in 0..MAXVA :
               /\ \A k \in DOMAIN prog : PGROUNDUP(PGSIZE * prog[k].va + prog[k].memsz) <= n
               /\ \E k \in DOMAIN prog : PGROUNDUP(PGSIZE * prog[k].va + prog[k].memsz) = n
  IN [v \in 0..(end + USERSTACK) |->
        IF v = end + USERSTACK THEN Args
        ELSE IF \E k \in DOMAIN prog : v \in Loaded(prog[k]) THEN File ELSE Zero]

\* The memory of process p as its program sees it.
Contents(p) ==
  IF proc[p].state # "RUN" THEN <<>>
  ELSE [v \in 0..(PGROUNDUP(proc[p].sz) - 1) |->
          IF v \in DOMAIN proc[p].as.leaf THEN mem[proc[p].as.leaf[v].pa] ELSE Zero]

Abstract ==
  INSTANCE PrivateMemory
    WITH MaxPages <- PGROUNDUP(MaxSz), Images <- {Image(g) : g \in Programs},
         space <- [p \in Procs |-> Contents(p)]

\* Each process has the memory PrivateMemory promises: new pages are zero, fork
\* copies, exec replaces all or nothing, and what others do is not seen.
IsPrivateMemory == Abstract!Spec
=============================================================================
