# TLA+ models of system-and-networking

The repository holds five independent programs. The largest, and the one with
the hardest concurrency, is the xv6 kernel (`src/xv6-labs-2025`); the others are
a link-state routing simulator in Java (`LinkState_routing`), a user-level
thread scheduler (`th-scheduler`), a zero-configuration service library
(`ZeroConfig-Network`) and a small shell (`mysh`). This directory models the
kernel from the system calls down to the disk, the console and the clock, the
routers and the thread scheduler.

## Inventory

| Part | State | Operations | Hard because | What makes it correct |
|---|---|---|---|---|
| `kernel/log.c` | header in memory and on disk, log blocks, `outstanding`, `committing` | `begin_op`, `log_write`, `end_op`, `commit`, `recover_from_log` | group commit of concurrent calls; a crash between any two block writes, also during recovery; log space | all or nothing after a crash; write-ahead; space is enough; nobody sleeps forever |
| `kernel/bio.c`, `sleeplock.c` | buffers with `refcnt`, `valid`, sleep lock, LRU list | `bget`, `bread`, `bwrite`, `brelse`, `bpin`, `bunpin` | lock of the table dropped before the lock of the buffer is taken; recycling | one copy per block, exclusive use, no buffer recycled in use |
| `kernel/virtio_disk.c` | descriptors, two rings, `info[]` | `virtio_disk_rw`, `virtio_disk_intr` | device and driver run in parallel; completions in any order; indices wrap | descriptors conserved; return means served; every request ends |
| `kernel/pipe.c` (with `file.c`) | ring buffer, two counters, two open flags, reference counts | `pipewrite`, `piperead`, `pipeclose`, `filedup`, `fileclose` | sleep and wakeup of both sides, kills and copy faults between any two bytes, closing in any order | bounded FIFO; no lost wakeup; freed exactly once |
| `kernel/proc.c` | process table, `p->lock`, `wait_lock`, CPUs | `kfork`, `kexit`, `kwait`, `kkill`, `sleep`, `wakeup`, `yield`, `scheduler` | two CPUs, locks handed over through `swtch`, parent and child exiting together | a kernel stack is used by one CPU; no stranded child; no missed exit |
| `kernel/fs.c`, `sysfile.c` (names) | inode table, on-disk inodes, directories | `iget`, `iput`, `ilock`, `ialloc`, `ireclaim`, path calls | reference counts against link counts, crash between unlink and last close, lock order | no inode freed in use, none lost |
| `kernel/fs.c`, `file.c` (contents) | block bitmap, direct and indirect blocks, `f->off` | `balloc`, `bfree`, `bmap`, `readi`, `writei`, `itrunc`, `filewrite` | several transactions per write, crash, full disk, failed copy, shared offset | no block lost or shared; files hold what was written |
| `kernel/file.c`, `sysfile.c` (descriptors) | `ftable`, `ofile[]` | `open`, `pipe`, `dup`, `close`, `fork`, `exit` | error paths that give back different parts | references exact, everything released once (in part: see *Not modelled*) |
| `kernel/console.c`, `uart.c` | input ring `r`/`w`/`e`, transmit flag | `consoleread`, `consoleintr`, `uartwrite`, `uartintr` | interrupt against system call | lines arrive in order, no lost wakeup |
| `kernel/vm.c`, `kalloc.c`, `exec.c` | page tables, free list | `uvmcopy`, `uvmalloc`, `vmfault`, `kexec` | partial failure half-way through building an address space | each page has one owner |
| `kernel/spinlock.c`, `trap.c`, `sysproc.c` | interrupt nesting, ticks | `push_off`, `pop_off`, `clockintr`, `sys_pause` | an interrupt at any instruction; processes that change CPU inside a handler | interrupts and locks matched, no tick missed |
| `user/umalloc.c` | circular free list | `malloc`, `free`, `morecore` | long sequences of cuts and joins | blocks partition the heap (not modelled) |
| `LinkState_routing` | ports, link-state database of each router | ATTACH, HELLO, LSAUPDATE, DISCONNECT; `getShortestPath` | a terminal thread and one server thread per connection share the ports; flooding | a link is two-way only if both ends have it, nobody takes back an old LSA |
| `th-scheduler` | three queues, two mutexes | `sut_create`, `sut_yield`, `sut_open`, ..., executors | two executors and an I/O thread | no task runs twice, every task runs |
| `ZeroConfig-Network` | local registry | `zcs_init`; the rest is commented out | | |
| `mysh` | command tree of one line | parser, `exec` | sequential | tree matches the line |

System calls reach the disk through `begin_op` → `bread` → `log_write` →
`end_op`; `log.c` uses the buffer cache (pins), the cache uses the driver, all
of them sleep and wake through `proc.c`. Pipes bypass the disk and use `proc.c`
only. A composed model takes the layer below as its abstract specification:
`Inode` and `FileData` stand on the log as `AtomicDisk` describes it. `PROJECT.json` lists every hazard at its line.

## Modules

Each component has a module with its state, one action per operation or
critical section, and its properties at the end; `MC*` modules only add
symmetry sets and the values of constants that are functions or records.
Definitions whose name contains an underscore followed by a
capital letter and that are marked *mutant* are faulty variants of the
definition after them; no specification uses them.

| Module | Models | A step is |
|---|---|---|
| `AtomicDisk` | what the log promises: groups of operations reach the disk together or not at all | |
| `Log` | `log.c`, the pins and evictions of `bio.c`, power failure | a critical section of `log.lock`, or one block write |
| `LogProofs` | proofs about `Log`, and that it implements `AtomicDisk` | |
| `BlockStore` | what the cache promises: one value per block, one user at a time | |
| `BCache` | `bio.c`, `sleeplock.c` | a critical section of `bcache.lock` or of a sleep lock, or one disk transfer |
| `BCacheProofs` | proofs about `BCache`, and that it implements `BlockStore` | |
| `VirtioDisk` | `virtio_disk.c` and a device (external) | a critical section of `vdisk_lock`; the handler acknowledges, takes each entry and returns in separate steps, because the device does not respect the lock |
| `VirtioProofs` | proofs about `VirtioDisk` | |
| `Channel` | what a pipe promises: a bounded FIFO | |
| `Pipe` | `pipe.c`, the reference counts of `file.c`, `kfork`'s `filedup`, kills | one byte, one wakeup-and-sleep, one acquire |
| `PipeProofs` | proofs about `Pipe`, and that it implements `Channel` | |
| `Proc` | the process table and `scheduler()` | a critical section of one `p->lock`; `swtch` away from a process is a step of its own |
| `ProcProofs` | proofs about `Proc` | |
| `Inode` | names and inodes: `fs.c`, `sysfile.c`, crash and `ireclaim` | a critical section of `itable.lock`, or what a call does under an inode's lock before its next visit to the table |
| `InodeProofs` | proofs about `Inode` | |
| `ByteFiles` | what the file layer promises: a file is a sequence of bytes, a crash returns to the end of a group of transactions, and only bytes of a failed write may come and go | |
| `FileData` | the image of `mkfs`, bitmap, block pointers, `readi`, `writei`, `itrunc`, `fileread`, `filewrite`, recycled buffers | `begin_op`, `ilock`, or one block of a write or of a truncation |
| `PrivateMemory` | what virtual memory promises: each process reads what it wrote, a child what its parent had, new memory is zero | |
| `Vm` | `kalloc.c`, `vm.c` with the kernel page table, `exec.c`, `fetchaddr` and the calls that use them | one round of a loop over pages |
| `Console` | `console.c`, `uart.c`, `printf.c`, `plic.c` and a UART (external) | one character, one sleep, one acquire of `cons.lock` |
| `ConsoleProofs` | proofs about `Console` | |
| `Clock` | boot (`start`, `main`, `forkret`), `spinlock.c`, timer traps, `sys_pause`, `sched` and `scheduler` with the interrupt state | `push_off`, the test-and-set, or what follows up to the next of them |
| `ClockProofs` | proofs about `Clock` | |
| `LinkState` | routers: terminal, handler threads, connections, databases | what a thread does between two receptions or critical sections |
| `Sut` | `sut.c`, `queue.c` | one access to a queue's list, one lock or unlock of a mutex, a read or a write of the count |

Variables keep the names of the C fields where they have one (`lh`,
`outstanding`, `committing`, `nread`, `nwrite`, `refcnt`, `used_idx`, ...).
`pc` says where a process is between two critical sections; `held`, `wrote`,
`cur`, `todo` are local variables of C functions.

Abstractions. A block's or byte's contents is a model value. `log.c` is modelled
with an arbitrary cache below it (any unpinned, unheld buffer may vanish at any
time), so that its guarantees do not depend on the LRU policy; `BCache` models
the policy. The log blocks are read and written through the cache too; their
buffers are only used by the committer, so the model writes them directly. A
disk transfer is one atomic step for `Log` and `BCache`; `VirtioDisk` shows that
a returning transfer was carried out. In `Proc`, only `kwait` sleeps: the other
sleepers are the subject of their own modules. A failed `allocproc` or
`uvmcopy` gives the slot back under the lock it was taken with, and is
invisible.

* `Inode`: a directory maps names to inode numbers; the file's contents and the
  blocks are in `FileData`. A process has one descriptor. `pc` is the label of a
  call, `cur`, `ip` and `dp` its local variables, and `put` the inode that `iput`
  has still to be called for before the call goes on at `pc`.
* `FileData`: a `copyin` that fails may have copied any part of its piece of the
  block. The change stays in the cached block without being logged; `lh` has the
  blocks that are logged since the last commit, so a block outside it that
  differs from the disk may fall back to it (`Recycle`) and a commit leaves it
  out (`Committed`). `ByteFiles` calls such bytes torn. Every block may
  have a bitmap block of its own (`BPB` is a constant). The first disk is the one
  `mkfs` makes; it asserts that the blocks in use fit in one bitmap block, and
  `ImageAssumption` excludes the image whose root directory ends exactly at a
  block boundary, where `mkfs` rounds the size up past the last block.
* `Vm`: addresses count half pages and page tables have three levels of `Fan`
  entries; `kalloc` takes the lowest free page. Programs and sizes stay below
  `TRAPFRAME` (`SizeAssumption`), and init makes no access that would kill it. Of the
  kernel's own page table the pages it takes are modelled, not the addresses of
  the devices. The system may stop: `forkret` panics
  if the first `exec` fails, so deadlock is not checked there.
* `Console`: `tx_lock` covers one step; the UART holds a few characters; one
  process stands for all that call `printf`, since `pr.lock` serialises them. The
  test of `killed()` and the sleep in `consoleread` are one step, so a kill in
  between, which the code does not notice until there is input, is left out.
* `Pipe`: the byte leaves the buffer; the reader's memory that it is copied to is
  not modelled.
* `Clock`: the timer may interrupt any instruction where interrupts are on;
  `killed()` is a read (its lock is not taken), `wfi` is left out, a killed
  process's parent is `Proc`'s subject. Locals of `sys_pause` are reset when it
  returns.
* `LinkState`: a received LSA is a fresh copy (back references of Java streams
  are not modelled); a loop that only sends is one step, and so is the handler of
  LSAUPDATE; a socket is a FIFO that
  breaks when its owner quits. The handler of ATTACH answers before it connects
  back and adds its link, under the lock of `ports` all the while, and `start`
  lists its links before it publishes them. `connect` is the command line only, since
  `processConnect` cannot be reached.
* `Sut`: one executor (`EXEC` 0), tasks end with `sut_exit`; unlocking a mutex
  that is not held makes it free, whoever holds it. A queue is its linked list,
  `head`, `tail` and `next`, and `queue_insert_tail` and `queue_pop_head` read and
  write them one at a time, with a mutex or without, as their callers do; memory is
  sequentially consistent. A call through a `tail` that has become NULL, or on a
  stack that was overwritten, ends the behaviour (`wrong`). `Cexec` runs the entry
  it has peeked, whatever it pops. `sut_read` is declared but not defined.

## Runs

One run for each component; every property of the project is in one of them.

| Run | Question | Properties |
|---|---|---|
| `log` | does the log keep its promise at whatever step the power fails? | `CrashAtomic`: `Log` implements `AtomicDisk`, recovery included. `LogSpace`: what `begin_op` reserves is enough; `NoPanic`, the full log included, for operations below `MAXOPBLOCKS` blocks. `SleeperWoken`: neither `end_op` nor the commit leaves a sleeper behind |
| `bcache` | is the cache one store of blocks? | `IsBlockStore`: `BCache` implements `BlockStore`, no lost update and no stale read across recycling. `OneCopy`. `NoSleeperOnFree`: no missed wakeup of a sleep lock |
| `virtio` | do driver and device agree on who owns what? | `DescriptorsOwned`: none leaked or shared, also on the failure path of `alloc3_desc`. `DoneMeansServed`: no step of `virtio_disk_rw` returns before the device has served the request. `RequestCompletes`, `AllocatorWoken`: nobody waits forever, whatever the device completes during the handler |
| `pipe` | is a pipe shared by several processes a channel? | `IsChannel`: `Pipe` implements `Channel` while the counters wrap. `NoMissedWakeup`. `FreedInTime`: the page is freed exactly when the last user is gone |
| `proc` | is the process table safe with two CPUs? | `StackExclusive`: one CPU per kernel stack. `NoOrphan`, `NoMissedExit`: exit and wait meet in any order |
| `inode` | are names, link counts and reference counts right, with crashes and a full disk? | `RefExact`, `Coherent`, `LinksExact`; `Reclaimed`: after a reboot each allocated inode has a name; `NeverStuck`: no panic, no circular wait of inode locks, for calls outside removed directories |
| `file_data` | do blocks and bitmap agree, and does a file hold what was written? | `IsByteFiles`: `FileData` implements `ByteFiles`, with copies that fail inside a block. `DiskConsistent` after a crash at any step. `OpFits`: each transaction of a write fits in the log |
| `vm` | has each process memory of its own? | `IsPrivateMemory`: `Vm` implements `PrivateMemory` over fork, exec, lazy growth and shrinking. `PageOnce`: on every error path each page has one owner. `NoPanic` below the trap frame |
| `console` | does what is typed and written arrive? | `InputKept`: the ring is what line editing defines. `ReadsEnd`, `WritesEnd` |
| `clock` | are interrupts and locks matched when processes are switched inside handlers? | `InterruptsMatched`, `NeverStuck`, `TickNotMissed`, `NotEarly` while `ticks` wraps |
| `linkstate` | do routers agree on links and LSAs? | `TwoWayAnswered`: who takes a link for two-way has been answered on a link of the other end. `OwnNewest`, `OwnEntryKept` |
| `sut` | what do the races on its queues leave of the thread scheduler? | `NeverTwice`: no entry of a queue is resumed twice. `AllRun` |

### Bounds

* `Log`: 2 processes, 4 blocks and a log of 4, so that the log can be full; 2
  blocks are reserved for each operation, which writes 1. Operations that overlap
  fill the log until one has to wait for the commit; both may write one block
  (absorption), and a partial installation shows. Two of the blocks are only
  written with what they hold (`Writes`, `FewWrites`): they count for the space,
  the other two for the contents. The proofs cover all sizes and writes.
* `BCache`: 3 processes, 3 blocks, 2 buffers: hits, recycling in both LRU
  orders, waiting on a buffer's lock, and exhaustion.
* `VirtioDisk`: 8 descriptors as in the code and 3 processes, so two requests
  are in flight, two descriptors are left over (the failure path of
  `alloc3_desc` with something to give back) and one process waits; a ring of 2,
  which two requests fill (8 in the code, where `NUM` is also the size of the
  rings, so that only the descriptors limit the requests); indices wrap at a
  small multiple of the ring size, as `uint16` does at 65536.
* `Pipe`: 3 processes that inherit and close ends, of which one may be killed; a
  buffer of 2, transfers of up to 2, counters that wrap at a multiple of the
  buffer size (`UINT`, 2^32 in the code).
* `Proc`: 4 slots, 2 CPUs: init, a parent and its children, and a free slot to
  recycle.
* `Inode`: 2 processes, 3 inodes, 2 names; the calls of `SomeCalls` on an image
  with a subdirectory and as many table entries as inodes, so that the table does
  not overflow. A name can be unlinked while it is open, an inode
  reallocated after it was freed, a directory made, entered and removed.
* `FileData`: 2 files, 10 blocks of 2 bytes of which a bitmap block covers 8,
  direct and indirect pointers, so that writes
  are unaligned, cross blocks, fill the disk and need several transactions, and a
  copy can fail between the two bytes of a block; 3 calls (`MaxCalls`) of 1 or 4
  bytes: a failed write, one that logs the same block, and one between them.
* `Vm`: 2 processes, 29 pages, of which the kernel page table takes some, which run out in `fork` and `exec`. `MaxCalls`
  bounds stores, faults and system calls, enough to grow, touch, fork, shrink
  and exec in one behaviour.
* `Console`: a reader and a writer, a ring of 2, 3 keys
  of all kinds, a print by another hart. The indices go round the ring but do not
  reach `Wrap`: that they may wrap is proved (`InputNotLost`), not checked.
* `Clock`: 2 CPUs, 2 processes, `ticks` modulo 2, pauses of one tick, one kill.
* `LinkState`: 3 routers in a line, two starts of the one in the middle and one of
  its neighbour, so that both ends of a link start and one of them again, and one
  other command of the first; `MaxPorts` 2 (4 in the code).
* `Sut`: 2 tasks that make 3 calls of all kinds between them, so that an insertion
  by `i_exec` meets one by a task or by `sut_create`, and a removal by the
  executor, at each of their accesses. An overwritten stack needs a third task,
  which the run does not have.

### Fairness

* `log`: weak fairness of each process's own kernel steps (the scheduler runs
  every RUNNABLE process in turn and the disk answers) and of recovery; strong
  fairness of `EndOp` (a system call makes finitely many writes before it ends;
  it is disabled only while a buffer is held). Nobody is obliged to make a call
  or to crash.
* `virtio`: weak fairness of the device for each request and of the handler;
  strong fairness of each process's steps: a woken process gets `vdisk_lock` in
  the end, although others and the handler take it in between.
* `console`: weak fairness of the UART, the interrupt handler, the printing hart
  and each process in a call; nobody is obliged to type.
* `sut`: weak fairness of each kernel thread, as the operating system gives it.

### What the properties leave out

The models contain the following behaviours of the code. Each was met while
modelling; a property that they would break is stated for the rest only, by a
guard in the property or by the bounds of its run, as its comment says.

* `log.c`: `log_write` tests `lh.n >= LOGBLOCKS` before it looks for the block
  in the log, so operations of exactly `MAXOPBLOCKS` blocks can fill the log and
  panic on a rewrite. `NoPanic` is for `OpBlocks < MAXOPBLOCKS`.
* `pipe.c`: `pipewrite` returns on a kill without the wakeup of its other exit.
  `NoMissedWakeup` speaks of readers while nobody was killed.
* `proc.c`: a kill between the test and the sleep of `kwait` finds the process
  running; it sleeps until a child exits.
* `fs.c`, `sysfile.c`: `iput` frees the inode and lowers `ref` in two critical
  sections, so an inode reallocated and dropped in between stays allocated until
  reboot; `create` does not test that the directory it locked is still linked;
  `..` of a removed directory can lead to a freed inode. `SomeCalls` creates only
  in directories that stay.
* `fs.c`: after a copy that failed inside a block, the file reads differently
  until the buffer is recycled, or for good if the block is logged before that;
  `ByteFiles` allows it for the bytes the failed write was given.
* `sysproc.c`: lazy growth has no upper limit. Growth across the trap frame makes
  `mappages` panic ("remap"), and a fault above `MAXVA` makes `walk` panic, where
  `vmfault` "returns 0 if va is invalid" (`vm.c:450`). `NoPanic` of `Vm` is for
  sizes below the trap frame.
* Routers: the limit of four ports is tested outside the lock; `start` loops over
  ports that handlers change; `detect` meets missing entries; `processConnect`
  cannot be reached; HELLO may overtake the answer to ATTACH; an update is sent
  back to its sender and forwarded without news; after a disconnect an older LSA
  may replace a newer one; an LSAUPDATE may be taken for HELLO_TWO_WAY, so that a
  link stays INIT at one end. `TwoWayAnswered` holds until links are given up.
* `sut.c`: a task may be lost when the list of a queue is changed under two mutexes
  or none, and NULL be followed as a tail; the count of
  tasks is the index of the next slot; the executor ends when the count is zero;
  `Iexec` locks its mutex twice; `sut_shutdown` joins a thread that does not end.
  `NeverTwice` is about entries: two tasks with one slot may be begun as one.
  `AllRun` is for tasks that only yield and have slots of their own, and allows an
  executor that has ended.

## Proofs

The theorems hold for any number of processes, blocks, buffers, slots, CPUs and
descriptors and for any sizes. What they assume of the constants is the `ASSUME`
of the module they are about (`LogAssumption`, `PipeAssumption`,
`BCacheAssumption`, `ProcAssumption`, `VirtioAssumption`, `ClockAssumption`,
`InodeAssumption`, `ConsoleAssumption`):
finite sets, sizes that are not zero, a counter that wraps at a multiple of the
buffer or ring it indexes, a longest pause below the modulus of `ticks`, and values such as `None` that are told apart. TLC evaluates them in
the runs. Each module states its inductive invariant behind its properties as a
conjunction of named parts; TLC has checked every part on the instances of the
runs before it was proved.

| Module | Theorem | States |
|---|---|---|
| `LogProofs` | `LogInvariant`, `TypeCorrect` | `Spec => []LogInv`, and its part `TypeOK` |
| | `SpaceSufficient` | `[]LogSpace` |
| | `PanicFree` | `[]NoPanic` if `OpBlocks < MAXOPBLOCKS` |
| | `DataInvariant` | `[]DataInv` |
| | `LogIsAtomic` | `Spec => CrashAtomic`: `Log` implements `AtomicDisk` |
| `BCacheProofs` | `CacheInvariant` | `[]CacheInv` |
| | `NoDuplicate`, `SleepersWoken` | `[]OneCopy`, `[]NoSleeperOnFree` |
| | `CacheRefines` | `Spec => IsBlockStore`: `BCache` implements `BlockStore` |
| `VirtioProofs` | `VirtioInvariant` | `[]VirtioInv` |
| | `DescriptorsHaveOneOwner` | `[]DescriptorsOwned` |
| | `ReturnedMeansServed` | `Spec => DoneMeansServed`, an action property |
| | `PanicFree` | no panic of the driver |
| `PipeProofs` | `PipeInvariant` | `[]PipeInv` |
| | `WakeupsNotMissed`, `FreedWhenUnused` | `[]NoMissedWakeup`, `[]FreedInTime` |
| | `PipeIsChannel` | `Spec => IsChannel`: `Pipe` implements `Channel` |
| `ProcProofs` | `ProcInvariant` | `[]ProcInv` |
| | `StacksExclusive`, `OrphansAdopted`, `ExitsNotMissed` | `[]StackExclusive`, `[]NoOrphan`, `[]NoMissedExit` |
| `ClockProofs` | `ClockInvariant` | `[]ClockInv` |
| | `IntrMatched`, `CpusNeverStuck` | `[]InterruptsMatched`, `[]NeverStuck` |
| | `TicksNotMissed`, `PausesNotEarly` | `[]TickNotMissed`, `[]NotEarly` |
| `InodeProofs` | `InodeInvariant` | `[]InodeInv` |
| | `RefsExact`, `TableCoherent` | `[]RefExact`, `[]Coherent` |
| | `OrphansReclaimed` | `Spec => Reclaimed` |
| `ConsoleProofs` | `ConsoleInvariant` | `[]ConsoleInv` |
| | `InputNotLost` | `[]InputKept` |
| | `WakeupsNotMissed` | `[](NoSleeperOnInput /\ NoSleeperOnIdle)` |

**The log.** `LogSpace` alone is not inductive. It counts *tokens*: `Reserved`
has one for each block that an operation in progress may still add, and the
header and the tokens together fit in the log. `begin_op` creates at most
`MAXOPBLOCKS` tokens per operation (`TokensBound`: a product of sets), and its
test covers all operations because `outstanding` is exact (`OpAccounts`).
`log_write` of a new block appends one block and destroys one token (that there
is one to destroy needs the bound on an operation's blocks); a block the
operation has already written is in the header (`wrote[p] \subseteq
Logged(lh)`), so it is absorbed. The committer is alone (`OneCommitter`), so the
header shrinks only when there are no tokens. `HeadersDistinct` and
`LoggedPinned` are needed for the type of `pins`: `install_trans` unpins each
block once. `PanicFree` follows because a process that calls `log_write` still
owns the token number `MAXOPBLOCKS`.

`LogIsAtomic` needs where the contents of a block are (`DataInv`): the header on
the disk is empty except between the commit point and the erasure
(`HeaderOnDisk`); a cached block that is neither logged nor held is what its home
location holds (`CleanBlocks`); what `write_log` has copied is what the cache
holds (`CopiedToLog`), and what `install_trans` has copied is at home
(`CopiedHome`). Then `WriteHead` is the step `Commit` of the atomic disk, and the
only one that changes the durable contents; an installed block, a recovered
block, the erased header and a recycled buffer (this is where the pins are
needed) change neither what a crash would leave nor what a call reads.

**The cache.** `b->refcnt` is the number of processes between `bget` and `brelse`
plus the pin (`Counted`), so a buffer with count zero has no user and can be
given another block without a second copy arising; the holder of a buffer's lock
is the process that is using it (`LockHeld`), so two processes never use one
block; a valid buffer agrees with the disk unless its user or the log has still
to save it (`Clean`), so recycling loses nothing. The map to `BlockStore` takes
the valid buffer's contents, else the disk's; no step but a write of the user
changes it.

**The driver.** The chain of a request is owned by its process from `alloc3_desc`
to `free_chain` (`Owned`, `ChainOfCall`, `Dist`); every submitted request is in
exactly one place: offered in the available ring, in flight in the device,
completed in the used ring, or collected (`OnePlace`, `Queued`, `Completed`). The
indices of the rings stay within a window of `RING` entries (`Window`), because
there are at most `NUM \div 3` requests; so their difference tells how many
entries are valid although they wrap. A process that finds `b->disk` cleared has
been served (`AnsweredServed`), so the step that returns comes after the service.

**Pipes.** `NoMissedWakeup` speaks of the moments when `pi->lock` is free. In
between, the owner of the lock (`LockOwner`) still owes a wakeup (`WritersWoken`,
`ReadersWoken`), and what a process has tested before it sleeps stays true until
it does (`TestedUnderLock`). `FreedInTime` rests on `OpenWhileUsed` and
`OneCloser`: the last reference to an end goes to `pipeclose` once. For the
channel the distance of the counters is computed modulo `UINT`, the position in
the buffer modulo `PIPESIZE`; because the one is a multiple of the other, the
position of the next byte is the one behind the last, and differs from that of
each byte not yet read (`ModDistinct`).

**Processes.** `StackExclusive` holds because a process that a CPU has left is
chosen again only under its `p->lock`, which `sched` hands to the scheduler;
`PcOfState` ties the state of a slot to where its code is. `NoOrphan` and
`NoMissedExit` need what the scans of `kwait` and `reparent` have passed so far
(`Scanned`, `Reparenting`) while `wait_lock` is held, and that a parent is awake
between its child's `ZOMBIE` and the wakeup (`ParentAwake`).

**The clock.** The proof sees a thread's stack of frames through five functions:
where the thread is (`place`, `arg`), whether a handler runs on top (`trapped`)
and where the interrupted code is (`base`, `baseArg`). From the place of the
thread a CPU runs follow the locks it holds (`LocksHeld`), `noff`, and what
`intr` and `intena` are (`IntrState`); `OnCpu` and `OffCpu` say the same of the
switches: the scheduler of a CPU that runs a process waits in `back` for that
process, so a switch hands the process's lock to the thread that counts on it,
and a process that continues finds in `saved` the `intena` its place needs. A
step of one CPU leaves the locks, the counters and the thread of every other CPU
alone (`OthersRight`), because no two CPUs run one thread. For `NeverStuck`, who
holds a process's lock waits for nothing, and who holds `tickslock` waits for a
process's lock at most. `TimeCounted` ties `ticks - ticks0` modulo `UINT` to the
ticks gone by (`ModStep`); a process between its test and `SLEEPING` holds
`tickslock`, so no tick comes in between.

**Inodes.** Of the calls and the disk image `InodeAssumption` asks only that they
are well formed, so the theorems cover images that no `mkfs` made and calls that
work in removed directories. `FrameOK` says which local variables of a call point
to an inode at each label, and `Locked` and `Freeing` which locks it holds there
(`LocksHeld`). `ip->ref` is the number of places that point to the entry
(`RefsCounted`): a step of a call moves a pointer from one place of its process to
another, takes one with `iget` or `idup`, or drops one in `iput`, and the lemmas
`RefsMove`, `RefsTake`, `RefsDrop` and their combinations say what that does to
the counts. What somebody points to is in use, and so `iget` does not take its
entry (`IgetTable`). Two entries in use are of different inodes, and a valid one
is of an allocated inode and agrees with it (`TableOK`). This is why `ialloc` may
write an inode it finds free without looking at the table (`FreeTable`), why
`iput` has to clear `valid` before it lets go of the lock (`FreedTable`), and why
a change of a link count is safe only in an entry that is valid (`NlinkTable`,
which `LocksHeld` provides: what is locked is valid). After a panic no process
moves, and until the machine restarts only `TypeOK`, `TableOK` and `BootOK` are
claimed. `Reclaimed` follows
from `BootOK`, which says that what `ireclaim` has passed is in order and that
nothing is cached meanwhile.

**The console.** The ring is seen as segments, the `n` characters from an index
on (`Segment`): the input is the segment from `r` to `w` and the line the one from
`w` to `e`. `Wrap` is a multiple of `Size`, so a segment does not depend on where
its index wraps (`SegmentWraps`); `RingOrder` keeps `r`, `w` and `e` within `Size` of
each other, so the slot a key is written to is not in either segment
(`SlotsDiffer`), which is why `consoleintr` must test for room. A read takes the
head of one segment, an erased character the end of the other, and what is passed
on is the two joined. `NoSleeperOnInput` and `NoSleeperOnIdle` are the safety half
of `ReadsEnd` and `WritesEnd`: a writer sleeps only while `tx_busy` is set, and
then a character is on its way, or the interrupt is pending, or the handler is
between acknowledging it and clearing `tx_busy`. `printf` and the echo, which
write `THR` without `tx_busy`, cancel a pending interrupt only by sending a
character that raises another. `LockOwner` says that `cons.lock` has one owner.

Only model-checked: `LinksExact` and `NeverStuck` of `Inode`, which are true of
the calls and the image of the run and not of all (see above); liveness
(`SleeperWoken`, `RequestCompletes`, `AllocatorWoken`, `ReadsEnd`, `WritesEnd`,
`AllRun`), which is out of the prover's reach; and everything about `FileData`,
`Vm`, `LinkState` and `Sut`.

## Not modelled, and the plan

* The search for free entries of `ftable` and `ofile[]` and the error paths of
  `sys_pipe` and `sys_dup`; references to inodes and pipe ends are in `Inode` and
  `Pipe`.
* `getShortestPath` and `user/umalloc.c`: sequential computations that no other
  thread sees half-done.
* User programs and tests, device registers, formatting, string functions and
  assembly: sequential, or outside what a state machine can say.
* `ZeroConfig-Network`: the announcements, listeners and heartbeats of `zcs.c`
  are commented out; what is compiled sends nothing, prints what it receives and
  calls a function that does not exist. There is no protocol left to model.
* `mysh`: a parser and `fork`/`exec` of one line at a time; nothing runs beside
  it and no state survives a line.
* `EXEC` 1 of `th-scheduler`, `procdump`, the fetching of integer and string
  arguments of system calls.

What is left is proof: `DiskConsistent` of `FileData`, `OwnNewest` of
`LinkState` and `NeverTwice` of `Sut`.
