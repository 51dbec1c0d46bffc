-------------------------------- MODULE Log --------------------------------
(***************************************************************************)
(* The redo log of xv6 (kernel/log.c), with the part of the buffer cache   *)
(* it relies on (pins and eviction, kernel/bio.c) and power failures.      *)
(*                                                                         *)
(* A step of the model is one critical section of log.lock or one block    *)
(* write to the disk; a crash may come between any two steps, also during  *)
(* recovery.  A block write is atomic (external: the disk).                *)
(***************************************************************************)
EXTENDS Naturals, Sequences, FiniteSets

CONSTANTS
  Procs,         \* the processes that make file-system calls
  Blocks,        \* the blocks outside the log
  Vals,          \* what a block can hold
  Absent,        \* "no buffer of the cache holds this block"
  MAXOPBLOCKS,   \* blocks begin_op reserves for a system call (kernel/param.h)
  OpBlocks,      \* distinct blocks a system call really writes
  Writes,        \* bound: pairs <<b, v>>, the operations write v to block b
  LOGBLOCKS      \* data blocks of the log (kernel/param.h)

ASSUME LogAssumption ==
  /\ IsFiniteSet(Procs)
  /\ IsFiniteSet(Blocks)
  /\ Absent \notin Vals
  /\ MAXOPBLOCKS \in Nat
  /\ OpBlocks \in 0..MAXOPBLOCKS
  /\ Writes \subseteq (Blocks \X Vals)
  /\ LOGBLOCKS \in Nat

VARIABLES
  \* on the disk
  home,          \* the home location of every block
  logData,       \* the data blocks of the log, log.start+1 ...
  hdr,           \* the header block: block[0..n-1]
  \* in memory
  cache,         \* the buffer cache: block -> contents or Absent
  pins,          \* references bpin() holds on a block's buffer
  lh,            \* log.lh: block[0..n-1]
  outstanding,   \* log.outstanding
  committing,    \* log.committing
  pc,            \* where each process is
  held,          \* buffers a process has modified and not yet passed to log_write
  wrote,         \* blocks a process has log_written in its operation
  tail,          \* the loop variable of write_log and install_trans
  boot,          \* the step of recover_from_log, "up" once it has returned
  panic          \* some panic() was called: only a reboot is left

disk == <<home, logData, hdr>>
logMem == <<lh, outstanding, committing>>
opMem == <<held, wrote>>
vars == <<home, logData, hdr, cache, pins, lh, outstanding, committing,
          pc, held, wrote, tail, boot, panic>>

PcStates == {"idle", "begin", "sleep", "op", "commit", "write_log",
             "install", "done"}
BootStates == {"read_head", "install", "up"}

TypeOK ==
  /\ home \in [Blocks -> Vals]
  /\ logData \in [1..LOGBLOCKS -> Vals]
  /\ hdr \in Seq(Blocks)
  /\ cache \in [Blocks -> Vals \cup {Absent}]
  /\ pins \in [Blocks -> Nat]
  /\ lh \in Seq(Blocks)
  /\ outstanding \in Nat
  /\ committing \in BOOLEAN
  /\ pc \in [Procs -> PcStates]
  /\ held \in [Procs -> SUBSET Blocks]
  /\ wrote \in [Procs -> SUBSET Blocks]
  /\ tail \in Nat \ {0}
  /\ boot \in BootStates
  /\ panic \in BOOLEAN

-----------------------------------------------------------------------------
\* bread(): the cached buffer if there is one, otherwise the disk's block.
Bread(b) == IF cache[b] = Absent THEN home[b] ELSE cache[b]

Active == {p \in Procs : pc[p] = "op"}

HeldBlocks == UNION {held[p] : p \in Procs}

Running == boot = "up" /\ ~panic

Logged(seq) == {seq[i] : i \in 1..Len(seq)}

Goto(p, l) == pc' = [pc EXCEPT ![p] = l]

\* wakeup(&log): every sleeper becomes runnable and re-checks in begin_op;
\* p, the caller, goes on at l.
WakeupAnd(p, l) ==
  pc' = [q \in Procs |-> IF q = p THEN l
                         ELSE IF pc[q] = "sleep" THEN "begin" ELSE pc[q]]

\* mkfs leaves an empty log; the kernel comes up through recovery.
Init ==
  /\ home \in [Blocks -> Vals]
  /\ logData \in [1..LOGBLOCKS -> Vals]
  /\ hdr = <<>>
  /\ cache = [b \in Blocks |-> Absent]
  /\ pins = [b \in Blocks |-> 0]
  /\ lh = <<>>
  /\ outstanding = 0
  /\ committing = FALSE
  /\ pc = [p \in Procs |-> "idle"]
  /\ held = [p \in Procs |-> {}]
  /\ wrote = [p \in Procs |-> {}]
  /\ tail = 1
  /\ boot = "read_head"
  /\ panic = FALSE

-----------------------------------------------------------------------------
\* A process enters a file-system system call.
Call(p) ==
  /\ Running
  /\ pc[p] = "idle"
  /\ Goto(p, "begin")
  /\ UNCHANGED <<disk, cache, pins, logMem, opMem, tail, boot, panic>>

NoSpace_OldOutstanding ==      \* mutant: the new operation is not counted
  Len(lh) + outstanding * MAXOPBLOCKS > LOGBLOCKS

\* The space check of begin_op: every operation in progress, the new one
\* included, may still add MAXOPBLOCKS blocks.
NoSpace == Len(lh) + (outstanding + 1) * MAXOPBLOCKS > LOGBLOCKS

BeginOp(p) ==
  /\ Running
  /\ pc[p] = "begin"
  /\ IF committing \/ NoSpace
     THEN Goto(p, "sleep") /\ UNCHANGED outstanding
     ELSE Goto(p, "op") /\ outstanding' = outstanding + 1
  /\ UNCHANGED <<disk, cache, pins, lh, committing, opMem, tail, boot, panic>>

\* The operation reads a block and changes it, under the buffer's sleep lock.
\* An operation stays within OpBlocks distinct blocks (filewrite splits its
\* data for that) but may change one of them any number of times.
Modify(p, b, v) ==
  /\ Running
  /\ pc[p] = "op"
  /\ <<b, v>> \in Writes
  /\ \A q \in Procs \ {p} : b \notin held[q]
  /\ Cardinality(wrote[p] \cup held[p] \cup {b}) <= OpBlocks
  /\ cache' = [cache EXCEPT ![b] = v]
  /\ held' = [held EXCEPT ![p] = @ \cup {b}]
  /\ UNCHANGED <<disk, pins, logMem, pc, wrote, tail, boot, panic>>

\* log_write(b), then brelse(b).
LogWrite(p, b) ==
  /\ Running
  /\ b \in held[p]
  /\ IF Len(lh) >= LOGBLOCKS \/ outstanding < 1
     THEN /\ panic' = TRUE
          /\ UNCHANGED <<lh, pins, held, wrote>>
     ELSE /\ IF b \in Logged(lh)
             THEN UNCHANGED <<lh, pins>>                 \* absorption
             ELSE /\ lh' = Append(lh, b)
                  /\ pins' = [pins EXCEPT ![b] = @ + 1]
          /\ held' = [held EXCEPT ![p] = @ \ {b}]
          /\ wrote' = [wrote EXCEPT ![p] = @ \cup {b}]
          /\ UNCHANGED panic
  /\ UNCHANGED <<disk, cache, outstanding, committing, pc, tail, boot>>

\* The first critical section of end_op.
EndOp(p) ==
  /\ Running
  /\ pc[p] = "op"
  /\ held[p] = {}
  /\ outstanding' = outstanding - 1
  /\ wrote' = [wrote EXCEPT ![p] = {}]
  /\ IF committing
     THEN /\ panic' = TRUE
          /\ UNCHANGED <<pc, committing>>
     ELSE /\ IF outstanding = 1
             THEN committing' = TRUE /\ Goto(p, "commit")
             ELSE WakeupAnd(p, "idle") /\ UNCHANGED committing
          /\ UNCHANGED panic
  /\ UNCHANGED <<disk, cache, pins, lh, held, tail, boot>>

-----------------------------------------------------------------------------
\* commit(): nothing to do for an empty log.
Commit(p) ==
  /\ Running
  /\ pc[p] = "commit"
  /\ IF Len(lh) > 0 THEN Goto(p, "write_log") ELSE Goto(p, "done")
  /\ tail' = 1
  /\ UNCHANGED <<disk, cache, pins, logMem, opMem, boot, panic>>

\* One turn of write_log: cached block -> log block.
WriteLog(p) ==
  /\ Running
  /\ pc[p] = "write_log"
  /\ tail <= Len(lh)
  /\ logData' = [logData EXCEPT ![tail] = Bread(lh[tail])]
  /\ cache' = [cache EXCEPT ![lh[tail]] = Bread(lh[tail])]
  /\ tail' = tail + 1
  /\ UNCHANGED <<home, hdr, pins, logMem, pc, opMem, boot, panic>>

\* write_head(): the commit point.
WriteHead(p) ==
  /\ Running
  /\ pc[p] = "write_log"
  /\ tail > Len(lh)
  /\ hdr' = lh
  /\ tail' = 1
  /\ Goto(p, "install")
  /\ UNCHANGED <<home, logData, cache, pins, logMem, opMem, boot, panic>>

\* One turn of install_trans: log block -> cached block -> home location.
InstallBlock ==
  /\ tail <= Len(lh)
  /\ cache' = [cache EXCEPT ![lh[tail]] = logData[tail]]
  /\ home' = [home EXCEPT ![lh[tail]] = logData[tail]]
  /\ tail' = tail + 1

InstallTrans(p) ==
  /\ Running
  /\ pc[p] = "install"
  /\ InstallBlock
  /\ pins' = [pins EXCEPT ![lh[tail]] = @ - 1]
  /\ UNCHANGED <<logData, hdr, logMem, pc, opMem, boot, panic>>

\* log.lh.n = 0; write_head().
EraseHead ==
  /\ tail > Len(lh)
  /\ lh' = <<>>
  /\ hdr' = <<>>
  /\ tail' = 1

EraseLog(p) ==
  /\ Running
  /\ pc[p] = "install"
  /\ EraseHead
  /\ Goto(p, "done")
  /\ UNCHANGED <<home, logData, cache, pins, outstanding, committing, opMem,
                 boot, panic>>

EndCommit_NoWakeup(p) ==       \* mutant: the final wakeup is missing
  /\ Running
  /\ pc[p] = "done"
  /\ committing' = FALSE
  /\ Goto(p, "idle")
  /\ UNCHANGED <<disk, cache, pins, lh, outstanding, opMem, tail, boot, panic>>

\* The second critical section of end_op.
EndCommit(p) ==
  /\ Running
  /\ pc[p] = "done"
  /\ committing' = FALSE
  /\ WakeupAnd(p, "idle")
  /\ UNCHANGED <<disk, cache, pins, lh, outstanding, opMem, tail, boot, panic>>

-----------------------------------------------------------------------------
\* bget() recycles a buffer nobody holds or pins.
Evict(b) ==
  /\ ~panic
  /\ cache[b] # Absent
  /\ pins[b] = 0
  /\ b \notin HeldBlocks
  /\ cache' = [cache EXCEPT ![b] = Absent]
  /\ UNCHANGED <<disk, pins, logMem, pc, opMem, tail, boot, panic>>

\* Power failure: the memory is gone, the disk stays as it is.
Crash ==
  /\ cache' = [b \in Blocks |-> Absent]
  /\ pins' = [b \in Blocks |-> 0]
  /\ lh' = <<>>
  /\ outstanding' = 0
  /\ committing' = FALSE
  /\ pc' = [p \in Procs |-> "idle"]
  /\ held' = [p \in Procs |-> {}]
  /\ wrote' = [p \in Procs |-> {}]
  /\ tail' = 1
  /\ boot' = "read_head"
  /\ panic' = FALSE
  /\ UNCHANGED disk

ReadHead_Empty ==              \* mutant: recovery ignores the header
  /\ boot = "read_head"
  /\ lh' = <<>>
  /\ tail' = 1
  /\ boot' = "install"
  /\ UNCHANGED <<disk, cache, pins, outstanding, committing, pc, opMem, panic>>

\* recover_from_log(): read_head(), install_trans(1), erase the log.
ReadHead ==
  /\ boot = "read_head"
  /\ lh' = hdr
  /\ tail' = 1
  /\ boot' = "install"
  /\ UNCHANGED <<disk, cache, pins, outstanding, committing, pc, opMem, panic>>

RecoverBlock ==
  /\ boot = "install"
  /\ InstallBlock
  /\ UNCHANGED <<logData, hdr, pins, logMem, pc, opMem, boot, panic>>

RecoverDone ==
  /\ boot = "install"
  /\ EraseHead
  /\ boot' = "up"
  /\ UNCHANGED <<home, logData, cache, pins, outstanding, committing, pc,
                 opMem, panic>>

Recovery == ReadHead \/ RecoverBlock \/ RecoverDone

\* What a process in the kernel does next by itself.
Step(p) ==
  \/ BeginOp(p)
  \/ \E b \in Blocks : LogWrite(p, b)
  \/ Commit(p)
  \/ WriteLog(p)
  \/ WriteHead(p)
  \/ InstallTrans(p)
  \/ EraseLog(p)
  \/ EndCommit(p)

Next ==
  \/ \E p \in Procs : Call(p) \/ EndOp(p) \/ Step(p)
  \/ \E p \in Procs, b \in Blocks, v \in Vals : Modify(p, b, v)
  \/ \E b \in Blocks : Evict(b)
  \/ Recovery
  \/ Crash

Spec == Init /\ [][Next]_vars

\* The scheduler runs every runnable process; a system call makes finitely
\* many writes and then ends (strong fairness of EndOp); the boot code runs.
Fairness ==
  /\ \A p \in Procs : WF_vars(Step(p)) /\ SF_vars(EndOp(p))
  /\ WF_vars(Recovery)

FairSpec == Spec /\ Fairness

-----------------------------------------------------------------------------
(* Properties *)

\* None of the panics of log.c is reachable: "too big a transaction",
\* "log_write outside of trans" (log_write), "log.committing" (end_op).  The code
\* keeps this only while a system call writes fewer distinct blocks than begin_op
\* reserves (OpBlocks < MAXOPBLOCKS): log_write() tests for a full log before it
\* looks for the block in it, so that one which writes MAXOPBLOCKS blocks into a
\* log that is full then, and one of them again, panics.
NoPanic == ~panic

\* Log space that begin_op has promised and log_write has not used yet: one
\* token for each block an operation in progress may still add.
Reserved ==
  {t \in Procs \X (1..MAXOPBLOCKS) :
     pc[t[1]] = "op" /\ t[2] > Cardinality(wrote[t[1]])}

\* The reservation of begin_op is enough: blocks already in the log and the
\* blocks the operations in progress may still add fit together.
LogSpace == Len(lh) + Cardinality(Reserved) <= LOGBLOCKS

\* A sleeper in begin_op is woken (or the machine reboots): neither the last
\* end_op nor its commit leaves one behind.
SleeperWoken ==
  \A p \in Procs : (pc[p] = "sleep") ~> (pc[p] # "sleep")

\* The disk as recovery would leave it: the committed log over the home
\* locations.
DurableBlock(b) ==
  IF b \in Logged(hdr)
  THEN logData[CHOOSE i \in 1..Len(hdr) : hdr[i] = b]
  ELSE home[b]

Durable == [b \in Blocks |-> DurableBlock(b)]

\* What system calls read; before recovery is over none runs.
Volatile == IF boot = "up" THEN [b \in Blocks |-> Bread(b)] ELSE Durable

Atomic == INSTANCE AtomicDisk
            WITH durable <- Durable, volatile <- Volatile, active <- Active

\* The log implements the atomic disk: a crash at any step, recovery
\* included, leaves the disk at a transaction boundary, and no operation's
\* write becomes durable before every operation of its group has ended.
CrashAtomic == Atomic!Spec

-----------------------------------------------------------------------------
(* The inductive invariant behind TypeOK, LogSpace and NoPanic *)

CommitPcs == {"commit", "write_log", "install", "done"}

\* Recovery runs before any file-system call.
BootQuiet ==
  boot # "up" => /\ \A p \in Procs : pc[p] = "idle"
                 /\ ~committing /\ ~panic

\* One committer at a time, and only when no operation is in progress.
OneCommitter ==
  /\ \A p, q \in Procs : pc[p] \in CommitPcs /\ pc[q] \in CommitPcs => p = q
  /\ (\E p \in Procs : pc[p] \in CommitPcs) => committing
  /\ committing => Active = {}

\* log.outstanding counts the operations, and each stays within its blocks.
OpAccounts ==
  /\ outstanding = Cardinality(Active)
  /\ \A p \in Procs : pc[p] # "op" => held[p] = {} /\ wrote[p] = {}
  /\ \A p \in Procs : Cardinality(wrote[p] \cup held[p]) <= OpBlocks
  /\ \A p \in Procs : wrote[p] \subseteq Logged(lh)

\* Absorption keeps the block numbers of a header distinct.
Distinct(seq) == \A i, j \in 1..Len(seq) : seq[i] = seq[j] => i = j
HeadersDistinct == Distinct(lh) /\ Distinct(hdr) /\ Len(hdr) <= LOGBLOCKS

\* Every logged block is pinned until install_trans has copied it home.
LoggedPinned ==
  boot = "up" =>
    \A i \in 1..Len(lh) :
      (\A p \in Procs : pc[p] = "install" => i >= tail) => pins[lh[i]] > 0

\* The bookkeeping of the log is consistent: one committer, and only without
\* operations; log.outstanding counts the operations; a block appears once in
\* a header and stays pinned until it is installed.  Together these are
\* inductive.
LogInv ==
  /\ TypeOK
  /\ BootQuiet
  /\ OneCommitter
  /\ OpAccounts
  /\ LogSpace
  /\ HeadersDistinct
  /\ LoggedPinned

-----------------------------------------------------------------------------
(* The invariant behind CrashAtomic: where the contents of a block are *)

Installing == \E p \in Procs : pc[p] = "install"

\* The header on the disk is empty except between the commit point and the
\* erasure of the log, or before recovery has erased it.
HeaderOnDisk ==
  /\ boot = "install" => hdr = lh
  /\ boot = "up" => hdr = (IF Installing THEN lh ELSE <<>>)

\* Only blocks of a transaction differ from their home location.
CleanBlocks ==
  \A b \in Blocks :
    (boot # "up" \/ (b \notin Logged(lh) /\ b \notin HeldBlocks))
      => Bread(b) = home[b]

\* What write_log has copied is what the cache holds, up to the erasure.
CopiedToLog ==
  \A p \in Procs, i \in 1..Len(lh) :
    (pc[p] = "install" \/ (pc[p] = "write_log" /\ i < tail))
      => logData[i] = Bread(lh[i])

\* What install_trans has copied is at its home location.
CopiedHome ==
  \A i \in 1..Len(lh) :
    (boot = "install" \/ Installing) /\ i < tail => home[lh[i]] = logData[i]

\* The committed contents of every block are where recovery looks for them.
DataInv == HeaderOnDisk /\ CleanBlocks /\ CopiedToLog /\ CopiedHome
=============================================================================
