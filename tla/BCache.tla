------------------------------- MODULE BCache -------------------------------
(***************************************************************************)
(* The buffer cache of xv6 (kernel/bio.c) and the sleep locks of its       *)
(* buffers (kernel/sleeplock.c).                                           *)
(*                                                                         *)
(* A step is one critical section of bcache.lock or of a sleep lock's      *)
(* spinlock, or what the holder of a buffer does with it.  A process uses  *)
(* one buffer at a time; the log's pins outlive that use.                  *)
(***************************************************************************)
EXTENDS Naturals, Sequences, FiniteSets

CONSTANTS
  Procs,
  Blocks,      \* disk blocks
  Bufs,        \* the buffers, bcache.buf[NBUF]
  Vals,        \* block contents
  None

ASSUME BCacheAssumption ==
  /\ IsFiniteSet(Bufs) /\ IsFiniteSet(Procs)
  /\ Vals # {}
  /\ None \notin Procs \cup Blocks \cup Bufs

VARIABLES
  blockno, valid, refcnt, data,    \* struct buf
  holder,      \* buffer -> the process whose pid is in b->lock, or None
  lru,         \* the list from head.next (most recent) to head.prev
  disk,        \* block -> contents (external: the disk)
  pc, cur,     \* process -> where it is, the buffer it uses
  want,        \* process -> the block it asked for
  unsaved,     \* processes that changed their buffer and did not save it yet
  pinned,      \* buffers with a reference of bpin()
  panic        \* bget: no buffers

lists == <<blockno, valid, refcnt, lru>>
vars == <<blockno, valid, refcnt, data, holder, lru, disk, pc, cur, want,
          unsaved, pinned, panic>>

Pcs == {"idle", "acquire", "sleep", "locked", "use", "released"}

TypeOK ==
  /\ blockno \in [Bufs -> Blocks \cup {None}]
  /\ valid \in [Bufs -> BOOLEAN]
  /\ refcnt \in [Bufs -> Nat]
  /\ data \in [Bufs -> Vals]
  /\ holder \in [Bufs -> Procs \cup {None}]
  /\ lru \in Seq(Bufs) /\ Len(lru) = Cardinality(Bufs)
  /\ \A b \in Bufs : \E j \in DOMAIN lru : lru[j] = b
  /\ disk \in [Blocks -> Vals]
  /\ pc \in [Procs -> Pcs]
  /\ cur \in [Procs -> Bufs \cup {None}]
  /\ want \in [Procs -> Blocks \cup {None}]
  /\ unsaved \subseteq Procs
  /\ pinned \subseteq Bufs
  /\ panic \in BOOLEAN

\* binit(): no buffer holds a block of the disk (dev is 0); which buffer is
\* first in the list does not matter.
Init ==
  /\ blockno = [b \in Bufs |-> None]
  /\ valid = [b \in Bufs |-> FALSE]
  /\ refcnt = [b \in Bufs |-> 0]
  /\ data = [b \in Bufs |-> CHOOSE v \in Vals : TRUE]
  /\ holder = [b \in Bufs |-> None]
  /\ lru \in {s \in [1..Cardinality(Bufs) -> Bufs] :
                \A j, k \in DOMAIN s : s[j] = s[k] => j = k}
  /\ disk \in [Blocks -> Vals]
  /\ pc = [p \in Procs |-> "idle"]
  /\ cur = [p \in Procs |-> None]
  /\ want = [p \in Procs |-> None]
  /\ unsaved = {}
  /\ pinned = {}
  /\ panic = FALSE

-----------------------------------------------------------------------------
Goto(p, l) == pc' = [pc EXCEPT ![p] = l]

At(p, l) == ~panic /\ pc[p] = l

Cached(k) == {b \in Bufs : blockno[b] = k}
Unused == {j \in DOMAIN lru : refcnt[lru[j]] = 0}

-----------------------------------------------------------------------------
\* bget(), first loop: the block is cached.
GetCached(p, k) ==
  /\ At(p, "idle")
  /\ \E b \in Cached(k) :
       /\ refcnt' = [refcnt EXCEPT ![b] = @ + 1]
       /\ cur' = [cur EXCEPT ![p] = b]
  /\ want' = [want EXCEPT ![p] = k]
  /\ Goto(p, "acquire")
  /\ UNCHANGED <<blockno, valid, lru, data, holder, disk, unsaved, pinned, panic>>

GetRecycled_Recheck(p, k) ==   \* mutant: the lock is dropped between the loops
  /\ At(p, "idle")
  /\ Unused # {}
  /\ LET b == lru[CHOOSE j \in Unused : \A l \in Unused : l <= j]
     IN  /\ blockno' = [blockno EXCEPT ![b] = k]
         /\ valid' = [valid EXCEPT ![b] = FALSE]
         /\ refcnt' = [refcnt EXCEPT ![b] = 1]
         /\ cur' = [cur EXCEPT ![p] = b]
  /\ want' = [want EXCEPT ![p] = k]
  /\ Goto(p, "acquire")
  /\ UNCHANGED <<lru, data, holder, disk, unsaved, pinned, panic>>

GetRecycled_Valid(p, k) ==     \* mutant: b->valid = 0 is missing
  /\ At(p, "idle")
  /\ Cached(k) = {}
  /\ Unused # {}
  /\ LET b == lru[CHOOSE j \in Unused : \A l \in Unused : l <= j]
     IN  /\ blockno' = [blockno EXCEPT ![b] = k]
         /\ refcnt' = [refcnt EXCEPT ![b] = 1]
         /\ cur' = [cur EXCEPT ![p] = b]
  /\ want' = [want EXCEPT ![p] = k]
  /\ Goto(p, "acquire")
  /\ UNCHANGED <<valid, lru, data, holder, disk, unsaved, pinned, panic>>

\* bget(), second loop: the least recently used buffer without references.
GetRecycled(p, k) ==
  /\ At(p, "idle")
  /\ Cached(k) = {}
  /\ Unused # {}
  /\ LET b == lru[CHOOSE j \in Unused : \A l \in Unused : l <= j]
     IN  /\ blockno' = [blockno EXCEPT ![b] = k]
         /\ valid' = [valid EXCEPT ![b] = FALSE]
         /\ refcnt' = [refcnt EXCEPT ![b] = 1]
         /\ cur' = [cur EXCEPT ![p] = b]
  /\ want' = [want EXCEPT ![p] = k]
  /\ Goto(p, "acquire")
  /\ UNCHANGED <<lru, data, holder, disk, unsaved, pinned, panic>>

GetPanic(p, k) ==
  /\ At(p, "idle")
  /\ Cached(k) = {} /\ Unused = {}
  /\ panic' = TRUE
  /\ UNCHANGED <<lists, data, holder, disk, pc, cur, want, unsaved, pinned>>

\* acquiresleep(&b->lock): take the lock, or sleep on it.
AcquireSleep(p) ==
  /\ At(p, "acquire")
  /\ IF holder[cur[p]] # None
     THEN Goto(p, "sleep") /\ UNCHANGED holder
     ELSE Goto(p, "locked") /\ holder' = [holder EXCEPT ![cur[p]] = p]
  /\ UNCHANGED <<lists, data, disk, cur, want, unsaved, pinned, panic>>

\* The rest of bread(): read the block unless the buffer is valid.
Bread(p) ==
  /\ At(p, "locked")
  /\ valid' = [valid EXCEPT ![cur[p]] = TRUE]
  /\ data' = [data EXCEPT ![cur[p]] = IF valid[cur[p]] THEN @ ELSE disk[want[p]]]
  /\ Goto(p, "use")
  /\ UNCHANGED <<blockno, refcnt, lru, holder, disk, cur, want, unsaved, pinned,
                 panic>>

-----------------------------------------------------------------------------
\* The caller changes b->data; it owes the cache a bwrite() or a bpin().
Modify(p, v) ==
  /\ At(p, "use")
  /\ data' = [data EXCEPT ![cur[p]] = v]
  /\ unsaved' = IF cur[p] \in pinned THEN unsaved ELSE unsaved \cup {p}
  /\ UNCHANGED <<lists, holder, disk, pc, cur, want, pinned, panic>>

Bwrite(p) ==
  /\ At(p, "use")
  /\ disk' = [disk EXCEPT ![blockno[cur[p]]] = data[cur[p]]]
  /\ unsaved' = unsaved \ {p}
  /\ UNCHANGED <<lists, data, holder, pc, cur, want, pinned, panic>>

\* log_write() pins a block that is not in the log yet.
Bpin(p) ==
  /\ At(p, "use")
  /\ cur[p] \notin pinned
  /\ refcnt' = [refcnt EXCEPT ![cur[p]] = @ + 1]
  /\ pinned' = pinned \cup {cur[p]}
  /\ unsaved' = unsaved \ {p}
  /\ UNCHANGED <<blockno, valid, lru, data, holder, disk, pc, cur, want, panic>>

\* install_trans(): bwrite(dbuf), bunpin(dbuf).
InstallUnpin(p) ==
  /\ At(p, "use")
  /\ cur[p] \in pinned
  /\ disk' = [disk EXCEPT ![blockno[cur[p]]] = data[cur[p]]]
  /\ refcnt' = [refcnt EXCEPT ![cur[p]] = @ - 1]
  /\ pinned' = pinned \ {cur[p]}
  /\ UNCHANGED <<blockno, valid, lru, data, holder, pc, cur, want, unsaved, panic>>

ReleaseSleep_NoWakeup(p) ==    \* mutant: wakeup(lk) is missing
  /\ At(p, "use")
  /\ p \notin unsaved
  /\ holder' = [holder EXCEPT ![cur[p]] = None]
  /\ Goto(p, "released")
  /\ UNCHANGED <<lists, data, disk, cur, want, unsaved, pinned, panic>>

\* brelse(), first half: releasesleep(&b->lock) wakes the sleepers.
ReleaseSleep(p) ==
  /\ At(p, "use")
  /\ p \notin unsaved
  /\ holder' = [holder EXCEPT ![cur[p]] = None]
  /\ pc' = [q \in Procs |->
              IF q = p THEN "released"
              ELSE IF pc[q] = "sleep" /\ cur[q] = cur[p] THEN "acquire"
              ELSE pc[q]]
  /\ UNCHANGED <<lists, data, disk, cur, want, unsaved, pinned, panic>>

\* b leaves its place in the list for the one behind head.
MoveToFront(b) ==
  LET j == CHOOSE j \in DOMAIN lru : lru[j] = b
  IN  <<b>> \o SubSeq(lru, 1, j-1) \o SubSeq(lru, j+1, Len(lru))

\* brelse(), second half: drop the reference; an unused buffer becomes the
\* most recently used one.
Unreference(p) ==
  /\ At(p, "released")
  /\ refcnt' = [refcnt EXCEPT ![cur[p]] = @ - 1]
  /\ lru' = IF refcnt[cur[p]] = 1 THEN MoveToFront(cur[p]) ELSE lru
  /\ cur' = [cur EXCEPT ![p] = None]
  /\ want' = [want EXCEPT ![p] = None]
  /\ Goto(p, "idle")
  /\ UNCHANGED <<blockno, valid, data, holder, disk, unsaved, pinned, panic>>

Next ==
  \/ \E p \in Procs, k \in Blocks :
       GetCached(p, k) \/ GetRecycled(p, k) \/ GetPanic(p, k)
  \/ \E p \in Procs, v \in Vals : Modify(p, v)
  \/ \E p \in Procs : \/ AcquireSleep(p) \/ Bread(p) \/ Bwrite(p) \/ Bpin(p)
                      \/ InstallUnpin(p) \/ ReleaseSleep(p) \/ Unreference(p)

Spec == Init /\ [][Next]_vars

-----------------------------------------------------------------------------
(* Properties *)

\* At most one buffer holds a given block.
OneCopy ==
  \A b, c \in Bufs : blockno[b] = blockno[c] /\ blockno[b] # None => b = c

\* No missed wakeup: nobody sleeps on the lock of a free buffer.
NoSleeperOnFree ==
  \A p \in Procs : pc[p] = "sleep" => holder[cur[p]] # None

\* What the cache and the disk hold together.
CurrentVal(k) ==
  IF \E b \in Bufs : blockno[b] = k /\ valid[b]
  THEN data[CHOOSE b \in Bufs : blockno[b] = k /\ valid[b]]
  ELSE disk[k]

Owner(k) ==
  IF \E p \in Procs : want[p] = k /\ pc[p] = "use"
  THEN CHOOSE p \in Procs : want[p] = k /\ pc[p] = "use"
  ELSE None

Store == INSTANCE BlockStore
           WITH val <- [k \in Blocks |-> CurrentVal(k)],
                owner <- [k \in Blocks |-> Owner(k)]

\* Cache, recycling and sleep locks together implement a store of blocks with
\* exclusive access: no lost update, no stale read, no two users of a block.
IsBlockStore == Store!Spec

-----------------------------------------------------------------------------
(* The inductive invariant *)

\* bread() returns, and everybody waits for, a buffer of the block asked for.
RightBuffer ==
  \A p \in Procs :
    IF pc[p] = "idle" THEN cur[p] = None /\ want[p] = None
    ELSE cur[p] \in Bufs /\ want[p] \in Blocks /\ blockno[cur[p]] = want[p]

\* The sleep lock of a buffer and the process that uses it agree.
LockHeld ==
  \A p \in Procs, b \in Bufs :
    holder[b] = p <=> cur[p] = b /\ pc[p] \in {"locked", "use"}

\* b->refcnt counts the processes between bget() and brelse() and the log's pin.
Users(b) == {p \in Procs : cur[p] = b}
Counted ==
  \A b \in Bufs :
    refcnt[b] = Cardinality(Users(b)) + (IF b \in pinned THEN 1 ELSE 0)

\* A valid buffer that nobody has still to save has the contents of the disk.
Clean ==
  \A b \in Bufs : valid[b] =>
    /\ blockno[b] # None
    /\ b \notin pinned /\ (\A p \in unsaved : cur[p] # b) => data[b] = disk[blockno[b]]

\* A buffer in use is valid, and only its user has something to save.
InUse ==
  \A p \in Procs : /\ pc[p] = "use" => valid[cur[p]]
                   /\ p \in unsaved => pc[p] = "use"

CacheInv ==
  /\ TypeOK /\ RightBuffer /\ LockHeld /\ Counted /\ Clean /\ InUse
  /\ OneCopy /\ NoSleeperOnFree
=============================================================================
