------------------------------ MODULE FileData ------------------------------
(***************************************************************************)
(* The contents of files in xv6: the block bitmap, the direct and indirect *)
(* blocks of inodes, readi(), writei() and itrunc() of kernel/fs.c, and    *)
(* fileread() and filewrite() of kernel/file.c, over the log as AtomicDisk *)
(* describes it.  The disk starts as the image that mkfs/mkfs.c writes.    *)
(*                                                                         *)
(* The inode's sleep lock is held from ChunkStart to WriteDone and from    *)
(* TruncStart to TruncDone, inside a transaction.  Writers of different    *)
(* files meet in the bitmap, whose buffer lock balloc() and bfree() hold:  *)
(* a step is one block of a write or of a truncation.                      *)
(*                                                                         *)
(* A copy from the user's memory that fails half-way has changed a buffer  *)
(* that writei() then releases without log_write().  Unless the block is   *)
(* in the log for another reason, the change is in the cache only: it is   *)
(* gone when the buffer is recycled, and it reaches the disk if the block  *)
(* is logged before that.                                                  *)
(***************************************************************************)
EXTENDS Naturals, Sequences, FiniteSets, FiniteSetsExt

CONSTANTS
  Procs,        \* processes; a process writes bytes with its own name
  Inodes,
  Root,         \* the inode of the root directory
  HostFiles,    \* the arguments of mkfs: a sequence of [ino |-> inode, n |-> bytes]
  DirentSize,   \* sizeof(struct dirent)
  Files,        \* open files (struct file), shared by the processes
  InodeOf,      \* file -> inode
  NBlocks,      \* data blocks are 1..NBlocks
  BSIZE, NDIRECT, NINDIRECT, MAXOPBLOCKS,
  BPB,          \* blocks per bitmap block
  Lengths,      \* byte counts of read() and write()
  Truncate,     \* whether files are opened with O_TRUNC
  PowerFails,   \* whether the machine may crash
  MaxCalls      \* bound: calls of read(), write() and open()

ASSUME FileDataAssumption ==
  /\ InodeOf \in [Files -> Inodes]
  /\ Root \in Inodes
  /\ HostFiles \in Seq([ino : Inodes \ {Root}, n : Nat])
  /\ \A j, k \in DOMAIN HostFiles : HostFiles[j].ino = HostFiles[k].ino => j = k
  /\ {NBlocks, BSIZE, NDIRECT, NINDIRECT, BPB, DirentSize} \subseteq Nat \ {0}
  /\ MAXOPBLOCKS \in Nat /\ MAXOPBLOCKS >= 6
  /\ Lengths \subseteq Nat \ {0}
  /\ MaxCalls \in Nat /\ Truncate \in BOOLEAN /\ PowerFails \in BOOLEAN

VARIABLES
  fs,           \* inodes and blocks as the buffer cache has them
  disk,         \* the same as of the last commit
  lh,           \* data and indirect blocks in the log since the last commit
  outstanding,  \* processes between begin_op() and end_op()
  lock,         \* inode -> holder of its sleep lock
  off,          \* file -> f->off
  th,           \* process -> the call it is in
  logged,       \* process -> the blocks its transaction has written
  calls         \* number of calls so far

vars == <<fs, disk, lh, outstanding, lock, off, th, logged, calls>>

Blocks == 1..NBlocks
MAXFILE == NDIRECT + NINDIRECT
Free == "free"
Zero == "zero"
Idle == [pc |-> "idle", f |-> CHOOSE f \in Files : TRUE, left |-> 0, n1 |-> 0,
         tot |-> 0]

\* used: the bitmap.  addrs: ip->addrs, the last entry for the indirect block.
\* table, data: the contents of a block read as an indirect block and as data.
Empty ==
  [used |-> {},
   addrs |-> [i \in Inodes |-> [k \in 0..NDIRECT |-> 0]],
   table |-> [b \in Blocks |-> [k \in 0..NINDIRECT-1 |-> 0]],
   data |-> [b \in Blocks |-> [k \in 0..BSIZE-1 |-> Zero]],
   size |-> [i \in Inodes |-> 0]]

-----------------------------------------------------------------------------
(* The image of mkfs: blocks are handed out in order, from a counter.       *)

Min2(a, b) == IF a < b THEN a ELSE b
Max2(a, b) == IF a > b THEN a ELSE b

Host == "host"   \* a byte that mkfs wrote

\* iappend(), one byte: m is the image so far and the next free block.
AppendByte(m, i) ==
  LET x == m.fs
      o == x.size[i]
      fbn == o \div BSIZE
      New(a, next) == IF a = 0 THEN next ELSE a
      slot == Min2(fbn, NDIRECT)
      top == New(x.addrs[i][slot], m.freeblock)
      after == Max2(m.freeblock, top + 1)
      b == IF fbn < NDIRECT THEN top ELSE New(x.table[top][fbn - NDIRECT], after)
      y == [x EXCEPT !.addrs[i][slot] = top, !.data[b][o % BSIZE] = Host,
                     !.size[i] = o + 1]
  IN [fs |-> IF fbn < NDIRECT THEN y ELSE [y EXCEPT !.table[top][fbn - NDIRECT] = b],
      freeblock |-> Max2(after, b + 1)]

iappend(m, i, n) ==
  LET image[k \in 0..n] == IF k = 0 THEN m ELSE AppendByte(image[k - 1], i)
  IN image[n]

ialloc(m, i) == [m EXCEPT !.fs.addrs[i] = Empty.addrs[i], !.fs.size[i] = 0]

\* Every sector is zero; the first free block is the one after the metadata.
Blank == [fs |-> Empty, freeblock |-> 1]

\* "." and "..", then for each file its directory entry and its bytes.
Appended ==
  LET image[k \in 0..Len(HostFiles)] ==
        IF k = 0 THEN iappend(ialloc(Blank, Root), Root, 2 * DirentSize)
        ELSE LET i == HostFiles[k].ino
             IN iappend(iappend(ialloc(image[k - 1], i), Root, DirentSize), i, HostFiles[k].n)
  IN image[Len(HostFiles)]

\* balloc() of mkfs: the first blocks are in use.
InUse(freeblock) == 1..(freeblock - 1)

\* The size of the root is rounded up.
Image ==
  [Appended.fs EXCEPT !.size[Root] = ((@ \div BSIZE) + 1) * BSIZE,
                      !.used = InUse(Appended.freeblock)]

\* The assertions of mkfs, and a directory that does not end at the end of a
\* block: its rounded size would include a block that it does not have.
ASSUME ImageAssumption ==
  /\ BSIZE % DirentSize = 0
  /\ Appended.freeblock < BPB
  /\ \A i \in Inodes : Image.size[i] <= MAXFILE * BSIZE
  /\ Appended.fs.size[Root] % BSIZE # 0

Init ==
  /\ fs = Image /\ disk = Image
  /\ lh = {}
  /\ outstanding = {}
  /\ lock = [i \in Inodes |-> Free]
  /\ off = [f \in Files |-> 0]
  /\ th = [p \in Procs |-> Idle]
  /\ logged = [p \in Procs |-> {}]
  /\ calls = 0

-----------------------------------------------------------------------------
(* Allocation.  The operators return the new file system, a block number (0 *)
(* for none) and the blocks written to the log.                             *)

BitmapBlock(b) == <<"bitmap", b \div BPB>>
InodeBlock(i) == <<"inode", i>>
Block(b) == <<"block", b>>

\* The first free block, zeroed.
balloc(x) ==
  IF Blocks \subseteq x.used THEN [fs |-> x, b |-> 0, log |-> {}]
  ELSE LET b == Min(Blocks \ x.used)
       IN [fs |-> [x EXCEPT !.used = @ \cup {b}, !.table[b] = Empty.table[b],
                            !.data[b] = Empty.data[b]],
           b |-> b, log |-> {BitmapBlock(b), Block(b)}]

bfree(x, b) == [x EXCEPT !.used = @ \ {b}]

\* addrs[k] of inode i, allocated if necessary.
Addr(x, i, k) ==
  LET r == balloc(x)
  IN IF x.addrs[i][k] # 0 THEN [fs |-> x, b |-> x.addrs[i][k], log |-> {}]
     ELSE IF r.b = 0 THEN r
     ELSE [r EXCEPT !.fs.addrs[i][k] = r.b]

bmap(x, i, bn) ==
  IF bn < NDIRECT THEN Addr(x, i, bn)
  ELSE LET ind == Addr(x, i, NDIRECT)
           a == ind.fs.table[ind.b][bn - NDIRECT]
           r == balloc(ind.fs)
       IN IF ind.b = 0 THEN ind
          ELSE IF a # 0 THEN [ind EXCEPT !.b = a]
          ELSE IF r.b = 0 THEN [ind EXCEPT !.b = 0]
          ELSE [fs |-> [r.fs EXCEPT !.table[ind.b][bn - NDIRECT] = r.b],
                b |-> r.b, log |-> ind.log \cup r.log \cup {Block(ind.b)}]

-----------------------------------------------------------------------------
(* write *)

\* Mutant: no room left for an unaligned write.
Chunk_NoSlop == ((MAXOPBLOCKS - 1 - 1) \div 2) * BSIZE

\* The bytes per transaction.
Chunk == ((MAXOPBLOCKS - 1 - 1 - 2) \div 2) * BSIZE

\* Mutant: a piece may go past the end of its block.
Piece_Past(o, n) == n

\* How many of n bytes at offset o are in the block of o.
Piece(o, n) == Min2(n, BSIZE - (o % BSIZE))

Goto(p, r) == th' = [th EXCEPT ![p] = r]
inode(p) == InodeOf[th[p].f]

Call(p) ==
  /\ th[p].pc = "idle"
  /\ calls < MaxCalls
  /\ calls' = calls + 1

\* open() refuses to write to a directory or to truncate it.
Writable(f) == InodeOf[f] # Root

FileWrite(p, f, n) ==
  /\ Call(p)
  /\ Writable(f)
  /\ Goto(p, [Idle EXCEPT !.pc = "chunk", !.f = f, !.left = n])
  /\ UNCHANGED <<fs, disk, lh, outstanding, lock, off, logged>>

\* begin_op() of a chunk.
ChunkBegin(p) ==
  /\ th[p].pc = "chunk"
  /\ outstanding' = outstanding \cup {p}
  /\ Goto(p, [th[p] EXCEPT !.pc = "ilock"])
  /\ UNCHANGED <<calls, fs, disk, lh, lock, off, logged>>

\* ilock(), and the tests of writei().
ChunkStart(p) ==
  /\ th[p].pc = "ilock"
  /\ lock[inode(p)] = Free
  /\ lock' = [lock EXCEPT ![inode(p)] = p]
  /\ LET o == off[th[p].f]
         n1 == Min2(th[p].left, Chunk)
     IN Goto(p, [th[p] EXCEPT
          !.pc = IF o > fs.size[inode(p)] \/ o + n1 > MAXFILE * BSIZE THEN "refused"
                 ELSE "loop",
          !.n1 = n1, !.tot = 0])
  /\ UNCHANGED <<calls, fs, disk, lh, outstanding, off, logged>>

\* log_write() of the blocks l by p.
LogWrite(p, l) ==
  /\ logged' = [logged EXCEPT ![p] = @ \cup l]
  /\ lh' = lh \cup {b \in Blocks : Block(b) \in l}

\* One turn of the loop of writei(): bmap() may fail, and so may the copy from
\* the user's memory, after some of the bytes: those stay in the buffer.
WriteBlock(p) ==
  /\ th[p].pc = "loop"
  /\ LET t == th[p]
         i == inode(p)
         o == off[t.f] + t.tot
         m == Piece(o, t.n1 - t.tot)
         r == bmap(fs, i, o \div BSIZE)
         Copied(n) ==
           [r.fs EXCEPT !.data[r.b] =
              [k \in 0..BSIZE-1 |-> IF k \in (o % BSIZE)..((o % BSIZE) + n - 1) THEN p ELSE @[k]]]
     IN \/ /\ r.b # 0
           /\ fs' = Copied(m)
           /\ LogWrite(p, r.log \cup {Block(r.b)})
           /\ Goto(p, [t EXCEPT !.tot = @ + m,
                                !.pc = IF t.tot + m = t.n1 THEN "written" ELSE "loop"])
        \/ /\ IF r.b = 0 THEN fs' = r.fs ELSE \E n \in 0..(m - 1) : fs' = Copied(n)
           /\ LogWrite(p, r.log)
           /\ Goto(p, [t EXCEPT !.pc = "written"])
  /\ UNCHANGED <<calls, disk, outstanding, lock, off>>

\* bget() takes the buffer of block b, which the log has not pinned, for
\* another block: what was not logged is lost.
Recycle(b) ==
  /\ b \notin lh
  /\ fs.data[b] # disk.data[b]
  /\ fs' = [fs EXCEPT !.data[b] = disk.data[b]]
  /\ UNCHANGED <<calls, disk, lh, outstanding, lock, off, th, logged>>

\* What a commit leaves on the disk: of the data, the blocks in the log.
Committed(x) ==
  [x EXCEPT !.data = [b \in Blocks |-> IF b \in lh THEN x.data[b] ELSE disk.data[b]]]

\* end_op() of p: the last one to end commits.
EndOp(p) ==
  /\ outstanding' = outstanding \ {p}
  /\ IF outstanding = {p} THEN disk' = Committed(fs') /\ lh' = {}
     ELSE UNCHANGED <<disk, lh>>
  /\ logged' = [logged EXCEPT ![p] = {}]
  /\ UNCHANGED calls

\* The size, iupdate(), f->off, iunlock() and end_op(); a short write ends the
\* call, and so does one that writei() refused.
WriteDone(p) ==
  /\ th[p].pc \in {"written", "refused"}
  /\ LET t == th[p]
         i == inode(p)
     IN /\ fs' = IF t.pc = "refused" THEN fs
                 ELSE [fs EXCEPT !.size[i] = Max2(@, off[t.f] + t.tot)]
        /\ off' = [off EXCEPT ![t.f] = @ + t.tot]
        /\ lock' = [lock EXCEPT ![i] = Free]
        /\ Goto(p, IF t.tot # t.n1 \/ t.left = t.n1 THEN Idle
                   ELSE [t EXCEPT !.pc = "chunk", !.left = @ - t.n1])
  /\ EndOp(p)

-----------------------------------------------------------------------------
(* read *)

\* Blocks of inode i that hold the n bytes from o on.
Covers(o, n) == IF n = 0 THEN {} ELSE (o \div BSIZE)..((o + n - 1) \div BSIZE)

\* The bytes that n bytes at offset o of inode i come to.
Readable(i, o, n) == IF o > fs.size[i] THEN 0 ELSE Min2(n, fs.size[i] - o)

\* fileread(): ilock(), readi(), iunlock().  readi() is not inside a
\* transaction: if bmap() had to allocate, log_write() would panic.  A copy
\* that fails leaves the offset where it is.
FileRead(p, f, n) ==
  /\ Call(p)
  /\ lock[InodeOf[f]] = Free
  /\ LET i == InodeOf[f]
         r == Readable(i, off[f], n)
     IN IF \E bn \in Covers(off[f], r) : bmap(fs, i, bn).log # {}
        THEN Goto(p, [Idle EXCEPT !.pc = "panic"]) /\ UNCHANGED off
        ELSE off' = [off EXCEPT ![f] = @ + r] /\ UNCHANGED th
  /\ UNCHANGED <<fs, disk, lh, outstanding, lock, logged>>

-----------------------------------------------------------------------------
(* itrunc(), in open(O_TRUNC) *)

\* begin_op() of sys_open().
Trunc(p, f) ==
  /\ Truncate
  /\ Call(p)
  /\ Writable(f)
  /\ outstanding' = outstanding \cup {p}
  /\ Goto(p, [Idle EXCEPT !.pc = "open", !.f = f])
  /\ UNCHANGED <<fs, disk, lh, lock, off, logged>>

\* ilock(), and the start of itrunc().
TruncStart(p) ==
  /\ th[p].pc = "open"
  /\ lock[inode(p)] = Free
  /\ lock' = [lock EXCEPT ![inode(p)] = p]
  /\ Goto(p, [th[p] EXCEPT !.pc = "trunc"])
  /\ UNCHANGED <<calls, fs, disk, lh, outstanding, off, logged>>

\* Mutant: the indirect block itself is not freed.
TruncBlock_KeepsIndirect(p) ==
  /\ th[p].pc = "trunc"
  /\ th[p].tot <= MAXFILE
  /\ LET i == inode(p)
         k == th[p].tot
         ind == fs.addrs[i][NDIRECT]
     IN fs' = CASE k < NDIRECT /\ fs.addrs[i][k] # 0 ->
                     [bfree(fs, fs.addrs[i][k]) EXCEPT !.addrs[i][k] = 0]
                [] k \in NDIRECT..MAXFILE-1 /\ ind # 0 -> bfree(fs, fs.table[ind][k - NDIRECT])
                [] k = MAXFILE -> [fs EXCEPT !.addrs[i][NDIRECT] = 0]
                [] OTHER -> fs
  /\ Goto(p, [th[p] EXCEPT !.tot = @ + 1])
  /\ UNCHANGED <<calls, disk, lh, outstanding, lock, off, logged>>

\* One block: a direct one and its address, one of the indirect block's, or at
\* last the indirect block.  tot is the loop counter.
TruncBlock(p) ==
  /\ th[p].pc = "trunc"
  /\ th[p].tot <= MAXFILE
  /\ LET i == inode(p)
         k == th[p].tot
         ind == fs.addrs[i][NDIRECT]
         b == CASE k < NDIRECT -> fs.addrs[i][k]
                [] k \in NDIRECT..MAXFILE-1 ->
                     IF ind = 0 THEN 0 ELSE fs.table[ind][k - NDIRECT]
                [] k = MAXFILE -> ind
     IN /\ IF b = 0 THEN UNCHANGED fs
           ELSE IF k < NDIRECT THEN fs' = [bfree(fs, b) EXCEPT !.addrs[i][k] = 0]
           ELSE IF k < MAXFILE THEN fs' = bfree(fs, b)
           ELSE fs' = [bfree(fs, b) EXCEPT !.addrs[i][NDIRECT] = 0]
        /\ LogWrite(p, IF b = 0 THEN {} ELSE {BitmapBlock(b)})
        /\ Goto(p, IF b # 0 /\ b \notin fs.used THEN [Idle EXCEPT !.pc = "panic"]
                   ELSE [th[p] EXCEPT !.tot = @ + 1])
  /\ UNCHANGED <<calls, disk, outstanding, lock, off>>

TruncDone(p) ==
  /\ th[p].pc = "trunc"
  /\ th[p].tot > MAXFILE
  /\ fs' = [fs EXCEPT !.size[inode(p)] = 0]
  /\ lock' = [lock EXCEPT ![inode(p)] = Free]
  /\ Goto(p, Idle)
  /\ EndOp(p)
  /\ UNCHANGED off

Crash ==
  /\ PowerFails
  /\ fs' = disk
  /\ lh' = {}
  /\ outstanding' = {}
  /\ lock' = [i \in Inodes |-> Free]
  /\ off' = [f \in Files |-> 0]
  /\ th' = [p \in Procs |-> Idle]
  /\ logged' = [p \in Procs |-> {}]
  /\ UNCHANGED <<disk, calls>>

Next ==
  \/ \E p \in Procs, f \in Files, n \in Lengths : FileWrite(p, f, n) \/ FileRead(p, f, n)
  \/ \E p \in Procs, f \in Files : Trunc(p, f)
  \/ \E p \in Procs : ChunkBegin(p) \/ ChunkStart(p) \/ WriteBlock(p) \/ WriteDone(p)
                      \/ TruncStart(p) \/ TruncBlock(p) \/ TruncDone(p)
  \/ \E b \in Blocks : Recycle(b)
  \/ Crash

Spec == Init /\ [][Next]_vars
-----------------------------------------------------------------------------
Pcs == {"idle", "chunk", "ilock", "loop", "written", "refused", "open", "trunc", "panic"}

FileSystems ==
  [used : SUBSET Blocks, addrs : [Inodes -> [0..NDIRECT -> 0..NBlocks]],
   table : [Blocks -> [0..NINDIRECT-1 -> 0..NBlocks]],
   data : [Blocks -> [0..BSIZE-1 -> Procs \cup {Zero, Host}]],
   size : [Inodes -> 0..MAXFILE * BSIZE]]

TypeOK ==
  /\ fs \in FileSystems /\ disk \in FileSystems
  /\ lh \subseteq Blocks
  /\ outstanding \subseteq Procs
  /\ lock \in [Inodes -> Procs \cup {Free}]
  /\ off \in [Files -> 0..MAXFILE * BSIZE]
  /\ \A p \in Procs : th[p].pc \in Pcs /\ th[p].f \in Files
                      /\ {th[p].left, th[p].n1, th[p].tot} \subseteq Nat

\* The block numbers that inode i of x points to, with where they are stored.
Pointers(x, i) ==
  {<<k, x.addrs[i][k]>> : k \in {k \in 0..NDIRECT : x.addrs[i][k] # 0}}
  \cup (IF x.addrs[i][NDIRECT] = 0 THEN {}
        ELSE LET t == x.table[x.addrs[i][NDIRECT]]
             IN {<<NDIRECT + 1 + k, t[k]>> : k \in {k \in 0..NINDIRECT-1 : t[k] # 0}})

AllPointers(x) == {<<i, e>> : i \in Inodes, e \in UNION {Pointers(x, j) : j \in Inodes}}
                    \cap UNION {{i} \X Pointers(x, i) : i \in Inodes}

\* Every allocated block has exactly one owner, every free block none, and the
\* blocks below the size of a file are all there.
ConsistentIn(x) ==
  /\ x.used = {e[2][2] : e \in AllPointers(x)}
  /\ Cardinality(x.used) = Cardinality(AllPointers(x))
  /\ \A i \in Inodes : \A bn \in Covers(0, x.size[i]) : bmap(x, i, bn).log = {}

\* The image of mkfs is one that the kernel's allocator can go on from, and a
\* crash at any point, with several transactions in the log, a full disk and
\* failed copies, leaves no block lost, shared or missing.
DiskConsistent ==
  /\ ConsistentIn(disk)
  /\ outstanding = {} => ConsistentIn(fs)

\* log_write() has no reason to panic.  filewrite() splits a write so that each
\* transaction fits in the log, "including i-node, indirect block, allocation
\* blocks, and 2 blocks of slop for non-aligned writes" (file.c:149), also if
\* every block has a bitmap block of its own; readi() never allocates outside a
\* transaction.  And no free block is freed ("freeing free block", fs.c:102).
OpFits ==
  \A p \in Procs :
    /\ th[p].pc # "panic"
    /\ th[p].pc \in {"loop", "written"} =>
         Cardinality(logged[p] \cup {InodeBlock(inode(p))}) <= MAXOPBLOCKS

\* The bytes of inode i in x, up to n.
Bytes(x, i, n) ==
  [k \in 1..n |-> x.data[bmap(x, i, (k - 1) \div BSIZE).b][(k - 1) % BSIZE]]

\* What the holder of the inode's lock has written so far counts.
Reached(i) ==
  IF lock[i] # Free /\ th[lock[i]].pc \in {"loop", "written"}
  THEN Max2(fs.size[i], off[th[lock[i]].f] + th[lock[i]].tot) ELSE fs.size[i]

Truncating(i) == lock[i] # Free /\ th[lock[i]].pc = "trunc"

\* The bytes of files that the cache has and neither the log nor the disk.
Torn ==
  {e \in UNION {{i} \X (1..Reached(i)) : i \in {i \in Inodes : ~Truncating(i)}} :
     LET b == bmap(fs, e[1], (e[2] - 1) \div BSIZE).b
         k == (e[2] - 1) % BSIZE
     IN b \notin lh /\ fs.data[b][k] # disk.data[b][k]}

\* What mkfs was asked to store, and a root directory padded with zeroes.
Asked ==
  [i \in Inodes |->
     IF i = Root
     THEN [k \in 1..Image.size[Root] |->
             IF k <= (Len(HostFiles) + 2) * DirentSize THEN Host ELSE Zero]
     ELSE [k \in 1..Max({0} \cup {f.n : f \in {HostFiles[j] : j \in DOMAIN HostFiles} \cap
                                             [ino : {i}, n : Nat]}) |-> Host]]

Abstract == INSTANCE ByteFiles WITH
  Initial <- Asked,
  Byte <- Procs,
  content <- [i \in Inodes |-> IF Truncating(i) THEN <<>> ELSE Bytes(fs, i, Reached(i))],
  durable <- [i \in Inodes |-> Bytes(disk, i, disk.size[i])],
  torn <- Torn,
  active <- outstanding

\* The block layer implements byte strings: it finds in the image the bytes that
\* mkfs was given, a write through bmap() changes its own stretch of its own
\* file, whatever is allocated or freed meanwhile, and a crash returns to the
\* end of a group of transactions.  A write whose copy failed (fs.c:545) may
\* have changed bytes of the stretch it was given and no others; until the block
\* is logged such a byte may fall back to the one on the disk, then no more.
IsByteFiles == Abstract!Spec
=============================================================================
