------------------------------- MODULE Inode -------------------------------
(***************************************************************************)
(* Inodes, directories and the path calls of xv6: the inode table and the  *)
(* directory layer of kernel/fs.c, and link, unlink, create, open, mkdir,  *)
(* mknod, chdir and close of kernel/sysfile.c and kernel/file.c.           *)
(*                                                                         *)
(* Below is the log as AtomicDisk describes it: what the calls wrote       *)
(* becomes durable when the last of them ends, and a crash returns to what *)
(* is durable.  A step is a critical section of itable.lock, or what a     *)
(* call does between taking an inode's sleep lock and its next visit to    *)
(* the inode table: the fields and the contents of an inode are private    *)
(* to the holder of its lock.                                              *)
(*                                                                         *)
(* A directory is a function from names to inode numbers, 0 for none; the  *)
(* contents of files and the disk blocks are the subject of FileData.  A   *)
(* process has one open file.                                              *)
(***************************************************************************)
EXTENDS Integers, Sequences, FiniteSets, FiniteSetsExt, Relation

CONSTANTS
  Procs,
  Names,       \* file names, other than "." and ".."
  NInodes,     \* sb.ninodes - 1: the largest inode number
  NINODE,      \* entries of the inode table
  Calls,       \* the calls processes make: [op, path, new]
  Image,       \* the file system on the disk at first boot
  DiskFull,    \* whether balloc() may fail
  PowerFails   \* whether the machine may crash

ROOTINO == 1
Inums == 1..NInodes
Slots == 1..NINODE
Elems == Names \cup {".", ".."}
Types == {"none", "DIR", "FILE", "DEVICE"}
Free == "free"
NoDir == [n \in Elems |-> 0]

\* nlink is a signed short.
Dinodes == [type : Types, nlink : Int, ents : [Elems -> 0..NInodes]]

\* A path is a sequence of elements, after "/" if it is absolute.
Absolute(path) == path # <<>> /\ Head(path) = "/"
Elements(path) == IF Absolute(path) THEN Tail(path) ELSE path

CreateOps == {"create", "mkdir", "mknod"}
Ops == CreateOps \cup {"none", "close", "link", "unlink", "open", "chdir"}

ASSUME InodeAssumption ==
  /\ NInodes \in Nat \ {0} /\ NINODE \in Nat \ {0}
  /\ IsFiniteSet(Procs) /\ Procs # {} /\ Free \notin Procs
  /\ \A c \in Calls : /\ c.op \in Ops \ {"none", "close"}
                      /\ Elements(c.path) \in Seq(Elems)
                      /\ Elements(c.new) \in Seq(Elems)
                      /\ c.new \in Seq(Elems \cup {"/"})
  /\ Image \in [Inums -> Dinodes]
  /\ DiskFull \in BOOLEAN /\ PowerFails \in BOOLEAN

VARIABLES
  dinode,       \* inodes and directories as the buffer cache has them
  disk,         \* the same as of the last commit
  outstanding,  \* processes between begin_op() and end_op()
  itable,       \* slot -> [inum, ref, valid, type, nlink]
  lock,         \* slot -> holder of the inode's sleep lock
  cwd,          \* process -> slot of its current directory
  file,         \* process -> slot of the inode of its open file, 0 for none
  th,           \* process -> the system call it is in
  boot          \* 0, or the next inode number ireclaim() looks at

vars == <<dinode, disk, outstanding, itable, lock, cwd, file, th, boot>>

\* put: the inode that iput() still has to be called for before pc, 0 for none;
\* stage: how far that call is.
Idle == [pc |-> "idle", op |-> "none", rest |-> <<>>, new |-> <<>>, cur |-> 0,
         ip |-> 0, dp |-> 0, name |-> ".", ino |-> 0, put |-> 0,
         stage |-> "test"]

NoInode == [inum |-> 0, ref |-> 0, valid |-> FALSE, type |-> "none", nlink |-> 0]

Booted == [s \in Slots |->
             IF s # 1 THEN NoInode
             ELSE [inum |-> ROOTINO, ref |-> Cardinality(Procs), valid |-> FALSE,
                   type |-> "none", nlink |-> 0]]

Init ==
  /\ dinode = Image /\ disk = Image
  /\ outstanding = {}
  /\ itable = Booted
  /\ lock = [s \in Slots |-> Free]
  /\ cwd = [p \in Procs |-> 1]
  /\ file = [p \in Procs |-> 0]
  /\ th = [p \in Procs |-> Idle]
  /\ boot = 0

-----------------------------------------------------------------------------
(* The inode table. *)

Cached(t, i) == {s \in Slots : t[s].ref > 0 /\ t[s].inum = i}
Unused(t) == {s \in Slots : t[s].ref = 0}
CanGet(t, i) == Cached(t, i) # {} \/ Unused(t) # {}

IgetSlot(t, i) == Min(IF Cached(t, i) # {} THEN Cached(t, i) ELSE Unused(t))

iget(t, i) ==
  LET s == IgetSlot(t, i)
  IN IF t[s].ref > 0 THEN [t EXCEPT ![s].ref = @ + 1]
     ELSE [t EXCEPT ![s].inum = i, ![s].ref = 1, ![s].valid = FALSE]

\* ip->ref--.  iget() overwrites every field of an entry whose ref is 0, so the
\* model forgets them.
Unref(t, s) ==
  IF t[s].ref = 1 THEN [t EXCEPT ![s] = NoInode] ELSE [t EXCEPT ![s].ref = @ - 1]

idup(t, s) == [t EXCEPT ![s].ref = @ + 1]

\* The table after ilock(s) has read the inode from the disk if necessary.
ilock(t, s) ==
  IF t[s].valid THEN t
  ELSE [t EXCEPT ![s].valid = TRUE,
                 ![s].type = dinode[t[s].inum].type,
                 ![s].nlink = dinode[t[s].inum].nlink]

\* nlink of slot s becomes n, in the table and, by iupdate(), in the cache.
SetNlink(t, s, n) == [t EXCEPT ![s].nlink = n]

-----------------------------------------------------------------------------
(* Threads. *)

Panicked == \E p \in Procs : th[p].pc = "panic"

Running(p, pc) ==
  /\ boot = 0 /\ ~Panicked
  /\ th[p].pc = pc /\ th[p].put = 0

Become(p, r) == th' = [th EXCEPT ![p] = r]
Panic(p) == Become(p, [Idle EXCEPT !.pc = "panic"])

FsOnly == <<outstanding, disk, cwd, file, boot>>

\* iput(): the test under itable.lock.  acquiresleep() must not sleep, it is
\* called with a spin lock held.
MustFree(s) == itable[s].ref = 1 /\ itable[s].valid /\ itable[s].nlink = 0

Putting(p, stage) ==
  /\ boot = 0 /\ ~Panicked
  /\ th[p].put # 0 /\ th[p].stage = stage

IputTest(p) ==
  /\ Putting(p, "test")
  /\ LET s == th[p].put
     IN IF MustFree(s)
        THEN /\ UNCHANGED itable
             /\ IF lock[s] # Free THEN Panic(p) /\ UNCHANGED lock
                ELSE /\ lock' = [lock EXCEPT ![s] = p]
                     /\ Become(p, [th[p] EXCEPT !.stage = "free"])
        ELSE /\ itable' = Unref(itable, s)
             /\ Become(p, [th[p] EXCEPT !.put = 0])
             /\ UNCHANGED lock
  /\ UNCHANGED <<dinode, FsOnly>>

Freed == [type |-> "none", nlink |-> 0, ents |-> NoDir]

\* Mutant: the freed inode stays valid in the table.
IputFree_Valid(p) ==
  /\ Putting(p, "free")
  /\ LET s == th[p].put
     IN /\ dinode' = [dinode EXCEPT ![itable[s].inum] = Freed]
        /\ itable' = [itable EXCEPT ![s].type = "none"]
        /\ lock' = [lock EXCEPT ![s] = Free]
  /\ Become(p, [th[p] EXCEPT !.stage = "drop"])
  /\ UNCHANGED FsOnly

\* itrunc(), type = 0, iupdate(), valid = 0 and releasesleep().
IputFree(p) ==
  /\ Putting(p, "free")
  /\ LET s == th[p].put
     IN /\ dinode' = [dinode EXCEPT ![itable[s].inum] = Freed]
        /\ itable' = [itable EXCEPT ![s].type = "none", ![s].valid = FALSE]
        /\ lock' = [lock EXCEPT ![s] = Free]
  /\ Become(p, [th[p] EXCEPT !.stage = "drop"])
  /\ UNCHANGED FsOnly

IputDrop(p) ==
  /\ Putting(p, "drop")
  /\ itable' = Unref(itable, th[p].put)
  /\ Become(p, [th[p] EXCEPT !.put = 0, !.stage = "test"])
  /\ UNCHANGED <<dinode, lock, FsOnly>>

-----------------------------------------------------------------------------
(* Path names: namex(). *)

CreateType(op) ==
  CASE op = "create" -> "FILE" [] op = "mkdir" -> "DIR" [] op = "mknod" -> "DEVICE"

\* The start of namex(path) in thread r of p.
StartWalk(p, r, pc, path) ==
  LET from(s) == [r EXCEPT !.pc = pc, !.rest = Elements(path), !.cur = s]
  IN IF ~Absolute(path)
     THEN Become(p, from(cwd[p])) /\ itable' = idup(itable, cwd[p])
     ELSE IF CanGet(itable, ROOTINO)
     THEN /\ Become(p, from(IgetSlot(itable, ROOTINO)))
          /\ itable' = iget(itable, ROOTINO)
     ELSE Panic(p) /\ UNCHANGED itable

\* Where a call goes on after namei() or nameiparent(), and where if it fails.
Found(op, pc) ==
  CASE op = "link" -> IF pc = "namei" THEN "link1" ELSE "link2"
    [] op = "unlink" -> "unlink1"
    [] op \in CreateOps -> "create1"
    [] op \in {"open", "chdir"} -> op
NotFound(op, pc) ==
  IF op = "link" /\ pc = "nameiparent" THEN "linkbad" ELSE "end"

\* begin_op() and the start of the walk.
Call(p, c) ==
  /\ Running(p, "idle")
  /\ outstanding' = outstanding \cup {p}
  /\ StartWalk(p, [Idle EXCEPT !.op = c.op, !.new = c.new],
               IF c.op \in {"link", "open", "chdir"} THEN "namei"
               ELSE "nameiparent", c.path)
  /\ UNCHANGED <<dinode, disk, lock, cwd, file, boot>>

dirlookup(d, name) == dinode[d].ents[name]

\* The end of the path.
NamexEnd(p, pc) ==
  /\ Running(p, pc)
  /\ th[p].rest = <<>>
  /\ LET t == th[p]
     IN Become(p, IF pc = "namei"
                  THEN [t EXCEPT !.pc = Found(t.op, pc), !.ip = t.cur, !.cur = 0]
                  ELSE [t EXCEPT !.pc = NotFound(t.op, pc), !.put = t.cur,
                                 !.cur = 0])
  /\ UNCHANGED <<dinode, itable, lock, FsOnly>>

\* One element: ilock(), dirlookup() with its iget(), iunlock(); iput() next.
NamexStep(p, pc) ==
  /\ Running(p, pc)
  /\ th[p].rest # <<>>
  /\ LET t == th[p]
         s == t.cur
         it == ilock(itable, s)
         next == dirlookup(it[s].inum, Head(t.rest))
         failed == [t EXCEPT !.pc = NotFound(t.op, pc), !.cur = 0, !.put = s]
     IN /\ lock[s] = Free
        /\ IF it[s].type = "none" THEN Panic(p) /\ UNCHANGED itable
           ELSE IF it[s].type # "DIR" THEN Become(p, failed) /\ itable' = it
           ELSE IF pc = "nameiparent" /\ Len(t.rest) = 1
           THEN /\ Become(p, [t EXCEPT !.pc = Found(t.op, pc), !.dp = s, !.cur = 0,
                                       !.name = Head(t.rest), !.rest = <<>>])
                /\ itable' = it
           ELSE IF next = 0 THEN Become(p, failed) /\ itable' = it
           ELSE IF ~CanGet(it, next) THEN Panic(p) /\ UNCHANGED itable
           ELSE /\ Become(p, [t EXCEPT !.rest = Tail(@), !.put = s,
                                       !.cur = IgetSlot(it, next)])
                /\ itable' = iget(it, next)
  /\ UNCHANGED <<dinode, lock, FsOnly>>

-----------------------------------------------------------------------------
(* unlink *)

isdirempty(i) == \A n \in Names : dinode[i].ents[n] = 0

\* iunlockput(dp) of the error paths, other locks having been released.
DropDp(p) ==
  /\ Running(p, "dropdp")
  /\ LET t == th[p]
     IN /\ lock' = [lock EXCEPT ![t.dp] = Free]
        /\ Become(p, [t EXCEPT !.pc = NotFound(t.op, "nameiparent"),
                               !.put = t.dp, !.dp = 0])
  /\ UNCHANGED <<dinode, itable, FsOnly>>

\* Mutant: only "." is refused.
Undeletable_Dot(name) == name = "."

Undeletable(name) == name \in {".", ".."}

Unlink1(p) ==
  /\ Running(p, "unlink1")
  /\ LET t == th[p]
         s == t.dp
         it == ilock(itable, s)
         i == dirlookup(it[s].inum, t.name)
     IN /\ lock[s] = Free
        /\ IF it[s].type = "none" THEN Panic(p) /\ UNCHANGED <<itable, lock>>
           ELSE IF Undeletable(t.name) \/ i = 0
           THEN /\ Become(p, [t EXCEPT !.pc = "end", !.put = s, !.dp = 0])
                /\ itable' = it
                /\ UNCHANGED lock
           ELSE IF ~CanGet(it, i) THEN Panic(p) /\ UNCHANGED <<itable, lock>>
           ELSE /\ Become(p, [t EXCEPT !.pc = "unlink2", !.ip = IgetSlot(it, i)])
                /\ itable' = iget(it, i)
                /\ lock' = [lock EXCEPT ![s] = p]
  /\ UNCHANGED <<dinode, FsOnly>>

\* ilock(ip), the tests, the directory entry and iunlock(dp).
Unlink2(p) ==
  /\ Running(p, "unlink2")
  /\ LET t == th[p]
         it == ilock(itable, t.ip)
         i == it[t.ip].inum
         d == it[t.dp].inum
         n == it[t.dp].nlink - (IF it[t.ip].type = "DIR" THEN 1 ELSE 0)
     IN /\ lock[t.ip] = Free
        /\ IF it[t.ip].type = "none" \/ it[t.ip].nlink < 1
           THEN Panic(p) /\ UNCHANGED <<itable, lock, dinode>>
           ELSE IF it[t.ip].type = "DIR" /\ ~isdirempty(i)
           THEN /\ Become(p, [t EXCEPT !.pc = "dropdp", !.put = t.ip, !.ip = 0])
                /\ itable' = it
                /\ UNCHANGED <<lock, dinode>>
           ELSE /\ Become(p, [t EXCEPT !.pc = "unlink3", !.put = t.dp, !.dp = 0])
                /\ itable' = SetNlink(it, t.dp, n)
                /\ dinode' = [dinode EXCEPT ![d].ents[t.name] = 0, ![d].nlink = n]
                /\ lock' = [lock EXCEPT ![t.dp] = Free, ![t.ip] = p]
  /\ UNCHANGED FsOnly

Unlink3(p) ==
  /\ Running(p, "unlink3")
  /\ LET t == th[p]
         n == itable[t.ip].nlink - 1
     IN /\ itable' = SetNlink(itable, t.ip, n)
        /\ dinode' = [dinode EXCEPT ![itable[t.ip].inum].nlink = n]
        /\ lock' = [lock EXCEPT ![t.ip] = Free]
        /\ Become(p, [t EXCEPT !.pc = "end", !.put = t.ip, !.ip = 0])
  /\ UNCHANGED FsOnly

-----------------------------------------------------------------------------
(* link *)

\* ilock(ip), nlink++, iunlock(), and the start of nameiparent(new).
Link1(p) ==
  /\ Running(p, "link1")
  /\ LET t == th[p]
         it == ilock(itable, t.ip)
         n == it[t.ip].nlink + 1
     IN /\ lock[t.ip] = Free
        /\ IF it[t.ip].type = "none" THEN Panic(p) /\ UNCHANGED <<itable, dinode>>
           ELSE IF it[t.ip].type = "DIR"
           THEN /\ Become(p, [t EXCEPT !.pc = "end", !.put = t.ip, !.ip = 0])
                /\ itable' = it
                /\ UNCHANGED dinode
           ELSE /\ Become(p, [t EXCEPT !.pc = "linknew"])
                /\ itable' = SetNlink(it, t.ip, n)
                /\ dinode' = [dinode EXCEPT ![it[t.ip].inum].nlink = n]
  /\ UNCHANGED <<lock, FsOnly>>

LinkNew(p) ==
  /\ Running(p, "linknew")
  /\ StartWalk(p, th[p], "nameiparent", th[p].new)
  /\ UNCHANGED <<dinode, lock, FsOnly>>

\* Whether a directory entry can be written: a new block may be needed.
Writable == IF DiskFull THEN BOOLEAN ELSE {TRUE}

\* ilock(dp) and dirlink(); the inode it finds under the name is put again.
Link2(p, ok) ==
  /\ Running(p, "link2")
  /\ LET t == th[p]
         it == ilock(itable, t.dp)
         d == it[t.dp].inum
         old == dirlookup(d, t.name)
     IN /\ lock[t.dp] = Free
        /\ IF it[t.dp].type = "none" \/ (old # 0 /\ ~CanGet(it, old))
           THEN Panic(p) /\ UNCHANGED <<itable, lock, dinode>>
           ELSE IF old # 0
           THEN /\ lock' = [lock EXCEPT ![t.dp] = p]
                /\ itable' = iget(it, old)
                /\ Become(p, [t EXCEPT !.pc = "dropdp",
                                       !.put = IgetSlot(it, old)])
                /\ UNCHANGED dinode
           ELSE IF ~ok
           THEN /\ Become(p, [t EXCEPT !.pc = "linkbad", !.put = t.dp, !.dp = 0])
                /\ itable' = it
                /\ UNCHANGED <<lock, dinode>>
           ELSE /\ Become(p, [t EXCEPT !.pc = "linked", !.put = t.dp, !.dp = 0])
                /\ itable' = it
                /\ dinode' = [dinode EXCEPT ![d].ents[t.name] = it[t.ip].inum]
                /\ UNCHANGED lock
  /\ UNCHANGED FsOnly

\* The iput(ip) after iunlockput(dp).
Linked(p) ==
  /\ Running(p, "linked")
  /\ Become(p, [th[p] EXCEPT !.pc = "end", !.put = th[p].ip, !.ip = 0])
  /\ UNCHANGED <<dinode, itable, lock, FsOnly>>

\* Mutant: the error path forgets to take the link count back.
LinkBad_KeepsCount(p) ==
  /\ Running(p, "linkbad")
  /\ lock[th[p].ip] = Free
  /\ Become(p, [th[p] EXCEPT !.pc = "end", !.put = th[p].ip, !.ip = 0])
  /\ UNCHANGED <<itable, dinode, lock, FsOnly>>

LinkBad(p) ==
  /\ Running(p, "linkbad")
  /\ LET t == th[p]
         it == ilock(itable, t.ip)
         n == it[t.ip].nlink - 1
     IN /\ lock[t.ip] = Free
        /\ IF it[t.ip].type = "none" THEN Panic(p) /\ UNCHANGED <<itable, dinode>>
           ELSE /\ itable' = SetNlink(it, t.ip, n)
                /\ dinode' = [dinode EXCEPT ![it[t.ip].inum].nlink = n]
                /\ Become(p, [t EXCEPT !.pc = "end", !.put = t.ip, !.ip = 0])
  /\ UNCHANGED <<lock, FsOnly>>

-----------------------------------------------------------------------------
(* create, and open, mkdir and mknod around it *)

FreeInums == {i \in Inums : dinode[i].type = "none"}

\* ilock(dp) and dirlookup(): an existing inode, or ialloc().
Create1(p) ==
  /\ Running(p, "create1")
  /\ LET t == th[p]
         it == ilock(itable, t.dp)
         i == dirlookup(it[t.dp].inum, t.name)
     IN /\ lock[t.dp] = Free
        /\ IF it[t.dp].type = "none" \/ (i # 0 /\ ~CanGet(it, i))
           THEN Panic(p) /\ UNCHANGED <<itable, lock, dinode>>
           ELSE IF i # 0
           THEN /\ Become(p, [t EXCEPT !.pc = "create2", !.put = t.dp,
                                       !.dp = 0, !.ip = IgetSlot(it, i)])
                /\ itable' = iget(it, i)
                /\ UNCHANGED <<lock, dinode>>
           ELSE IF FreeInums = {}
           THEN /\ Become(p, [t EXCEPT !.pc = "end", !.put = t.dp, !.dp = 0])
                /\ itable' = it
                /\ UNCHANGED <<lock, dinode>>
           ELSE /\ Become(p, [t EXCEPT !.pc = "create3", !.ino = Min(FreeInums)])
                /\ itable' = it
                /\ lock' = [lock EXCEPT ![t.dp] = p]
                /\ dinode' = [dinode EXCEPT ![Min(FreeInums)] =
                               [Freed EXCEPT !.type = CreateType(t.op)]]
  /\ UNCHANGED FsOnly

\* The inode existed: ilock(ip).
Create2(p) ==
  /\ Running(p, "create2")
  /\ LET t == th[p]
         it == ilock(itable, t.ip)
     IN /\ lock[t.ip] = Free
        /\ IF it[t.ip].type = "none" THEN Panic(p) /\ UNCHANGED <<itable, lock>>
           ELSE IF t.op = "create" /\ it[t.ip].type \in {"FILE", "DEVICE"}
           THEN /\ Become(p, [t EXCEPT !.pc = "opened"])
                /\ itable' = it
                /\ lock' = [lock EXCEPT ![t.ip] = p]
           ELSE /\ Become(p, [t EXCEPT !.pc = "end", !.put = t.ip, !.ip = 0])
                /\ itable' = it
                /\ UNCHANGED lock
  /\ UNCHANGED <<dinode, FsOnly>>

\* The iget() of ialloc().
Create3(p) ==
  /\ Running(p, "create3")
  /\ LET t == th[p]
     IN IF CanGet(itable, t.ino)
        THEN /\ itable' = iget(itable, t.ino)
             /\ Become(p, [t EXCEPT !.pc = "create4", !.ino = 0,
                                    !.ip = IgetSlot(itable, t.ino)])
        ELSE Panic(p) /\ UNCHANGED itable
  /\ UNCHANGED <<dinode, lock, FsOnly>>

\* ilock(ip), the new inode and the directory entries.
Create4(p, ok) ==
  /\ Running(p, "create4")
  /\ LET t == th[p]
         it == ilock(itable, t.ip)
         i == it[t.ip].inum
         d == it[t.dp].inum
         dir == t.op = "mkdir"
         n == it[t.dp].nlink + (IF dir THEN 1 ELSE 0)
         made == [type |-> it[t.ip].type, nlink |-> 1,
                  ents |-> IF dir THEN [NoDir EXCEPT !["."] = i, ![".."] = d]
                           ELSE NoDir]
     IN /\ lock[t.ip] = Free
        /\ IF it[t.ip].type = "none"
           THEN Panic(p) /\ UNCHANGED <<itable, lock, dinode>>
           ELSE IF ok
           THEN /\ dinode' = [dinode EXCEPT ![i] = made, ![d].ents[t.name] = i,
                                            ![d].nlink = n]
                /\ itable' = SetNlink(SetNlink(it, t.ip, 1), t.dp, n)
                /\ lock' = [lock EXCEPT ![t.ip] = p, ![t.dp] = Free]
                /\ Become(p, [t EXCEPT !.pc = "opened", !.put = t.dp, !.dp = 0])
           ELSE /\ dinode' = [dinode EXCEPT ![i] = [made EXCEPT !.nlink = 0]]
                /\ itable' = SetNlink(it, t.ip, 0)
                /\ Become(p, [t EXCEPT !.pc = "dropdp", !.put = t.ip, !.ip = 0])
                /\ UNCHANGED lock
  /\ UNCHANGED FsOnly

\* sys_open() without O_CREATE: ilock(ip).  omode is part of the choice.
Open(p) ==
  /\ Running(p, "open")
  /\ LET t == th[p]
         it == ilock(itable, t.ip)
     IN /\ lock[t.ip] = Free
        /\ IF it[t.ip].type = "none" THEN Panic(p) /\ UNCHANGED <<itable, lock>>
           ELSE /\ itable' = it
                /\ \/ /\ Become(p, [t EXCEPT !.pc = "opened"])
                      /\ lock' = [lock EXCEPT ![t.ip] = p]
                   \/ /\ it[t.ip].type = "DIR"
                      /\ Become(p, [t EXCEPT !.pc = "end", !.put = t.ip, !.ip = 0])
                      /\ UNCHANGED lock
  /\ UNCHANGED <<dinode, FsOnly>>

\* Mutant: open() fails without giving its inode back.
Opened_Leaks(p) ==
  /\ Running(p, "opened")
  /\ lock' = [lock EXCEPT ![th[p].ip] = Free]
  /\ file' = IF file[p] = 0 THEN [file EXCEPT ![p] = th[p].ip] ELSE file
  /\ Become(p, [th[p] EXCEPT !.pc = "end", !.ip = 0])
  /\ UNCHANGED <<dinode, itable, disk, outstanding, cwd, boot>>

\* The end of sys_open(), with ip locked, and of sys_mkdir() and sys_mknod().
\* A device with a bad major number is refused.
Opened(p) ==
  /\ Running(p, "opened")
  /\ LET t == th[p]
         r == [t EXCEPT !.pc = "end", !.ip = 0]
     IN /\ lock' = [lock EXCEPT ![t.ip] = Free]
        /\ \/ /\ t.op \in {"open", "create"} /\ file[p] = 0
              /\ file' = [file EXCEPT ![p] = t.ip]
              /\ Become(p, r)
           \/ /\ \/ t.op \in {"mkdir", "mknod"}
                 \/ file[p] # 0
                 \/ itable[t.ip].type = "DEVICE"
              /\ Become(p, [r EXCEPT !.put = t.ip])
              /\ UNCHANGED file
  /\ UNCHANGED <<dinode, itable, disk, outstanding, cwd, boot>>

-----------------------------------------------------------------------------
(* chdir, close, and the end of every call *)

Chdir(p) ==
  /\ Running(p, "chdir")
  /\ LET t == th[p]
         it == ilock(itable, t.ip)
         r == [t EXCEPT !.pc = "end", !.ip = 0]
     IN /\ lock[t.ip] = Free
        /\ IF it[t.ip].type = "none" THEN Panic(p) /\ UNCHANGED <<itable, cwd>>
           ELSE IF it[t.ip].type = "DIR"
           THEN /\ Become(p, [r EXCEPT !.put = cwd[p]])
                /\ cwd' = [cwd EXCEPT ![p] = t.ip]
                /\ itable' = it
           ELSE /\ Become(p, [r EXCEPT !.put = t.ip])
                /\ itable' = it
                /\ UNCHANGED cwd
  /\ UNCHANGED <<dinode, lock, disk, outstanding, file, boot>>

\* fileclose() of the last descriptor.
Close(p) ==
  /\ Running(p, "idle")
  /\ file[p] # 0
  /\ outstanding' = outstanding \cup {p}
  /\ file' = [file EXCEPT ![p] = 0]
  /\ Become(p, [Idle EXCEPT !.pc = "end", !.op = "close", !.put = file[p]])
  /\ UNCHANGED <<dinode, disk, itable, lock, cwd, boot>>

\* end_op(): the last call to end commits for all.
EndOp(p) ==
  /\ Running(p, "end")
  /\ outstanding' = outstanding \ {p}
  /\ disk' = IF outstanding = {p} THEN dinode ELSE disk
  /\ Become(p, Idle)
  /\ UNCHANGED <<dinode, itable, lock, cwd, file, boot>>

-----------------------------------------------------------------------------
(* Power failure, and ireclaim() at boot. *)

Crash ==
  /\ PowerFails
  /\ dinode' = disk
  /\ outstanding' = {}
  /\ itable' = Booted
  /\ lock' = [s \in Slots |-> Free]
  /\ cwd' = [p \in Procs |-> 1]
  /\ file' = [p \in Procs |-> 0]
  /\ th' = [p \in Procs |-> Idle]
  /\ boot' = ROOTINO
  /\ UNCHANGED disk

\* Mutant: ireclaim() stops one inode early.
Reclaim_Short ==
  /\ boot # 0
  /\ boot' = IF boot = NInodes - 1 THEN 0 ELSE boot + 1
  /\ dinode' = IF dinode[boot].type # "none" /\ dinode[boot].nlink = 0
               THEN [dinode EXCEPT ![boot] = Freed] ELSE dinode
  /\ disk' = dinode'
  /\ UNCHANGED <<outstanding, itable, lock, cwd, file, th>>

\* One inode: iget(), ilock() and iput() in a transaction of their own.
Reclaim ==
  /\ boot # 0
  /\ boot' = IF boot = NInodes THEN 0 ELSE boot + 1
  /\ dinode' = IF dinode[boot].type # "none" /\ dinode[boot].nlink = 0
               THEN [dinode EXCEPT ![boot] = Freed] ELSE dinode
  /\ disk' = dinode'
  /\ UNCHANGED <<outstanding, itable, lock, cwd, file, th>>

Step(p) ==
  \/ \E c \in Calls : Call(p, c)
  \/ \E pc \in {"namei", "nameiparent"} : NamexEnd(p, pc) \/ NamexStep(p, pc)
  \/ IputTest(p) \/ IputFree(p) \/ IputDrop(p) \/ DropDp(p)
  \/ Unlink1(p) \/ Unlink2(p) \/ Unlink3(p)
  \/ Link1(p) \/ LinkNew(p) \/ Linked(p) \/ LinkBad(p)
  \/ Create1(p) \/ Create2(p) \/ Create3(p)
  \/ \E ok \in Writable : Link2(p, ok) \/ Create4(p, ok)
  \/ Open(p) \/ Opened(p) \/ Chdir(p) \/ Close(p) \/ EndOp(p)

Next == Crash \/ Reclaim \/ \E p \in Procs : Step(p)

Spec == Init /\ [][Next]_vars
-----------------------------------------------------------------------------
Pcs == {"idle", "panic", "namei", "nameiparent", "dropdp", "unlink1", "unlink2",
        "unlink3", "link1", "linknew", "link2", "linked", "linkbad", "create1",
        "create2", "create3", "create4", "open", "opened", "chdir", "end"}

Entries == [inum : 0..NInodes, ref : Nat, valid : BOOLEAN, type : Types, nlink : Int]

Threads == [pc : Pcs, op : Ops, rest : Seq(Elems), new : Seq(Elems \cup {"/"}),
            cur : 0..NINODE, ip : 0..NINODE, dp : 0..NINODE, name : Elems,
            ino : 0..NInodes, put : 0..NINODE, stage : {"test", "free", "drop"}]

TypeOK ==
  /\ dinode \in [Inums -> Dinodes] /\ disk \in [Inums -> Dinodes]
  /\ outstanding \subseteq Procs
  /\ itable \in [Slots -> Entries]
  /\ lock \in [Slots -> Procs \cup {Free}]
  /\ cwd \in [Procs -> Slots] /\ file \in [Procs -> 0..NINODE]
  /\ th \in [Procs -> Threads]
  /\ \A p \in Procs : Elements(th[p].new) \in Seq(Elems)
  /\ boot \in 0..NInodes

\* Where a process may hold a pointer to an inode: its directory, its file, the
\* local variables of the call, and what it has yet to put.
Holders == {"cwd", "file", "cur", "ip", "dp", "put"}

ptr == [e \in Procs \X Holders |->
          CASE e[2] = "cwd" -> cwd[e[1]] [] e[2] = "file" -> file[e[1]]
            [] e[2] = "cur" -> th[e[1]].cur [] e[2] = "ip" -> th[e[1]].ip
            [] e[2] = "dp" -> th[e[1]].dp [] e[2] = "put" -> th[e[1]].put]

Pointers(s) == {e \in Procs \X Holders : ptr[e] = s}

RefsCounted == \A s \in Slots : itable[s].ref = Cardinality(Pointers(s))

\* ip->ref is the number of pointers to the entry (fs.c:133), through every
\* error path of the path calls: no reference is leaked or dropped twice.
RefExact == (boot = 0 /\ ~Panicked) => RefsCounted

\* An inode has one entry in the table (iget(), fs.c:254), so its lock excludes;
\* a valid entry in use agrees with the inode on the disk, also when the inode
\* was freed by one process and reallocated by another (fs.c:351-354).
Coherent ==
  /\ \A i \in Inums : Cardinality(Cached(itable, i)) <= 1
  /\ \A s \in Slots :
       (itable[s].ref > 0 /\ itable[s].valid) =>
         /\ itable[s].type = dinode[itable[s].inum].type
         /\ itable[s].nlink = dinode[itable[s].inum].nlink

\* The entries that count as links: those of directories that have a link
\* themselves, "." excepted.
Links(d, i) ==
  {e \in Inums \X (Elems \ {"."}) :
     /\ d[e[1]].type = "DIR" /\ d[e[1]].nlink > 0
     /\ d[e[1]].ents[e[2]] = i}

LinksExactIn(d) ==
  \A i \in Inums : d[i].type # "none" => d[i].nlink = Cardinality(Links(d, i))

\* nlink is the "Number of links to inode in file system" (fs.h:36): what a
\* crash leaves on the disk satisfies it, whichever of the calls in Calls it
\* interrupts and on whatever path they fail, and so does what the calls see when
\* none is under way.  Not claimed for calls that name something in a removed
\* directory: create(), mkdir and link do not test that the directory they locked
\* still has a link (sysfile.c:254), and the count they raise there stays without
\* a name.
LinksExact ==
  /\ LinksExactIn(disk)
  /\ outstanding = {} => LinksExactIn(dinode)

\* Whatever the crash interrupted, and also if it comes during ireclaim(), no
\* inode is allocated and orphaned when the system is up again (fs.c:373).
Reclaimed ==
  [][(boot # 0 /\ boot' = 0) =>
       \A i \in Inums : dinode'[i].type # "none" => dinode'[i].nlink # 0]_vars

\* The slot whose lock p is about to take, 0 for none.
Wants(p) ==
  CASE th[p].put # 0 -> 0
    [] th[p].pc \in {"namei", "nameiparent"} /\ th[p].rest # <<>> -> th[p].cur
    [] th[p].pc \in {"unlink1", "link2", "create1"} -> th[p].dp
    [] th[p].pc \in {"unlink2", "link1", "linkbad", "create2", "create4", "open",
                     "chdir"} -> th[p].ip
    [] OTHER -> 0

\* No call in Calls stops half-way.  There is no panic: no free inode is locked
\* ("ilock: no type"), no link count drops below zero ("unlink: nlink < 1"), and
\* the acquiresleep() of iput() does not sleep ("this acquiresleep() won't block (or
\* deadlock)", fs.c:346).  And nobody waits, directly or through others, for a lock
\* of its own: link, unlink and create never deadlock over a parent and a child.
\* Two panics are left out because the code does reach them: a walk through ".." of
\* a removed directory, whose parent may be removed and free by then, locks a free
\* inode; and more inodes in use than NINODE are too many for iget() ("iget: no
\* inodes"), so NINODE is to be at least their number.
NeverStuck ==
  LET waits == {e \in Procs \X Procs : Wants(e[1]) # 0 /\ lock[Wants(e[1])] = e[2]}
      R == [p, q \in Procs |-> <<p, q>> \in waits]
  IN ~Panicked /\ \A p \in Procs : ~TransitiveClosure(R, Procs)[p, p]
-----------------------------------------------------------------------------
(* An inductive invariant: what RefExact, Coherent and Reclaimed rest on. *)

\* The calls that may be at a label.
OpsAt(pc) ==
  CASE pc \in {"idle", "panic"} -> {"none"}
    [] pc = "namei" -> {"link", "open", "chdir"}
    [] pc \in {"nameiparent", "dropdp"} -> {"link", "unlink"} \cup CreateOps
    [] pc \in {"unlink1", "unlink2", "unlink3"} -> {"unlink"}
    [] pc \in {"link1", "linknew", "link2", "linked", "linkbad"} -> {"link"}
    [] pc \in {"create1", "create2", "create3", "create4"} -> CreateOps
    [] pc \in {"open", "chdir"} -> {pc}
    [] pc = "opened" -> CreateOps \cup {"open"}
    [] pc = "end" -> Ops \ {"none"}

CurPcs == {"namei", "nameiparent"}
DpPcs == {"dropdp", "unlink1", "unlink2", "link2", "create1", "create3", "create4"}
IpPcs == {"unlink2", "unlink3", "link1", "linknew", "link2", "linked", "linkbad",
          "create2", "create4", "open", "opened", "chdir"}

\* The local variables that point to an inode at a label.
FrameOK(r) ==
  /\ r.op \in OpsAt(r.pc)
  /\ r.cur # 0 <=> r.pc \in CurPcs
  /\ r.dp # 0 <=> r.pc \in DpPcs
  /\ r.ip # 0 <=> \/ r.pc \in IpPcs
                  \/ r.op = "link" /\ r.pc \in {"nameiparent", "dropdp"}
  /\ r.pc = "create3" => r.ino # 0
  /\ r.put # 0 => r.pc # "idle"
  /\ r.stage # "test" => r.put # 0

\* The locks a call holds: on its directory or inode, and in iput().
Locked(r) ==
  CASE r.pc \in {"dropdp", "unlink2", "create3", "create4"} -> r.dp
    [] r.pc \in {"unlink3", "opened"} -> r.ip
    [] OTHER -> 0
Freeing(r) == IF r.stage = "free" THEN r.put ELSE 0

LocksHeld ==
  /\ \A p \in Procs, s \in Slots :
       lock[s] = p <=> s \in {Locked(th[p]), Freeing(th[p])}
  /\ \A p \in Procs : Freeing(th[p]) # 0 => Freeing(th[p]) # Locked(th[p])
  /\ \A s \in Slots : lock[s] # Free => itable[s].valid

\* The entries of table t and the inodes d: an entry in use has an inode to
\* itself, and a valid entry is of an allocated inode and agrees with it.
TableOK(t, d) ==
  /\ \A s \in Slots : IF t[s].ref = 0 THEN t[s] = NoInode ELSE t[s].inum # 0
  /\ \A r, s \in Slots :
       (t[r].ref > 0 /\ t[s].ref > 0 /\ t[r].inum = t[s].inum) => r = s
  /\ \A s \in Slots :
       t[s].valid => /\ t[s].type = d[t[s].inum].type
                     /\ t[s].nlink = d[t[s].inum].nlink
                     /\ t[s].type # "none"

\* While ireclaim() runs nothing is cached, and what it has passed is in order.
BootOK ==
  boot # 0 => /\ \A s \in Slots : ~itable[s].valid
              /\ \A i \in 1..boot-1 : dinode[i].type # "none" => dinode[i].nlink # 0

InodeInv ==
  /\ TypeOK
  /\ TableOK(itable, dinode)
  /\ BootOK
  /\ ~Panicked => /\ RefsCounted
                  /\ \A p \in Procs : FrameOK(th[p])
                  /\ LocksHeld
=============================================================================
