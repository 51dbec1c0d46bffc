---------------------------- MODULE BCacheProofs ----------------------------
(***************************************************************************)
(* Proofs about BCache, for any numbers of processes, blocks and buffers:  *)
(* CacheInv is inductive, no block has two copies, nobody sleeps on a free *)
(* buffer, and the cache implements BlockStore.                            *)
(***************************************************************************)
EXTENDS BCache, Integers, WellFoundedInduction, FiniteSetTheorems, SequenceTheorems, TLAPS

-----------------------------------------------------------------------------
(* Numbers *)

\* The natural numbers are well ordered.
LEMMA LeastExists ==
  ASSUME NEW S, S \subseteq Nat, S # {}
  PROVE  \E i \in S : \A j \in S : i <= j
<1>1. \E i \in S : \A j \in S : ~ (<<j, i>> \in OpToRel(<, Nat))
  BY NatLessThanWellFounded, WFMin, Zenon
<1>2. ASSUME NEW i \in S, NEW j \in S, ~ (<<j, i>> \in OpToRel(<, Nat))
      PROVE  i <= j
  <2>1. i \in Nat /\ j \in Nat
    OBVIOUS
  <2>2. ~ (j < i)
    BY <1>2, <2>1 DEF OpToRel
  <2> QED
    BY <2>1, <2>2
<1> QED
  BY <1>1, <1>2

\* A bounded set of numbers has a greatest element.
LEMMA GreatestExists ==
  ASSUME NEW n \in Nat, NEW S, S \subseteq 0..n, S # {}
  PROVE  \E i \in S : \A j \in S : j <= i
<1> DEFINE T == {n - i : i \in S}
<1>1. T \subseteq Nat
  OBVIOUS
<1>2. T # {}
  OBVIOUS
<1>3. PICK t \in T : \A u \in T : t <= u
  <2> HIDE DEF T
  <2> QED
    BY <1>1, <1>2, LeastExists
<1>4. PICK i \in S : t = n - i
  OBVIOUS
<1>5. ASSUME NEW j \in S PROVE j <= i
  <2>1. n - i <= n - j
    BY <1>3, <1>4
  <2> QED
    BY <2>1
<1> QED
  BY <1>5

-----------------------------------------------------------------------------
\* A buffer has a finite number of users.
LEMMA UsersFinite ==
  ASSUME NEW b
  PROVE  IsFiniteSet(Users(b)) /\ Cardinality(Users(b)) \in Nat
<1>1. Users(b) \in SUBSET Procs
  BY DEF Users
<1> QED
  BY <1>1, FS_Subset, FS_CardinalityType, BCacheAssumption

\* A buffer without references has no user and no pin.
LEMMA UnreferencedUnused ==
  ASSUME Counted, NEW b \in Bufs, refcnt[b] = 0
  PROVE  b \notin pinned /\ \A p \in Procs : cur[p] # b
<1>1. Cardinality(Users(b)) = 0 /\ b \notin pinned
  BY UsersFinite DEF Counted
<1>2. Users(b) = {}
  BY <1>1, UsersFinite, FS_EmptySet
<1> QED
  BY <1>1, <1>2 DEF Users

\* The second loop of bget() ends at a buffer without references.
LEMMA RecycledBuffer ==
  ASSUME TypeOK, Unused # {},
         NEW b, b = lru[CHOOSE j \in Unused : \A l \in Unused : l <= j]
  PROVE  b \in Bufs /\ refcnt[b] = 0
<1>1. Len(lru) \in Nat /\ Unused \subseteq 0..Len(lru)
  BY DEF TypeOK, Unused
<1>2. \E j \in Unused : \A l \in Unused : l <= j
  BY <1>1, GreatestExists
<1>3. (CHOOSE j \in Unused : \A l \in Unused : l <= j) \in Unused
  BY <1>2
<1> QED
  BY <1>3 DEF Unused, TypeOK

\* Moving a buffer to the front keeps the list a list of all buffers.
LEMMA ListKept ==
  ASSUME TypeOK, NEW b \in Bufs
  PROVE  /\ MoveToFront(b) \in Seq(Bufs)
         /\ Len(MoveToFront(b)) = Cardinality(Bufs)
         /\ \A c \in Bufs : \E j \in DOMAIN MoveToFront(b) : MoveToFront(b)[j] = c
<1> DEFINE j == CHOOSE j \in DOMAIN lru : lru[j] = b
           l == SubSeq(lru, 1, j-1)
           r == SubSeq(lru, j+1, Len(lru))
           f == <<b>> \o l
           s == f \o r
<1>1. j \in 1..Len(lru) /\ lru[j] = b /\ lru \in Seq(Bufs) /\ Len(lru) = Cardinality(Bufs)
  BY DEF TypeOK
<1>2. \A c \in Bufs : \E i \in 1..Len(lru) : lru[i] = c
  BY DEF TypeOK
<1>3. MoveToFront(b) = s
  BY DEF MoveToFront
<1> HIDE DEF j
<1>4. l \in Seq(Bufs) /\ Len(l) = j - 1 /\ \A i \in 1..j-1 : l[i] = lru[i]
  BY <1>1
<1>5. r \in Seq(Bufs) /\ Len(r) = Len(lru) - j /\ \A i \in 1..Len(lru)-j : r[i] = lru[i+j]
  BY <1>1
<1> HIDE DEF l, r
<1>6. f \in Seq(Bufs) /\ Len(f) = j /\ f[1] = b /\ \A i \in 1..j-1 : f[i+1] = l[i]
  <2>1. <<b>> \in Seq(Bufs) /\ Len(<<b>>) = 1 /\ <<b>>[1] = b
    OBVIOUS
  <2>2. /\ f \in Seq(Bufs) /\ Len(f) = Len(<<b>>) + Len(l)
        /\ \A i \in 1..Len(<<b>>) + Len(l) :
             f[i] = IF i <= Len(<<b>>) THEN <<b>>[i] ELSE l[i - Len(<<b>>)]
    BY <1>4, <2>1, ConcatProperties
  <2> HIDE DEF f
  <2>3. \A i \in 1..j : f[i] = IF i <= 1 THEN <<b>>[i] ELSE l[i-1]
    BY <1>1, <1>4, <2>1, <2>2
  <2> QED
    BY <1>1, <1>4, <2>1, <2>2, <2>3
<1> HIDE DEF f
<1>7. /\ s \in Seq(Bufs) /\ Len(s) = Len(lru)
      /\ s[1] = b
      /\ \A i \in 1..j-1 : s[i+1] = lru[i]
      /\ \A i \in j+1..Len(lru) : s[i] = lru[i]
  <2>1. /\ s \in Seq(Bufs) /\ Len(s) = Len(f) + Len(r)
        /\ \A i \in 1..Len(f) + Len(r) : s[i] = IF i <= Len(f) THEN f[i] ELSE r[i - Len(f)]
    <3>1. f \in Seq(Bufs) /\ r \in Seq(Bufs)
      BY <1>5, <1>6
    <3> QED
      BY <3>1, ConcatProperties, Zenon
  <2> HIDE DEF s
  <2>2. Len(f) = j /\ Len(f) + Len(r) = Len(lru) /\ Len(lru) \in Nat
    BY <1>1, <1>5, <1>6
  <2>3. \A i \in 1..Len(lru) : s[i] = IF i <= j THEN f[i] ELSE r[i - j]
    BY <2>1, <2>2, Zenon
  <2>4. \A i \in j+1..Len(lru) : r[i - j] = lru[i]
    BY <1>1, <1>5
  <2> QED
    BY <1>1, <1>4, <1>6, <2>1, <2>3, <2>4, <2>2
<1> HIDE DEF s
<1>8. ASSUME NEW c \in Bufs PROVE \E i \in 1..Len(s) : s[i] = c
  <2>1. PICK i \in 1..Len(lru) : lru[i] = c
    BY <1>2
  <2>2. CASE i = j
    BY <1>1, <1>7, <2>1, <2>2
  <2>3. CASE i < j
    <3>1. i \in 1..j-1 /\ i + 1 \in 1..Len(s)
      BY <1>1, <1>7, <2>3
    <3> QED
      BY <1>7, <2>1, <3>1
  <2>4. CASE i > j
    <3>1. i \in j+1..Len(lru) /\ i \in 1..Len(s)
      BY <1>1, <1>7, <2>4
    <3> QED
      BY <1>7, <2>1, <3>1
  <2> QED
    BY <1>1, <2>2, <2>3, <2>4
<1>9. DOMAIN s = 1..Len(s)
  BY <1>7
<1> QED
  BY <1>1, <1>3, <1>7, <1>8, <1>9, Zenon

-----------------------------------------------------------------------------
\* bget() counts the process that gets the buffer.
LEMMA CountGet ==
  ASSUME TypeOK, Counted, NEW p \in Procs, NEW b \in Bufs, cur[p] = None,
         cur' = [cur EXCEPT ![p] = b], refcnt' = [refcnt EXCEPT ![b] = @ + 1],
         pinned' = pinned
  PROVE  Counted'
<1>1. Users(b)' = Users(b) \cup {p} /\ p \notin Users(b)
  BY BCacheAssumption DEF Users, TypeOK
<1>2. \A c \in Bufs \ {b} : Users(c)' = Users(c)
  BY BCacheAssumption DEF Users, TypeOK
<1>3. Cardinality(Users(b)') = Cardinality(Users(b)) + 1
  BY <1>1, UsersFinite, FS_AddElement
<1> QED
  BY <1>2, <1>3, UsersFinite DEF Counted, TypeOK

\* brelse() uncounts it.
LEMMA CountRelease ==
  ASSUME TypeOK, Counted, NEW p \in Procs, NEW b \in Bufs, cur[p] = b,
         cur' = [cur EXCEPT ![p] = None], refcnt' = [refcnt EXCEPT ![b] = @ - 1],
         pinned' = pinned
  PROVE  Counted' /\ refcnt' \in [Bufs -> Nat]
<1>1. Users(b)' = Users(b) \ {p} /\ p \in Users(b)
  BY BCacheAssumption DEF Users, TypeOK
<1>2. \A c \in Bufs \ {b} : Users(c)' = Users(c)
  BY BCacheAssumption DEF Users, TypeOK
<1>3. Cardinality(Users(b)') = Cardinality(Users(b)) - 1
  BY <1>1, UsersFinite, FS_RemoveElement
<1>4. Cardinality(Users(b)) # 0
  BY <1>1, UsersFinite, FS_EmptySet
<1>5. refcnt' \in [Bufs -> Nat]
  <2>1. refcnt[b] # 0 /\ refcnt[b] \in Nat
    <3>1. refcnt[b] = Cardinality(Users(b)) + (IF b \in pinned THEN 1 ELSE 0)
      BY DEF Counted
    <3>2. Cardinality(Users(b)) \in Nat
      BY UsersFinite
    <3> QED
      BY <1>4, <3>1, <3>2
  <2>2. refcnt[b] - 1 \in Nat
    BY <2>1
  <2> QED
    BY <2>2 DEF TypeOK
<1>6. Counted'
  BY <1>2, <1>3, UsersFinite DEF Counted, TypeOK
<1> QED
  BY <1>5, <1>6

\* What leaves the references alone leaves the count right.
LEMMA CountSame ==
  ASSUME Counted, UNCHANGED <<cur, refcnt, pinned>>
  PROVE  Counted'
BY DEF Counted, Users

-----------------------------------------------------------------------------
\* bget() finds the block.
LEMMA GetCachedInv ==
  ASSUME CacheInv, NEW p \in Procs, NEW k \in Blocks, GetCached(p, k)
  PROVE  CacheInv'
<1>0. TypeOK /\ RightBuffer /\ LockHeld /\ Counted /\ Clean /\ InUse /\ OneCopy
      /\ NoSleeperOnFree
  BY DEF CacheInv
<1>1. PICK b \in Bufs : /\ blockno[b] = k
                        /\ refcnt' = [refcnt EXCEPT ![b] = @ + 1]
                        /\ cur' = [cur EXCEPT ![p] = b]
  BY DEF GetCached, Cached
<1>2. /\ pc[p] = "idle" /\ cur[p] = None
      /\ want' = [want EXCEPT ![p] = k] /\ pc' = [pc EXCEPT ![p] = "acquire"]
      /\ UNCHANGED <<blockno, valid, lru, data, holder, disk, unsaved, pinned, panic>>
  BY <1>0 DEF GetCached, At, Goto, RightBuffer
<1>3. TypeOK'
  BY <1>0, <1>1, <1>2 DEF TypeOK, Pcs
<1>4. RightBuffer' /\ LockHeld'
  BY <1>0, <1>1, <1>2, BCacheAssumption DEF TypeOK, RightBuffer, LockHeld
<1>5. Counted'
  BY <1>0, <1>1, <1>2, CountGet
<1>6. Clean' /\ InUse'
  BY <1>0, <1>1, <1>2 DEF TypeOK, Clean, InUse
<1>7. OneCopy' /\ NoSleeperOnFree'
  BY <1>0, <1>1, <1>2 DEF TypeOK, OneCopy, NoSleeperOnFree
<1> QED
  BY <1>3, <1>4, <1>5, <1>6, <1>7 DEF CacheInv

\* What a recycling step does.
LEMMA GetRecycledEffect ==
  ASSUME CacheInv, NEW p \in Procs, NEW k \in Blocks, GetRecycled(p, k)
  PROVE  \E b \in Bufs :
           /\ refcnt[b] = 0 /\ b \notin pinned /\ \A q \in Procs : cur[q] # b
           /\ \A c \in Bufs : blockno[c] # k
           /\ blockno' = [blockno EXCEPT ![b] = k]
           /\ valid' = [valid EXCEPT ![b] = FALSE]
           /\ refcnt' = [refcnt EXCEPT ![b] = @ + 1]
           /\ pc[p] = "idle" /\ cur[p] = None
           /\ cur' = [cur EXCEPT ![p] = b]
           /\ want' = [want EXCEPT ![p] = k] /\ pc' = [pc EXCEPT ![p] = "acquire"]
           /\ UNCHANGED <<lru, data, holder, disk, unsaved, pinned, panic>>
<1> DEFINE b == lru[CHOOSE j \in Unused : \A l \in Unused : l <= j]
<1>0. TypeOK /\ RightBuffer /\ Counted
  BY DEF CacheInv
<1>1. /\ blockno' = [blockno EXCEPT ![b] = k]
      /\ valid' = [valid EXCEPT ![b] = FALSE]
      /\ refcnt' = [refcnt EXCEPT ![b] = 1]
      /\ cur' = [cur EXCEPT ![p] = b]
      /\ Unused # {} /\ Cached(k) = {} /\ pc[p] = "idle"
      /\ want' = [want EXCEPT ![p] = k] /\ pc' = [pc EXCEPT ![p] = "acquire"]
      /\ UNCHANGED <<lru, data, holder, disk, unsaved, pinned, panic>>
  BY DEF GetRecycled, At, Goto
<1>2. b \in Bufs /\ refcnt[b] = 0
  BY <1>0, <1>1, RecycledBuffer
<1> HIDE DEF b
<1>3. b \notin pinned /\ \A q \in Procs : cur[q] # b
  BY <1>0, <1>2, UnreferencedUnused
<1>4. cur[p] = None
  BY <1>0, <1>1 DEF RightBuffer
<1>5. \A c \in Bufs : blockno[c] # k
  BY <1>1 DEF Cached
<1>6. refcnt' = [refcnt EXCEPT ![b] = @ + 1]
  BY <1>0, <1>1, <1>2 DEF TypeOK
<1> QED
  BY <1>1, <1>2, <1>3, <1>4, <1>5, <1>6

\* bget() recycles a buffer that nobody uses for a block that nobody has.
LEMMA GetRecycledInv ==
  ASSUME CacheInv, NEW p \in Procs, NEW k \in Blocks, GetRecycled(p, k)
  PROVE  CacheInv'
<1>0. TypeOK /\ RightBuffer /\ LockHeld /\ Counted /\ Clean /\ InUse /\ OneCopy
      /\ NoSleeperOnFree
  BY DEF CacheInv
<1>1. PICK b \in Bufs :
           /\ refcnt[b] = 0 /\ b \notin pinned /\ \A q \in Procs : cur[q] # b
           /\ \A c \in Bufs : blockno[c] # k
           /\ blockno' = [blockno EXCEPT ![b] = k]
           /\ valid' = [valid EXCEPT ![b] = FALSE]
           /\ refcnt' = [refcnt EXCEPT ![b] = @ + 1]
           /\ pc[p] = "idle" /\ cur[p] = None
           /\ cur' = [cur EXCEPT ![p] = b]
           /\ want' = [want EXCEPT ![p] = k] /\ pc' = [pc EXCEPT ![p] = "acquire"]
           /\ UNCHANGED <<lru, data, holder, disk, unsaved, pinned, panic>>
  BY GetRecycledEffect
<1>2. TypeOK'
  BY <1>0, <1>1 DEF TypeOK, Pcs
<1>3. RightBuffer'
  BY <1>0, <1>1, BCacheAssumption DEF TypeOK, RightBuffer
<1>4. LockHeld'
  BY <1>0, <1>1, BCacheAssumption DEF TypeOK, LockHeld
<1>5. Counted'
  BY <1>0, <1>1, CountGet
<1>6. Clean'
  BY <1>0, <1>1 DEF TypeOK, Clean, InUse
<1>7. InUse'
  BY <1>0, <1>1 DEF TypeOK, InUse
<1>8. OneCopy' /\ NoSleeperOnFree'
  BY <1>0, <1>1 DEF TypeOK, OneCopy, NoSleeperOnFree
<1> QED
  BY <1>2, <1>3, <1>4, <1>5, <1>6, <1>7, <1>8 DEF CacheInv

\* The kernel stops.
LEMMA GetPanicInv ==
  ASSUME CacheInv, NEW p \in Procs, NEW k \in Blocks, GetPanic(p, k)
  PROVE  CacheInv'
<1>1. /\ panic' \in BOOLEAN
      /\ UNCHANGED <<blockno, valid, refcnt, lru, data, holder, disk, pc, cur, want,
                     unsaved, pinned>>
  BY DEF GetPanic, lists
<1> QED
  BY <1>1 DEF CacheInv, TypeOK, RightBuffer, LockHeld, Counted, Users, Clean, InUse,
     OneCopy, NoSleeperOnFree

\* acquiresleep() takes the lock of the buffer, or waits for its holder.
LEMMA AcquireSleepInv ==
  ASSUME CacheInv, NEW p \in Procs, AcquireSleep(p)
  PROVE  CacheInv'
<1>0. TypeOK /\ RightBuffer /\ LockHeld /\ Counted /\ Clean /\ InUse /\ OneCopy
      /\ NoSleeperOnFree
  BY DEF CacheInv
<1>1. /\ pc[p] = "acquire" /\ cur[p] \in Bufs
      /\ UNCHANGED <<blockno, valid, refcnt, lru, data, disk, cur, want, unsaved, pinned,
                     panic>>
  BY <1>0 DEF AcquireSleep, At, lists, RightBuffer
<1>2. CASE holder[cur[p]] # None
  <2>1. pc' = [pc EXCEPT ![p] = "sleep"] /\ holder' = holder
    BY <1>2 DEF AcquireSleep, Goto
  <2>2. TypeOK'
    BY <1>0, <1>1, <2>1 DEF TypeOK, Pcs
  <2>3. RightBuffer' /\ LockHeld'
    BY <1>0, <1>1, <2>1 DEF TypeOK, RightBuffer, LockHeld
  <2>4. Clean' /\ InUse' /\ OneCopy'
    BY <1>0, <1>1, <2>1 DEF TypeOK, Clean, InUse, OneCopy
  <2>5. NoSleeperOnFree'
    BY <1>0, <1>1, <1>2, <2>1 DEF TypeOK, NoSleeperOnFree
  <2> QED
    BY <1>0, <1>1, <2>2, <2>3, <2>4, <2>5, CountSame DEF CacheInv
<1>3. CASE holder[cur[p]] = None
  <2>1. pc' = [pc EXCEPT ![p] = "locked"] /\ holder' = [holder EXCEPT ![cur[p]] = p]
    BY <1>3 DEF AcquireSleep, Goto
  <2>2. TypeOK'
    BY <1>0, <1>1, <2>1 DEF TypeOK, Pcs
  <2>3. RightBuffer'
    BY <1>0, <1>1, <2>1 DEF TypeOK, RightBuffer
  <2>4. LockHeld'
    BY <1>0, <1>1, <1>3, <2>1, BCacheAssumption DEF TypeOK, LockHeld
  <2>5. Clean' /\ InUse' /\ OneCopy'
    BY <1>0, <1>1, <2>1 DEF TypeOK, Clean, InUse, OneCopy
  <2>6. NoSleeperOnFree'
    BY <1>0, <1>1, <2>1, BCacheAssumption DEF TypeOK, NoSleeperOnFree
  <2> QED
    BY <1>0, <1>1, <2>2, <2>3, <2>4, <2>5, <2>6, CountSame DEF CacheInv
<1> QED
  BY <1>2, <1>3

\* bread() makes the buffer valid with the contents of its own block.
LEMMA BreadInv ==
  ASSUME CacheInv, NEW p \in Procs, Bread(p)
  PROVE  CacheInv'
<1>0. TypeOK /\ RightBuffer /\ LockHeld /\ Counted /\ Clean /\ InUse /\ OneCopy
      /\ NoSleeperOnFree
  BY DEF CacheInv
<1>1. /\ pc[p] = "locked" /\ cur[p] \in Bufs /\ want[p] \in Blocks
      /\ blockno[cur[p]] = want[p]
      /\ pc' = [pc EXCEPT ![p] = "use"] /\ valid' = [valid EXCEPT ![cur[p]] = TRUE]
      /\ data' = [data EXCEPT ![cur[p]] = IF valid[cur[p]] THEN @ ELSE disk[want[p]]]
      /\ UNCHANGED <<blockno, refcnt, lru, holder, disk, cur, want, unsaved, pinned,
                     panic>>
  BY <1>0 DEF Bread, At, Goto, RightBuffer
<1>2. TypeOK'
  BY <1>0, <1>1 DEF TypeOK, Pcs
<1>3. RightBuffer'
  BY <1>0, <1>1 DEF TypeOK, RightBuffer
<1>4. LockHeld'
  BY <1>0, <1>1 DEF TypeOK, LockHeld
<1>5. Clean'
  BY <1>0, <1>1, BCacheAssumption DEF TypeOK, Clean
<1>6. InUse'
  BY <1>0, <1>1 DEF TypeOK, InUse
<1>7. OneCopy' /\ NoSleeperOnFree'
  BY <1>0, <1>1 DEF TypeOK, OneCopy, NoSleeperOnFree
<1> QED
  BY <1>0, <1>1, <1>2, <1>3, <1>4, <1>5, <1>6, <1>7, CountSame DEF CacheInv

\* The user of a buffer changes it, and owes the disk its contents.
LEMMA ModifyInv ==
  ASSUME CacheInv, NEW p \in Procs, NEW v \in Vals, Modify(p, v)
  PROVE  CacheInv'
<1>0. TypeOK /\ RightBuffer /\ LockHeld /\ Counted /\ Clean /\ InUse /\ OneCopy
      /\ NoSleeperOnFree
  BY DEF CacheInv
<1>1. /\ pc[p] = "use" /\ cur[p] \in Bufs
      /\ data' = [data EXCEPT ![cur[p]] = v]
      /\ unsaved' = IF cur[p] \in pinned THEN unsaved ELSE unsaved \cup {p}
      /\ UNCHANGED <<blockno, valid, refcnt, lru, holder, disk, pc, cur, want, pinned,
                     panic>>
  BY <1>0 DEF Modify, At, lists, RightBuffer
<1>2. TypeOK'
  BY <1>0, <1>1 DEF TypeOK
<1>3. RightBuffer' /\ LockHeld' /\ OneCopy' /\ NoSleeperOnFree'
  BY <1>0, <1>1 DEF RightBuffer, LockHeld, OneCopy, NoSleeperOnFree
<1>4. Clean'
  BY <1>0, <1>1 DEF TypeOK, Clean
<1>5. InUse'
  BY <1>0, <1>1 DEF TypeOK, InUse
<1> QED
  BY <1>0, <1>1, <1>2, <1>3, <1>4, <1>5, CountSame DEF CacheInv

\* A buffer's contents go to its own block, of which no other buffer is a copy.
LEMMA WriteBack ==
  ASSUME TypeOK, OneCopy, Clean, NEW p \in Procs, cur[p] \in Bufs, valid[cur[p]],
         disk' = [disk EXCEPT ![blockno[cur[p]]] = data[cur[p]]],
         UNCHANGED <<blockno, valid, data, cur>>,
         unsaved \ {p} \subseteq unsaved', pinned \ {cur[p]} \subseteq pinned'
  PROVE  Clean'
<1>1. blockno[cur[p]] \in Blocks
  BY DEF TypeOK, Clean
<1>2. disk'[blockno[cur[p]]] = data[cur[p]]
  BY <1>1 DEF TypeOK
<1>3. \A b \in Bufs \ {cur[p]} : valid[b] => disk'[blockno[b]] = disk[blockno[b]]
  BY <1>1 DEF TypeOK, OneCopy, Clean
<1> QED
  BY <1>2, <1>3 DEF TypeOK, Clean

\* bwrite() saves the buffer.
LEMMA BwriteInv ==
  ASSUME CacheInv, NEW p \in Procs, Bwrite(p)
  PROVE  CacheInv'
<1>0. TypeOK /\ RightBuffer /\ LockHeld /\ Counted /\ Clean /\ InUse /\ OneCopy
      /\ NoSleeperOnFree
  BY DEF CacheInv
<1>1. /\ pc[p] = "use" /\ cur[p] \in Bufs /\ valid[cur[p]]
      /\ disk' = [disk EXCEPT ![blockno[cur[p]]] = data[cur[p]]]
      /\ unsaved' = unsaved \ {p}
      /\ UNCHANGED <<blockno, valid, refcnt, lru, data, holder, pc, cur, want, pinned,
                     panic>>
  BY <1>0 DEF Bwrite, At, lists, RightBuffer, InUse
<1>2. TypeOK'
  BY <1>0, <1>1 DEF TypeOK
<1>3. RightBuffer' /\ LockHeld' /\ OneCopy' /\ NoSleeperOnFree'
  BY <1>0, <1>1 DEF RightBuffer, LockHeld, OneCopy, NoSleeperOnFree
<1>4. Clean'
  BY <1>0, <1>1, WriteBack
<1>5. InUse'
  BY <1>0, <1>1 DEF TypeOK, InUse
<1> QED
  BY <1>0, <1>1, <1>2, <1>3, <1>4, <1>5, CountSame DEF CacheInv

\* bpin() leaves the contents to the log, which holds a reference.
LEMMA BpinInv ==
  ASSUME CacheInv, NEW p \in Procs, Bpin(p)
  PROVE  CacheInv'
<1>0. TypeOK /\ RightBuffer /\ LockHeld /\ Counted /\ Clean /\ InUse /\ OneCopy
      /\ NoSleeperOnFree
  BY DEF CacheInv
<1>1. /\ pc[p] = "use" /\ cur[p] \in Bufs /\ cur[p] \notin pinned
      /\ refcnt' = [refcnt EXCEPT ![cur[p]] = @ + 1]
      /\ pinned' = pinned \cup {cur[p]}
      /\ unsaved' = unsaved \ {p}
      /\ UNCHANGED <<blockno, valid, lru, data, holder, disk, pc, cur, want, panic>>
  BY <1>0 DEF Bpin, At, RightBuffer
<1>2. TypeOK'
  BY <1>0, <1>1 DEF TypeOK
<1>3. RightBuffer' /\ LockHeld' /\ OneCopy' /\ NoSleeperOnFree'
  BY <1>0, <1>1 DEF RightBuffer, LockHeld, OneCopy, NoSleeperOnFree
<1>4. Clean'
  BY <1>0, <1>1 DEF TypeOK, Clean
<1>5. InUse'
  BY <1>0, <1>1 DEF TypeOK, InUse
<1>6. Counted'
  <2>1. \A b \in Bufs : Users(b)' = Users(b)
    BY <1>1 DEF Users
  <2> QED
    BY <1>0, <1>1, <2>1, UsersFinite DEF Counted, TypeOK
<1> QED
  BY <1>2, <1>3, <1>4, <1>5, <1>6 DEF CacheInv

\* install_trans() brings the disk up to date before it drops the pin.
LEMMA InstallUnpinInv ==
  ASSUME CacheInv, NEW p \in Procs, InstallUnpin(p)
  PROVE  CacheInv'
<1>0. TypeOK /\ RightBuffer /\ LockHeld /\ Counted /\ Clean /\ InUse /\ OneCopy
      /\ NoSleeperOnFree
  BY DEF CacheInv
<1>1. /\ pc[p] = "use" /\ cur[p] \in Bufs /\ cur[p] \in pinned /\ valid[cur[p]]
      /\ disk' = [disk EXCEPT ![blockno[cur[p]]] = data[cur[p]]]
      /\ refcnt' = [refcnt EXCEPT ![cur[p]] = @ - 1]
      /\ pinned' = pinned \ {cur[p]}
      /\ UNCHANGED <<blockno, valid, lru, data, holder, pc, cur, want, unsaved, panic>>
  BY <1>0 DEF InstallUnpin, At, RightBuffer, InUse
<1>2. Counted' /\ refcnt' \in [Bufs -> Nat]
  <2>1. \A b \in Bufs : Users(b)' = Users(b)
    BY <1>1 DEF Users
  <2>2. refcnt[cur[p]] = Cardinality(Users(cur[p])) + 1
    BY <1>0, <1>1 DEF Counted
  <2>3. refcnt' \in [Bufs -> Nat]
    BY <1>0, <1>1, <2>2, UsersFinite DEF TypeOK
  <2>4. Counted'
    BY <1>0, <1>1, <2>1, UsersFinite DEF Counted, TypeOK
  <2> QED
    BY <2>3, <2>4
<1>3. TypeOK'
  BY <1>0, <1>1, <1>2 DEF TypeOK
<1>4. RightBuffer' /\ LockHeld' /\ OneCopy' /\ NoSleeperOnFree'
  BY <1>0, <1>1 DEF RightBuffer, LockHeld, OneCopy, NoSleeperOnFree
<1>5. Clean'
  BY <1>0, <1>1, WriteBack
<1>6. InUse'
  BY <1>0, <1>1 DEF TypeOK, InUse
<1> QED
  BY <1>2, <1>3, <1>4, <1>5, <1>6 DEF CacheInv

\* releasesleep() frees the buffer and wakes all who sleep on it.
LEMMA ReleaseSleepInv ==
  ASSUME CacheInv, NEW p \in Procs, ReleaseSleep(p)
  PROVE  CacheInv'
<1>0. TypeOK /\ RightBuffer /\ LockHeld /\ Counted /\ Clean /\ InUse /\ OneCopy
      /\ NoSleeperOnFree
  BY DEF CacheInv
<1>1. /\ pc[p] = "use" /\ cur[p] \in Bufs /\ p \notin unsaved
      /\ holder' = [holder EXCEPT ![cur[p]] = None]
      /\ pc' = [q \in Procs |->
              IF q = p THEN "released"
              ELSE IF pc[q] = "sleep" /\ cur[q] = cur[p] THEN "acquire"
              ELSE pc[q]]
      /\ UNCHANGED <<blockno, valid, refcnt, lru, data, disk, cur, want, unsaved, pinned,
                     panic>>
  BY <1>0 DEF ReleaseSleep, At, lists, RightBuffer
<1>2. TypeOK'
  BY <1>0, <1>1 DEF TypeOK, Pcs
<1>3. RightBuffer'
  BY <1>0, <1>1 DEF TypeOK, RightBuffer
<1>4. LockHeld'
  BY <1>0, <1>1, BCacheAssumption DEF TypeOK, LockHeld
<1>5. Clean' /\ OneCopy'
  BY <1>0, <1>1 DEF Clean, OneCopy
<1>6. InUse'
  BY <1>0, <1>1 DEF TypeOK, InUse
<1>7. NoSleeperOnFree'
  BY <1>0, <1>1 DEF TypeOK, RightBuffer, NoSleeperOnFree
<1> QED
  BY <1>0, <1>1, <1>2, <1>3, <1>4, <1>5, <1>6, <1>7, CountSame DEF CacheInv

\* brelse() drops the reference.
LEMMA UnreferenceInv ==
  ASSUME CacheInv, NEW p \in Procs, Unreference(p)
  PROVE  CacheInv'
<1>0. TypeOK /\ RightBuffer /\ LockHeld /\ Counted /\ Clean /\ InUse /\ OneCopy
      /\ NoSleeperOnFree
  BY DEF CacheInv
<1>1. /\ pc[p] = "released" /\ cur[p] \in Bufs
      /\ refcnt' = [refcnt EXCEPT ![cur[p]] = @ - 1]
      /\ lru' \in {lru, MoveToFront(cur[p])}
      /\ cur' = [cur EXCEPT ![p] = None]
      /\ want' = [want EXCEPT ![p] = None]
      /\ pc' = [pc EXCEPT ![p] = "idle"]
      /\ UNCHANGED <<blockno, valid, data, holder, disk, unsaved, pinned, panic>>
  BY <1>0 DEF Unreference, At, Goto, RightBuffer
<1>2. Counted' /\ refcnt' \in [Bufs -> Nat]
  BY <1>0, <1>1, CountRelease
<1>3. TypeOK'
  <2>1. /\ lru' \in Seq(Bufs) /\ Len(lru') = Cardinality(Bufs)
        /\ \A b \in Bufs : \E j \in DOMAIN lru' : lru'[j] = b
    <3>1. CASE lru' = lru
      BY <1>0, <3>1 DEF TypeOK
    <3>2. CASE lru' = MoveToFront(cur[p])
      BY <1>0, <1>1, <3>2, ListKept
    <3> QED
      BY <1>1, <3>1, <3>2
  <2> QED
    BY <1>0, <1>1, <1>2, <2>1 DEF TypeOK, Pcs
<1>4. RightBuffer'
  BY <1>0, <1>1 DEF TypeOK, RightBuffer
<1>5. LockHeld'
  BY <1>0, <1>1, BCacheAssumption DEF TypeOK, LockHeld
<1>6. Clean'
  BY <1>0, <1>1 DEF TypeOK, Clean, InUse
<1>7. InUse'
  BY <1>0, <1>1 DEF TypeOK, InUse
<1>8. OneCopy' /\ NoSleeperOnFree'
  BY <1>0, <1>1 DEF TypeOK, OneCopy, NoSleeperOnFree
<1> QED
  BY <1>2, <1>3, <1>4, <1>5, <1>6, <1>7, <1>8 DEF CacheInv

-----------------------------------------------------------------------------
\* binit() leaves empty buffers.
LEMMA InitInv == Init => CacheInv
<1> SUFFICES ASSUME Init PROVE CacheInv
  OBVIOUS
<1>1. Cardinality(Bufs) \in Nat
  BY FS_CardinalityType, BCacheAssumption
<1>2. lru \in Seq(Bufs) /\ Len(lru) = Cardinality(Bufs)
  BY <1>1 DEF Init
<1>3. \A b \in Bufs : \E j \in DOMAIN lru : lru[j] = b
  <2>1. lru \in Injection(1..Cardinality(Bufs), Bufs)
    BY DEF Init, Injection, IsInjective
  <2>2. Cardinality(1..Cardinality(Bufs)) = Cardinality(Bufs)
    BY <1>1, FS_Interval
  <2>3. lru \in Surjection(1..Cardinality(Bufs), Bufs)
    BY <2>1, <2>2, FS_Injection, BCacheAssumption
  <2> QED
    BY <2>3 DEF Surjection
<1>4. TypeOK
  BY <1>2, <1>3, BCacheAssumption DEF Init, TypeOK, Pcs
<1>5. Counted
  <2>1. \A b \in Bufs : Users(b) = {}
    BY BCacheAssumption DEF Init, Users
  <2>2. \A b \in Bufs : Cardinality(Users(b)) = 0 /\ refcnt[b] = 0 /\ b \notin pinned
    BY <2>1, FS_EmptySet DEF Init
  <2> QED
    BY <2>2 DEF Counted
<1>6. RightBuffer /\ LockHeld /\ Clean /\ InUse /\ OneCopy /\ NoSleeperOnFree
  BY BCacheAssumption DEF Init, RightBuffer, LockHeld, Clean, InUse, OneCopy,
     NoSleeperOnFree
<1> QED
  BY <1>4, <1>5, <1>6 DEF CacheInv

\* Every step of the cache and of its users preserves the invariant.
LEMMA NextInv == CacheInv /\ [Next]_vars => CacheInv'
<1> SUFFICES ASSUME CacheInv, [Next]_vars PROVE CacheInv'
  OBVIOUS
<1>1. CASE UNCHANGED vars
  BY <1>1 DEF vars, CacheInv, TypeOK, RightBuffer, LockHeld, Counted, Users, Clean, InUse,
     OneCopy, NoSleeperOnFree
<1>2. CASE Next
  BY <1>2, GetCachedInv, GetRecycledInv, GetPanicInv, AcquireSleepInv, BreadInv,
     ModifyInv, BwriteInv, BpinInv, InstallUnpinInv, ReleaseSleepInv, UnreferenceInv
     DEF Next
<1> QED
  BY <1>1, <1>2

\* CacheInv holds in every state of every behaviour.
THEOREM CacheInvariant == Spec => []CacheInv
<1> QED
  BY InitInv, NextInv, PTL DEF Spec

\* bget() never makes a second copy of a block, however its callers race.
THEOREM NoDuplicate == Spec => []OneCopy
<1>1. CacheInv => OneCopy
  BY DEF CacheInv
<1> QED
  BY <1>1, CacheInvariant, PTL

\* releasesleep() leaves nobody asleep on the buffer it frees.
THEOREM SleepersWoken == Spec => []NoSleeperOnFree
<1>1. CacheInv => NoSleeperOnFree
  BY DEF CacheInv
<1> QED
  BY <1>1, CacheInvariant, PTL

-----------------------------------------------------------------------------
(* The refinement of BlockStore *)

\* A block's current contents are those of its valid buffer, else the disk's.
ValOf ==
  \A k \in Blocks :
    /\ \A b \in Bufs : blockno[b] = k /\ valid[b] => CurrentVal(k) = data[b]
    /\ (\A b \in Bufs : ~(blockno[b] = k /\ valid[b])) => CurrentVal(k) = disk[k]
    /\ CurrentVal(k) \in Vals

\* A block's owner is the process that uses a buffer of it.
OwnerOf ==
  \A k \in Blocks :
    /\ \A p \in Procs : want[p] = k /\ pc[p] = "use" => Owner(k) = p
    /\ (\A p \in Procs : ~(want[p] = k /\ pc[p] = "use")) => Owner(k) = None

\* Since a block has one copy, which one process holds, both are well defined.
LEMMA Mapping == CacheInv => ValOf /\ OwnerOf
<1> SUFFICES ASSUME CacheInv, NEW k \in Blocks
             PROVE  /\ \A b \in Bufs : blockno[b] = k /\ valid[b] => CurrentVal(k) = data[b]
                    /\ (\A b \in Bufs : ~(blockno[b] = k /\ valid[b]))
                         => CurrentVal(k) = disk[k]
                    /\ CurrentVal(k) \in Vals
                    /\ \A p \in Procs : want[p] = k /\ pc[p] = "use" => Owner(k) = p
                    /\ (\A p \in Procs : ~(want[p] = k /\ pc[p] = "use")) => Owner(k) = None
  BY DEF ValOf, OwnerOf
<1>1. ASSUME NEW b \in Bufs, blockno[b] = k, valid[b] PROVE CurrentVal(k) = data[b]
  <2>1. \A c \in Bufs : blockno[c] = k /\ valid[c] => c = b
    BY <1>1, BCacheAssumption DEF CacheInv, OneCopy
  <2>2. (CHOOSE c \in Bufs : blockno[c] = k /\ valid[c]) = b
    BY <1>1, <2>1
  <2> QED
    BY <1>1, <2>2 DEF CurrentVal
<1>2. ASSUME \A b \in Bufs : ~(blockno[b] = k /\ valid[b]) PROVE CurrentVal(k) = disk[k]
  BY <1>2 DEF CurrentVal
<1>3. CurrentVal(k) \in Vals
  BY <1>1, <1>2 DEF CacheInv, TypeOK
<1>4. ASSUME NEW p \in Procs, want[p] = k, pc[p] = "use" PROVE Owner(k) = p
  <2>1. ASSUME NEW q \in Procs, want[q] = k, pc[q] = "use" PROVE q = p
    <3>1. /\ cur[p] \in Bufs /\ cur[q] \in Bufs
          /\ blockno[cur[p]] = k /\ blockno[cur[q]] = k
      BY <1>4, <2>1 DEF CacheInv, RightBuffer
    <3>2. cur[p] = cur[q]
      BY <3>1, BCacheAssumption DEF CacheInv, OneCopy
    <3> QED
      BY <1>4, <2>1, <3>1, <3>2 DEF CacheInv, LockHeld
  <2>2. (CHOOSE q \in Procs : want[q] = k /\ pc[q] = "use") = p
    BY <1>4, <2>1
  <2> QED
    BY <1>4, <2>2 DEF Owner
<1>5. ASSUME \A p \in Procs : ~(want[p] = k /\ pc[p] = "use") PROVE Owner(k) = None
  BY <1>5 DEF Owner
<1> QED
  BY <1>1, <1>2, <1>3, <1>4, <1>5

\* A step that changes no block's contents and no block's user is a stutter.
LEMMA Stutter ==
  ASSUME \A k \in Blocks : CurrentVal(k)' = CurrentVal(k) /\ Owner(k)' = Owner(k)
  PROVE  [Store!Next]_Store!vars
BY DEF Store!vars

\* Where contents and validity stay, contents of blocks stay.
LEMMA ValSame ==
  ASSUME UNCHANGED <<blockno, valid, data, disk>>
  PROVE  \A k \in Blocks : CurrentVal(k)' = CurrentVal(k)
BY DEF CurrentVal

\* Where nobody starts or ends using a buffer, owners stay.
LEMMA OwnerSame ==
  ASSUME OwnerOf, OwnerOf',
         \A p \in Procs, k \in Blocks :
           (want[p] = k /\ pc[p] = "use") <=> (want'[p] = k /\ pc'[p] = "use")
  PROVE  \A k \in Blocks : Owner(k)' = Owner(k)
<1> SUFFICES ASSUME NEW k \in Blocks PROVE Owner(k)' = Owner(k)
  OBVIOUS
<1>1. CASE \E p \in Procs : want[p] = k /\ pc[p] = "use"
  BY <1>1 DEF OwnerOf
<1>2. CASE ~ \E p \in Procs : want[p] = k /\ pc[p] = "use"
  BY <1>2 DEF OwnerOf
<1> QED
  BY <1>1, <1>2

\* Getting a buffer, recycled or not, changes nothing that a caller can see: the
\* contents of a recycled buffer are on the disk.
LEMMA GetStep ==
  ASSUME CacheInv, ValOf, OwnerOf, ValOf', OwnerOf', NEW p \in Procs, NEW k \in Blocks,
         GetCached(p, k) \/ GetRecycled(p, k) \/ GetPanic(p, k)
  PROVE  [Store!Next]_Store!vars
<1>0. TypeOK /\ RightBuffer /\ Clean /\ InUse
  BY DEF CacheInv
<1>1. CASE GetCached(p, k)
  <2>1. /\ pc[p] = "idle" /\ want' = [want EXCEPT ![p] = k]
        /\ pc' = [pc EXCEPT ![p] = "acquire"] /\ UNCHANGED <<blockno, valid, data, disk>>
    BY <1>1 DEF GetCached, At, Goto
  <2>2. \A q \in Procs, l \in Blocks :
          (want[q] = l /\ pc[q] = "use") <=> (want'[q] = l /\ pc'[q] = "use")
    BY <1>0, <2>1 DEF TypeOK
  <2> QED
    BY <2>1, <2>2, ValSame, OwnerSame, Stutter
<1>2. CASE GetRecycled(p, k)
  <2>1. PICK b \in Bufs :
          /\ b \notin pinned /\ \A q \in Procs : cur[q] # b
          /\ \A c \in Bufs : blockno[c] # k
          /\ blockno' = [blockno EXCEPT ![b] = k]
          /\ valid' = [valid EXCEPT ![b] = FALSE]
          /\ pc[p] = "idle"
          /\ want' = [want EXCEPT ![p] = k] /\ pc' = [pc EXCEPT ![p] = "acquire"]
          /\ UNCHANGED <<data, disk>>
    BY <1>2, GetRecycledEffect
  <2>2. \A q \in Procs, l \in Blocks :
          (want[q] = l /\ pc[q] = "use") <=> (want'[q] = l /\ pc'[q] = "use")
    BY <1>0, <2>1 DEF TypeOK
  <2>3. valid[b] => data[b] = disk[blockno[b]]
    BY <1>0, <2>1 DEF TypeOK, Clean
  <2>4. ASSUME NEW l \in Blocks PROVE CurrentVal(l)' = CurrentVal(l)
    <3>1. CASE \E c \in Bufs \ {b} : blockno[c] = l /\ valid[c]
      <4>1. PICK c \in Bufs \ {b} : blockno[c] = l /\ valid[c]
        BY <3>1
      <4>2. blockno'[c] = l /\ valid'[c]
        BY <1>0, <2>1, <4>1 DEF TypeOK
      <4>3. CurrentVal(l) = data[c] /\ CurrentVal(l)' = data'[c]
        BY <4>1, <4>2 DEF ValOf
      <4> QED
        BY <2>1, <4>3
    <3>2. CASE ~ \E c \in Bufs \ {b} : blockno[c] = l /\ valid[c]
      <4>1. \A c \in Bufs : ~(blockno'[c] = l /\ valid'[c])
        BY <1>0, <2>1, <3>2 DEF TypeOK
      <4>2. CurrentVal(l)' = disk'[l]
        BY <4>1 DEF ValOf
      <4>3. CurrentVal(l) = disk[l]
        <5>1. CASE blockno[b] = l /\ valid[b]
          BY <2>3, <5>1 DEF ValOf
        <5>2. CASE ~(blockno[b] = l /\ valid[b])
          BY <3>2, <5>2 DEF ValOf
        <5> QED
          BY <5>1, <5>2
      <4> QED
        BY <2>1, <4>2, <4>3
    <3> QED
      BY <3>1, <3>2
  <2> QED
    BY <2>2, <2>4, OwnerSame, Stutter
<1>3. CASE GetPanic(p, k)
  <2>1. UNCHANGED <<blockno, valid, data, disk, want, pc>>
    BY <1>3 DEF GetPanic, lists
  <2>2. \A q \in Procs, l \in Blocks :
          (want[q] = l /\ pc[q] = "use") <=> (want'[q] = l /\ pc'[q] = "use")
    BY <2>1
  <2> QED
    BY <2>1, <2>2, ValSame, OwnerSame, Stutter
<1> QED
  BY <1>1, <1>2, <1>3

\* Waiting for the lock, pinning and dropping a reference change nothing either.
LEMMA LockStep ==
  ASSUME CacheInv, ValOf, OwnerOf, ValOf', OwnerOf', NEW p \in Procs,
         AcquireSleep(p) \/ Bpin(p) \/ Unreference(p)
  PROVE  [Store!Next]_Store!vars
<1>1. UNCHANGED <<blockno, valid, data, disk>>
  BY DEF AcquireSleep, Bpin, Unreference, lists
<1>2. \A q \in Procs, k \in Blocks :
        (want[q] = k /\ pc[q] = "use") <=> (want'[q] = k /\ pc'[q] = "use")
  BY DEF CacheInv, TypeOK, AcquireSleep, Bpin, Unreference, At, Goto
<1> QED
  BY <1>1, <1>2, ValSame, OwnerSame, Stutter

\* bwrite() makes the disk agree with the block's current contents.
LEMMA SaveStep ==
  ASSUME CacheInv, ValOf, OwnerOf, ValOf', OwnerOf', NEW p \in Procs,
         Bwrite(p) \/ InstallUnpin(p)
  PROVE  [Store!Next]_Store!vars
<1>0. TypeOK /\ RightBuffer /\ Clean /\ InUse
  BY DEF CacheInv
<1>1. /\ pc[p] = "use" /\ disk' = [disk EXCEPT ![blockno[cur[p]]] = data[cur[p]]]
      /\ UNCHANGED <<blockno, valid, data, want, pc>>
  BY DEF Bwrite, InstallUnpin, At, lists
<1>2. cur[p] \in Bufs /\ valid[cur[p]] /\ blockno[cur[p]] \in Blocks
  BY <1>0, <1>1 DEF RightBuffer, InUse
<1>3. ASSUME NEW k \in Blocks PROVE CurrentVal(k)' = CurrentVal(k)
  <2>1. CASE \E b \in Bufs : blockno[b] = k /\ valid[b]
    BY <1>1, <2>1 DEF ValOf
  <2>2. CASE ~ \E b \in Bufs : blockno[b] = k /\ valid[b]
    <3>1. CurrentVal(k) = disk[k]
      BY <2>2 DEF ValOf
    <3>2. CurrentVal(k)' = disk'[k]
      BY <1>1, <2>2 DEF ValOf
    <3>3. k # blockno[cur[p]]
      BY <1>2, <2>2
    <3> QED
      BY <1>0, <1>1, <3>1, <3>2, <3>3 DEF TypeOK
  <2> QED
    BY <2>1, <2>2
<1>4. \A q \in Procs, k \in Blocks :
        (want[q] = k /\ pc[q] = "use") <=> (want'[q] = k /\ pc'[q] = "use")
  BY <1>1
<1> QED
  BY <1>3, <1>4, OwnerSame, Stutter

\* bread() returns: the process owns the block and finds its current contents.
LEMMA BreadStep ==
  ASSUME CacheInv, ValOf, OwnerOf, CacheInv', ValOf', OwnerOf', NEW p \in Procs, Bread(p)
  PROVE  [Store!Next]_Store!vars
<1>0. TypeOK /\ RightBuffer /\ LockHeld /\ Clean /\ OneCopy
  BY DEF CacheInv
<1> DEFINE k == want[p]
<1>1. /\ pc[p] = "locked" /\ cur[p] \in Bufs /\ k \in Blocks /\ blockno[cur[p]] = k
      /\ pc' = [pc EXCEPT ![p] = "use"] /\ valid' = [valid EXCEPT ![cur[p]] = TRUE]
      /\ data' = [data EXCEPT ![cur[p]] = IF valid[cur[p]] THEN @ ELSE disk[k]]
      /\ UNCHANGED <<blockno, disk, want>>
  BY <1>0 DEF Bread, At, Goto, RightBuffer
<1>2. ASSUME NEW l \in Blocks PROVE CurrentVal(l)' = CurrentVal(l)
  <2>1. CASE l = k
    <3>1. CurrentVal(l)' = data'[cur[p]]
      BY <1>0, <1>1, <2>1 DEF TypeOK, ValOf
    <3>2. CASE valid[cur[p]]
      <4>1. CurrentVal(l) = data[cur[p]]
        BY <1>1, <2>1, <3>2 DEF ValOf
      <4> QED
        BY <1>0, <1>1, <3>1, <3>2, <4>1 DEF TypeOK
    <3>3. CASE ~valid[cur[p]]
      <4>1. \A b \in Bufs : ~(blockno[b] = l /\ valid[b])
        BY <1>0, <1>1, <2>1, <3>3, BCacheAssumption DEF OneCopy
      <4>2. CurrentVal(l) = disk[l]
        BY <4>1 DEF ValOf
      <4> QED
        BY <1>0, <1>1, <2>1, <3>1, <3>3, <4>2 DEF TypeOK
    <3> QED
      BY <3>2, <3>3
  <2>2. CASE l # k
    <3>1. \A b \in Bufs : (blockno[b] = l /\ valid[b]) <=> (blockno'[b] = l /\ valid'[b])
      BY <1>0, <1>1, <2>2 DEF TypeOK
    <3>2. CASE \E b \in Bufs : blockno[b] = l /\ valid[b]
      <4>1. PICK b \in Bufs : blockno[b] = l /\ valid[b]
        BY <3>2
      <4>2. CurrentVal(l) = data[b] /\ CurrentVal(l)' = data'[b]
        BY <3>1, <4>1 DEF ValOf
      <4> QED
        BY <1>0, <1>1, <2>2, <4>1, <4>2 DEF TypeOK
    <3>3. CASE ~ \E b \in Bufs : blockno[b] = l /\ valid[b]
      BY <1>1, <3>1, <3>3 DEF ValOf
    <3> QED
      BY <3>2, <3>3
  <2> QED
    BY <2>1, <2>2
<1>3. \A q \in Procs : ~(want[q] = k /\ pc[q] = "use")
  <2> SUFFICES ASSUME NEW q \in Procs, want[q] = k, pc[q] = "use" PROVE FALSE
    OBVIOUS
  <2>1. cur[q] = cur[p]
    BY <1>0, <1>1, BCacheAssumption DEF RightBuffer, OneCopy
  <2>2. holder[cur[p]] = p /\ holder[cur[p]] = q
    BY <1>0, <1>1, <2>1 DEF LockHeld
  <2> QED
    BY <1>1, <2>2
<1>4. Owner(k) = None
  BY <1>1, <1>3 DEF OwnerOf
<1>5. \A l \in Blocks : Owner(l)' = IF l = k THEN p ELSE Owner(l)
  <2> SUFFICES ASSUME NEW l \in Blocks PROVE Owner(l)' = IF l = k THEN p ELSE Owner(l)
    OBVIOUS
  <2>1. CASE l = k
    BY <1>0, <1>1, <2>1 DEF TypeOK, OwnerOf
  <2>2. CASE l # k
    <3>1. \A q \in Procs : (want[q] = l /\ pc[q] = "use") <=> (want'[q] = l /\ pc'[q] = "use")
      BY <1>0, <1>1, <2>2 DEF TypeOK
    <3>2. CASE \E q \in Procs : want[q] = l /\ pc[q] = "use"
      BY <2>2, <3>1, <3>2 DEF OwnerOf
    <3>3. CASE ~ \E q \in Procs : want[q] = l /\ pc[q] = "use"
      BY <2>2, <3>1, <3>3 DEF OwnerOf
    <3> QED
      BY <3>2, <3>3
  <2> QED
    BY <2>1, <2>2
<1>6. k \in Blocks
  BY <1>1
<1> HIDE DEF k
<1>7. Store!Bread(p, k)
  BY <1>2, <1>4, <1>5, <1>6 DEF Store!Bread
<1> QED
  BY <1>6, <1>7 DEF Store!Next

\* The owner of a block changes its contents, and nobody else's.
LEMMA ModifyStep ==
  ASSUME CacheInv, ValOf, OwnerOf, ValOf', OwnerOf', NEW p \in Procs, NEW v \in Vals,
         Modify(p, v)
  PROVE  [Store!Next]_Store!vars
<1>0. TypeOK /\ RightBuffer /\ InUse /\ OneCopy
  BY DEF CacheInv
<1> DEFINE k == want[p]
<1>1. /\ pc[p] = "use" /\ cur[p] \in Bufs /\ k \in Blocks /\ blockno[cur[p]] = k
      /\ valid[cur[p]] /\ data' = [data EXCEPT ![cur[p]] = v]
      /\ UNCHANGED <<blockno, valid, disk, want, pc>>
  BY <1>0 DEF Modify, At, lists, RightBuffer, InUse
<1>2. Owner(k) = p
  BY <1>1 DEF OwnerOf
<1>3. \A q \in Procs, l \in Blocks :
        (want[q] = l /\ pc[q] = "use") <=> (want'[q] = l /\ pc'[q] = "use")
  BY <1>1
<1>4. \A l \in Blocks : Owner(l)' = Owner(l)
  BY <1>3, OwnerSame
<1>5. \A l \in Blocks : CurrentVal(l)' = IF l = k THEN v ELSE CurrentVal(l)
  <2> SUFFICES ASSUME NEW l \in Blocks
               PROVE  CurrentVal(l)' = IF l = k THEN v ELSE CurrentVal(l)
    OBVIOUS
  <2>1. CASE l = k
    <3>1. CurrentVal(l)' = data'[cur[p]]
      BY <1>1, <2>1 DEF ValOf
    <3> QED
      BY <1>0, <1>1, <2>1, <3>1 DEF TypeOK
  <2>2. CASE l # k
    <3>1. CASE \E b \in Bufs : blockno[b] = l /\ valid[b]
      <4>1. PICK b \in Bufs : blockno[b] = l /\ valid[b]
        BY <3>1
      <4>2. CurrentVal(l) = data[b] /\ CurrentVal(l)' = data'[b]
        BY <1>1, <4>1 DEF ValOf
      <4> QED
        BY <1>0, <1>1, <2>2, <4>1, <4>2 DEF TypeOK
    <3>2. CASE ~ \E b \in Bufs : blockno[b] = l /\ valid[b]
      BY <1>1, <2>2, <3>2 DEF ValOf
    <3> QED
      BY <3>1, <3>2
  <2> QED
    BY <2>1, <2>2
<1>6. k \in Blocks
  BY <1>1
<1> HIDE DEF k
<1>7. Store!Modify(p, k, v)
  BY <1>2, <1>4, <1>5, <1>6 DEF Store!Modify
<1> QED
  BY <1>6, <1>7 DEF Store!Next

\* The owner gives the block up with its contents as they are.
LEMMA ReleaseStep ==
  ASSUME CacheInv, ValOf, OwnerOf, ValOf', OwnerOf', NEW p \in Procs, ReleaseSleep(p)
  PROVE  [Store!Next]_Store!vars
<1>0. TypeOK /\ RightBuffer
  BY DEF CacheInv
<1> DEFINE k == want[p]
<1>1. /\ pc[p] = "use" /\ k \in Blocks
      /\ \A q \in Procs : pc'[q] = "use" <=> pc[q] = "use" /\ q # p
      /\ UNCHANGED <<blockno, valid, data, disk, want>>
  BY <1>0 DEF ReleaseSleep, At, lists, RightBuffer, TypeOK
<1>2. \A q \in Procs : want[q] = k /\ pc[q] = "use" => q = p
  BY <1>1 DEF OwnerOf
<1>3. Owner(k) = p
  BY <1>1 DEF OwnerOf
<1>4. \A l \in Blocks : Owner(l)' = IF l = k THEN None ELSE Owner(l)
  <2> SUFFICES ASSUME NEW l \in Blocks PROVE Owner(l)' = IF l = k THEN None ELSE Owner(l)
    OBVIOUS
  <2>1. CASE l = k
    BY <1>1, <1>2, <2>1 DEF OwnerOf
  <2>2. CASE l # k
    <3>1. \A q \in Procs : (want[q] = l /\ pc[q] = "use") <=> (want'[q] = l /\ pc'[q] = "use")
      BY <1>1, <2>2
    <3>2. CASE \E q \in Procs : want[q] = l /\ pc[q] = "use"
      BY <2>2, <3>1, <3>2 DEF OwnerOf
    <3>3. CASE ~ \E q \in Procs : want[q] = l /\ pc[q] = "use"
      BY <2>2, <3>1, <3>3 DEF OwnerOf
    <3> QED
      BY <3>2, <3>3
  <2> QED
    BY <2>1, <2>2
<1>5. \A l \in Blocks : CurrentVal(l)' = CurrentVal(l)
  BY <1>1, ValSame
<1>6. k \in Blocks
  BY <1>1
<1> HIDE DEF k
<1>7. Store!Brelse(p, k)
  BY <1>3, <1>4, <1>5, <1>6 DEF Store!Brelse
<1> QED
  BY <1>6, <1>7 DEF Store!Next

\* Every step of the cache is a step of the store of blocks or changes nothing.
LEMMA StepRefines ==
  ASSUME CacheInv, CacheInv', ValOf, OwnerOf, ValOf', OwnerOf', [Next]_vars
  PROVE  [Store!Next]_Store!vars
<1>1. CASE UNCHANGED vars
  <2>1. UNCHANGED <<blockno, valid, data, disk, want, pc>>
    BY <1>1 DEF vars
  <2>2. \A q \in Procs, k \in Blocks :
          (want[q] = k /\ pc[q] = "use") <=> (want'[q] = k /\ pc'[q] = "use")
    BY <2>1
  <2> QED
    BY <2>1, <2>2, ValSame, OwnerSame, Stutter
<1>2. CASE Next
  BY <1>2, GetStep, LockStep, SaveStep, BreadStep, ModifyStep, ReleaseStep DEF Next
<1> QED
  BY <1>1, <1>2

\* bio.c and sleeplock.c implement a store of blocks with exclusive access: whoever
\* gets a block finds what its last user left, through recycling and write-back.
THEOREM CacheRefines == Spec => IsBlockStore
<1>1. Init => Store!Init
  <2> SUFFICES ASSUME Init PROVE Store!Init
    OBVIOUS
  <2>1. ValOf /\ OwnerOf
    BY InitInv, Mapping
  <2>2. \A k \in Blocks : CurrentVal(k) \in Vals /\ Owner(k) = None
    BY <2>1 DEF ValOf, OwnerOf, Init
  <2> QED
    BY <2>2 DEF Store!Init
<1>2. CacheInv /\ CacheInv' /\ [Next]_vars => [Store!Next]_Store!vars
  <2>1. CacheInv' => ValOf' /\ OwnerOf'
    BY Mapping, PTL
  <2> QED
    BY <2>1, Mapping, StepRefines
<1> QED
  BY <1>1, <1>2, CacheInvariant, PTL DEF Spec, IsBlockStore, Store!Spec
=============================================================================
