---------------------------- MODULE VirtioProofs ----------------------------
(***************************************************************************)
(* Proofs about VirtioDisk, for any number of processes and descriptors,   *)
(* any ring size and any index width: VirtioInv is inductive, descriptors  *)
(* have one owner, and no request returns before it was carried out.       *)
(***************************************************************************)
EXTENDS VirtioDisk, Integers, WellFoundedInduction, FiniteSetTheorems, TLAPS

-----------------------------------------------------------------------------
(* Numbers *)

\* The natural numbers are well ordered.
LEMMA LeastExists ==
  ASSUME NEW S, S \subseteq Nat, S # {}
  PROVE  \E i \in S : \A j \in S : i <= j
<1>1. \E i \in S : \A j \in S : ~ (<<j, i>> \in OpToRel(<, Nat))
  BY NatLessThanWellFounded, WFMin, Zenon
<1>2. ASSUME NEW i \in S, NEW j \in S, ~ (<<j, i>> \in OpToRel(<, Nat))
      PROVE  i <= j
  <2>1. i \in Nat /\ j \in Nat
    OBVIOUS
  <2>2. ~ (j < i)
    BY <1>2, <2>1 DEF OpToRel
  <2> QED
    BY <2>1, <2>2
<1> QED
  BY <1>1, <1>2

\* Quotient and remainder.
LEMMA DivMod ==
  ASSUME NEW R \in Nat \ {0}, NEW n \in Nat
  PROVE  n % R \in 0..R-1 /\ n \div R \in Nat /\ n = R * (n \div R) + (n % R)
OBVIOUS

\* The remainder is unique.
LEMMA ModUnique ==
  ASSUME NEW R \in Nat \ {0}, NEW q \in Nat, NEW r \in 0..R-1
  PROVE  (R * q + r) % R = r
OBVIOUS

\* Multiples of R do not change the remainder.
LEMMA ModPeriod ==
  ASSUME NEW R \in Nat \ {0}, NEW m \in Nat, NEW k \in Nat
  PROVE  (m * R + k) % R = k % R
<1>1. PICK q \in Nat, r \in 0..R-1 : k = R * q + r /\ r = k % R
  BY DivMod
<1>2. m * R + k = R * (m + q) + r /\ m + q \in Nat
  BY <1>1
<1> QED
  BY <1>1, <1>2, ModUnique

\* Fewer than R steps apart, remainders differ.
LEMMA ModDistinct ==
  ASSUME NEW R \in Nat \ {0}, NEW x \in Nat, NEW k \in Nat, NEW a \in Nat,
         k < a, a - k < R
  PROVE  (x + k) % R # (x + a) % R
<1> SUFFICES ASSUME (x + k) % R = (x + a) % R PROVE FALSE
  OBVIOUS
<1>1. PICK q \in Nat, r \in 0..R-1 : x + k = R * q + r /\ r = (x + k) % R
  BY DivMod, x + k \in Nat
<1>2. PICK t \in Nat, u \in 0..R-1 : x + a = R * t + u /\ u = (x + a) % R
  BY DivMod, x + a \in Nat
<1>3. PICK d \in Int : d = t - q /\ R * d = a - k
  BY <1>1, <1>2
<1>4. d > 0 /\ d < 1
  BY <1>3
<1> QED
  BY <1>4

-----------------------------------------------------------------------------
(* The rings *)

\* The sizes of the rings and of their indices.
LEMMA Sizes ==
  /\ NUM \in Nat \ {0} /\ RING \in Nat \ {0} /\ IDX \in Nat
  /\ NUM \div 3 <= RING /\ 2 * RING <= IDX
  /\ \E m \in Nat : IDX = m * RING
<1>1. NUM \div 3 \in Nat /\ NUM \div 3 >= 1
  BY VirtioAssumption
<1>2. RING \in Nat \ {0} /\ NUM \div 3 <= RING
  BY <1>1, VirtioAssumption
<1>3. PICK m \in 2..IDX : IDX = m * RING
  BY VirtioAssumption
<1>4. 2 * RING <= m * RING
  BY <1>2, <1>3
<1> QED
  BY <1>2, <1>3, <1>4, VirtioAssumption

\* An index grows by one, or wraps.
LEMMA IncValue ==
  ASSUME NEW x \in 0..IDX-1
  PROVE  Inc(x) \in 0..IDX-1 /\ Inc(x) = IF x + 1 = IDX THEN 0 ELSE x + 1
<1>1. IDX \in Nat \ {0} /\ x \in Nat /\ x + 1 <= IDX
  BY Sizes
<1>2. CASE x + 1 = IDX
  <2>1. (IDX * 1 + 0) % IDX = 0
    BY <1>1, ModUnique
  <2> QED
    BY <1>1, <1>2, <2>1 DEF Inc
<1>3. CASE x + 1 # IDX
  <2>1. (IDX * 0 + (x + 1)) % IDX = x + 1
    BY <1>1, <1>3, ModUnique
  <2> QED
    BY <1>1, <1>3, <2>1 DEF Inc
<1> QED
  BY <1>2, <1>3

\* The distance of two indices follows both.
LEMMA DistValue ==
  ASSUME NEW x \in 0..IDX-1, NEW y \in 0..IDX-1
  PROVE  /\ Dist(x, y) \in 0..IDX-1 /\ (Dist(x, y) = 0 <=> x = y)
         /\ Dist(x, y) < IDX - 1 => Dist(x, Inc(y)) = Dist(x, y) + 1
         /\ x # y => Dist(Inc(x), y) = Dist(x, y) - 1
BY Sizes, IncValue DEF Dist

\* The place of an entry in the ring does not see the index wrap.
LEMMA Place ==
  ASSUME NEW x \in 0..IDX-1, NEW y \in 0..IDX-1, NEW k \in Nat
  PROVE  /\ (x + Dist(x, y)) % RING = y % RING
         /\ (Inc(x) + k) % RING = (x + (k + 1)) % RING
         /\ (x + k) % RING \in Entries
<1>1. PICK m \in Nat : IDX = m * RING
  BY Sizes
<1>2. \A n \in Nat : (IDX + n) % RING = n % RING
  BY <1>1, Sizes, ModPeriod
<1>3. (x + Dist(x, y)) % RING = y % RING
  <2>1. x + Dist(x, y) = y \/ x + Dist(x, y) = IDX + y
    BY Sizes DEF Dist
  <2> QED
    BY <1>2, <2>1
<1>4. (Inc(x) + k) % RING = (x + (k + 1)) % RING
  <2>1. CASE x + 1 = IDX
    <3>1. Inc(x) + k = k /\ x + (k + 1) = IDX + k
      BY <2>1, IncValue, Sizes
    <3> QED
      BY <1>2, <3>1
  <2>2. CASE x + 1 # IDX
    <3>1. Inc(x) + k = x + (k + 1)
      BY <2>2, IncValue, Sizes
    <3> QED
      BY <3>1
  <2> QED
    BY <2>1, <2>2
<1>5. (x + k) % RING \in Entries
  BY Sizes, DivMod, x + k \in Nat DEF Entries
<1> QED
  BY <1>3, <1>4, <1>5

\* Publishing an entry while the ring has room.
LEMMA Push ==
  ASSUME NEW r \in [Entries -> Descs], NEW x \in 0..IDX-1, NEW y \in 0..IDX-1,
         NEW d \in Descs, Dist(x, y) < RING, NoDup(r, x, y), d \notin Window(r, x, y),
         NEW s, s = [r EXCEPT ![y % RING] = d]
  PROVE  /\ Window(s, x, Inc(y)) = Window(r, x, y) \cup {d}
         /\ NoDup(s, x, Inc(y))
<1> DEFINE n == Dist(x, y)
<1>1. n \in Nat /\ n < RING /\ Dist(x, Inc(y)) = n + 1
  <2>1. n \in 0..IDX-1 /\ n < RING
    BY DistValue
  <2>2. n < IDX - 1
    BY <2>1, Sizes
  <2> QED
    BY <2>1, <2>2, DistValue, Sizes
<1>2. (x + n) % RING = y % RING /\ \A k \in Nat : (x + k) % RING \in Entries
  BY <1>1, Place
<1>3. ASSUME NEW k \in 0..n-1 PROVE (x + k) % RING # (x + n) % RING
  <2>1. x \in Nat /\ k \in Nat /\ k < n /\ n - k < RING
    BY <1>1, Sizes
  <2> QED
    BY <1>1, <2>1, Sizes, ModDistinct
<1> HIDE DEF n
<1>4. ASSUME NEW k \in 0..n-1 PROVE s[(x + k) % RING] = r[(x + k) % RING]
  <2>1. (x + k) % RING \in Entries /\ (x + k) % RING # y % RING
    <3>1. k \in Nat
      BY <1>1
    <3> QED
      BY <1>2, <1>3, <3>1, Zenon
  <2> QED
    BY <2>1
<1>5. s[(x + n) % RING] = d
  BY <1>1, <1>2
<1>6. Window(s, x, Inc(y)) = {s[(x + k) % RING] : k \in 0..n}
  BY <1>1 DEF Window
<1>7. Window(r, x, y) = {r[(x + k) % RING] : k \in 0..n-1}
  BY DEF Window, n
<1>8. Window(s, x, Inc(y)) = Window(r, x, y) \cup {d}
  <2>1. 0..n = (0..n-1) \cup {n}
    BY <1>1
  <2>2. {s[(x + k) % RING] : k \in 0..n}
          = {s[(x + k) % RING] : k \in 0..n-1} \cup {s[(x + n) % RING]}
    BY <2>1, Zenon
  <2>3. {s[(x + k) % RING] : k \in 0..n-1} = {r[(x + k) % RING] : k \in 0..n-1}
    BY <1>4
  <2> QED
    BY <1>5, <1>6, <1>7, <2>2, <2>3, Zenon
<1>9. NoDup(s, x, Inc(y))
  <2> SUFFICES ASSUME NEW k \in 0..n, NEW l \in 0..n,
                      s[(x + k) % RING] = s[(x + l) % RING]
               PROVE  k = l
    BY <1>1 DEF NoDup
  <2>1. \A i \in 0..n-1 : s[(x + i) % RING] # d
    BY <1>4, <1>7
  <2>2. CASE k = n \/ l = n
    BY <1>1, <1>5, <2>1, <2>2
  <2>3. CASE k # n /\ l # n
    <3>1. k \in 0..n-1 /\ l \in 0..n-1
      BY <1>1, <2>3
    <3> QED
      BY <1>4, <3>1 DEF NoDup, n
  <2> QED
    BY <2>2, <2>3
<1> QED
  BY <1>8, <1>9

\* Taking the first entry of a ring that is not empty.
LEMMA Pop ==
  ASSUME NEW r \in [Entries -> Descs], NEW x \in 0..IDX-1, NEW y \in 0..IDX-1, x # y,
         NoDup(r, x, y)
  PROVE  /\ r[x % RING] \in Window(r, x, y)
         /\ Window(r, Inc(x), y) = Window(r, x, y) \ {r[x % RING]}
         /\ NoDup(r, Inc(x), y)
<1> DEFINE n == Dist(x, y)
<1>1. n \in Nat /\ n >= 1 /\ Dist(Inc(x), y) = n - 1
  BY Sizes, DistValue
<1>2. \A k \in 0..n-2 : r[(Inc(x) + k) % RING] = r[(x + (k + 1)) % RING]
  BY <1>1, Place
<1>3. Window(r, x, y) = {r[(x + k) % RING] : k \in 0..n-1}
  BY DEF Window
<1>4. \A k, l \in 0..n-1 : r[(x + k) % RING] = r[(x + l) % RING] => k = l
  BY DEF NoDup
<1>5. Window(r, Inc(x), y) = {r[(Inc(x) + k) % RING] : k \in 0..n-2}
  <2>1. (n - 1) - 1 = n - 2
    BY <1>1
  <2> QED
    BY <1>1, <2>1 DEF Window
<1> HIDE DEF n
<1>6. r[x % RING] = r[(x + 0) % RING] /\ 0 \in 0..n-1
  BY <1>1
<1>7. ASSUME NEW e PROVE e \in Window(r, Inc(x), y) <=> e \in Window(r, x, y) \ {r[x % RING]}
  <2>1. ASSUME e \in Window(r, Inc(x), y) PROVE e \in Window(r, x, y) \ {r[x % RING]}
    <3>1. PICK k \in 0..n-2 : e = r[(x + (k + 1)) % RING]
      BY <1>2, <1>5, <2>1
    <3>2. k + 1 \in 0..n-1 /\ k + 1 # 0
      BY <1>1
    <3> QED
      BY <1>3, <1>4, <1>6, <3>1, <3>2
  <2>2. ASSUME e \in Window(r, x, y), e # r[x % RING] PROVE e \in Window(r, Inc(x), y)
    <3>1. PICK k \in 0..n-1 : e = r[(x + k) % RING]
      BY <1>3, <2>2
    <3>2. k # 0
      BY <1>6, <2>2, <3>1
    <3>3. PICK l \in 0..n-2 : k = l + 1
      BY <1>1, <3>2
    <3>4. e = r[(Inc(x) + l) % RING]
      BY <1>2, <3>1, <3>3
    <3> QED
      BY <1>5, <3>4
  <2> QED
    BY <2>1, <2>2
<1>8. NoDup(r, Inc(x), y)
  <2> SUFFICES ASSUME NEW k \in 0..n-2, NEW l \in 0..n-2,
                      r[(Inc(x) + k) % RING] = r[(Inc(x) + l) % RING]
               PROVE  k = l
    BY <1>1 DEF NoDup
  <2>1. k + 1 \in 0..n-1 /\ l + 1 \in 0..n-1
    BY <1>1
  <2>2. k + 1 = l + 1
    BY <1>2, <1>4, <2>1
  <2> QED
    BY <2>2
<1>9. r[x % RING] \in Window(r, x, y)
  BY <1>3, <1>6
<1> QED
  BY <1>7, <1>8, <1>9

\* A ring holds no more entries than there are values they can have.
LEMMA WindowSize ==
  ASSUME NEW r, NEW x \in 0..IDX-1, NEW y \in 0..IDX-1, NoDup(r, x, y),
         NEW F, IsFiniteSet(F), Window(r, x, y) \subseteq F
  PROVE  Dist(x, y) <= Cardinality(F)
<1> DEFINE n == Dist(x, y)
           f == [k \in 0..n-1 |-> r[(x + k) % RING]]
<1>1. n \in Nat
  BY DistValue, Sizes
<1>2. f \in Injection(0..n-1, F)
  BY DEF Injection, IsInjective, Window, NoDup
<1>3. Cardinality(0..n-1) <= Cardinality(F)
  BY <1>2, FS_Injection
<1>4. Cardinality(0..n-1) = n
  BY <1>1, FS_Interval
<1> QED
  BY <1>3, <1>4

-----------------------------------------------------------------------------
(* The descriptors *)

\* A set of descriptors that is not empty has a lowest one.
LEMMA LowestIn ==
  ASSUME NEW S, S \subseteq Descs, S # {}
  PROVE  Lowest(S) \in S
<1>1. S \subseteq Nat
  BY VirtioAssumption DEF Descs
<1>2. \E i \in S : \A j \in S : i <= j
  BY <1>1, LeastExists
<1> QED
  BY <1>2 DEF Lowest

\* Descriptors are finite in number.
LEMMA DescsFinite ==
  ASSUME NEW S, S \subseteq Descs
  PROVE  IsFiniteSet(S) /\ Cardinality(S) \in Nat /\ Cardinality(S) <= NUM
<1>1. IsFiniteSet(Descs) /\ Cardinality(Descs) = NUM
  BY VirtioAssumption, FS_Interval DEF Descs
<1> QED
  BY <1>1, FS_Subset, FS_CardinalityType

\* alloc3_desc() finds three different free descriptors.
LEMMA Alloc3Free ==
  ASSUME free \subseteq Descs, Cardinality(free) >= 3
  PROVE  \E a, b, c \in free : a # b /\ a # c /\ b # c /\ Alloc3 = <<a, b, c>>
<1> DEFINE a == Lowest(free)
           b == Lowest(free \ {a})
           c == Lowest(free \ {a, b})
<1>1. IsFiniteSet(free) /\ Cardinality(free) \in Nat
  BY DescsFinite
<1>2. free # {}
  BY <1>1, FS_EmptySet
<1>3. a \in free
  BY <1>2, LowestIn
<1> HIDE DEF a
<1>4. IsFiniteSet(free \ {a}) /\ Cardinality(free \ {a}) = Cardinality(free) - 1
  BY <1>1, <1>3, FS_RemoveElement
<1>5. free \ {a} # {}
  BY <1>1, <1>4, FS_EmptySet
<1>6. b \in free \ {a}
  BY <1>5, LowestIn
<1> HIDE DEF b
<1>7. Cardinality((free \ {a}) \ {b}) = Cardinality(free) - 2
  <2>1. Cardinality((free \ {a}) \ {b}) = Cardinality(free \ {a}) - 1
    BY <1>4, <1>6, FS_RemoveElement
  <2> QED
    BY <1>1, <1>4, <2>1
<1>8. (free \ {a}) \ {b} # {} /\ (free \ {a}) \ {b} = free \ {a, b}
  BY <1>1, <1>7, FS_EmptySet
<1>9. c \in free \ {a, b}
  BY <1>8, LowestIn
<1>10. Alloc3 = <<a, b, c>>
  BY DEF Alloc3, a, b
<1> HIDE DEF c
<1> QED
  BY <1>3, <1>6, <1>9, <1>10

\* A chain is three descriptors.
LEMMA ChainType ==
  ASSUME TypeOK, NEW p \in Procs, chain[p] # None
  PROVE  /\ chain[p] \in Descs \X Descs \X Descs
         /\ chain[p][1] \in Descs /\ chain[p][2] \in Descs /\ chain[p][3] \in Descs
         /\ Chained(p) = {chain[p][1], chain[p][2], chain[p][3]}
<1>1. chain[p] \in Descs \X Descs \X Descs
  BY DEF TypeOK
<1>2. 1..3 = {1, 2, 3}
  OBVIOUS
<1> QED
  BY <1>1, <1>2 DEF Chained

\* The first descriptors of requests in progress tell their processes.
LEMMA FirstOf ==
  ASSUME TypeOK, ChainOfCall, NEW d \in Firsts
  PROVE  /\ d \in Descs /\ info[d] \in busy /\ info[d] \in Procs
         /\ chain[info[d]] # None /\ chain[info[d]][1] = d
         /\ \A p \in busy : chain[p][1] = d => p = info[d]
<1>1. PICK p \in busy : d = chain[p][1]
  BY DEF Firsts
<1>2. p \in Procs /\ chain[p] # None
  BY <1>1 DEF TypeOK, ChainOfCall
<1>3. d \in Descs /\ info[d] = p
  BY <1>1, <1>2, ChainType DEF ChainOfCall
<1> QED
  BY <1>1, <1>2, <1>3 DEF TypeOK, ChainOfCall

\* There are never more requests in progress than a ring has entries.
LEMMA RequestsFit ==
  TypeOK /\ ChainOfCall /\ Owned => IsFiniteSet(Firsts) /\ Cardinality(Firsts) <= RING
<1> SUFFICES ASSUME TypeOK, ChainOfCall, Owned
             PROVE  IsFiniteSet(Firsts) /\ Cardinality(Firsts) <= RING
  OBVIOUS
<1> DEFINE S == Firsts \X (1..3)
           f == [t \in S |-> chain[info[t[1]]][t[2]]]
<1>1. IsFiniteSet(Firsts) /\ Cardinality(Firsts) \in Nat
  BY FirstOf, DescsFinite
<1>2. IsFiniteSet(1..3) /\ Cardinality(1..3) = 3
  <2>1. \A i, j \in Int : IsFiniteSet(i..j) /\ Cardinality(i..j) = IF i > j THEN 0 ELSE j-i+1
    BY FS_Interval
  <2>2. IsFiniteSet(1..3) /\ Cardinality(1..3) = IF 1 > 3 THEN 0 ELSE 3-1+1
    BY <2>1, 1 \in Int, 3 \in Int, Zenon
  <2>3. (IF 1 > 3 THEN 0 ELSE 3-1+1) = 3
    OBVIOUS
  <2> QED
    BY <2>2, <2>3
<1>3. IsFiniteSet(S) /\ Cardinality(S) = Cardinality(Firsts) * 3
  BY <1>1, <1>2, FS_Product
<1>4. f \in [S -> Descs]
  <2> SUFFICES ASSUME NEW t \in S PROVE chain[info[t[1]]][t[2]] \in Descs
    OBVIOUS
  <2>1. t[1] \in Firsts /\ t[2] \in {1, 2, 3}
    OBVIOUS
  <2> QED
    BY <2>1, FirstOf, ChainType
<1>5. ASSUME NEW t \in S, NEW u \in S, f[t] = f[u] PROVE t = u
  <2>1. /\ t[1] \in Firsts /\ t[2] \in {1, 2, 3} /\ u[1] \in Firsts /\ u[2] \in {1, 2, 3}
        /\ t = <<t[1], t[2]>> /\ u = <<u[1], u[2]>>
    OBVIOUS
  <2> DEFINE p == info[t[1]]
             q == info[u[1]]
  <2>2. p \in Procs /\ q \in Procs /\ chain[p] # None /\ chain[q] # None
    BY <2>1, FirstOf
  <2>3. chain[p][t[2]] = chain[q][u[2]]
    BY <1>5
  <2> HIDE DEF S, f
  <2>4. p = q
    <3>1. chain[p][t[2]] \in Chained(p) /\ chain[q][u[2]] \in Chained(q)
      BY <2>1, <2>2, ChainType
    <3> QED
      BY <2>2, <2>3, <3>1 DEF Owned
  <2>5. t[2] = u[2]
    BY <2>1, <2>2, <2>3, <2>4 DEF ChainOfCall
  <2>6. t[1] = u[1]
    BY <2>1, <2>4, FirstOf
  <2> QED
    BY <2>1, <2>5, <2>6
<1>6. f \in Injection(S, Descs)
  BY <1>4, <1>5 DEF Injection, IsInjective
<1>7. Cardinality(S) <= NUM
  <2>1. IsFiniteSet(Descs) /\ Cardinality(Descs) <= NUM /\ Cardinality(Descs) \in Nat
    BY DescsFinite
  <2>2. Cardinality(S) <= Cardinality(Descs)
    BY <1>6, <2>1, FS_Injection
  <2> QED
    BY <1>1, <1>3, <2>1, <2>2, VirtioAssumption
<1>8. Cardinality(Firsts) <= NUM \div 3
  BY <1>1, <1>3, <1>7, VirtioAssumption
<1> QED
  BY <1>1, <1>8, Sizes

-----------------------------------------------------------------------------
(* The steps *)

\* Steps that only move processes inside or outside a request, or the handler.
LEMMA MoveInv ==
  ASSUME VirtioInv, UNCHANGED <<driver, device, panic>>,
         pc' \in [Procs -> Pcs], handler' \in {"idle", "loop"}, irq' \in BOOLEAN,
         \A p \in Procs : pc'[p] \in {"sleep_buf", "check"}
                            <=> pc[p] \in {"sleep_buf", "check"}
  PROVE  VirtioInv'
<1>1. UNCHANGED <<free, chain, info, avail, availIdx, used_idx, busy, used, usedIdx,
                  devIdx, inflight, served, status, panic>>
  BY DEF driver, device
<1>2. UNCHANGED <<Queued, Completed, Firsts>>
  BY <1>1 DEF Queued, Completed, Window, Firsts
<1>3. TypeOK' /\ ChainOfCall' /\ AnsweredServed' /\ ~panic'
  BY <1>1 DEF VirtioInv, TypeOK, ChainOfCall, AnsweredServed
<1>4. Owned'
  <2>1. \A p \in Procs : Chained(p)' = Chained(p)
    BY <1>1 DEF Chained
  <2> QED
    BY <1>1, <2>1 DEF VirtioInv, Owned
<1>5. OnePlace' /\ ServedWhenCompleted'
  BY <1>1, <1>2 DEF VirtioInv, OnePlace, ServedWhenCompleted, NoDup
<1> QED
  BY <1>3, <1>4, <1>5 DEF VirtioInv

\* The calls, the sleeps, the wakeups and the frame of the handler.
LEMMA MovesInv ==
  ASSUME VirtioInv,
         \/ \E p \in Procs : Call(p) \/ AllocFail(p) \/ Recheck(p) \/ KillWakes(p)
         \/ Intr \/ IntrReturn
  PROVE  VirtioInv'
<1>0. pc \in [Procs -> Pcs] /\ handler \in {"idle", "loop"} /\ irq \in BOOLEAN
  BY DEF VirtioInv, TypeOK
<1>1. ASSUME NEW p \in Procs, Call(p) \/ AllocFail(p) \/ Recheck(p) \/ KillWakes(p)
      PROVE  VirtioInv'
  <2>1. UNCHANGED <<driver, device, handler, irq, panic>>
    BY <1>1 DEF Call, AllocFail, Recheck, KillWakes
  <2>2. pc' \in [Procs -> Pcs]
    BY <1>0, <1>1 DEF Call, AllocFail, Recheck, KillWakes, WakeAllocators, Pcs
  <2>3. \A q \in Procs : pc'[q] \in {"sleep_buf", "check"} <=> pc[q] \in {"sleep_buf", "check"}
    BY <1>0, <1>1 DEF Call, AllocFail, Recheck, KillWakes, WakeAllocators
  <2> QED
    BY <1>0, <2>1, <2>2, <2>3, MoveInv
<1>2. CASE Intr \/ IntrReturn
  <2>1. /\ UNCHANGED <<driver, device, pc, panic>>
        /\ handler' \in {"idle", "loop"} /\ irq' \in BOOLEAN
    BY <1>0, <1>2 DEF Intr, IntrReturn
  <2> QED
    BY <1>0, <2>1, MoveInv
<1> QED
  BY <1>1, <1>2

\* What a submission does.
LEMMA SubmitEffect ==
  ASSUME VirtioInv, NEW p \in Procs, Submit(p)
  PROVE  \E a, b, c \in free :
           /\ a # b /\ a # c /\ b # c
           /\ pc[p] = "alloc" /\ chain[p] = None
           /\ chain' = [chain EXCEPT ![p] = <<a, b, c>>]
           /\ free' = free \ {a, b, c}
           /\ status' = [status EXCEPT ![a] = "pending"]
           /\ busy' = busy \cup {p}
           /\ info' = [info EXCEPT ![a] = p]
           /\ avail' = [avail EXCEPT ![availIdx % RING] = a]
           /\ availIdx' = Inc(availIdx)
           /\ pc' = [pc EXCEPT ![p] = "sleep_buf"]
           /\ UNCHANGED <<used_idx, used, usedIdx, devIdx, inflight, served, handler, irq,
                          panic>>
<1>1. free \subseteq Descs /\ Cardinality(free) >= 3
  BY DEF VirtioInv, TypeOK, Submit
<1>2. PICK a, b, c \in free : a # b /\ a # c /\ b # c /\ Alloc3 = <<a, b, c>>
  BY <1>1, Alloc3Free
<1>3. Alloc3[1] = a /\ {Alloc3[j] : j \in 1..3} = {a, b, c}
  <2>1. 1..3 = {1, 2, 3}
    OBVIOUS
  <2> QED
    BY <1>2, <2>1
<1>4. pc[p] = "alloc" /\ chain[p] = None
  BY DEF Submit, VirtioInv, ChainOfCall
<1> QED
  BY <1>2, <1>3, <1>4 DEF Submit

\* A new request gets descriptors of its own and a free entry of the ring.
LEMMA SubmitInv ==
  ASSUME VirtioInv, NEW p \in Procs, Submit(p)
  PROVE  VirtioInv'
<1>0. TypeOK /\ ChainOfCall /\ Owned /\ OnePlace /\ ServedWhenCompleted
      /\ AnsweredServed /\ ~panic
  BY DEF VirtioInv
<1>1. PICK a, b, c \in free :
           /\ a # b /\ a # c /\ b # c
           /\ pc[p] = "alloc" /\ chain[p] = None
           /\ chain' = [chain EXCEPT ![p] = <<a, b, c>>]
           /\ free' = free \ {a, b, c}
           /\ status' = [status EXCEPT ![a] = "pending"]
           /\ busy' = busy \cup {p}
           /\ info' = [info EXCEPT ![a] = p]
           /\ avail' = [avail EXCEPT ![availIdx % RING] = a]
           /\ availIdx' = Inc(availIdx)
           /\ pc' = [pc EXCEPT ![p] = "sleep_buf"]
           /\ UNCHANGED <<used_idx, used, usedIdx, devIdx, inflight, served, handler, irq,
                          panic>>
  BY SubmitEffect
<1>2. /\ a \in Descs /\ b \in Descs /\ c \in Descs
      /\ {availIdx, usedIdx, used_idx, devIdx} \subseteq 0..IDX-1
      /\ Inc(availIdx) \in 0..IDX-1
  <2>1. availIdx \in 0..IDX-1
    BY <1>0 DEF TypeOK
  <2> QED
    BY <1>0, <1>1, <2>1, IncValue DEF TypeOK
<1>3. TypeOK'
  <2>1. chain' \in [Procs -> (Descs \X Descs \X Descs) \cup {None}]
    BY <1>0, <1>1, <1>2 DEF TypeOK
  <2>2. pc' \in [Procs -> Pcs] /\ avail' \in [Entries -> Descs]
    BY <1>0, <1>1, <1>2 DEF TypeOK, Pcs
  <2> QED
    BY <1>0, <1>1, <1>2, <2>1, <2>2 DEF TypeOK
<1>4. /\ chain'[p] = <<a, b, c>> /\ chain'[p] # None
      /\ \A q \in Procs \ {p} : chain'[q] = chain[q]
  BY <1>0, <1>1, <1>2, VirtioAssumption DEF TypeOK, Descs
<1>5. \A q \in Procs : chain[q] # None => /\ chain[q][1] \in Descs \ {a, b, c}
                                         /\ q # p
                                         /\ Chained(q) \cap {a, b, c} = {}
  BY <1>0, <1>1, ChainType DEF Owned
<1>6. ChainOfCall'
  <2> SUFFICES ASSUME NEW q \in Procs
               PROVE  /\ chain'[q] # None <=> pc'[q] \in {"sleep_buf", "check"}
                      /\ q \in busy' \cup served' => chain'[q] # None
                      /\ chain'[q] # None =>
                           /\ info'[chain'[q][1]] = q
                           /\ chain'[q][1] # chain'[q][2] /\ chain'[q][1] # chain'[q][3]
                           /\ chain'[q][2] # chain'[q][3]
    BY DEF ChainOfCall
  <2>1. CASE q = p
    BY <1>0, <1>1, <1>2, <1>4, <2>1 DEF TypeOK
  <2>2. CASE q # p
    <3>1. pc'[q] = pc[q] /\ chain'[q] = chain[q] /\ (q \in busy' <=> q \in busy)
      BY <1>0, <1>1, <1>4, <2>2 DEF TypeOK
    <3>2. chain[q] # None => info'[chain[q][1]] = info[chain[q][1]]
      BY <1>0, <1>1, <1>5 DEF TypeOK
    <3> QED
      BY <1>0, <1>1, <3>1, <3>2 DEF ChainOfCall
  <2> QED
    BY <2>1, <2>2
<1>7. Chained(p)' = {a, b, c} /\ \A q \in Procs \ {p} : Chained(q)' = Chained(q)
  <2>1. 1..3 = {1, 2, 3}
    OBVIOUS
  <2> QED
    BY <1>4, <2>1 DEF Chained
<1>8. Owned'
  BY <1>0, <1>1, <1>4, <1>5, <1>7 DEF Owned
<1>9. Firsts' = Firsts \cup {a} /\ a \notin Firsts
  <2>1. \A q \in busy : q \in Procs /\ q # p /\ chain[q] # None
    BY <1>0, <1>1 DEF TypeOK, ChainOfCall
  <2>2. \A q \in busy : chain'[q][1] = chain[q][1] /\ chain[q][1] # a
    BY <1>4, <1>5, <2>1
  <2>3. chain'[p][1] = a
    BY <1>4
  <2> QED
    BY <1>1, <2>2, <2>3 DEF Firsts
<1>10. Dist(devIdx, availIdx) < RING
  <2>1. IsFiniteSet(Firsts)' /\ (Cardinality(Firsts) <= RING)'
    BY <1>3, <1>6, <1>8, RequestsFit, PTL
  <2>2. IsFiniteSet(Firsts) /\ Cardinality(Firsts) <= RING
    BY <1>0, RequestsFit
  <2>3. Cardinality(Firsts \cup {a}) = Cardinality(Firsts) + 1 /\ Cardinality(Firsts) \in Nat
    BY <1>9, <2>2, FS_AddElement, FS_CardinalityType
  <2>4. Dist(devIdx, availIdx) <= Cardinality(Firsts)
    BY <1>0, <1>2, <2>2, WindowSize DEF OnePlace, Queued
  <2>5. Dist(devIdx, availIdx) \in Nat
    BY <1>2, DistValue, Sizes
  <2> QED
    BY <1>9, <2>1, <2>3, <2>4, <2>5, Sizes
<1>11. Queued' = Queued \cup {a} /\ NoDup(avail, devIdx, availIdx)' /\ Completed' = Completed
  <2>1. a \notin Window(avail, devIdx, availIdx)
    BY <1>0, <1>9 DEF OnePlace, Queued
  <2>2. /\ Window(avail', devIdx, Inc(availIdx)) = Window(avail, devIdx, availIdx) \cup {a}
        /\ NoDup(avail', devIdx, Inc(availIdx))
    <3>1. /\ avail \in [Entries -> Descs] /\ devIdx \in 0..IDX-1 /\ availIdx \in 0..IDX-1
          /\ NoDup(avail, devIdx, availIdx)
      BY <1>0 DEF OnePlace, TypeOK
    <3>2. avail' = [avail EXCEPT ![availIdx % RING] = a]
      BY <1>1
    <3>3. a \in Descs
      BY <1>2
    <3>4. \A s : s = [avail EXCEPT ![availIdx % RING] = a] =>
            /\ Window(s, devIdx, Inc(availIdx)) = Window(avail, devIdx, availIdx) \cup {a}
            /\ NoDup(s, devIdx, Inc(availIdx))
      BY <1>10, <2>1, <3>1, <3>3, Push
    <3> QED
      BY <3>2, <3>4
  <2> QED
    BY <1>1, <2>2 DEF Queued, Completed, Window, NoDup, Dist
<1>12. OnePlace'
  <2>1. NoDup(used, used_idx, usedIdx)'
    BY <1>0, <1>1 DEF OnePlace, NoDup, Dist
  <2>2. a \notin inflight /\ a \notin Completed
    BY <1>0, <1>9 DEF OnePlace
  <2> QED
    BY <1>0, <1>1, <1>9, <1>11, <2>1, <2>2 DEF OnePlace
<1>13. ServedWhenCompleted'
  <2>1. a \notin Completed /\ p \notin served /\ chain'[p][1] = a
    BY <1>0, <1>1, <1>4, <1>9 DEF OnePlace, ChainOfCall
  <2>2. \A q \in busy : q \in Procs /\ q # p /\ chain'[q][1] = chain[q][1]
    BY <1>0, <1>1, <1>4 DEF TypeOK, ChainOfCall
  <2>3. \A d \in Completed : d \in Descs
    BY <1>0, FirstOf DEF OnePlace
  <2> QED
    BY <1>0, <1>1, <1>11, <2>1, <2>2, <2>3 DEF ServedWhenCompleted, TypeOK
<1>14. AnsweredServed' /\ ~panic'
  BY <1>0, <1>1, <1>4 DEF AnsweredServed
<1> QED
  BY <1>3, <1>6, <1>8, <1>12, <1>13, <1>14 DEF VirtioInv

\* A finished request gives back its own descriptors.
LEMMA FinishInv ==
  ASSUME VirtioInv, NEW p \in Procs, Finish(p)
  PROVE  VirtioInv'
<1>0. TypeOK /\ ChainOfCall /\ Owned /\ OnePlace /\ ServedWhenCompleted
      /\ AnsweredServed /\ ~panic
  BY DEF VirtioInv
<1>1. /\ pc[p] = "check" /\ p \notin busy /\ chain[p] # None
      /\ info' = [info EXCEPT ![chain[p][1]] = None]
      /\ panic' = (Chained(p) \cap free # {})
      /\ free' = free \cup Chained(p)
      /\ chain' = [chain EXCEPT ![p] = None]
      /\ served' = served \ {p}
      /\ pc' = [q \in Procs |-> IF q = p THEN "idle"
                                ELSE IF pc[q] = "sleep_free" THEN "alloc" ELSE pc[q]]
      /\ UNCHANGED <<status, avail, availIdx, used_idx, busy, used, usedIdx, devIdx,
                     inflight, handler, irq>>
  BY <1>0 DEF Finish, WakeAllocators, ChainOfCall
<1>2. chain[p][1] \in Chained(p) /\ Chained(p) \subseteq Descs
  BY <1>0, <1>1, ChainType
<1>3. ~panic'
  BY <1>0, <1>1 DEF Owned
<1>4. TypeOK'
  BY <1>0, <1>1, <1>2 DEF TypeOK, Pcs
<1>5. chain'[p] = None /\ \A q \in Procs \ {p} : chain'[q] = chain[q]
  BY <1>0, <1>1 DEF TypeOK
<1>6. \A q \in Procs \ {p} : chain[q] # None => /\ chain[q][1] # chain[p][1]
                                                /\ chain[q][1] \in Descs
                                                /\ Chained(q) \cap Chained(p) = {}
  BY <1>0, <1>1, <1>2, ChainType DEF Owned
<1>7. ChainOfCall'
  BY <1>0, <1>1, <1>5, <1>6 DEF TypeOK, ChainOfCall
<1>8. \A q \in Procs \ {p} : Chained(q)' = Chained(q)
  BY <1>5 DEF Chained
<1>9. Owned'
  BY <1>0, <1>1, <1>2, <1>5, <1>6, <1>8 DEF Owned
<1>10. Firsts' = Firsts /\ \A q \in busy : q \in Procs \ {p}
  BY <1>0, <1>1, <1>5 DEF TypeOK, Firsts
<1>11. Queued' = Queued /\ Completed' = Completed
  BY <1>1 DEF Queued, Completed, Window
<1>12. OnePlace'
  BY <1>0, <1>1, <1>10, <1>11 DEF OnePlace, NoDup
<1>13. ServedWhenCompleted'
  BY <1>0, <1>1, <1>5, <1>10, <1>11 DEF ServedWhenCompleted
<1>14. AnsweredServed'
  BY <1>0, <1>1, <1>5 DEF AnsweredServed
<1> QED
  BY <1>3, <1>4, <1>7, <1>9, <1>12, <1>13, <1>14 DEF VirtioInv

\* The handler reports a request that has been carried out, and finds its process.
LEMMA IntrEntryInv ==
  ASSUME VirtioInv, IntrEntry
  PROVE  VirtioInv'
<1>0. TypeOK /\ ChainOfCall /\ Owned /\ OnePlace /\ ServedWhenCompleted
      /\ AnsweredServed /\ ~panic
  BY DEF VirtioInv
<1> DEFINE id == used[used_idx % RING]
           p == info[id]
<1>1. /\ used_idx \in 0..IDX-1 /\ usedIdx \in 0..IDX-1 /\ used_idx # usedIdx
      /\ used \in [Entries -> Descs] /\ NoDup(used, used_idx, usedIdx)
      /\ UNCHANGED <<free, chain, info, avail, availIdx, used, usedIdx, devIdx, inflight,
                     served, status, handler, irq>>
  BY <1>0 DEF IntrEntry, TypeOK, OnePlace, device
<1>2. /\ id \in Completed
      /\ Window(used, Inc(used_idx), usedIdx) = Completed \ {id}
      /\ NoDup(used, Inc(used_idx), usedIdx)
  BY <1>1, Pop DEF Completed
<1>3. /\ id \in Firsts /\ id \in Descs /\ p \in busy /\ p \in Procs /\ chain[p] # None
      /\ chain[p][1] = id /\ \A q \in busy : chain[q][1] = id => q = p
  BY <1>0, <1>2, FirstOf DEF OnePlace
<1>4. status[id] = "ok" /\ info[id] # None /\ p \in served
  BY <1>0, <1>2, <1>3, VirtioAssumption DEF ServedWhenCompleted
<1>5. /\ busy' = busy \ {p}
      /\ pc' = [pc EXCEPT ![p] = IF @ = "sleep_buf" THEN "check" ELSE @]
      /\ used_idx' = Inc(used_idx)
      /\ UNCHANGED panic
  BY <1>4 DEF IntrEntry
<1> HIDE DEF id, p
<1>6. TypeOK'
  <2>1. Inc(used_idx) \in 0..IDX-1
    BY <1>1, IncValue
  <2>2. pc' \in [Procs -> Pcs]
    BY <1>0, <1>3, <1>5 DEF TypeOK, Pcs
  <2> QED
    BY <1>0, <1>1, <1>5, <2>1, <2>2 DEF TypeOK
<1>7. ChainOfCall'
  BY <1>0, <1>1, <1>3, <1>5 DEF TypeOK, ChainOfCall
<1>8. Owned'
  <2>1. \A q \in Procs : Chained(q)' = Chained(q)
    BY <1>1 DEF Chained
  <2> QED
    BY <1>0, <1>1, <2>1 DEF Owned
<1>9. Completed' = Completed \ {id} /\ Queued' = Queued
  BY <1>1, <1>2, <1>5 DEF Completed, Queued, Window
<1>10. Firsts' = Firsts \ {id}
  BY <1>1, <1>3, <1>5 DEF Firsts
<1>11. OnePlace'
  <2>1. NoDup(avail, devIdx, availIdx)' /\ NoDup(used, used_idx, usedIdx)'
    BY <1>0, <1>1, <1>2, <1>5 DEF OnePlace, NoDup
  <2> QED
    BY <1>0, <1>1, <1>2, <1>9, <1>10, <2>1 DEF OnePlace
<1>12. ServedWhenCompleted'
  BY <1>0, <1>1, <1>3, <1>5, <1>9 DEF ServedWhenCompleted
<1>13. AnsweredServed'
  BY <1>0, <1>1, <1>4, <1>5 DEF AnsweredServed
<1> QED
  BY <1>0, <1>5, <1>6, <1>7, <1>8, <1>11, <1>12, <1>13 DEF VirtioInv

\* A request goes from the ring to the device.
LEMMA DeviceTakeInv ==
  ASSUME VirtioInv, DeviceTake
  PROVE  VirtioInv'
<1>0. TypeOK /\ ChainOfCall /\ Owned /\ OnePlace /\ ServedWhenCompleted
      /\ AnsweredServed /\ ~panic
  BY DEF VirtioInv
<1> DEFINE id == avail[devIdx % RING]
<1>1. /\ devIdx \in 0..IDX-1 /\ availIdx \in 0..IDX-1 /\ devIdx # availIdx
      /\ avail \in [Entries -> Descs] /\ NoDup(avail, devIdx, availIdx)
      /\ inflight' = inflight \cup {id} /\ devIdx' = Inc(devIdx)
      /\ UNCHANGED <<free, chain, info, avail, availIdx, used_idx, busy, used, usedIdx,
                     served, status, pc, handler, irq, panic>>
  BY <1>0 DEF DeviceTake, TypeOK, OnePlace, driver
<1>2. /\ id \in Queued
      /\ Window(avail, Inc(devIdx), availIdx) = Queued \ {id}
      /\ NoDup(avail, Inc(devIdx), availIdx)
  BY <1>1, Pop DEF Queued
<1>3. id \in Firsts /\ id \in Descs
  BY <1>0, <1>2, FirstOf DEF OnePlace
<1> HIDE DEF id
<1>4. TypeOK'
  <2>1. Inc(devIdx) \in 0..IDX-1
    BY <1>1, IncValue
  <2> QED
    BY <1>0, <1>1, <1>3, <2>1 DEF TypeOK
<1>5. ChainOfCall' /\ AnsweredServed' /\ ~panic'
  BY <1>0, <1>1 DEF ChainOfCall, AnsweredServed
<1>6. Owned'
  <2>1. \A q \in Procs : Chained(q)' = Chained(q)
    BY <1>1 DEF Chained
  <2> QED
    BY <1>0, <1>1, <2>1 DEF Owned
<1>7. Queued' = Queued \ {id} /\ Completed' = Completed /\ Firsts' = Firsts
  BY <1>1, <1>2 DEF Queued, Completed, Window, Firsts
<1>8. OnePlace'
  <2>1. NoDup(avail, devIdx, availIdx)' /\ NoDup(used, used_idx, usedIdx)'
    BY <1>0, <1>1, <1>2 DEF OnePlace, NoDup
  <2> QED
    BY <1>0, <1>1, <1>2, <1>7, <2>1 DEF OnePlace
<1>9. ServedWhenCompleted'
  BY <1>0, <1>1, <1>7 DEF ServedWhenCompleted
<1> QED
  BY <1>4, <1>5, <1>6, <1>8, <1>9 DEF VirtioInv

\* The device has carried a request out, and there is room to say so.
LEMMA DeviceCompleteInv ==
  ASSUME VirtioInv, NEW id \in Descs, DeviceComplete(id)
  PROVE  VirtioInv'
<1>0. TypeOK /\ ChainOfCall /\ Owned /\ OnePlace /\ ServedWhenCompleted
      /\ AnsweredServed /\ ~panic
  BY DEF VirtioInv
<1> DEFINE p == info[id]
<1>1. /\ used_idx \in 0..IDX-1 /\ usedIdx \in 0..IDX-1
      /\ used \in [Entries -> Descs] /\ NoDup(used, used_idx, usedIdx)
      /\ id \in inflight /\ inflight' = inflight \ {id}
      /\ served' = served \cup {p} /\ status' = [status EXCEPT ![id] = "ok"]
      /\ used' = [used EXCEPT ![usedIdx % RING] = id] /\ usedIdx' = Inc(usedIdx)
      /\ irq' = TRUE
      /\ UNCHANGED <<free, chain, info, avail, availIdx, used_idx, busy, devIdx, pc,
                     handler, panic>>
  BY <1>0 DEF DeviceComplete, TypeOK, OnePlace, driver
<1>2. /\ id \in Firsts /\ p \in busy /\ p \in Procs /\ chain[p] # None
      /\ chain[p][1] = id /\ \A q \in busy : chain[q][1] = id => q = p
      /\ id \notin Completed
  BY <1>0, <1>1, FirstOf DEF OnePlace
<1> HIDE DEF p
<1>3. Dist(used_idx, usedIdx) < RING
  <2>1. IsFiniteSet(Firsts) /\ Cardinality(Firsts) <= RING /\ Cardinality(Firsts) \in Nat
    BY <1>0, RequestsFit, FS_CardinalityType
  <2>2. IsFiniteSet(Firsts \ {id}) /\ Cardinality(Firsts \ {id}) = Cardinality(Firsts) - 1
    BY <1>2, <2>1, FS_RemoveElement
  <2>3. Window(used, used_idx, usedIdx) \subseteq Firsts \ {id}
    BY <1>0, <1>2 DEF OnePlace, Completed
  <2>4. Dist(used_idx, usedIdx) <= Cardinality(Firsts \ {id})
    BY <1>1, <2>2, <2>3, WindowSize
  <2>5. Dist(used_idx, usedIdx) \in Nat
    BY <1>1, DistValue, Sizes
  <2> QED
    BY <2>1, <2>2, <2>4, <2>5, Sizes
<1>4. Completed' = Completed \cup {id} /\ NoDup(used, used_idx, usedIdx)'
  <2>1. /\ Window(used', used_idx, Inc(usedIdx)) = Window(used, used_idx, usedIdx) \cup {id}
        /\ NoDup(used', used_idx, Inc(usedIdx))
    <3>1. id \notin Window(used, used_idx, usedIdx)
      BY <1>2 DEF Completed
    <3>2. used' = [used EXCEPT ![usedIdx % RING] = id]
      BY <1>1
    <3> QED
      BY <1>1, <1>3, <3>1, <3>2, Push
  <2> QED
    BY <1>1, <2>1 DEF Completed, Window, NoDup, Dist
<1>5. Queued' = Queued /\ Firsts' = Firsts
  BY <1>1 DEF Queued, Window, Firsts
<1>6. TypeOK'
  <2>1. Inc(usedIdx) \in 0..IDX-1
    BY <1>1, IncValue
  <2>2. used' \in [Entries -> Descs]
    BY <1>1
  <2> QED
    BY <1>0, <1>1, <1>2, <2>1, <2>2 DEF TypeOK
<1>7. ChainOfCall' /\ AnsweredServed' /\ ~panic'
  BY <1>0, <1>1, <1>2 DEF ChainOfCall, AnsweredServed
<1>8. Owned'
  <2>1. \A q \in Procs : Chained(q)' = Chained(q)
    BY <1>1 DEF Chained
  <2> QED
    BY <1>0, <1>1, <2>1 DEF Owned
<1>9. OnePlace'
  <2>1. NoDup(avail, devIdx, availIdx)'
    BY <1>0, <1>1 DEF OnePlace, NoDup
  <2> QED
    BY <1>0, <1>1, <1>4, <1>5, <2>1 DEF OnePlace
<1>10. ServedWhenCompleted'
  BY <1>0, <1>1, <1>2, <1>4 DEF ServedWhenCompleted, TypeOK
<1> QED
  BY <1>6, <1>7, <1>8, <1>9, <1>10 DEF VirtioInv

-----------------------------------------------------------------------------
\* virtio_disk_init() leaves all descriptors free and the rings empty.
LEMMA InitInv == Init => VirtioInv
<1> SUFFICES ASSUME Init PROVE VirtioInv
  OBVIOUS
<1>1. 0 \in 0..IDX-1 /\ 0 \in Descs
  BY Sizes DEF Descs
<1>2. TypeOK
  BY <1>1 DEF Init, TypeOK, Pcs
<1>3. ChainOfCall /\ AnsweredServed /\ ~panic
  BY DEF Init, ChainOfCall, AnsweredServed
<1>4. Owned
  BY DEF Init, Owned
<1>5. 0..Dist(0, 0)-1 = {}
  BY DEF Dist
<1>6. Queued = {} /\ Completed = {} /\ Firsts = {}
  BY <1>5 DEF Init, Queued, Completed, Window, Firsts
<1>7. OnePlace /\ ServedWhenCompleted
  BY <1>5, <1>6 DEF Init, OnePlace, NoDup, ServedWhenCompleted
<1> QED
  BY <1>2, <1>3, <1>4, <1>7 DEF VirtioInv

\* Every step of the processes, the handler and the device preserves it.
LEMMA NextInv == VirtioInv /\ [Next]_vars => VirtioInv'
<1> SUFFICES ASSUME VirtioInv, [Next]_vars PROVE VirtioInv'
  OBVIOUS
<1>1. CASE UNCHANGED vars
  <2>1. /\ UNCHANGED <<driver, device, panic>> /\ UNCHANGED <<pc, handler, irq>>
    BY <1>1 DEF vars, driver, device
  <2>2. pc \in [Procs -> Pcs] /\ handler \in {"idle", "loop"} /\ irq \in BOOLEAN
    BY DEF VirtioInv, TypeOK
  <2> QED
    BY <2>1, <2>2, MoveInv
<1>2. CASE Next
  BY <1>2, MovesInv, SubmitInv, FinishInv, IntrEntryInv, DeviceTakeInv, DeviceCompleteInv
     DEF Next, Step, Handler, Device
<1> QED
  BY <1>1, <1>2

\* VirtioInv holds in every state of every behaviour.
THEOREM VirtioInvariant == Spec => []VirtioInv
<1> QED
  BY InitInv, NextInv, PTL DEF Spec

\* No descriptor leaks, is freed twice or belongs to two requests.
THEOREM DescriptorsHaveOneOwner == Spec => []DescriptorsOwned
<1>1. VirtioInv => DescriptorsOwned
  <2> SUFFICES ASSUME VirtioInv PROVE DescriptorsOwned
    OBVIOUS
  <2>0. TypeOK /\ ChainOfCall /\ Owned
    BY DEF VirtioInv
  <2>1. ASSUME NEW p \in Procs, chain[p] # None PROVE Cardinality(Chained(p)) = 3
    <3> DEFINE a == chain[p][1]
               b == chain[p][2]
               c == chain[p][3]
    <3>1. Chained(p) = ({a} \cup {b}) \cup {c} /\ a # b /\ a # c /\ b # c
      BY <2>0, <2>1, ChainType DEF ChainOfCall
    <3>2. IsFiniteSet({a}) /\ Cardinality({a}) = 1
      BY FS_Singleton
    <3>3. IsFiniteSet({a} \cup {b}) /\ Cardinality({a} \cup {b}) = 2
      BY <3>1, <3>2, FS_AddElement
    <3> QED
      BY <3>1, <3>3, FS_AddElement
  <2>2. free \cup UNION {Chained(p) : p \in {q \in Procs : chain[q] # None}} = Descs
    <3>1. \A p \in Procs : chain[p] # None => Chained(p) \subseteq Descs
      BY <2>0, ChainType
    <3> QED
      BY <2>0, <3>1 DEF TypeOK, Owned
  <2> QED
    BY <2>0, <2>1, <2>2 DEF Owned, DescriptorsOwned
<1> QED
  BY <1>1, VirtioInvariant, PTL

\* virtio_disk_rw() returns only after the device carried its request out, for any
\* number of processes and descriptors: only the end of its loop lets it return,
\* and what the handler has answered there was served.
THEOREM ReturnedMeansServed == Spec => DoneMeansServed
<1> DEFINE Returned == \A p \in Procs : pc[p] # "idle" /\ pc'[p] = "idle" => p \in served
<1>1. ASSUME VirtioInv, [Next]_vars PROVE Returned \/ UNCHANGED vars
  <2> SUFFICES ASSUME Next, NEW p \in Procs, pc[p] # "idle", pc'[p] = "idle"
               PROVE  p \in served
    BY <1>1
  <2>0. TypeOK /\ ChainOfCall /\ AnsweredServed
    BY <1>1 DEF VirtioInv
  <2>1. pc \in [Procs -> Pcs]
    BY <2>0 DEF TypeOK
  <2>2. ASSUME NEW q \in Procs, Call(q) \/ Submit(q) \/ AllocFail(q) \/ Recheck(q) \/ KillWakes(q)
        PROVE  pc'[p] # "idle"
    BY <2>1, <2>2 DEF Call, Submit, AllocFail, Recheck, KillWakes, WakeAllocators
  <2>3. ASSUME NEW q \in Procs, Finish(q)
        PROVE  p \in served
    <3>1. p = q
      BY <2>1, <2>3 DEF Finish, WakeAllocators
    <3>2. chain[p] # None /\ p \notin busy
      BY <2>0, <2>3, <3>1 DEF Finish, ChainOfCall
    <3> QED
      BY <2>0, <3>2 DEF AnsweredServed
  <2>4. ASSUME Handler \/ Device
        PROVE  pc'[p] # "idle"
    BY <2>1, <2>4 DEF Handler, Intr, IntrEntry, IntrReturn, Device, DeviceTake, DeviceComplete
  <2> QED
    BY <2>2, <2>3, <2>4 DEF Next, Step
<1>2. VirtioInv /\ [Next]_vars => [Returned]_vars
  BY <1>1
<1> QED
  BY <1>2, VirtioInvariant, PTL DEF Spec, DoneMeansServed

\* None of the panics of virtio_disk.c is reachable.
THEOREM PanicFree == Spec => [](~panic)
<1>1. VirtioInv => ~panic
  BY DEF VirtioInv
<1> QED
  BY <1>1, VirtioInvariant, PTL
=============================================================================
