---------------------------- MODULE InodeProofs ----------------------------
(***************************************************************************)
(* Proofs about Inode: reference counts are exact, the inode table agrees  *)
(* with the inodes, and ireclaim() leaves no orphan, for any number of     *)
(* processes, inodes and entries, any set of calls and any disk image.     *)
(***************************************************************************)
EXTENDS Inode, Integers, WellFoundedInduction, FiniteSetTheorems, TLAPS

-----------------------------------------------------------------------------
(* Numbers *)

\* The natural numbers are well ordered.
LEMMA LeastExists ==
  ASSUME NEW S, S \subseteq Nat, S # {}
  PROVE  \E i \in S : \A j \in S : i <= j
<1>1. \E i \in S : \A j \in S : ~ (<<j, i>> \in OpToRel(<, Nat))
  BY NatLessThanWellFounded, WFMin, Zenon
<1>2. ASSUME NEW i \in S, NEW j \in S, ~ (<<j, i>> \in OpToRel(<, Nat))
      PROVE  i <= j
  <2>1. i \in Nat /\ j \in Nat
    OBVIOUS
  <2>2. ~ (j < i)
    BY <1>2, <2>1 DEF OpToRel
  <2> QED
    BY <2>1, <2>2
<1> QED
  BY <1>1, <1>2

-----------------------------------------------------------------------------
(* Counting pointers. *)

Places == Procs \X Holders
Count(f, s) == Cardinality({e \in Places : f[e] = s})

\* There are finitely many places for a pointer.
LEMMA PlacesFinite ==
  /\ IsFiniteSet(Places)
  /\ \A f, s : IsFiniteSet({e \in Places : f[e] = s}) /\ Count(f, s) \in Nat
<1>1. IsFiniteSet(Holders)
  <2>1. IsFiniteSet({"cwd"} \cup {"file"})
    BY FS_Singleton, FS_AddElement
  <2>2. IsFiniteSet(({"cwd"} \cup {"file"}) \cup {"cur"})
    BY <2>1, FS_AddElement
  <2>3. IsFiniteSet((({"cwd"} \cup {"file"}) \cup {"cur"}) \cup {"ip"})
    BY <2>2, FS_AddElement
  <2>4. IsFiniteSet(((({"cwd"} \cup {"file"}) \cup {"cur"}) \cup {"ip"}) \cup {"dp"})
    BY <2>3, FS_AddElement
  <2>5. IsFiniteSet((((({"cwd"} \cup {"file"}) \cup {"cur"}) \cup {"ip"})
                     \cup {"dp"}) \cup {"put"})
    BY <2>4, FS_AddElement
  <2>6. Holders = ((((({"cwd"} \cup {"file"}) \cup {"cur"}) \cup {"ip"})
                     \cup {"dp"}) \cup {"put"})
    BY DEF Holders
  <2> QED
    BY <2>5, <2>6
<1>2. IsFiniteSet(Places)
  BY <1>1, FS_Product, InodeAssumption DEF Places
<1>3. ASSUME NEW f, NEW s
      PROVE  IsFiniteSet({e \in Places : f[e] = s}) /\ Count(f, s) \in Nat
  <2>1. {e \in Places : f[e] = s} \in SUBSET Places
    OBVIOUS
  <2>2. IsFiniteSet({e \in Places : f[e] = s})
    BY <1>2, <2>1, FS_Subset
  <2> QED
    BY <2>2, FS_CardinalityType DEF Count
<1> QED
  BY <1>2, <1>3

\* One more place points to s.
LEMMA CountMore ==
  ASSUME NEW f, NEW g, NEW a \in Places, NEW s, f[a] # s, g[a] = s,
         \A e \in Places \ {a} : g[e] = f[e]
  PROVE  Count(g, s) = Count(f, s) + 1
<1> DEFINE S == {e \in Places : f[e] = s}
<1>1. {e \in Places : g[e] = s} = S \cup {a}
  OBVIOUS
<1>2. a \notin S
  OBVIOUS
<1>3. IsFiniteSet(S) /\ Count(f, s) = Cardinality(S)
  BY PlacesFinite DEF Count
<1> HIDE DEF S
<1>4. Cardinality(S \cup {a}) = Cardinality(S) + 1
  BY <1>2, <1>3, FS_AddElement
<1> QED
  BY <1>1, <1>3, <1>4 DEF Count

\* As many places point to s.
LEMMA CountSame ==
  ASSUME NEW f, NEW g, NEW s, \A e \in Places : g[e] = s <=> f[e] = s
  PROVE  Count(g, s) = Count(f, s)
<1>1. {e \in Places : g[e] = s} = {e \in Places : f[e] = s}
  OBVIOUS
<1> QED
  BY <1>1 DEF Count

\* Something that is pointed to has been counted.
LEMMA CountPositive ==
  ASSUME NEW f, NEW a \in Places, NEW s, f[a] = s
  PROVE  Count(f, s) > 0
<1>1. {e \in Places : f[e] = s} # {}
  OBVIOUS
<1> QED
  BY <1>1, PlacesFinite, FS_EmptySet DEF Count

\* A pointer is dropped, taken, or moved to an empty place.
Dropped(f, g, a) == g[a] = 0 /\ \A e \in Places \ {a} : g[e] = f[e]
Taken(f, g, a, s) == f[a] = 0 /\ g[a] = s /\ \A e \in Places \ {a} : g[e] = f[e]
Moved(f, g, a, b) ==
  /\ a # b /\ f[b] = 0 /\ g[a] = 0 /\ g[b] = f[a]
  /\ \A e \in Places \ {a, b} : g[e] = f[e]

LEMMA CountDropped ==
  ASSUME NEW f, NEW g, NEW a \in Places, Dropped(f, g, a), NEW s, s # 0
  PROVE  Count(g, s) = IF f[a] = s THEN Count(f, s) - 1 ELSE Count(f, s)
<1>1. CASE f[a] = s
  <2>1. Count(f, s) = Count(g, s) + 1
    <3>1. g[a] # s /\ \A e \in Places \ {a} : f[e] = g[e]
      BY DEF Dropped
    <3> QED
      BY <1>1, <3>1, CountMore
  <2>2. Count(f, s) \in Nat /\ Count(g, s) \in Nat
    BY PlacesFinite
  <2> QED
    BY <1>1, <2>1, <2>2
<1>2. CASE f[a] # s
  <2>1. \A e \in Places : g[e] = s <=> f[e] = s
    BY <1>2 DEF Dropped
  <2> QED
    BY <1>2, <2>1, CountSame
<1> QED
  BY <1>1, <1>2

LEMMA CountTaken ==
  ASSUME NEW f, NEW g, NEW a \in Places, NEW t, Taken(f, g, a, t), NEW s, s # 0
  PROVE  Count(g, s) = IF t = s THEN Count(f, s) + 1 ELSE Count(f, s)
<1>1. CASE t = s
  <2>1. f[a] # s /\ g[a] = s /\ \A e \in Places \ {a} : g[e] = f[e]
    BY <1>1 DEF Taken
  <2> QED
    BY <1>1, <2>1, CountMore
<1>2. CASE t # s
  <2>1. \A e \in Places : g[e] = s <=> f[e] = s
    BY <1>2 DEF Taken
  <2> QED
    BY <1>2, <2>1, CountSame
<1> QED
  BY <1>1, <1>2

LEMMA CountMoved ==
  ASSUME NEW f, NEW g, NEW a \in Places, NEW b \in Places, Moved(f, g, a, b),
         NEW s, s # 0
  PROVE  Count(g, s) = Count(f, s)
<1> DEFINE h == [e \in Places |-> IF e = a THEN 0 ELSE f[e]]
<1>1. Dropped(f, h, a) /\ h[b] = 0
  BY DEF Dropped, Moved
<1>2. Taken(h, g, b, f[a])
  BY DEF Taken, Moved
<1> HIDE DEF h
<1>3. Count(h, s) = IF f[a] = s THEN Count(f, s) - 1 ELSE Count(f, s)
  BY <1>1, CountDropped
<1>4. Count(g, s) = IF f[a] = s THEN Count(h, s) + 1 ELSE Count(h, s)
  BY <1>2, CountTaken
<1>5. Count(f, s) \in Nat
  BY PlacesFinite
<1> QED
  BY <1>3, <1>4, <1>5

-----------------------------------------------------------------------------
(* The inode table. *)

Tables == [Slots -> Entries]

\* What the lemmas on the table's operators assume.
Table(t, d) == t \in Tables /\ d \in [Inums -> Dinodes] /\ TableOK(t, d)

\* Table u has the inodes of t and keeps what t has read.
Keeps(t, u) ==
  \A s \in Slots : /\ u[s].ref = t[s].ref /\ u[s].inum = t[s].inum
                   /\ t[s].valid => u[s].valid

\* iget() finds the entry of an inode or takes an unused one.
LEMMA IgetTable ==
  ASSUME NEW t, NEW d, Table(t, d), NEW i \in Inums, CanGet(t, i),
         NEW s, s = IgetSlot(t, i), NEW u, u = iget(t, i)
  PROVE  /\ s \in Slots /\ Table(u, d)
         /\ u[s].ref = t[s].ref + 1 /\ u[s].inum = i
         /\ \A x \in Slots \ {s} : u[x] = t[x]
         /\ \A x \in Slots : t[x].valid => u[x].valid
<1> DEFINE S == IF Cached(t, i) # {} THEN Cached(t, i) ELSE Unused(t)
<1>1. S # {} /\ S \subseteq Slots
  BY DEF CanGet, Cached, Unused
<1>2. s \in S
  <2>1. S \subseteq Nat
    BY <1>1 DEF Slots
  <2>2. s = Min(S)
    BY DEF IgetSlot
  <2> HIDE DEF S
  <2>3. \E x \in S : \A y \in S : x <= y
    BY <1>1, <2>1, LeastExists
  <2> QED
    BY <2>2, <2>3 DEF Min
<1>3. s \in Slots /\ t \in Tables /\ t[s] \in Entries
  BY <1>1, <1>2 DEF Table, Tables
<1>4. i \in 1..NInodes /\ NInodes \in Nat
  BY InodeAssumption DEF Inums
<1>5. CASE t[s].ref > 0
  <2>1. t[s].inum = i
    BY <1>2, <1>5 DEF Cached, Unused
  <2>2. u = [t EXCEPT ![s].ref = @ + 1]
    BY <1>5 DEF iget
  <2>3. u \in Tables
    BY <1>3, <2>2 DEF Tables, Entries
  <2>4. /\ u[s].ref = t[s].ref + 1 /\ u[s].inum = t[s].inum /\ u[s].valid = t[s].valid
        /\ u[s].type = t[s].type /\ u[s].nlink = t[s].nlink
        /\ \A x \in Slots \ {s} : u[x] = t[x]
    BY <1>3, <2>2 DEF Tables, Entries
  <2>5. TableOK(u, d)
    BY <1>3, <1>5, <2>4 DEF TableOK, Table, Tables, Entries
  <2> QED
    BY <1>3, <2>1, <2>3, <2>4, <2>5 DEF Table
<1>6. CASE ~(t[s].ref > 0)
  <2>1. t[s].ref = 0 /\ t[s] = NoInode
    BY <1>3, <1>6 DEF Table, TableOK, Entries
  <2>2. \A x \in Slots : t[x].ref > 0 => t[x].inum # i
    BY <1>2, <1>6 DEF Cached
  <2>3. u = [t EXCEPT ![s].inum = i, ![s].ref = 1, ![s].valid = FALSE]
    BY <1>6 DEF iget
  <2>4. u \in Tables
    <3>1. u = [t EXCEPT ![s] = [inum |-> i, ref |-> 1, valid |-> FALSE,
                                type |-> t[s].type, nlink |-> t[s].nlink]]
      BY <1>3, <2>3 DEF Tables, Entries
    <3>2. t[s].type \in Types /\ t[s].nlink \in Int
      BY <1>3 DEF Entries
    <3>3. [inum |-> i, ref |-> 1, valid |-> FALSE, type |-> t[s].type,
           nlink |-> t[s].nlink] \in Entries
      BY <1>4, <3>2 DEF Entries
    <3> QED
      BY <1>3, <3>1, <3>3 DEF Tables
  <2>5. /\ u[s].ref = 1 /\ u[s].inum = i /\ u[s].valid = FALSE
        /\ \A x \in Slots \ {s} : u[x] = t[x]
    BY <1>3, <2>3 DEF Tables, Entries
  <2>6. TableOK(u, d)
    BY <1>3, <1>4, <2>2, <2>5 DEF TableOK, Table, Tables, Entries
  <2> QED
    BY <1>3, <2>1, <2>4, <2>5, <2>6 DEF Table, NoInode
<1> QED
  BY <1>5, <1>6

LEMMA IdupTable ==
  ASSUME NEW t, NEW d, Table(t, d), NEW s \in Slots, t[s].ref > 0,
         NEW u, u = idup(t, s)
  PROVE  /\ Table(u, d)
         /\ u[s].ref = t[s].ref + 1
         /\ \A x \in Slots \ {s} : u[x] = t[x]
         /\ \A x \in Slots : t[x].valid => u[x].valid
<1>1. t \in Tables /\ t[s] \in Entries
  BY DEF Table, Tables
<1>2. u = [t EXCEPT ![s].ref = @ + 1]
  BY DEF idup
<1>3. u \in Tables
  BY <1>1, <1>2 DEF Tables, Entries
<1>4. /\ u[s].ref = t[s].ref + 1 /\ u[s].inum = t[s].inum /\ u[s].valid = t[s].valid
      /\ u[s].type = t[s].type /\ u[s].nlink = t[s].nlink
      /\ \A x \in Slots \ {s} : u[x] = t[x]
  BY <1>1, <1>2 DEF Tables, Entries
<1>5. TableOK(u, d)
  BY <1>1, <1>4 DEF TableOK, Table, Tables, Entries
<1> QED
  BY <1>3, <1>4, <1>5 DEF Table

\* ip->ref--: the entry is forgotten with the last reference.
LEMMA UnrefTable ==
  ASSUME NEW t, NEW d, Table(t, d), NEW s \in Slots, t[s].ref > 0,
         NEW u, u = Unref(t, s)
  PROVE  /\ Table(u, d)
         /\ u[s].ref = t[s].ref - 1
         /\ \A x \in Slots \ {s} : u[x] = t[x]
         /\ \A x \in Slots : t[x].valid /\ u[x].ref > 0 => u[x].valid
<1>1. t \in Tables /\ t[s] \in Entries
  BY DEF Table, Tables
<1>2. CASE t[s].ref = 1
  <2>1. u = [t EXCEPT ![s] = NoInode]
    BY <1>2 DEF Unref
  <2>2. NoInode \in Entries
    BY InodeAssumption DEF NoInode, Entries, Types
  <2>3. u \in Tables /\ u[s] = NoInode /\ \A x \in Slots \ {s} : u[x] = t[x]
    BY <1>1, <2>1, <2>2 DEF Tables
  <2>4. TableOK(u, d)
    BY <1>1, <2>3 DEF TableOK, Table, Tables, Entries, NoInode
  <2> QED
    BY <1>1, <1>2, <2>3, <2>4 DEF Table, NoInode
<1>3. CASE t[s].ref # 1
  <2>1. u = [t EXCEPT ![s].ref = t[s].ref - 1]
    BY <1>3 DEF Unref
  <2>2. t[s].ref - 1 \in Nat \ {0}
    BY <1>1, <1>3 DEF Entries
  <2>3. u \in Tables
    BY <1>1, <2>1, <2>2 DEF Tables, Entries
  <2>4. /\ u[s].ref = t[s].ref - 1 /\ u[s].inum = t[s].inum /\ u[s].valid = t[s].valid
        /\ u[s].type = t[s].type /\ u[s].nlink = t[s].nlink
        /\ \A x \in Slots \ {s} : u[x] = t[x]
    BY <1>1, <2>1 DEF Tables, Entries
  <2>5. TableOK(u, d)
    BY <1>1, <2>2, <2>4 DEF TableOK, Table, Tables, Entries
  <2> QED
    BY <2>3, <2>4, <2>5 DEF Table
<1> QED
  BY <1>2, <1>3

\* ilock() reads an entry that is not valid; no free inode is locked.
LEMMA IlockTable ==
  ASSUME NEW t, Table(t, dinode), NEW s \in Slots, t[s].ref > 0,
         NEW u, u = ilock(t, s), u[s].type # "none"
  PROVE  /\ Table(u, dinode) /\ Keeps(t, u) /\ u[s].valid
         /\ \A x \in Slots \ {s} : u[x] = t[x]
<1>1. t \in Tables /\ t[s] \in Entries /\ t[s].inum \in Inums
  BY InodeAssumption DEF Table, Tables, TableOK, Entries, Inums
<1>2. CASE t[s].valid
  BY <1>2 DEF ilock, Keeps
<1>3. CASE ~t[s].valid
  <2> DEFINE e == dinode[t[s].inum]
  <2>1. e \in Dinodes
    BY <1>1 DEF Table
  <2>2. u = [t EXCEPT ![s].valid = TRUE, ![s].type = e.type, ![s].nlink = e.nlink]
    BY <1>3 DEF ilock
  <2>3. e.type \in Types /\ e.nlink \in Int
    BY <2>1 DEF Dinodes
  <2>4. u \in Tables
    <3>1. u = [t EXCEPT ![s] = [inum |-> t[s].inum, ref |-> t[s].ref, valid |-> TRUE,
                                type |-> e.type, nlink |-> e.nlink]]
      BY <1>1, <2>2 DEF Tables, Entries
    <3>2. t[s].inum \in 0..NInodes /\ t[s].ref \in Nat
      BY <1>1 DEF Entries
    <3>3. [inum |-> t[s].inum, ref |-> t[s].ref, valid |-> TRUE,
           type |-> e.type, nlink |-> e.nlink] \in Entries
      BY <2>3, <3>2 DEF Entries
    <3> QED
      BY <1>1, <3>1, <3>3 DEF Tables
  <2>5. /\ u[s].ref = t[s].ref /\ u[s].inum = t[s].inum /\ u[s].valid = TRUE
        /\ u[s].type = e.type /\ u[s].nlink = e.nlink
        /\ \A x \in Slots \ {s} : u[x] = t[x]
    BY <1>1, <2>2 DEF Tables, Entries
  <2>6. TableOK(u, dinode)
    BY <1>1, <2>5 DEF TableOK, Table, Tables, Entries
  <2> QED
    BY <2>4, <2>5, <2>6 DEF Table, Keeps
<1> QED
  BY <1>2, <1>3

\* The link count of a valid entry changes with that of its inode.
LEMMA NlinkTable ==
  ASSUME NEW t, NEW d, Table(t, d), NEW s \in Slots, t[s].ref > 0, t[s].valid,
         NEW n \in Int, NEW u, u = SetNlink(t, s, n),
         NEW e \in [Inums -> Dinodes],
         \A i \in Inums : e[i].type = d[i].type,
         \A i \in Inums : e[i].nlink = IF i = t[s].inum THEN n ELSE d[i].nlink
  PROVE  Table(u, e) /\ Keeps(t, u)
<1>1. t \in Tables /\ t[s] \in Entries /\ t[s].inum \in Inums
  BY InodeAssumption DEF Table, Tables, TableOK, Entries, Inums
<1>2. u = [t EXCEPT ![s].nlink = n]
  BY DEF SetNlink
<1>3. u \in Tables
  BY <1>1, <1>2 DEF Tables, Entries
<1>4. /\ u[s].ref = t[s].ref /\ u[s].inum = t[s].inum /\ u[s].valid = t[s].valid
      /\ u[s].type = t[s].type /\ u[s].nlink = n
      /\ \A x \in Slots \ {s} : u[x] = t[x]
  <2>1. u[s] = [t[s] EXCEPT !.nlink = n] /\ \A x \in Slots \ {s} : u[x] = t[x]
    BY <1>1, <1>2 DEF Tables
  <2> QED
    BY <1>1, <2>1 DEF Entries
<1>5. \A x \in Slots : t[x].valid => t[x].ref > 0 /\ t[x].inum \in Inums
  <2> SUFFICES ASSUME NEW x \in Slots, t[x].valid
               PROVE  t[x].ref > 0 /\ t[x].inum \in Inums
    OBVIOUS
  <2>1. t[x] \in Entries
    BY DEF Table, Tables
  <2>2. t[x].ref # 0
    BY DEF Table, TableOK, NoInode
  <2> QED
    BY <2>1, <2>2, InodeAssumption DEF Table, TableOK, Entries, Inums
<1>6. TableOK(u, e)
  <2>1. \A x \in Slots : IF u[x].ref = 0 THEN u[x] = NoInode ELSE u[x].inum # 0
    BY <1>4 DEF TableOK, Table
  <2>2. \A x, y \in Slots :
          (u[x].ref > 0 /\ u[y].ref > 0 /\ u[x].inum = u[y].inum) => x = y
    BY <1>4 DEF TableOK, Table
  <2>3. ASSUME NEW x \in Slots, u[x].valid
        PROVE  /\ u[x].type = e[u[x].inum].type
               /\ u[x].nlink = e[u[x].inum].nlink
               /\ u[x].type # "none"
    <3>1. CASE x = s
      BY <1>1, <1>4, <2>3, <3>1 DEF TableOK, Table
    <3>2. CASE x # s
      <4>1. u[x] = t[x] /\ t[x].valid
        BY <1>4, <2>3, <3>2
      <4>2. t[x].inum \in Inums /\ t[x].inum # t[s].inum
        BY <1>5, <3>2, <4>1 DEF TableOK, Table
      <4> QED
        BY <4>1, <4>2 DEF TableOK, Table
    <3> QED
      BY <3>1, <3>2
  <2> QED
    BY <2>1, <2>2, <2>3 DEF TableOK
<1> QED
  BY <1>3, <1>4, <1>6 DEF Table, Keeps

\* The table does not know of directory entries.
LEMMA EntsTable ==
  ASSUME NEW t, NEW d, Table(t, d), NEW e \in [Inums -> Dinodes],
         \A i \in Inums : e[i].type = d[i].type /\ e[i].nlink = d[i].nlink
  PROVE  Table(t, e)
<1>1. ASSUME NEW x \in Slots, t[x].valid
      PROVE  t[x].inum \in Inums
  <2>1. t[x] \in Entries /\ t[x].inum # 0
    BY <1>1 DEF Table, Tables, TableOK, NoInode
  <2> QED
    BY <2>1, InodeAssumption DEF Entries, Inums
<1> QED
  BY <1>1 DEF Table, TableOK

\* No valid entry is of an inode that is free.
LEMMA FreeTable ==
  ASSUME NEW t, NEW d, Table(t, d), NEW i \in Inums, d[i].type = "none",
         NEW e \in [Inums -> Dinodes], \A j \in Inums \ {i} : e[j] = d[j]
  PROVE  Table(t, e)
<1>1. ASSUME NEW s \in Slots, t[s].valid
      PROVE  t[s].inum \in Inums \ {i}
  <2>1. t[s] \in Entries /\ t[s].inum # 0 /\ t[s].inum # i
    BY <1>1 DEF Table, Tables, TableOK, NoInode
  <2> QED
    BY <2>1, InodeAssumption DEF Entries, Inums
<1>2. TableOK(t, e)
  BY <1>1 DEF Table, TableOK
<1> QED
  BY <1>2 DEF Table

\* The entry of a freed inode is no longer valid.
Invalid(t, s) == [t EXCEPT ![s].type = "none", ![s].valid = FALSE]

LEMMA FreedTable ==
  ASSUME NEW t, NEW d, Table(t, d), NEW s \in Slots, t[s].ref > 0,
         NEW u, u = Invalid(t, s), NEW e \in [Inums -> Dinodes],
         \A j \in Inums \ {t[s].inum} : e[j] = d[j]
  PROVE  /\ Table(u, e)
         /\ \A x \in Slots : u[x].ref = t[x].ref
         /\ \A x \in Slots \ {s} : u[x] = t[x]
<1>1. t \in Tables /\ t[s] \in Entries /\ t[s].inum \in Inums
  BY InodeAssumption DEF Table, Tables, TableOK, Entries, Inums
<1>2. u \in Tables
  BY <1>1 DEF Tables, Entries, Types, Invalid
<1>3. /\ u[s].ref = t[s].ref /\ u[s].inum = t[s].inum /\ u[s].valid = FALSE
      /\ \A x \in Slots \ {s} : u[x] = t[x]
  BY <1>1 DEF Tables, Entries, Invalid
<1>4. ASSUME NEW x \in Slots, u[x].valid
      PROVE  x # s /\ u[x] = t[x] /\ t[x].inum \in Inums \ {t[s].inum}
  <2>1. x # s /\ u[x] = t[x]
    BY <1>3, <1>4
  <2>2. t[x] \in Entries /\ t[x].inum # 0 /\ t[x].ref # 0
    BY <1>4, <2>1 DEF Table, Tables, TableOK, NoInode
  <2>3. t[x].inum # t[s].inum
    BY <2>1, <2>2 DEF Table, TableOK, Entries
  <2> QED
    BY <2>1, <2>2, <2>3, InodeAssumption DEF Entries, Inums
<1>5. TableOK(u, e)
  <2>1. \A x \in Slots : IF u[x].ref = 0 THEN u[x] = NoInode ELSE u[x].inum # 0
    BY <1>1, <1>3 DEF TableOK, Table
  <2>2. \A x, y \in Slots :
          (u[x].ref > 0 /\ u[y].ref > 0 /\ u[x].inum = u[y].inum) => x = y
    BY <1>3 DEF TableOK, Table
  <2>3. \A x \in Slots :
          u[x].valid => /\ u[x].type = e[u[x].inum].type
                        /\ u[x].nlink = e[u[x].inum].nlink
                        /\ u[x].type # "none"
    BY <1>4 DEF TableOK, Table
  <2> QED
    BY <2>1, <2>2, <2>3 DEF TableOK
<1> QED
  BY <1>2, <1>3, <1>5 DEF Table

-----------------------------------------------------------------------------
(* Steps of one process. *)

LEMMA SlotFacts ==
  /\ 0 \notin Slots /\ Slots \subseteq 0..NINODE /\ 0 \in 0..NINODE /\ Slots = (0..NINODE) \ {0}
  /\ 0 \notin Inums /\ Inums = (0..NInodes) \ {0}
BY InodeAssumption DEF Slots, Inums

\* What a process points to, by name.
LEMMA PtrView ==
  \A q \in Procs : /\ ptr[<<q, "cwd">>] = cwd[q] /\ ptr[<<q, "file">>] = file[q]
                   /\ ptr[<<q, "cur">>] = th[q].cur /\ ptr[<<q, "ip">>] = th[q].ip
                   /\ ptr[<<q, "dp">>] = th[q].dp /\ ptr[<<q, "put">>] = th[q].put
                   /\ ptr'[<<q, "cwd">>] = cwd'[q] /\ ptr'[<<q, "file">>] = file'[q]
                   /\ ptr'[<<q, "cur">>] = th'[q].cur /\ ptr'[<<q, "ip">>] = th'[q].ip
                   /\ ptr'[<<q, "dp">>] = th'[q].dp /\ ptr'[<<q, "put">>] = th'[q].put
BY DEF ptr, Holders

\* The pointers of the processes other than p stay.
OthersPoint(p) == \A q \in Procs \ {p}, h \in Holders : ptr'[<<q, h>>] = ptr[<<q, h>>]

LEMMA OthersStay ==
  ASSUME TypeOK, NEW p \in Procs, NEW r, th' = [th EXCEPT ![p] = r],
         \A q \in Procs \ {p} : cwd'[q] = cwd[q] /\ file'[q] = file[q]
  PROVE  OthersPoint(p) /\ th'[p] = r /\ \A q \in Procs \ {p} : th'[q] = th[q]
<1>1. th'[p] = r /\ \A q \in Procs \ {p} : th'[q] = th[q]
  BY DEF TypeOK
<1>2. ASSUME NEW q \in Procs \ {p}, NEW h \in Holders
      PROVE  ptr'[<<q, h>>] = ptr[<<q, h>>]
  <2>1. cwd'[q] = cwd[q] /\ file'[q] = file[q] /\ th'[q] = th[q]
    BY <1>1
  <2>2. \/ h = "cwd" \/ h = "file" \/ h = "cur" \/ h = "ip" \/ h = "dp" \/ h = "put"
    BY DEF Holders
  <2>3. /\ ptr[<<q, "cwd">>] = cwd[q] /\ ptr'[<<q, "cwd">>] = cwd'[q]
        /\ ptr[<<q, "file">>] = file[q] /\ ptr'[<<q, "file">>] = file'[q]
        /\ ptr[<<q, "cur">>] = th[q].cur /\ ptr'[<<q, "cur">>] = th'[q].cur
        /\ ptr[<<q, "ip">>] = th[q].ip /\ ptr'[<<q, "ip">>] = th'[q].ip
        /\ ptr[<<q, "dp">>] = th[q].dp /\ ptr'[<<q, "dp">>] = th'[q].dp
        /\ ptr[<<q, "put">>] = th[q].put /\ ptr'[<<q, "put">>] = th'[q].put
    BY PtrView
  <2> HIDE DEF ptr
  <2> QED
    BY <2>1, <2>2, <2>3
<1> QED
  BY <1>1, <1>2 DEF OthersPoint

\* The count of an entry follows the pointers to it.
LEMMA RefsAre ==
  /\ RefsCounted <=> \A s \in Slots : itable[s].ref = Count(ptr, s)
  /\ RefsCounted' <=> \A s \in Slots : itable'[s].ref = Count(ptr', s)
BY DEF RefsCounted, Pointers, Count, Places

\* The place of a pointer of p, and all others.
LEMMA PlacesOf ==
  ASSUME NEW p \in Procs, OthersPoint(p), NEW H \in SUBSET Holders,
         \A h \in Holders \ H : ptr'[<<p, h>>] = ptr[<<p, h>>]
  PROVE  /\ \A h \in H : <<p, h>> \in Places
         /\ \A e \in Places \ {<<p, h>> : h \in H} : ptr'[e] = ptr[e]
<1>1. \A h \in H : <<p, h>> \in Places
  BY DEF Places
<1>2. ASSUME NEW e \in Places \ {<<p, h>> : h \in H}
      PROVE  ptr'[e] = ptr[e]
  <2>1. PICK q \in Procs, h \in Holders : e = <<q, h>>
    BY DEF Places
  <2>2. q = p => h \notin H
    BY <2>1
  <2> QED
    BY <2>1, <2>2 DEF OthersPoint
<1> QED
  BY <1>1, <1>2

LEMMA RefsStay ==
  ASSUME RefsCounted, NEW p \in Procs, OthersPoint(p),
         \A h \in Holders : ptr'[<<p, h>>] = ptr[<<p, h>>],
         \A s \in Slots : itable'[s].ref = itable[s].ref
  PROVE  RefsCounted'
<1>1. \A e \in Places : ptr'[e] = ptr[e]
  BY DEF Places, OthersPoint
<1>2. \A s \in Slots : Count(ptr', s) = Count(ptr, s)
  BY <1>1, CountSame
<1> QED
  BY <1>2, RefsAre

LEMMA RefsMove ==
  ASSUME RefsCounted, NEW p \in Procs, OthersPoint(p),
         NEW x \in Holders, NEW y \in Holders, x # y,
         ptr[<<p, y>>] = 0, ptr'[<<p, x>>] = 0, ptr'[<<p, y>>] = ptr[<<p, x>>],
         \A h \in Holders \ {x, y} : ptr'[<<p, h>>] = ptr[<<p, h>>],
         \A s \in Slots : itable'[s].ref = itable[s].ref
  PROVE  RefsCounted'
<1>1. Moved(ptr, ptr', <<p, x>>, <<p, y>>) /\ <<p, x>> \in Places /\ <<p, y>> \in Places
  <2>1. /\ \A h \in {x, y} : <<p, h>> \in Places
        /\ \A e \in Places \ {<<p, h>> : h \in {x, y}} : ptr'[e] = ptr[e]
    BY PlacesOf
  <2> QED
    BY <2>1 DEF Moved
<1>2. \A s \in Slots : Count(ptr', s) = Count(ptr, s)
  BY <1>1, CountMoved, SlotFacts
<1> QED
  BY <1>2, RefsAre

LEMMA RefsTake ==
  ASSUME RefsCounted, NEW p \in Procs, OthersPoint(p),
         NEW x \in Holders, NEW s \in Slots,
         ptr[<<p, x>>] = 0, ptr'[<<p, x>>] = s,
         \A h \in Holders \ {x} : ptr'[<<p, h>>] = ptr[<<p, h>>],
         itable'[s].ref = itable[s].ref + 1,
         \A z \in Slots \ {s} : itable'[z].ref = itable[z].ref
  PROVE  RefsCounted'
<1>1. Taken(ptr, ptr', <<p, x>>, s) /\ <<p, x>> \in Places
  <2>1. /\ \A h \in {x} : <<p, h>> \in Places
        /\ \A e \in Places \ {<<p, h>> : h \in {x}} : ptr'[e] = ptr[e]
    BY PlacesOf
  <2> QED
    BY <2>1 DEF Taken
<1>2. \A z \in Slots : Count(ptr', z) = IF s = z THEN Count(ptr, z) + 1 ELSE Count(ptr, z)
  BY <1>1, CountTaken, SlotFacts
<1> QED
  BY <1>2, RefsAre

LEMMA RefsDrop ==
  ASSUME RefsCounted, NEW p \in Procs, OthersPoint(p),
         NEW x \in Holders, NEW s \in Slots,
         ptr[<<p, x>>] = s, ptr'[<<p, x>>] = 0,
         \A h \in Holders \ {x} : ptr'[<<p, h>>] = ptr[<<p, h>>],
         itable'[s].ref = itable[s].ref - 1,
         \A z \in Slots \ {s} : itable'[z].ref = itable[z].ref
  PROVE  RefsCounted'
<1>1. Dropped(ptr, ptr', <<p, x>>) /\ <<p, x>> \in Places
  <2>1. /\ \A h \in {x} : <<p, h>> \in Places
        /\ \A e \in Places \ {<<p, h>> : h \in {x}} : ptr'[e] = ptr[e]
    BY PlacesOf
  <2> QED
    BY <2>1 DEF Dropped
<1>2. \A z \in Slots : Count(ptr', z) = IF s = z THEN Count(ptr, z) - 1 ELSE Count(ptr, z)
  BY <1>1, CountDropped, SlotFacts
<1> QED
  BY <1>2, RefsAre

\* A pointer moves from x to y, and z takes one to s; z may be x.
LEMMA RefsMoveTake ==
  ASSUME RefsCounted, NEW p \in Procs, OthersPoint(p),
         NEW x \in Holders, NEW y \in Holders, x # y,
         NEW z \in Holders \ {y}, NEW s \in Slots,
         ptr[<<p, y>>] = 0, z # x => ptr[<<p, z>>] = 0 /\ ptr'[<<p, x>>] = 0,
         ptr'[<<p, y>>] = ptr[<<p, x>>], ptr'[<<p, z>>] = s,
         \A h \in Holders \ {x, y, z} : ptr'[<<p, h>>] = ptr[<<p, h>>],
         itable'[s].ref = itable[s].ref + 1,
         \A w \in Slots \ {s} : itable'[w].ref = itable[w].ref
  PROVE  RefsCounted'
<1> DEFINE m == [e \in Places |-> CASE e = <<p, x>> -> 0
                                    [] e = <<p, y>> -> ptr[<<p, x>>]
                                    [] OTHER -> ptr[e]]
<1>1. /\ <<p, x>> \in Places /\ <<p, y>> \in Places /\ <<p, z>> \in Places
      /\ <<p, x>> # <<p, y>> /\ <<p, z>> # <<p, y>>
      /\ x # z => <<p, x>> # <<p, z>>
      /\ \A e \in Places \ {<<p, x>>, <<p, y>>, <<p, z>>} : ptr'[e] = ptr[e]
  <2>1. /\ \A h \in {x, y, z} : <<p, h>> \in Places
        /\ \A e \in Places \ {<<p, h>> : h \in {x, y, z}} : ptr'[e] = ptr[e]
    BY PlacesOf
  <2> QED
    BY <2>1
<1>2. Moved(ptr, m, <<p, x>>, <<p, y>>)
  BY <1>1 DEF Moved
<1>3. Taken(m, ptr', <<p, z>>, s)
  BY <1>1 DEF Taken
<1> HIDE DEF m
<1>4. \A w \in Slots : Count(m, w) = Count(ptr, w)
  BY <1>1, <1>2, CountMoved, SlotFacts
<1>5. \A w \in Slots : Count(ptr', w) = IF s = w THEN Count(m, w) + 1 ELSE Count(m, w)
  BY <1>1, <1>3, CountTaken, SlotFacts
<1> QED
  BY <1>4, <1>5, RefsAre

\* chdir(): x moves to y, then z to x.
LEMMA RefsMoveMove ==
  ASSUME RefsCounted, NEW p \in Procs, OthersPoint(p),
         NEW x \in Holders, NEW y \in Holders, NEW z \in Holders,
         x # y, y # z, x # z, ptr[<<p, y>>] = 0,
         ptr'[<<p, y>>] = ptr[<<p, x>>], ptr'[<<p, x>>] = ptr[<<p, z>>],
         ptr'[<<p, z>>] = 0,
         \A h \in Holders \ {x, y, z} : ptr'[<<p, h>>] = ptr[<<p, h>>],
         \A w \in Slots : itable'[w].ref = itable[w].ref
  PROVE  RefsCounted'
<1> DEFINE m == [e \in Places |-> CASE e = <<p, x>> -> 0
                                    [] e = <<p, y>> -> ptr[<<p, x>>]
                                    [] OTHER -> ptr[e]]
<1>1. /\ <<p, x>> \in Places /\ <<p, y>> \in Places /\ <<p, z>> \in Places
      /\ <<p, x>> # <<p, y>> /\ <<p, z>> # <<p, y>> /\ <<p, x>> # <<p, z>>
      /\ \A e \in Places \ {<<p, x>>, <<p, y>>, <<p, z>>} : ptr'[e] = ptr[e]
  <2>1. /\ \A h \in {x, y, z} : <<p, h>> \in Places
        /\ \A e \in Places \ {<<p, h>> : h \in {x, y, z}} : ptr'[e] = ptr[e]
    BY PlacesOf
  <2> QED
    BY <2>1
<1>2. Moved(ptr, m, <<p, x>>, <<p, y>>)
  BY <1>1 DEF Moved
<1>3. Moved(m, ptr', <<p, z>>, <<p, x>>)
  BY <1>1 DEF Moved
<1> HIDE DEF m
<1>4. \A w \in Slots : Count(m, w) = Count(ptr, w)
  BY <1>1, <1>2, CountMoved, SlotFacts
<1>5. \A w \in Slots : Count(ptr', w) = Count(m, w)
  BY <1>1, <1>3, CountMoved, SlotFacts
<1> QED
  BY <1>4, <1>5, RefsAre

-----------------------------------------------------------------------------
(* Steps and the invariant. *)

\* The state in which processes run.
Up == InodeInv /\ boot = 0 /\ ~Panicked

\* Whoever points to an entry keeps it in use.
LEMMA PointerRef ==
  ASSUME Up, NEW q \in Procs, NEW h \in Holders, NEW s \in Slots, ptr[<<q, h>>] = s
  PROVE  itable[s].ref > 0 /\ itable[s].inum \in Inums
<1>1. itable[s].ref > 0
  <2>1. <<q, h>> \in Places
    BY DEF Places
  <2>2. Count(ptr, s) > 0
    BY <2>1, CountPositive
  <2> QED
    BY <2>2, RefsAre DEF Up, InodeInv
<1>2. itable[s] \in Entries
  BY DEF Up, InodeInv, TypeOK
<1> QED
  BY <1>1, <1>2, SlotFacts DEF Up, InodeInv, TableOK, Entries

\* What a process knows of the entries it points to.
LEMMA Mine ==
  ASSUME Up, NEW p \in Procs
  PROVE  /\ th[p] \in Threads /\ FrameOK(th[p]) /\ Table(itable, dinode)
         /\ cwd[p] \in Slots /\ itable[cwd[p]].ref > 0
         /\ \A s \in {file[p], th[p].cur, th[p].ip, th[p].dp, th[p].put} :
              s # 0 => s \in Slots /\ itable[s].ref > 0 /\ itable[s].inum \in Inums
<1>1. /\ th[p] \in Threads /\ FrameOK(th[p]) /\ Table(itable, dinode)
      /\ cwd[p] \in Slots /\ file[p] \in 0..NINODE
  BY DEF Up, InodeInv, TypeOK, Table, Tables
<1>2. {file[p], th[p].cur, th[p].ip, th[p].dp, th[p].put} \subseteq 0..NINODE
  BY <1>1 DEF Threads
<1>3. itable[cwd[p]].ref > 0
  BY <1>1, PointerRef, PtrView DEF Holders
<1>4. ASSUME NEW s \in {file[p], th[p].cur, th[p].ip, th[p].dp, th[p].put}, s # 0
      PROVE  s \in Slots /\ itable[s].ref > 0 /\ itable[s].inum \in Inums
  <2>1. s \in Slots
    BY <1>2, <1>4, SlotFacts
  <2>2. \E h \in Holders : ptr[<<p, h>>] = s
    BY PtrView DEF Holders
  <2> QED
    BY <2>1, <2>2, PointerRef
<1> QED
  BY <1>1, <1>3, <1>4

\* The locks that the others hold.
LEMMA OtherLocks ==
  ASSUME Up, NEW p \in Procs, NEW r, th' = [th EXCEPT ![p] = r], OthersPoint(p),
         RefsCounted', NEW s \in Slots, lock[s] \notin {Free, p}
  PROVE  itable'[s].ref > 0
<1>1. PICK q \in Procs : lock[s] = q /\ q # p
  BY DEF Up, InodeInv, TypeOK
<1>2. s \in {Locked(th[q]), Freeing(th[q])}
  BY <1>1 DEF Up, InodeInv, LocksHeld
<1>3. s \in {th[q].dp, th[q].ip, th[q].put}
  BY <1>2, SlotFacts DEF Locked, Freeing
<1>4. PICK h \in Holders : ptr[<<q, h>>] = s
  BY <1>3, PtrView DEF Holders
<1>5. ptr'[<<q, h>>] = s /\ <<q, h>> \in Places
  BY <1>1, <1>4 DEF OthersPoint, Places
<1>6. Count(ptr', s) > 0
  BY <1>5, CountPositive
<1> QED
  BY <1>6, RefsAre

\* The locks of p after a step that makes its thread r.
LockStep(p, r) ==
  /\ lock' \in [Slots -> Procs \cup {Free}]
  /\ \A s \in Slots :
       IF s \in {Locked(r), Freeing(r)}
       THEN lock'[s] = p /\ lock[s] \in {Free, p} /\ itable'[s].valid
       ELSE lock'[s] = IF lock[s] = p THEN Free ELSE lock[s]
  /\ Freeing(r) # 0 => Freeing(r) # Locked(r)

\* What the others have locked stays valid.
ValidStays(p) ==
  \A s \in Slots :
    (lock[s] \notin {Free, p} /\ itable[s].valid /\ itable'[s].ref > 0)
       => itable'[s].valid

\* A step of p that leaves everything in order.
LEMMA StepKeeps ==
  ASSUME Up, NEW p \in Procs, NEW r \in Threads, th' = [th EXCEPT ![p] = r],
         OthersPoint(p), r.pc # "panic", Elements(r.new) \in Seq(Elems), FrameOK(r),
         boot' = boot, disk' \in [Inums -> Dinodes], outstanding' \subseteq Procs,
         cwd' \in [Procs -> Slots], file' \in [Procs -> 0..NINODE],
         Table(itable', dinode'), RefsCounted', LockStep(p, r), ValidStays(p)
  PROVE  InodeInv'
<1>1. th'[p] = r /\ \A q \in Procs \ {p} : th'[q] = th[q]
  BY DEF Up, InodeInv, TypeOK
<1>2. TypeOK'
  <2>1. th' \in [Procs -> Threads] /\ \A q \in Procs : Elements(th'[q].new) \in Seq(Elems)
    BY <1>1 DEF Up, InodeInv, TypeOK
  <2>2. boot' \in 0..NInodes
    BY DEF Up, InodeInv, TypeOK
  <2> QED
    BY <2>1, <2>2 DEF TypeOK, Table, Tables, LockStep
<1>3. BootOK' /\ TableOK(itable', dinode')
  BY DEF BootOK, Up, Table
<1>4. \A q \in Procs : FrameOK(th'[q])
  BY <1>1 DEF Up, InodeInv
<1>5. LocksHeld'
  <2>1. ASSUME NEW q \in Procs, NEW s \in Slots
        PROVE  lock'[s] = q <=> s \in {Locked(th'[q]), Freeing(th'[q])}
    <3>1. lock[s] = q <=> s \in {Locked(th[q]), Freeing(th[q])}
      BY DEF Up, InodeInv, LocksHeld
    <3>2. q # Free /\ p # Free
      BY InodeAssumption
    <3>3. CASE q = p
      BY <1>1, <3>2, <3>3 DEF LockStep
    <3>4. CASE q # p
      BY <1>1, <3>1, <3>2, <3>4 DEF LockStep
    <3> QED
      BY <3>3, <3>4
  <2>2. \A q \in Procs : Freeing(th'[q]) # 0 => Freeing(th'[q]) # Locked(th'[q])
    BY <1>1 DEF Up, InodeInv, LocksHeld, LockStep
  <2>3. ASSUME NEW s \in Slots, lock'[s] # Free
        PROVE  itable'[s].valid
    <3>1. CASE s \in {Locked(r), Freeing(r)}
      BY <3>1 DEF LockStep
    <3>2. CASE s \notin {Locked(r), Freeing(r)}
      <4>1. lock[s] \notin {Free, p}
        BY <2>3, <3>2 DEF LockStep
      <4>2. itable[s].valid /\ itable'[s].ref > 0
        BY <4>1, OtherLocks DEF Up, InodeInv, LocksHeld
      <4> QED
        BY <4>1, <4>2 DEF ValidStays
    <3> QED
      BY <3>1, <3>2
  <2> QED
    BY <2>1, <2>2, <2>3 DEF LocksHeld
<1> QED
  BY <1>2, <1>3, <1>4, <1>5 DEF InodeInv

LEMMA IdleThread == Idle \in Threads /\ Idle.new = <<>> /\ FrameOK(Idle)
<1>1. <<>> \in Seq(Elems) /\ <<>> \in Seq(Elems \cup {"/"})
  OBVIOUS
<1>2. "." \in Elems /\ "none" \in Ops /\ "idle" \in Pcs
  BY DEF Elems, Ops, Pcs
<1>3. 0 \in 0..NINODE /\ 0 \in 0..NInodes
  BY InodeAssumption
<1>4. Idle \in Threads
  BY <1>1, <1>2, <1>3 DEF Idle, Threads
<1>5. FrameOK(Idle)
  BY DEF Idle, FrameOK, OpsAt, CurPcs, DpPcs, IpPcs
<1> QED
  BY <1>4, <1>5 DEF Idle

\* A panic: the machine stops where it is.
LEMMA PanicKeeps ==
  ASSUME Up, NEW p \in Procs, Panic(p), outstanding' \subseteq Procs,
         UNCHANGED <<dinode, disk, itable, lock, cwd, file, boot>>
  PROVE  InodeInv'
<1> DEFINE r == [Idle EXCEPT !.pc = "panic"]
<1>1. r \in Threads /\ r.pc = "panic" /\ r.new = <<>>
  BY IdleThread DEF Threads, Pcs
<1>2. th' = [th EXCEPT ![p] = r]
  BY DEF Panic, Become
<1> HIDE DEF r
<1>3. th'[p] = r /\ \A q \in Procs \ {p} : th'[q] = th[q]
  BY <1>2 DEF Up, InodeInv, TypeOK
<1>4. Panicked'
  BY <1>1, <1>3 DEF Panicked
<1>5. Elements(r.new) \in Seq(Elems)
  BY <1>1 DEF Elements, Absolute
<1>6. TypeOK'
  BY <1>1, <1>2, <1>3, <1>5 DEF Up, InodeInv, TypeOK
<1> QED
  BY <1>4, <1>6 DEF Up, InodeInv, BootOK, TableOK

-----------------------------------------------------------------------------
(* The actions. *)

\* What p knows of the locks.
Locks(p) ==
  /\ lock \in [Slots -> Procs \cup {Free}] /\ p # Free
  /\ \A s \in Slots : lock[s] = p <=> s \in {Locked(th[p]), Freeing(th[p])}
  /\ Freeing(th[p]) # 0 => Freeing(th[p]) # Locked(th[p])
  /\ \A s \in Slots : lock[s] # Free => itable[s].valid

LEMMA LocksMine ==
  ASSUME Up, NEW p \in Procs
  PROVE  Locks(p)
BY InodeAssumption DEF Up, InodeInv, TypeOK, LocksHeld, Locks

\* A link count is set in a valid entry and in the inode.
LEMMA NlinkStep ==
  ASSUME NEW t, Table(t, dinode), NEW s \in Slots, t[s].ref > 0, t[s].valid,
         NEW n, n \in Int \/ n = t[s].nlink - 1 \/ n = t[s].nlink + 1,
         itable' = SetNlink(t, s, n),
         dinode' = [dinode EXCEPT ![t[s].inum].nlink = n]
  PROVE  Table(itable', dinode') /\ Keeps(t, itable')
<1>1. t[s] \in Entries /\ t[s].inum \in Inums
  BY InodeAssumption DEF Table, Tables, TableOK, Entries, Inums
<1>2. n \in Int
  BY <1>1 DEF Entries
<1> DEFINE i == t[s].inum
<1>3. dinode \in [Inums -> Dinodes] /\ dinode[i] \in Dinodes
  BY <1>1 DEF Table
<1>4. /\ dinode' \in [Inums -> Dinodes]
      /\ dinode'[i].type = dinode[i].type /\ dinode'[i].nlink = n
      /\ \A j \in Inums \ {i} : dinode'[j] = dinode[j]
  BY <1>1, <1>2, <1>3 DEF Dinodes
<1>5. \A j \in Inums : dinode'[j].type = dinode[j].type
  BY <1>4
<1>6. \A j \in Inums : dinode'[j].nlink = IF j = t[s].inum THEN n ELSE dinode[j].nlink
  BY <1>4
<1>7. ASSUME NEW u, u = SetNlink(t, s, n), NEW e, e = dinode'
      PROVE  Table(u, e) /\ Keeps(t, u)
  <2>1. e \in [Inums -> Dinodes]
    BY <1>4, <1>7
  <2>2. \A j \in Inums : e[j].type = dinode[j].type
    BY <1>5, <1>7
  <2>3. \A j \in Inums : e[j].nlink = IF j = t[s].inum THEN n ELSE dinode[j].nlink
    BY <1>6, <1>7
  <2> QED
    BY ONLY <1>2, <1>7, <2>1, <2>2, <2>3, NlinkTable, Table(t, dinode), t[s].ref > 0, t[s].valid, s \in Slots
<1> QED
  BY <1>7

\* An entry of a directory and its link count are written.
LEMMA DirStep ==
  ASSUME NEW t, Table(t, dinode), NEW s \in Slots, t[s].ref > 0, t[s].valid,
         t[s].inum \in Inums, NEW n \in Int, NEW name \in Elems, NEW i \in 0..NInodes,
         itable' = SetNlink(t, s, n),
         dinode' = [dinode EXCEPT ![t[s].inum].ents[name] = i, ![t[s].inum].nlink = n]
  PROVE  Table(itable', dinode') /\ Keeps(t, itable')
<1> DEFINE j == t[s].inum
<1>1. dinode \in [Inums -> Dinodes] /\ dinode[j] \in Dinodes
  BY DEF Table
<1>2. dinode'[j].type = dinode[j].type /\ dinode'[j].nlink = n
  BY <1>1 DEF Dinodes
<1>3. \A x \in Inums \ {j} : dinode'[x] = dinode[x]
  BY <1>1
<1>4. dinode' \in [Inums -> Dinodes]
  BY <1>1 DEF Dinodes
<1>5. /\ dinode' \in [Inums -> Dinodes]
      /\ dinode'[j].type = dinode[j].type /\ dinode'[j].nlink = n
      /\ \A x \in Inums \ {j} : dinode'[x] = dinode[x]
  BY <1>2, <1>3, <1>4
<1>6. ASSUME NEW u, u = SetNlink(t, s, n), NEW e, e = dinode'
      PROVE  Table(u, e) /\ Keeps(t, u)
  <2>1. e \in [Inums -> Dinodes]
    BY <1>5, <1>6
  <2>2. \A x \in Inums : e[x].type = dinode[x].type
    BY <1>5, <1>6
  <2>3. \A x \in Inums : e[x].nlink = IF x = t[s].inum THEN n ELSE dinode[x].nlink
    BY <1>5, <1>6
  <2> QED
    BY ONLY <1>6, <2>1, <2>2, <2>3, NlinkTable, Table(t, dinode), t[s].ref > 0, t[s].valid,
            s \in Slots, n \in Int
<1> QED
  BY <1>6

\* An inode is written: its type stays.
LEMMA MadeStep ==
  ASSUME NEW t, Table(t, dinode), NEW s \in Slots, t[s].ref > 0, t[s].valid,
         NEW m \in Dinodes, m.type = t[s].type,
         itable' = SetNlink(t, s, m.nlink),
         dinode' = [dinode EXCEPT ![t[s].inum] = m]
  PROVE  Table(itable', dinode') /\ Keeps(t, itable')
<1>1. t[s] \in Entries /\ t[s].inum \in Inums /\ dinode \in [Inums -> Dinodes]
  BY InodeAssumption DEF Table, Tables, TableOK, Entries, Inums
<1>2. m.nlink \in Int /\ dinode[t[s].inum].type = t[s].type
  BY <1>1 DEF Dinodes, Table, TableOK
<1>3. /\ dinode' \in [Inums -> Dinodes]
      /\ dinode'[t[s].inum] = m
      /\ \A x \in Inums \ {t[s].inum} : dinode'[x] = dinode[x]
  BY <1>1
<1>4. ASSUME NEW u, u = SetNlink(t, s, m.nlink), NEW e, e = dinode', NEW n, n = m.nlink
      PROVE  Table(u, e) /\ Keeps(t, u)
  <2>1. e \in [Inums -> Dinodes] /\ n \in Int
    BY <1>2, <1>3, <1>4
  <2>2. \A x \in Inums : e[x].type = dinode[x].type
    BY <1>2, <1>3, <1>4
  <2>3. \A x \in Inums : e[x].nlink = IF x = t[s].inum THEN n ELSE dinode[x].nlink
    BY <1>3, <1>4
  <2> QED
    BY ONLY <1>4, <2>1, <2>2, <2>3, NlinkTable, Table(t, dinode), t[s].ref > 0, t[s].valid,
            s \in Slots
<1> QED
  BY <1>4

\* An inode is written, with an entry in a directory.
LEMMA CreateStep ==
  ASSUME NEW t, Table(t, dinode), NEW s \in Slots, t[s].ref > 0, t[s].valid,
         NEW z \in Slots, z # s, t[z].ref > 0, t[z].valid,
         NEW m \in Dinodes, m.type = t[s].type, m.nlink = 1,
         NEW name \in Elems, NEW n \in Int,
         itable' = SetNlink(SetNlink(t, s, 1), z, n),
         dinode' = [dinode EXCEPT ![t[s].inum] = m, ![t[z].inum].ents[name] = t[s].inum,
                                  ![t[z].inum].nlink = n]
  PROVE  Table(itable', dinode') /\ Keeps(t, itable')
<1> DEFINE i == t[s].inum
           j == t[z].inum
<1>1. /\ t[s] \in Entries /\ i \in Inums /\ j \in Inums /\ i # j
      /\ dinode \in [Inums -> Dinodes] /\ i \in 0..NInodes
  BY InodeAssumption DEF Table, Tables, TableOK, Entries, Inums
<1>2. dinode[i].type = m.type /\ dinode[j] \in Dinodes
  BY <1>1 DEF Table, TableOK
<1>3. dinode'[j].type = dinode[j].type /\ dinode'[j].nlink = n
  BY <1>1, <1>2 DEF Dinodes
<1>4. dinode'[i] = m /\ \A x \in Inums \ {i, j} : dinode'[x] = dinode[x]
  BY <1>1, <1>2 DEF Dinodes
<1>5. dinode' \in [Inums -> Dinodes]
  BY <1>1, <1>2 DEF Dinodes
<1>6. ASSUME NEW d, d = [dinode EXCEPT ![i] = m], NEW e, e = dinode',
             NEW v, v = SetNlink(t, s, 1), NEW u, u = SetNlink(v, z, n)
      PROVE  Table(u, e) /\ Keeps(t, u)
  <2>1. d \in [Inums -> Dinodes] /\ d[i] = m /\ \A x \in Inums \ {i} : d[x] = dinode[x]
    BY <1>1, <1>6
  <2>2. \A x \in Inums : d[x].type = dinode[x].type
    BY <1>2, <2>1
  <2>3. \A x \in Inums : d[x].nlink = IF x = t[s].inum THEN 1 ELSE dinode[x].nlink
    BY <2>1
  <2>4. 1 \in Int
    OBVIOUS
  <2>5. Table(v, d) /\ Keeps(t, v)
    BY ONLY v = SetNlink(t, s, 1), <2>1, <2>2, <2>3, <2>4, NlinkTable, Table(t, dinode), t[s].ref > 0,
            t[s].valid, s \in Slots
  <2>6. v[z].ref > 0 /\ v[z].valid /\ v[z].inum = j
    BY <2>5 DEF Keeps
  <2>7. /\ e \in [Inums -> Dinodes] /\ e[i] = m /\ d[i] = m /\ d[j] = dinode[j]
        /\ e[j].type = dinode[j].type /\ e[j].nlink = n
        /\ \A x \in Inums \ {i, j} : e[x] = dinode[x] /\ d[x] = dinode[x]
    <3>1. e = dinode'
      BY <1>6
    <3> QED
      BY <1>1, <1>3, <1>4, <1>5, <2>1, <3>1
  <2>8. /\ \A x \in Inums : e[x].type = d[x].type
        /\ \A x \in Inums : e[x].nlink = IF x = v[z].inum THEN n ELSE d[x].nlink
    <3> HIDE DEF i, j
    <3> QED
      BY ONLY <1>1, <2>6, <2>7
  <2>9. Table(u, e) /\ Keeps(v, u)
    BY ONLY u = SetNlink(v, z, n), <2>5, <2>6, <2>7, <2>8, NlinkTable, z \in Slots, n \in Int
  <2> QED
    BY <2>5, <2>9 DEF Keeps
<1> QED
  BY <1>6

\* An inode is freed.
LEMMA FreedStep ==
  ASSUME Table(itable, dinode), NEW s \in Slots, itable[s].ref > 0,
         itable' = Invalid(itable, s),
         dinode' = [dinode EXCEPT ![itable[s].inum] = Freed]
  PROVE  /\ Table(itable', dinode')
         /\ \A x \in Slots : itable'[x].ref = itable[x].ref
         /\ \A x \in Slots \ {s} : itable'[x] = itable[x]
<1>1. itable[s].inum \in Inums /\ dinode \in [Inums -> Dinodes]
  BY InodeAssumption DEF Table, Tables, TableOK, Entries, Inums
<1>2. Freed \in Dinodes
  BY InodeAssumption DEF Freed, Dinodes, NoDir, Types
<1>3. /\ dinode' \in [Inums -> Dinodes]
      /\ \A j \in Inums \ {itable[s].inum} : dinode'[j] = dinode[j]
  BY <1>1, <1>2
<1>4. ASSUME NEW u, u = Invalid(itable, s), NEW e, e = dinode'
      PROVE  /\ Table(u, e)
             /\ \A x \in Slots : u[x].ref = itable[x].ref
             /\ \A x \in Slots \ {s} : u[x] = itable[x]
  <2>1. e \in [Inums -> Dinodes] /\ \A j \in Inums \ {itable[s].inum} : e[j] = dinode[j]
    BY <1>3, <1>4
  <2> QED
    BY ONLY <1>4, <2>1, FreedTable, Table(itable, dinode), itable[s].ref > 0, s \in Slots
<1> QED
  BY <1>4

\* What p has locked it points to.
LEMMA OwnLock ==
  ASSUME NEW p \in Procs, NEW r, th'[p] = r, RefsCounted', NEW s \in Slots, s = Locked(r)
  PROVE  itable'[s].ref > 0
<1>1. s \in {r.dp, r.ip}
  BY SlotFacts DEF Locked
<1>2. PICK h \in Holders : ptr'[<<p, h>>] = s
  BY <1>1, PtrView DEF Holders
<1>3. <<p, h>> \in Places
  BY DEF Places
<1>4. Count(ptr', s) > 0
  BY <1>2, <1>3, CountPositive
<1> QED
  BY <1>4, RefsAre

\* end_op(): the frame is empty.
LEMMA EndOpKeeps ==
  ASSUME Up, NEW p \in Procs, EndOp(p)
  PROVE  InodeInv'
<1> DEFINE t == th[p]
<1>1. /\ t \in Threads /\ FrameOK(t) /\ Table(itable, dinode)
      /\ cwd[p] \in Slots /\ itable[cwd[p]].ref > 0
      /\ \A s \in {file[p], t.cur, t.ip, t.dp, t.put} :
           s # 0 => s \in Slots /\ itable[s].ref > 0 /\ itable[s].inum \in Inums
  BY Mine
<1>2. /\ t.pc = "end" /\ t.put = 0 /\ t.stage = "test"
      /\ t.cur = 0 /\ t.ip = 0 /\ t.dp = 0
  <2>1. /\ t.pc = "end" /\ t.put = 0 /\ t.stage = "test"
        /\ t.cur = 0
        /\ t.ip = 0
        /\ t.dp = 0
    BY <1>1 DEF EndOp, Running, Putting, FrameOK, OpsAt, CurPcs, DpPcs, IpPcs, CreateOps
  <2> QED
    BY <1>1, <2>1
<1>3. Locks(p)
  BY LocksMine
<1>4. InodeInv'
  <2> DEFINE r == Idle
  <2>1. /\ th' = [th EXCEPT ![p] = r] /\ boot' = boot
        /\ cwd' = cwd /\ file' = file /\ disk' \in {disk, dinode} /\ outstanding' = outstanding \ {p}
        /\ itable' = itable
        /\ dinode' = dinode
        /\ lock' = lock
    BY <1>1, <1>2 DEF EndOp, Become, FsOnly
  <2>2. r \in Threads
    BY <1>1, <1>2, SlotFacts, IdleThread DEF Threads, Pcs
  <2>3. /\ r.pc = "idle" /\ r.op = "none" /\ r.new = <<>>
        /\ r.cur = 0 /\ r.ip = 0 /\ r.dp = 0
        /\ r.put = 0 /\ r.stage = "test"
    BY <1>1, <1>2 DEF Threads, Idle
  <2> HIDE DEF r
  <2>4. OthersPoint(p) /\ th'[p] = r /\ TypeOK
    <3>1. TypeOK
      BY DEF Up, InodeInv
    <3>2. \A q \in Procs \ {p} : cwd'[q] = cwd[q] /\ file'[q] = file[q]
      BY <2>1, <3>1 DEF TypeOK
    <3>3. th' = [th EXCEPT ![p] = r]
      BY <2>1
    <3> QED
      BY ONLY p \in Procs, <3>1, <3>2, <3>3, OthersStay
  <2>5. FrameOK(r) /\ r.pc # "panic" /\ Elements(r.new) \in Seq(Elems)
    <3>1. Elements(r.new) \in Seq(Elems)
      BY <2>3, <2>4 DEF TypeOK, Elements, Absolute
    <3>2. r.op \in OpsAt(r.pc) /\ r.pc # "panic"
      BY <1>2, <2>3, IdleThread DEF OpsAt, CreateOps, Ops
    <3> QED
      BY <1>2, <2>3, <3>1, <3>2, IdleThread DEF FrameOK, CurPcs, DpPcs, IpPcs, Elements, Absolute, Idle
  <2>6. /\ Table(itable', dinode')
        /\ \A s \in Slots : itable'[s].ref = itable[s].ref
    BY <1>1, <2>1
  <2>7. RefsCounted'
    <3>1. /\ ptr[<<p, "cwd">>] = cwd[p] /\ ptr'[<<p, "cwd">>] = cwd'[p]
          /\ ptr[<<p, "file">>] = file[p] /\ ptr'[<<p, "file">>] = file'[p]
          /\ ptr[<<p, "cur">>] = t.cur /\ ptr'[<<p, "cur">>] = r.cur
          /\ ptr[<<p, "ip">>] = t.ip /\ ptr'[<<p, "ip">>] = r.ip
          /\ ptr[<<p, "dp">>] = t.dp /\ ptr'[<<p, "dp">>] = r.dp
          /\ ptr[<<p, "put">>] = t.put /\ ptr'[<<p, "put">>] = r.put
      BY <2>4, PtrView
    <3>2. \A h \in Holders : ptr'[<<p, h>>] = ptr[<<p, h>>]
      BY <1>2, <2>1, <2>3, <3>1 DEF Holders
    <3>3. RefsCounted
      BY DEF Up, InodeInv
    <3> HIDE DEF t
    <3>4. TRUE
      BY DEF Holders
    <3> QED
      BY <1>1, <1>2, <2>1, <2>3, <2>4, <2>6, <3>1, <3>2, <3>3, <3>4, RefsStay
  <2>8. LockStep(p, r)
    <3>1. Locked(t) = 0 /\ Freeing(t) = 0 /\ Locked(r) = 0 /\ Freeing(r) = 0
      BY <1>2, <2>3 DEF Locked, Freeing
    <3>3. itable' = itable /\ lock' = lock
      BY <2>1
    <3> QED
      BY <1>1, <1>2, <1>3, <2>6, <3>1, <3>3, SlotFacts DEF LockStep, Locks, Keeps
  <2>9. ValidStays(p)
    BY <1>1, <1>2, <1>3, <2>1, <2>6 DEF ValidStays, Keeps, Locks, Locked, Freeing
  <2> QED
    <3>1. disk' \in [Inums -> Dinodes] /\ outstanding' \subseteq Procs
          /\ cwd' \in [Procs -> Slots] /\ file' \in [Procs -> 0..NINODE]
      BY <1>1, <1>2, <2>1, <2>4, SlotFacts DEF TypeOK
    <3>2. th' = [th EXCEPT ![p] = r] /\ boot' = boot
      BY <2>1
    <3> QED
      BY ONLY Up, p \in Procs, <2>2, <2>4, <2>5, <2>6, <2>7, <2>8, <2>9, <3>1, <3>2, StepKeeps
<1> QED
  BY <1>4

\* iput(): the test, and ip->ref-- if the inode is not freed.
LEMMA IputTestKeeps ==
  ASSUME Up, NEW p \in Procs, IputTest(p)
  PROVE  InodeInv'
<1> DEFINE t == th[p]
<1>1. /\ t \in Threads /\ FrameOK(t) /\ Table(itable, dinode)
      /\ cwd[p] \in Slots /\ itable[cwd[p]].ref > 0
      /\ \A s \in {file[p], t.cur, t.ip, t.dp, t.put} :
           s # 0 => s \in Slots /\ itable[s].ref > 0 /\ itable[s].inum \in Inums
  BY Mine
<1>2. /\ t.put # 0 /\ t.stage = "test" /\ t.pc # "panic"
      /\ t.put # 0 /\ t.put \in Slots /\ itable[t.put].ref > 0 /\ itable[t.put].inum \in Inums
  <2>1. /\ t.put # 0 /\ t.stage = "test" /\ t.pc # "panic"
        /\ t.put # 0
    BY <1>1 DEF IputTest, Running, Putting, FrameOK, OpsAt, CurPcs, DpPcs, IpPcs, CreateOps, Panicked, Up
  <2> QED
    BY <1>1, <2>1
<1>3. Locks(p)
  BY LocksMine
<1>4. CASE MustFree(t.put) /\ lock[t.put] # Free
  <2>1. /\ Panic(p) /\ outstanding' = outstanding
        /\ UNCHANGED <<dinode, disk, itable, lock, cwd, file, boot>>
    BY <1>4, <1>1, <1>2 DEF IputTest, FsOnly
  <2>2. outstanding' \subseteq Procs
    BY <2>1 DEF Up, InodeInv, TypeOK
  <2> QED
    BY <2>1, <2>2, PanicKeeps
<1>5. CASE MustFree(t.put) /\ lock[t.put] = Free
  <2> DEFINE r == [t EXCEPT !.stage = "free"]
  <2>1. /\ th' = [th EXCEPT ![p] = r] /\ boot' = boot
        /\ cwd' = cwd /\ file' = file /\ disk' = disk /\ outstanding' = outstanding
        /\ itable' = itable
        /\ dinode' = dinode
        /\ lock' = [lock EXCEPT ![t.put] = p]
    BY <1>5, <1>1, <1>2 DEF IputTest, Become, FsOnly
  <2>2. r \in Threads
    BY <1>5, <1>1, <1>2, SlotFacts DEF Threads, Pcs
  <2>3. /\ r.pc = t.pc /\ r.op = t.op /\ r.new = t.new
        /\ r.cur = t.cur /\ r.ip = t.ip /\ r.dp = t.dp
        /\ r.put = t.put /\ r.stage = "free" /\ r.ino = t.ino
    BY <1>5, <1>1, <1>2 DEF Threads
  <2> HIDE DEF r
  <2>4. OthersPoint(p) /\ th'[p] = r /\ TypeOK
    <3>1. TypeOK
      BY DEF Up, InodeInv
    <3>2. \A q \in Procs \ {p} : cwd'[q] = cwd[q] /\ file'[q] = file[q]
      BY <2>1, <3>1 DEF TypeOK
    <3>3. th' = [th EXCEPT ![p] = r]
      BY <2>1
    <3> QED
      BY ONLY p \in Procs, <3>1, <3>2, <3>3, OthersStay
  <2>5. FrameOK(r) /\ r.pc # "panic" /\ Elements(r.new) \in Seq(Elems)
    <3>1. Elements(r.new) \in Seq(Elems)
      BY <1>5, <2>3, <2>4 DEF TypeOK
    <3>2. r.op \in OpsAt(r.pc) /\ r.pc # "panic"
      BY <1>5, <1>2, <2>3, <1>1 DEF OpsAt, CreateOps, Ops, FrameOK
    <3> QED
      BY <1>5, <1>2, <2>3, <3>1, <3>2, <1>1 DEF FrameOK, CurPcs, DpPcs, IpPcs
  <2>6. /\ Table(itable', dinode')
        /\ \A s \in Slots : itable'[s].ref = itable[s].ref
        /\ itable[t.put].valid
    BY <1>1, <1>2, <1>5, <2>1 DEF MustFree
  <2>7. RefsCounted'
    <3>1. /\ ptr[<<p, "cwd">>] = cwd[p] /\ ptr'[<<p, "cwd">>] = cwd'[p]
          /\ ptr[<<p, "file">>] = file[p] /\ ptr'[<<p, "file">>] = file'[p]
          /\ ptr[<<p, "cur">>] = t.cur /\ ptr'[<<p, "cur">>] = r.cur
          /\ ptr[<<p, "ip">>] = t.ip /\ ptr'[<<p, "ip">>] = r.ip
          /\ ptr[<<p, "dp">>] = t.dp /\ ptr'[<<p, "dp">>] = r.dp
          /\ ptr[<<p, "put">>] = t.put /\ ptr'[<<p, "put">>] = r.put
      BY <2>4, PtrView
    <3>2. \A h \in Holders : ptr'[<<p, h>>] = ptr[<<p, h>>]
      BY <1>2, <2>1, <2>3, <3>1 DEF Holders
    <3>3. RefsCounted
      BY DEF Up, InodeInv
    <3> HIDE DEF t
    <3>4. TRUE
      BY DEF Holders
    <3> QED
      BY <1>5, <1>1, <1>2, <2>1, <2>3, <2>4, <2>6, <3>1, <3>2, <3>3, <3>4, RefsStay
  <2>8. LockStep(p, r)
    <3>1. Locked(t) = Locked(t) /\ Freeing(t) = 0 /\ Locked(r) = Locked(t) /\ Freeing(r) = t.put
      BY <1>5, <1>2, <2>3 DEF Locked, Freeing
    <3>3. itable' = itable /\ lock' = [lock EXCEPT ![t.put] = p]
      BY <2>1
    <3> QED
      BY <1>5, <1>1, <1>2, <1>3, <2>6, <3>1, <3>3, SlotFacts DEF LockStep, Locks, Keeps
  <2>9. ValidStays(p)
    BY <1>1, <1>2, <1>3, <2>1, <2>6 DEF ValidStays, Keeps, Locks, Locked, Freeing
  <2> QED
    <3>1. disk' \in [Inums -> Dinodes] /\ outstanding' \subseteq Procs
          /\ cwd' \in [Procs -> Slots] /\ file' \in [Procs -> 0..NINODE]
      BY <1>1, <1>2, <2>1, <2>4, SlotFacts DEF TypeOK
    <3>2. th' = [th EXCEPT ![p] = r] /\ boot' = boot
      BY <2>1
    <3> QED
      BY ONLY Up, p \in Procs, <2>2, <2>4, <2>5, <2>6, <2>7, <2>8, <2>9, <3>1, <3>2, StepKeeps
<1>6. CASE ~MustFree(t.put)
  <2> DEFINE r == [t EXCEPT !.put = 0]
  <2>1. /\ th' = [th EXCEPT ![p] = r] /\ boot' = boot
        /\ cwd' = cwd /\ file' = file /\ disk' = disk /\ outstanding' = outstanding
        /\ itable' = Unref(itable, t.put)
        /\ dinode' = dinode
        /\ lock' = lock
    BY <1>6, <1>1, <1>2 DEF IputTest, Become, FsOnly
  <2>2. r \in Threads
    BY <1>6, <1>1, <1>2, SlotFacts DEF Threads, Pcs
  <2>3. /\ r.pc = t.pc /\ r.op = t.op /\ r.new = t.new
        /\ r.cur = t.cur /\ r.ip = t.ip /\ r.dp = t.dp
        /\ r.put = 0 /\ r.stage = t.stage /\ r.ino = t.ino
    BY <1>6, <1>1, <1>2 DEF Threads
  <2> HIDE DEF r
  <2>4. OthersPoint(p) /\ th'[p] = r /\ TypeOK
    <3>1. TypeOK
      BY DEF Up, InodeInv
    <3>2. \A q \in Procs \ {p} : cwd'[q] = cwd[q] /\ file'[q] = file[q]
      BY <2>1, <3>1 DEF TypeOK
    <3>3. th' = [th EXCEPT ![p] = r]
      BY <2>1
    <3> QED
      BY ONLY p \in Procs, <3>1, <3>2, <3>3, OthersStay
  <2>5. FrameOK(r) /\ r.pc # "panic" /\ Elements(r.new) \in Seq(Elems)
    <3>1. Elements(r.new) \in Seq(Elems)
      BY <1>6, <2>3, <2>4 DEF TypeOK
    <3>2. r.op \in OpsAt(r.pc) /\ r.pc # "panic"
      BY <1>6, <1>2, <2>3, <1>1 DEF OpsAt, CreateOps, Ops, FrameOK
    <3> QED
      BY <1>6, <1>2, <2>3, <3>1, <3>2, <1>1 DEF FrameOK, CurPcs, DpPcs, IpPcs
  <2>6. /\ Table(itable', dinode')
        /\ itable'[t.put].ref = itable[t.put].ref - 1
        /\ \A s \in Slots \ {t.put} : itable'[s] = itable[s]
        /\ \A s \in Slots : itable[s].valid /\ itable'[s].ref > 0 => itable'[s].valid
    BY <1>6, <1>1, <1>2, <2>1, UnrefTable
  <2>7. RefsCounted'
    <3>1. /\ ptr[<<p, "cwd">>] = cwd[p] /\ ptr'[<<p, "cwd">>] = cwd'[p]
          /\ ptr[<<p, "file">>] = file[p] /\ ptr'[<<p, "file">>] = file'[p]
          /\ ptr[<<p, "cur">>] = t.cur /\ ptr'[<<p, "cur">>] = r.cur
          /\ ptr[<<p, "ip">>] = t.ip /\ ptr'[<<p, "ip">>] = r.ip
          /\ ptr[<<p, "dp">>] = t.dp /\ ptr'[<<p, "dp">>] = r.dp
          /\ ptr[<<p, "put">>] = t.put /\ ptr'[<<p, "put">>] = r.put
      BY <2>4, PtrView
    <3>2. \A h \in Holders \ {"put"} : ptr'[<<p, h>>] = ptr[<<p, h>>]
      BY <1>2, <2>1, <2>3, <3>1 DEF Holders
    <3>3. RefsCounted
      BY DEF Up, InodeInv
    <3> HIDE DEF t
    <3>4. "put" \in Holders
      BY DEF Holders
    <3> QED
      BY <1>6, <1>1, <1>2, <2>1, <2>3, <2>4, <2>6, <3>1, <3>2, <3>3, <3>4, RefsDrop
  <2>8. LockStep(p, r)
    <3>1. Locked(t) = Locked(t) /\ Freeing(t) = 0 /\ Locked(r) = Locked(t) /\ Freeing(r) = 0
      BY <1>6, <1>2, <2>3 DEF Locked, Freeing
    <3>2. \A s \in Slots : s = Locked(r) => itable'[s].ref > 0
      BY <2>4, <2>7, OwnLock
    <3>3. lock' = lock
      BY <2>1
    <3> QED
      BY <1>6, <1>1, <1>2, <1>3, <2>6, <3>1, <3>3, <3>2, SlotFacts DEF LockStep, Locks, Keeps
  <2>9. ValidStays(p)
    BY <1>1, <1>2, <1>3, <2>6 DEF ValidStays, Keeps, Locks, Locked, Freeing
  <2> QED
    <3>1. disk' \in [Inums -> Dinodes] /\ outstanding' \subseteq Procs
          /\ cwd' \in [Procs -> Slots] /\ file' \in [Procs -> 0..NINODE]
      BY <1>1, <1>2, <2>1, <2>4, SlotFacts DEF TypeOK
    <3>2. th' = [th EXCEPT ![p] = r] /\ boot' = boot
      BY <2>1
    <3> QED
      BY ONLY Up, p \in Procs, <2>2, <2>4, <2>5, <2>6, <2>7, <2>8, <2>9, <3>1, <3>2, StepKeeps
<1> QED
  BY <1>4, <1>5, <1>6

\* iput(): the inode is freed.
LEMMA IputFreeKeeps ==
  ASSUME Up, NEW p \in Procs, IputFree(p)
  PROVE  InodeInv'
<1> DEFINE t == th[p]
<1>1. /\ t \in Threads /\ FrameOK(t) /\ Table(itable, dinode)
      /\ cwd[p] \in Slots /\ itable[cwd[p]].ref > 0
      /\ \A s \in {file[p], t.cur, t.ip, t.dp, t.put} :
           s # 0 => s \in Slots /\ itable[s].ref > 0 /\ itable[s].inum \in Inums
  BY Mine
<1>2. /\ t.put # 0 /\ t.stage = "free" /\ t.pc # "panic"
      /\ t.put # 0 /\ t.put \in Slots /\ itable[t.put].ref > 0 /\ itable[t.put].inum \in Inums
  <2>1. /\ t.put # 0 /\ t.stage = "free" /\ t.pc # "panic"
        /\ t.put # 0
    BY <1>1 DEF IputFree, Running, Putting, FrameOK, OpsAt, CurPcs, DpPcs, IpPcs, CreateOps, Panicked, Up
  <2> QED
    BY <1>1, <2>1
<1>3. Locks(p)
  BY LocksMine
<1>4. InodeInv'
  <2> DEFINE r == [t EXCEPT !.stage = "drop"]
  <2>1. /\ th' = [th EXCEPT ![p] = r] /\ boot' = boot
        /\ cwd' = cwd /\ file' = file /\ disk' = disk /\ outstanding' = outstanding
        /\ itable' = Invalid(itable, t.put)
        /\ dinode' = [dinode EXCEPT ![itable[t.put].inum] = Freed]
        /\ lock' = [lock EXCEPT ![t.put] = Free]
    BY <1>1, <1>2 DEF IputFree, Invalid, Become, FsOnly
  <2>2. r \in Threads
    BY <1>1, <1>2, SlotFacts DEF Threads, Pcs
  <2>3. /\ r.pc = t.pc /\ r.op = t.op /\ r.new = t.new
        /\ r.cur = t.cur /\ r.ip = t.ip /\ r.dp = t.dp
        /\ r.put = t.put /\ r.stage = "drop" /\ r.ino = t.ino
    BY <1>1, <1>2 DEF Threads
  <2> HIDE DEF r
  <2>4. OthersPoint(p) /\ th'[p] = r /\ TypeOK
    <3>1. TypeOK
      BY DEF Up, InodeInv
    <3>2. \A q \in Procs \ {p} : cwd'[q] = cwd[q] /\ file'[q] = file[q]
      BY <2>1, <3>1 DEF TypeOK
    <3>3. th' = [th EXCEPT ![p] = r]
      BY <2>1
    <3> QED
      BY ONLY p \in Procs, <3>1, <3>2, <3>3, OthersStay
  <2>5. FrameOK(r) /\ r.pc # "panic" /\ Elements(r.new) \in Seq(Elems)
    <3>1. Elements(r.new) \in Seq(Elems)
      BY <2>3, <2>4 DEF TypeOK
    <3>2. r.op \in OpsAt(r.pc) /\ r.pc # "panic"
      BY <1>2, <2>3, <1>1 DEF OpsAt, CreateOps, Ops, FrameOK
    <3> QED
      BY <1>2, <2>3, <3>1, <3>2, <1>1 DEF FrameOK, CurPcs, DpPcs, IpPcs
  <2>6. /\ Table(itable', dinode')
        /\ \A s \in Slots : itable'[s].ref = itable[s].ref
        /\ \A s \in Slots \ {t.put} : itable'[s] = itable[s]
    BY <1>1, <1>2, <2>1, FreedStep
  <2>7. RefsCounted'
    <3>1. /\ ptr[<<p, "cwd">>] = cwd[p] /\ ptr'[<<p, "cwd">>] = cwd'[p]
          /\ ptr[<<p, "file">>] = file[p] /\ ptr'[<<p, "file">>] = file'[p]
          /\ ptr[<<p, "cur">>] = t.cur /\ ptr'[<<p, "cur">>] = r.cur
          /\ ptr[<<p, "ip">>] = t.ip /\ ptr'[<<p, "ip">>] = r.ip
          /\ ptr[<<p, "dp">>] = t.dp /\ ptr'[<<p, "dp">>] = r.dp
          /\ ptr[<<p, "put">>] = t.put /\ ptr'[<<p, "put">>] = r.put
      BY <2>4, PtrView
    <3>2. \A h \in Holders : ptr'[<<p, h>>] = ptr[<<p, h>>]
      BY <1>2, <2>1, <2>3, <3>1 DEF Holders
    <3>3. RefsCounted
      BY DEF Up, InodeInv
    <3> HIDE DEF t
    <3>4. TRUE
      BY DEF Holders
    <3> QED
      BY <1>1, <1>2, <2>1, <2>3, <2>4, <2>6, <3>1, <3>2, <3>3, <3>4, RefsStay
  <2>8. LockStep(p, r)
    <3>1. Locked(t) = Locked(t) /\ Freeing(t) = t.put /\ Locked(r) = Locked(t) /\ Freeing(r) = 0
      BY <1>2, <2>3 DEF Locked, Freeing
    <3>3. lock' = [lock EXCEPT ![t.put] = Free]
      BY <2>1
    <3> QED
      BY <1>1, <1>2, <1>3, <2>6, <3>1, <3>3, SlotFacts DEF LockStep, Locks, Keeps
  <2>9. ValidStays(p)
    BY <1>1, <1>2, <1>3, <2>6 DEF ValidStays, Keeps, Locks, Locked, Freeing
  <2> QED
    <3>1. disk' \in [Inums -> Dinodes] /\ outstanding' \subseteq Procs
          /\ cwd' \in [Procs -> Slots] /\ file' \in [Procs -> 0..NINODE]
      BY <1>1, <1>2, <2>1, <2>4, SlotFacts DEF TypeOK
    <3>2. th' = [th EXCEPT ![p] = r] /\ boot' = boot
      BY <2>1
    <3> QED
      BY ONLY Up, p \in Procs, <2>2, <2>4, <2>5, <2>6, <2>7, <2>8, <2>9, <3>1, <3>2, StepKeeps
<1> QED
  BY <1>4

\* iput(): ip->ref-- after the inode was freed.
LEMMA IputDropKeeps ==
  ASSUME Up, NEW p \in Procs, IputDrop(p)
  PROVE  InodeInv'
<1> DEFINE t == th[p]
<1>1. /\ t \in Threads /\ FrameOK(t) /\ Table(itable, dinode)
      /\ cwd[p] \in Slots /\ itable[cwd[p]].ref > 0
      /\ \A s \in {file[p], t.cur, t.ip, t.dp, t.put} :
           s # 0 => s \in Slots /\ itable[s].ref > 0 /\ itable[s].inum \in Inums
  BY Mine
<1>2. /\ t.put # 0 /\ t.stage = "drop" /\ t.pc # "panic"
      /\ t.put # 0 /\ t.put \in Slots /\ itable[t.put].ref > 0 /\ itable[t.put].inum \in Inums
  <2>1. /\ t.put # 0 /\ t.stage = "drop" /\ t.pc # "panic"
        /\ t.put # 0
    BY <1>1 DEF IputDrop, Running, Putting, FrameOK, OpsAt, CurPcs, DpPcs, IpPcs, CreateOps, Panicked, Up
  <2> QED
    BY <1>1, <2>1
<1>3. Locks(p)
  BY LocksMine
<1>4. InodeInv'
  <2> DEFINE r == [t EXCEPT !.put = 0, !.stage = "test"]
  <2>1. /\ th' = [th EXCEPT ![p] = r] /\ boot' = boot
        /\ cwd' = cwd /\ file' = file /\ disk' = disk /\ outstanding' = outstanding
        /\ itable' = Unref(itable, t.put)
        /\ dinode' = dinode
        /\ lock' = lock
    BY <1>1, <1>2 DEF IputDrop, Become, FsOnly
  <2>2. r \in Threads
    BY <1>1, <1>2, SlotFacts DEF Threads, Pcs
  <2>3. /\ r.pc = t.pc /\ r.op = t.op /\ r.new = t.new
        /\ r.cur = t.cur /\ r.ip = t.ip /\ r.dp = t.dp
        /\ r.put = 0 /\ r.stage = "test" /\ r.ino = t.ino
    BY <1>1, <1>2 DEF Threads
  <2> HIDE DEF r
  <2>4. OthersPoint(p) /\ th'[p] = r /\ TypeOK
    <3>1. TypeOK
      BY DEF Up, InodeInv
    <3>2. \A q \in Procs \ {p} : cwd'[q] = cwd[q] /\ file'[q] = file[q]
      BY <2>1, <3>1 DEF TypeOK
    <3>3. th' = [th EXCEPT ![p] = r]
      BY <2>1
    <3> QED
      BY ONLY p \in Procs, <3>1, <3>2, <3>3, OthersStay
  <2>5. FrameOK(r) /\ r.pc # "panic" /\ Elements(r.new) \in Seq(Elems)
    <3>1. Elements(r.new) \in Seq(Elems)
      BY <2>3, <2>4 DEF TypeOK
    <3>2. r.op \in OpsAt(r.pc) /\ r.pc # "panic"
      BY <1>2, <2>3, <1>1 DEF OpsAt, CreateOps, Ops, FrameOK
    <3> QED
      BY <1>2, <2>3, <3>1, <3>2, <1>1 DEF FrameOK, CurPcs, DpPcs, IpPcs
  <2>6. /\ Table(itable', dinode')
        /\ itable'[t.put].ref = itable[t.put].ref - 1
        /\ \A s \in Slots \ {t.put} : itable'[s] = itable[s]
        /\ \A s \in Slots : itable[s].valid /\ itable'[s].ref > 0 => itable'[s].valid
    BY <1>1, <1>2, <2>1, UnrefTable
  <2>7. RefsCounted'
    <3>1. /\ ptr[<<p, "cwd">>] = cwd[p] /\ ptr'[<<p, "cwd">>] = cwd'[p]
          /\ ptr[<<p, "file">>] = file[p] /\ ptr'[<<p, "file">>] = file'[p]
          /\ ptr[<<p, "cur">>] = t.cur /\ ptr'[<<p, "cur">>] = r.cur
          /\ ptr[<<p, "ip">>] = t.ip /\ ptr'[<<p, "ip">>] = r.ip
          /\ ptr[<<p, "dp">>] = t.dp /\ ptr'[<<p, "dp">>] = r.dp
          /\ ptr[<<p, "put">>] = t.put /\ ptr'[<<p, "put">>] = r.put
      BY <2>4, PtrView
    <3>2. \A h \in Holders \ {"put"} : ptr'[<<p, h>>] = ptr[<<p, h>>]
      BY <1>2, <2>1, <2>3, <3>1 DEF Holders
    <3>3. RefsCounted
      BY DEF Up, InodeInv
    <3> HIDE DEF t
    <3>4. "put" \in Holders
      BY DEF Holders
    <3> QED
      BY <1>1, <1>2, <2>1, <2>3, <2>4, <2>6, <3>1, <3>2, <3>3, <3>4, RefsDrop
  <2>8. LockStep(p, r)
    <3>1. Locked(t) = Locked(t) /\ Freeing(t) = 0 /\ Locked(r) = Locked(t) /\ Freeing(r) = 0
      BY <1>2, <2>3 DEF Locked, Freeing
    <3>2. \A s \in Slots : s = Locked(r) => itable'[s].ref > 0
      BY <2>4, <2>7, OwnLock
    <3>3. lock' = lock
      BY <2>1
    <3> QED
      BY <1>1, <1>2, <1>3, <2>6, <3>1, <3>3, <3>2, SlotFacts DEF LockStep, Locks, Keeps
  <2>9. ValidStays(p)
    BY <1>1, <1>2, <1>3, <2>6 DEF ValidStays, Keeps, Locks, Locked, Freeing
  <2> QED
    <3>1. disk' \in [Inums -> Dinodes] /\ outstanding' \subseteq Procs
          /\ cwd' \in [Procs -> Slots] /\ file' \in [Procs -> 0..NINODE]
      BY <1>1, <1>2, <2>1, <2>4, SlotFacts DEF TypeOK
    <3>2. th' = [th EXCEPT ![p] = r] /\ boot' = boot
      BY <2>1
    <3> QED
      BY ONLY Up, p \in Procs, <2>2, <2>4, <2>5, <2>6, <2>7, <2>8, <2>9, <3>1, <3>2, StepKeeps
<1> QED
  BY <1>4

\* unlink(): the link count, iunlockput(ip).
LEMMA Unlink3Keeps ==
  ASSUME Up, NEW p \in Procs, Unlink3(p)
  PROVE  InodeInv'
<1> DEFINE t == th[p]
<1>1. /\ t \in Threads /\ FrameOK(t) /\ Table(itable, dinode)
      /\ cwd[p] \in Slots /\ itable[cwd[p]].ref > 0
      /\ \A s \in {file[p], t.cur, t.ip, t.dp, t.put} :
           s # 0 => s \in Slots /\ itable[s].ref > 0 /\ itable[s].inum \in Inums
  BY Mine
<1>2. /\ t.pc = "unlink3" /\ t.op = "unlink" /\ t.put = 0 /\ t.stage = "test"
      /\ t.cur = 0 /\ t.dp = 0
      /\ t.ip # 0 /\ t.ip \in Slots /\ itable[t.ip].ref > 0 /\ itable[t.ip].inum \in Inums
  <2>1. /\ t.pc = "unlink3" /\ t.op = "unlink" /\ t.put = 0 /\ t.stage = "test"
        /\ t.cur = 0
        /\ t.ip # 0
        /\ t.dp = 0
    BY <1>1 DEF Unlink3, Running, Putting, FrameOK, OpsAt, CurPcs, DpPcs, IpPcs, CreateOps
  <2> QED
    BY <1>1, <2>1
<1>3. Locks(p)
  BY LocksMine
<1>4. InodeInv'
  <2> DEFINE r == [t EXCEPT !.pc = "end", !.put = t.ip, !.ip = 0]
  <2>1. /\ th' = [th EXCEPT ![p] = r] /\ boot' = boot
        /\ cwd' = cwd /\ file' = file /\ disk' = disk /\ outstanding' = outstanding
        /\ itable' = SetNlink(itable, t.ip, itable[t.ip].nlink - 1)
        /\ dinode' = [dinode EXCEPT ![itable[t.ip].inum].nlink = itable[t.ip].nlink - 1]
        /\ lock' = [lock EXCEPT ![t.ip] = Free]
    BY <1>1, <1>2 DEF Unlink3, Become, FsOnly
  <2>2. r \in Threads
    BY <1>1, <1>2, SlotFacts DEF Threads, Pcs
  <2>3. /\ r.pc = "end" /\ r.op = t.op /\ r.new = t.new
        /\ r.cur = t.cur /\ r.ip = 0 /\ r.dp = t.dp
        /\ r.put = t.ip /\ r.stage = t.stage
    BY <1>1, <1>2 DEF Threads
  <2> HIDE DEF r
  <2>4. OthersPoint(p) /\ th'[p] = r /\ TypeOK
    <3>1. TypeOK
      BY DEF Up, InodeInv
    <3>2. \A q \in Procs \ {p} : cwd'[q] = cwd[q] /\ file'[q] = file[q]
      BY <2>1, <3>1 DEF TypeOK
    <3>3. th' = [th EXCEPT ![p] = r]
      BY <2>1
    <3> QED
      BY ONLY p \in Procs, <3>1, <3>2, <3>3, OthersStay
  <2>5. FrameOK(r) /\ r.pc # "panic" /\ Elements(r.new) \in Seq(Elems)
    <3>1. Elements(r.new) \in Seq(Elems)
      BY <2>3, <2>4 DEF TypeOK
    <3>2. r.op \in OpsAt(r.pc) /\ r.pc # "panic"
      BY <1>2, <2>3 DEF OpsAt, CreateOps, Ops
    <3> QED
      BY <1>2, <2>3, <3>1, <3>2 DEF FrameOK, CurPcs, DpPcs, IpPcs
  <2>6. /\ Table(itable', dinode')
        /\ Keeps(itable, itable')
    <3>1. itable[t.ip].valid
      BY <1>1, <1>2, <1>3, SlotFacts DEF Locks, Locked
    <3> QED
      BY <1>1, <1>2, <2>1, <3>1, NlinkStep
  <2>7. RefsCounted'
    <3>1. /\ ptr[<<p, "cwd">>] = cwd[p] /\ ptr'[<<p, "cwd">>] = cwd'[p]
          /\ ptr[<<p, "file">>] = file[p] /\ ptr'[<<p, "file">>] = file'[p]
          /\ ptr[<<p, "cur">>] = t.cur /\ ptr'[<<p, "cur">>] = r.cur
          /\ ptr[<<p, "ip">>] = t.ip /\ ptr'[<<p, "ip">>] = r.ip
          /\ ptr[<<p, "dp">>] = t.dp /\ ptr'[<<p, "dp">>] = r.dp
          /\ ptr[<<p, "put">>] = t.put /\ ptr'[<<p, "put">>] = r.put
      BY <2>4, PtrView
    <3>2. \A h \in Holders \ {"ip", "put"} : ptr'[<<p, h>>] = ptr[<<p, h>>]
      BY <1>2, <2>1, <2>3, <3>1 DEF Holders
    <3>3. RefsCounted
      BY DEF Up, InodeInv
    <3> HIDE DEF t
    <3>4. "ip" \in Holders /\ "put" \in Holders
      BY DEF Holders
    <3> QED
      BY <1>1, <1>2, <2>1, <2>3, <2>4, <2>6, <3>1, <3>2, <3>3, <3>4, RefsMove DEF Keeps
  <2>8. LockStep(p, r)
    <3>1. Locked(t) = t.ip /\ Freeing(t) = 0 /\ Locked(r) = 0 /\ Freeing(r) = 0
      BY <1>2, <2>3 DEF Locked, Freeing
    <3>3. lock' = [lock EXCEPT ![t.ip] = Free]
      BY <2>1
    <3> QED
      BY <1>1, <1>2, <1>3, <2>6, <3>1, <3>3, SlotFacts DEF LockStep, Locks, Keeps
  <2>9. ValidStays(p)
    BY <1>1, <1>2, <1>3, <2>6 DEF ValidStays, Keeps, Locks, Locked, Freeing
  <2> QED
    <3>1. disk' \in [Inums -> Dinodes] /\ outstanding' \subseteq Procs
          /\ cwd' \in [Procs -> Slots] /\ file' \in [Procs -> 0..NINODE]
      BY <1>1, <1>2, <2>1, <2>4, SlotFacts DEF TypeOK
    <3>2. th' = [th EXCEPT ![p] = r] /\ boot' = boot
      BY <2>1
    <3> QED
      BY ONLY Up, p \in Procs, <2>2, <2>4, <2>5, <2>6, <2>7, <2>8, <2>9, <3>1, <3>2, StepKeeps
<1> QED
  BY <1>4

\* iunlockput(dp) of the error paths.
LEMMA DropDpKeeps ==
  ASSUME Up, NEW p \in Procs, DropDp(p)
  PROVE  InodeInv'
<1> DEFINE t == th[p]
<1>1. /\ t \in Threads /\ FrameOK(t) /\ Table(itable, dinode)
      /\ cwd[p] \in Slots /\ itable[cwd[p]].ref > 0
      /\ \A s \in {file[p], t.cur, t.ip, t.dp, t.put} :
           s # 0 => s \in Slots /\ itable[s].ref > 0 /\ itable[s].inum \in Inums
  BY Mine
<1>2. /\ t.pc = "dropdp" /\ t.op \in {"link", "unlink"} \cup CreateOps /\ (t.ip # 0 <=> t.op = "link") /\ t.put = 0 /\ t.stage = "test"
      /\ t.cur = 0
      /\ t.dp # 0 /\ t.dp \in Slots /\ itable[t.dp].ref > 0 /\ itable[t.dp].inum \in Inums
  <2>1. /\ t.pc = "dropdp" /\ t.op \in {"link", "unlink"} \cup CreateOps /\ (t.ip # 0 <=> t.op = "link") /\ t.put = 0 /\ t.stage = "test"
        /\ t.cur = 0
        /\ t.dp # 0
    BY <1>1 DEF DropDp, Running, Putting, FrameOK, OpsAt, CurPcs, DpPcs, IpPcs, CreateOps
  <2> QED
    BY <1>1, <2>1
<1>3. Locks(p)
  BY LocksMine
<1>4. InodeInv'
  <2> DEFINE r == [t EXCEPT !.pc = NotFound(t.op, "nameiparent"), !.put = t.dp, !.dp = 0]
  <2>1. /\ th' = [th EXCEPT ![p] = r] /\ boot' = boot
        /\ cwd' = cwd /\ file' = file /\ disk' = disk /\ outstanding' = outstanding
        /\ itable' = itable
        /\ dinode' = dinode
        /\ lock' = [lock EXCEPT ![t.dp] = Free]
    BY <1>1, <1>2 DEF DropDp, Become, FsOnly
  <2>2. r \in Threads
    BY <1>1, <1>2, SlotFacts DEF Threads, Pcs, NotFound
  <2>3. /\ r.pc = (IF t.op = "link" THEN "linkbad" ELSE "end") /\ r.op = t.op /\ r.new = t.new
        /\ r.cur = t.cur /\ r.ip = t.ip /\ r.dp = 0
        /\ r.put = t.dp /\ r.stage = t.stage
    BY <1>1, <1>2 DEF Threads, NotFound
  <2> HIDE DEF r
  <2>4. OthersPoint(p) /\ th'[p] = r /\ TypeOK
    <3>1. TypeOK
      BY DEF Up, InodeInv
    <3>2. \A q \in Procs \ {p} : cwd'[q] = cwd[q] /\ file'[q] = file[q]
      BY <2>1, <3>1 DEF TypeOK
    <3>3. th' = [th EXCEPT ![p] = r]
      BY <2>1
    <3> QED
      BY ONLY p \in Procs, <3>1, <3>2, <3>3, OthersStay
  <2>5. FrameOK(r) /\ r.pc # "panic" /\ Elements(r.new) \in Seq(Elems)
    <3>1. Elements(r.new) \in Seq(Elems)
      BY <2>3, <2>4 DEF TypeOK
    <3>2. r.op \in OpsAt(r.pc) /\ r.pc # "panic"
      BY <1>2, <2>3 DEF OpsAt, CreateOps, Ops
    <3> QED
      BY <1>2, <2>3, <3>1, <3>2 DEF FrameOK, CurPcs, DpPcs, IpPcs
  <2>6. /\ Table(itable', dinode')
        /\ \A s \in Slots : itable'[s].ref = itable[s].ref
    BY <1>1, <2>1
  <2>7. RefsCounted'
    <3>1. /\ ptr[<<p, "cwd">>] = cwd[p] /\ ptr'[<<p, "cwd">>] = cwd'[p]
          /\ ptr[<<p, "file">>] = file[p] /\ ptr'[<<p, "file">>] = file'[p]
          /\ ptr[<<p, "cur">>] = t.cur /\ ptr'[<<p, "cur">>] = r.cur
          /\ ptr[<<p, "ip">>] = t.ip /\ ptr'[<<p, "ip">>] = r.ip
          /\ ptr[<<p, "dp">>] = t.dp /\ ptr'[<<p, "dp">>] = r.dp
          /\ ptr[<<p, "put">>] = t.put /\ ptr'[<<p, "put">>] = r.put
      BY <2>4, PtrView
    <3>2. \A h \in Holders \ {"dp", "put"} : ptr'[<<p, h>>] = ptr[<<p, h>>]
      BY <1>2, <2>1, <2>3, <3>1 DEF Holders
    <3>3. RefsCounted
      BY DEF Up, InodeInv
    <3> HIDE DEF t
    <3>4. "dp" \in Holders /\ "put" \in Holders
      BY DEF Holders
    <3> QED
      BY <1>1, <1>2, <2>1, <2>3, <2>4, <2>6, <3>1, <3>2, <3>3, <3>4, RefsMove
  <2>8. LockStep(p, r)
    <3>1. Locked(t) = t.dp /\ Freeing(t) = 0 /\ Locked(r) = 0 /\ Freeing(r) = 0
      BY <1>2, <2>3 DEF Locked, Freeing
    <3>3. itable' = itable /\ lock' = [lock EXCEPT ![t.dp] = Free]
      BY <2>1
    <3> QED
      BY <1>1, <1>2, <1>3, <2>6, <3>1, <3>3, SlotFacts DEF LockStep, Locks, Keeps
  <2>9. ValidStays(p)
    BY <1>1, <1>2, <1>3, <2>1, <2>6 DEF ValidStays, Keeps, Locks, Locked, Freeing
  <2> QED
    <3>1. disk' \in [Inums -> Dinodes] /\ outstanding' \subseteq Procs
          /\ cwd' \in [Procs -> Slots] /\ file' \in [Procs -> 0..NINODE]
      BY <1>1, <1>2, <2>1, <2>4, SlotFacts DEF TypeOK
    <3>2. th' = [th EXCEPT ![p] = r] /\ boot' = boot
      BY <2>1
    <3> QED
      BY ONLY Up, p \in Procs, <2>2, <2>4, <2>5, <2>6, <2>7, <2>8, <2>9, <3>1, <3>2, StepKeeps
<1> QED
  BY <1>4

\* link(): iput(ip) at its end.
LEMMA LinkedKeeps ==
  ASSUME Up, NEW p \in Procs, Linked(p)
  PROVE  InodeInv'
<1> DEFINE t == th[p]
<1>1. /\ t \in Threads /\ FrameOK(t) /\ Table(itable, dinode)
      /\ cwd[p] \in Slots /\ itable[cwd[p]].ref > 0
      /\ \A s \in {file[p], t.cur, t.ip, t.dp, t.put} :
           s # 0 => s \in Slots /\ itable[s].ref > 0 /\ itable[s].inum \in Inums
  BY Mine
<1>2. /\ t.pc = "linked" /\ t.op = "link" /\ t.put = 0 /\ t.stage = "test"
      /\ t.cur = 0 /\ t.dp = 0
      /\ t.ip # 0 /\ t.ip \in Slots /\ itable[t.ip].ref > 0 /\ itable[t.ip].inum \in Inums
  <2>1. /\ t.pc = "linked" /\ t.op = "link" /\ t.put = 0 /\ t.stage = "test"
        /\ t.cur = 0
        /\ t.ip # 0
        /\ t.dp = 0
    BY <1>1 DEF Linked, Running, Putting, FrameOK, OpsAt, CurPcs, DpPcs, IpPcs, CreateOps
  <2> QED
    BY <1>1, <2>1
<1>3. Locks(p)
  BY LocksMine
<1>4. InodeInv'
  <2> DEFINE r == [t EXCEPT !.pc = "end", !.put = t.ip, !.ip = 0]
  <2>1. /\ th' = [th EXCEPT ![p] = r] /\ boot' = boot
        /\ cwd' = cwd /\ file' = file /\ disk' = disk /\ outstanding' = outstanding
        /\ itable' = itable
        /\ dinode' = dinode
        /\ lock' = lock
    BY <1>1, <1>2 DEF Linked, Become, FsOnly
  <2>2. r \in Threads
    BY <1>1, <1>2, SlotFacts DEF Threads, Pcs
  <2>3. /\ r.pc = "end" /\ r.op = t.op /\ r.new = t.new
        /\ r.cur = t.cur /\ r.ip = 0 /\ r.dp = t.dp
        /\ r.put = t.ip /\ r.stage = t.stage
    BY <1>1, <1>2 DEF Threads
  <2> HIDE DEF r
  <2>4. OthersPoint(p) /\ th'[p] = r /\ TypeOK
    <3>1. TypeOK
      BY DEF Up, InodeInv
    <3>2. \A q \in Procs \ {p} : cwd'[q] = cwd[q] /\ file'[q] = file[q]
      BY <2>1, <3>1 DEF TypeOK
    <3>3. th' = [th EXCEPT ![p] = r]
      BY <2>1
    <3> QED
      BY ONLY p \in Procs, <3>1, <3>2, <3>3, OthersStay
  <2>5. FrameOK(r) /\ r.pc # "panic" /\ Elements(r.new) \in Seq(Elems)
    <3>1. Elements(r.new) \in Seq(Elems)
      BY <2>3, <2>4 DEF TypeOK
    <3>2. r.op \in OpsAt(r.pc) /\ r.pc # "panic"
      BY <1>2, <2>3 DEF OpsAt, CreateOps, Ops
    <3> QED
      BY <1>2, <2>3, <3>1, <3>2 DEF FrameOK, CurPcs, DpPcs, IpPcs
  <2>6. /\ Table(itable', dinode')
        /\ \A s \in Slots : itable'[s].ref = itable[s].ref
    BY <1>1, <2>1
  <2>7. RefsCounted'
    <3>1. /\ ptr[<<p, "cwd">>] = cwd[p] /\ ptr'[<<p, "cwd">>] = cwd'[p]
          /\ ptr[<<p, "file">>] = file[p] /\ ptr'[<<p, "file">>] = file'[p]
          /\ ptr[<<p, "cur">>] = t.cur /\ ptr'[<<p, "cur">>] = r.cur
          /\ ptr[<<p, "ip">>] = t.ip /\ ptr'[<<p, "ip">>] = r.ip
          /\ ptr[<<p, "dp">>] = t.dp /\ ptr'[<<p, "dp">>] = r.dp
          /\ ptr[<<p, "put">>] = t.put /\ ptr'[<<p, "put">>] = r.put
      BY <2>4, PtrView
    <3>2. \A h \in Holders \ {"ip", "put"} : ptr'[<<p, h>>] = ptr[<<p, h>>]
      BY <1>2, <2>1, <2>3, <3>1 DEF Holders
    <3>3. RefsCounted
      BY DEF Up, InodeInv
    <3> HIDE DEF t
    <3>4. "ip" \in Holders /\ "put" \in Holders
      BY DEF Holders
    <3> QED
      BY <1>1, <1>2, <2>1, <2>3, <2>4, <2>6, <3>1, <3>2, <3>3, <3>4, RefsMove
  <2>8. LockStep(p, r)
    <3>1. Locked(t) = 0 /\ Freeing(t) = 0 /\ Locked(r) = 0 /\ Freeing(r) = 0
      BY <1>2, <2>3 DEF Locked, Freeing
    <3>3. itable' = itable /\ lock' = lock
      BY <2>1
    <3> QED
      BY <1>1, <1>2, <1>3, <2>6, <3>1, <3>3, SlotFacts DEF LockStep, Locks, Keeps
  <2>9. ValidStays(p)
    BY <1>1, <1>2, <1>3, <2>1, <2>6 DEF ValidStays, Keeps, Locks, Locked, Freeing
  <2> QED
    <3>1. disk' \in [Inums -> Dinodes] /\ outstanding' \subseteq Procs
          /\ cwd' \in [Procs -> Slots] /\ file' \in [Procs -> 0..NINODE]
      BY <1>1, <1>2, <2>1, <2>4, SlotFacts DEF TypeOK
    <3>2. th' = [th EXCEPT ![p] = r] /\ boot' = boot
      BY <2>1
    <3> QED
      BY ONLY Up, p \in Procs, <2>2, <2>4, <2>5, <2>6, <2>7, <2>8, <2>9, <3>1, <3>2, StepKeeps
<1> QED
  BY <1>4

\* The start of namex() takes a reference to the first directory.
LEMMA StartWalkKeeps ==
  ASSUME Up, NEW p \in Procs, NEW b \in Threads, NEW pc \in CurPcs,
         NEW path, Elements(path) \in Seq(Elems), Elements(b.new) \in Seq(Elems),
         th[p].pc \in {"idle", "linknew"}, th[p].put = 0,
         b.op \in OpsAt(pc), b.ip = th[p].ip, b.dp = 0, b.put = 0, b.stage = "test",
         b.ip # 0 <=> (b.op = "link" /\ pc = "nameiparent"),
         outstanding' \subseteq Procs, UNCHANGED <<dinode, disk, lock, cwd, file, boot>>,
         StartWalk(p, b, pc, path)
  PROVE  InodeInv'
<1> DEFINE t == th[p]
<1>1. /\ t \in Threads /\ FrameOK(t) /\ Table(itable, dinode)
      /\ cwd[p] \in Slots /\ itable[cwd[p]].ref > 0
      /\ \A s \in {file[p], t.cur, t.ip, t.dp, t.put} :
           s # 0 => s \in Slots /\ itable[s].ref > 0 /\ itable[s].inum \in Inums
  BY Mine
<1>2. /\ t.pc \in {"idle", "linknew"} /\ t.put = 0 /\ t.stage = "test"
      /\ t.cur = 0 /\ t.dp = 0
  <2>1. /\ t.pc \in {"idle", "linknew"} /\ t.put = 0 /\ t.stage = "test"
        /\ t.cur = 0
        /\ t.dp = 0
    BY <1>1 DEF StartWalk, Running, Putting, FrameOK, OpsAt, CurPcs, DpPcs, IpPcs, CreateOps
  <2> QED
    BY <1>1, <2>1
<1>3. Locks(p)
  BY LocksMine
<1>4. ROOTINO \in Inums /\ (CanGet(itable, ROOTINO) => IgetSlot(itable, ROOTINO) \in Slots)
  <2>1. ROOTINO \in Inums
    BY InodeAssumption DEF ROOTINO, Inums
  <2> QED
    BY <1>1, <2>1, IgetTable
<1>5. CASE ~Absolute(path)
  <2> DEFINE r == [b EXCEPT !.pc = pc, !.rest = Elements(path), !.cur = cwd[p]]
  <2>1. /\ th' = [th EXCEPT ![p] = r] /\ boot' = boot
        /\ cwd' = cwd /\ file' = file /\ disk' = disk /\ outstanding' \subseteq Procs
        /\ itable' = idup(itable, cwd[p])
        /\ dinode' = dinode
        /\ lock' = lock
    BY <1>5, <1>1, <1>2 DEF StartWalk, Become, FsOnly
  <2>2. r \in Threads
    BY <1>5, <1>1, <1>2, SlotFacts DEF Threads, Pcs, CurPcs
  <2>3. /\ r.pc = pc /\ r.op = b.op /\ r.new = b.new
        /\ r.cur = cwd[p] /\ r.ip = t.ip /\ r.dp = 0
        /\ r.put = 0 /\ r.stage = "test"
    BY <1>5, <1>1, <1>2 DEF Threads
  <2> HIDE DEF r
  <2>4. OthersPoint(p) /\ th'[p] = r /\ TypeOK
    <3>1. TypeOK
      BY DEF Up, InodeInv
    <3>2. \A q \in Procs \ {p} : cwd'[q] = cwd[q] /\ file'[q] = file[q]
      BY <2>1, <3>1 DEF TypeOK
    <3>3. th' = [th EXCEPT ![p] = r]
      BY <2>1
    <3> QED
      BY ONLY p \in Procs, <3>1, <3>2, <3>3, OthersStay
  <2>5. FrameOK(r) /\ r.pc # "panic" /\ Elements(r.new) \in Seq(Elems)
    <3>1. Elements(r.new) \in Seq(Elems)
      BY <1>5, <2>3, <2>4 DEF TypeOK
    <3>2. r.op \in OpsAt(r.pc) /\ r.pc # "panic"
      BY <1>5, <1>2, <2>3, <1>1, SlotFacts DEF CurPcs
    <3> QED
      BY <1>5, <1>2, <2>3, <3>1, <3>2, <1>1, SlotFacts DEF FrameOK, CurPcs, DpPcs, IpPcs
  <2>6. /\ Table(itable', dinode')
        /\ cwd[p] \in Slots /\ itable'[cwd[p]].ref = itable[cwd[p]].ref + 1
        /\ \A x \in Slots \ {cwd[p]} : itable'[x].ref = itable[x].ref
        /\ \A x \in Slots : itable[x].valid => itable'[x].valid
    BY <1>5, <1>1, <2>1, IdupTable
  <2>7. RefsCounted'
    <3>1. /\ ptr[<<p, "cwd">>] = cwd[p] /\ ptr'[<<p, "cwd">>] = cwd'[p]
          /\ ptr[<<p, "file">>] = file[p] /\ ptr'[<<p, "file">>] = file'[p]
          /\ ptr[<<p, "cur">>] = t.cur /\ ptr'[<<p, "cur">>] = r.cur
          /\ ptr[<<p, "ip">>] = t.ip /\ ptr'[<<p, "ip">>] = r.ip
          /\ ptr[<<p, "dp">>] = t.dp /\ ptr'[<<p, "dp">>] = r.dp
          /\ ptr[<<p, "put">>] = t.put /\ ptr'[<<p, "put">>] = r.put
      BY <2>4, PtrView
    <3>2. \A h \in Holders \ {"cur"} : ptr'[<<p, h>>] = ptr[<<p, h>>]
      BY <1>2, <2>1, <2>3, <3>1 DEF Holders
    <3>3. RefsCounted
      BY DEF Up, InodeInv
    <3> HIDE DEF t
    <3>4. "cur" \in Holders
      BY DEF Holders
    <3>5. /\ cwd[p] \in Slots /\ itable'[cwd[p]].ref = itable[cwd[p]].ref + 1
          /\ \A w \in Slots \ {cwd[p]} : itable'[w].ref = itable[w].ref
          /\ ptr[<<p, "cur">>] = 0 /\ ptr'[<<p, "cur">>] = cwd[p]
      BY <1>5, <1>1, <1>2, <2>1, <2>3, <2>6, <3>1 DEF Keeps
    <3> QED
      BY ONLY p \in Procs, <2>4, <3>2, <3>3, <3>4, <3>5, RefsTake
  <2>8. LockStep(p, r)
    <3>1. Locked(t) = 0 /\ Freeing(t) = 0 /\ Locked(r) = 0 /\ Freeing(r) = 0
      BY <1>5, <1>2, <2>3 DEF Locked, Freeing
    <3>3. lock' = lock
      BY <2>1
    <3> QED
      BY <1>5, <1>1, <1>2, <1>3, <2>6, <3>1, <3>3, SlotFacts DEF LockStep, Locks, Keeps
  <2>9. ValidStays(p)
    BY <1>1, <1>2, <1>3, <2>6 DEF ValidStays, Keeps, Locks, Locked, Freeing
  <2> QED
    <3>1. disk' \in [Inums -> Dinodes] /\ outstanding' \subseteq Procs
          /\ cwd' \in [Procs -> Slots] /\ file' \in [Procs -> 0..NINODE]
      BY <1>1, <1>2, <2>1, <2>4, SlotFacts DEF TypeOK
    <3>2. th' = [th EXCEPT ![p] = r] /\ boot' = boot
      BY <2>1
    <3> QED
      BY ONLY Up, p \in Procs, <2>2, <2>4, <2>5, <2>6, <2>7, <2>8, <2>9, <3>1, <3>2, StepKeeps
<1>6. CASE Absolute(path) /\ CanGet(itable, ROOTINO)
  <2> DEFINE r == [b EXCEPT !.pc = pc, !.rest = Elements(path), !.cur = IgetSlot(itable, ROOTINO)]
  <2>1. /\ th' = [th EXCEPT ![p] = r] /\ boot' = boot
        /\ cwd' = cwd /\ file' = file /\ disk' = disk /\ outstanding' \subseteq Procs
        /\ itable' = iget(itable, ROOTINO)
        /\ dinode' = dinode
        /\ lock' = lock
    BY <1>6, <1>1, <1>2 DEF StartWalk, Become, FsOnly
  <2>2. r \in Threads
    BY <1>6, <1>1, <1>2, SlotFacts, <1>4 DEF Threads, Pcs, CurPcs
  <2>3. /\ r.pc = pc /\ r.op = b.op /\ r.new = b.new
        /\ r.cur = IgetSlot(itable, ROOTINO) /\ r.ip = t.ip /\ r.dp = 0
        /\ r.put = 0 /\ r.stage = "test"
    BY <1>6, <1>1, <1>2 DEF Threads
  <2> HIDE DEF r
  <2>4. OthersPoint(p) /\ th'[p] = r /\ TypeOK
    <3>1. TypeOK
      BY DEF Up, InodeInv
    <3>2. \A q \in Procs \ {p} : cwd'[q] = cwd[q] /\ file'[q] = file[q]
      BY <2>1, <3>1 DEF TypeOK
    <3>3. th' = [th EXCEPT ![p] = r]
      BY <2>1
    <3> QED
      BY ONLY p \in Procs, <3>1, <3>2, <3>3, OthersStay
  <2>5. FrameOK(r) /\ r.pc # "panic" /\ Elements(r.new) \in Seq(Elems)
    <3>1. Elements(r.new) \in Seq(Elems)
      BY <1>6, <2>3, <2>4 DEF TypeOK
    <3>2. r.op \in OpsAt(r.pc) /\ r.pc # "panic"
      BY <1>6, <1>2, <2>3, <1>1, <1>4, SlotFacts DEF CurPcs
    <3> QED
      BY <1>6, <1>2, <2>3, <3>1, <3>2, <1>1, <1>4, SlotFacts DEF FrameOK, CurPcs, DpPcs, IpPcs
  <2>6. /\ Table(itable', dinode')
        /\ IgetSlot(itable, ROOTINO) \in Slots /\ itable'[IgetSlot(itable, ROOTINO)].ref = itable[IgetSlot(itable, ROOTINO)].ref + 1
        /\ \A x \in Slots \ {IgetSlot(itable, ROOTINO)} : itable'[x].ref = itable[x].ref
        /\ \A x \in Slots : itable[x].valid => itable'[x].valid
    BY <1>6, <1>1, <1>4, <2>1, IgetTable
  <2>7. RefsCounted'
    <3>1. /\ ptr[<<p, "cwd">>] = cwd[p] /\ ptr'[<<p, "cwd">>] = cwd'[p]
          /\ ptr[<<p, "file">>] = file[p] /\ ptr'[<<p, "file">>] = file'[p]
          /\ ptr[<<p, "cur">>] = t.cur /\ ptr'[<<p, "cur">>] = r.cur
          /\ ptr[<<p, "ip">>] = t.ip /\ ptr'[<<p, "ip">>] = r.ip
          /\ ptr[<<p, "dp">>] = t.dp /\ ptr'[<<p, "dp">>] = r.dp
          /\ ptr[<<p, "put">>] = t.put /\ ptr'[<<p, "put">>] = r.put
      BY <2>4, PtrView
    <3>2. \A h \in Holders \ {"cur"} : ptr'[<<p, h>>] = ptr[<<p, h>>]
      BY <1>2, <2>1, <2>3, <3>1 DEF Holders
    <3>3. RefsCounted
      BY DEF Up, InodeInv
    <3> HIDE DEF t
    <3>4. "cur" \in Holders
      BY DEF Holders
    <3>5. /\ IgetSlot(itable, ROOTINO) \in Slots /\ itable'[IgetSlot(itable, ROOTINO)].ref = itable[IgetSlot(itable, ROOTINO)].ref + 1
          /\ \A w \in Slots \ {IgetSlot(itable, ROOTINO)} : itable'[w].ref = itable[w].ref
          /\ ptr[<<p, "cur">>] = 0 /\ ptr'[<<p, "cur">>] = IgetSlot(itable, ROOTINO)
      BY <1>6, <1>1, <1>2, <2>1, <2>3, <2>6, <3>1 DEF Keeps
    <3> QED
      BY ONLY p \in Procs, <2>4, <3>2, <3>3, <3>4, <3>5, RefsTake
  <2>8. LockStep(p, r)
    <3>1. Locked(t) = 0 /\ Freeing(t) = 0 /\ Locked(r) = 0 /\ Freeing(r) = 0
      BY <1>6, <1>2, <2>3 DEF Locked, Freeing
    <3>3. lock' = lock
      BY <2>1
    <3> QED
      BY <1>6, <1>1, <1>2, <1>3, <2>6, <3>1, <3>3, SlotFacts DEF LockStep, Locks, Keeps
  <2>9. ValidStays(p)
    BY <1>1, <1>2, <1>3, <2>6 DEF ValidStays, Keeps, Locks, Locked, Freeing
  <2> QED
    <3>1. disk' \in [Inums -> Dinodes] /\ outstanding' \subseteq Procs
          /\ cwd' \in [Procs -> Slots] /\ file' \in [Procs -> 0..NINODE]
      BY <1>1, <1>2, <2>1, <2>4, SlotFacts DEF TypeOK
    <3>2. th' = [th EXCEPT ![p] = r] /\ boot' = boot
      BY <2>1
    <3> QED
      BY ONLY Up, p \in Procs, <2>2, <2>4, <2>5, <2>6, <2>7, <2>8, <2>9, <3>1, <3>2, StepKeeps
<1>7. CASE Absolute(path) /\ ~CanGet(itable, ROOTINO)
  <2>1. /\ Panic(p) /\ outstanding' \subseteq Procs
        /\ UNCHANGED <<dinode, disk, itable, lock, cwd, file, boot>>
    BY <1>7, <1>1, <1>2 DEF StartWalk, FsOnly
  <2>2. outstanding' \subseteq Procs
    BY <2>1 DEF Up, InodeInv, TypeOK
  <2> QED
    BY <2>1, <2>2, PanicKeeps
<1> QED
  BY <1>5, <1>6, <1>7

LEMMA CallKeeps ==
  ASSUME Up, NEW p \in Procs, NEW c \in Calls, Call(p, c)
  PROVE  InodeInv'
<1> DEFINE b == [Idle EXCEPT !.op = c.op, !.new = c.new]
<1> DEFINE pc == IF c.op \in {"link", "open", "chdir"} THEN "namei" ELSE "nameiparent"
<1>1. /\ c.op \in Ops \ {"none", "close"} /\ Elements(c.path) \in Seq(Elems)
      /\ Elements(c.new) \in Seq(Elems) /\ c.new \in Seq(Elems \cup {"/"})
  BY InodeAssumption
<1>2. /\ b \in Threads /\ b.new = c.new /\ b.op = c.op /\ b.ip = 0 /\ b.dp = 0
      /\ b.put = 0 /\ b.stage = "test"
  BY <1>1, IdleThread DEF Threads, Idle
<1>3. pc \in CurPcs /\ b.op \in OpsAt(pc) /\ ~(b.op = "link" /\ pc = "nameiparent")
  BY <1>1, <1>2 DEF CurPcs, OpsAt, Ops, CreateOps
<1>4. th[p].pc = "idle" /\ th[p].put = 0 /\ th[p].ip = 0
  BY Mine DEF Call, Running, FrameOK, IpPcs
<1>5. outstanding' \subseteq Procs /\ UNCHANGED <<dinode, disk, lock, cwd, file, boot>>
  BY DEF Call, Up, InodeInv, TypeOK
<1>6. StartWalk(p, b, pc, c.path)
  BY DEF Call
<1> HIDE DEF b, pc
<1> QED
  BY <1>1, <1>2, <1>3, <1>4, <1>5, <1>6, StartWalkKeeps

LEMMA LinkNewKeeps ==
  ASSUME Up, NEW p \in Procs, LinkNew(p)
  PROVE  InodeInv'
<1> DEFINE b == th[p]
<1>1. /\ b \in Threads /\ b.pc = "linknew" /\ b.put = 0 /\ FrameOK(b)
  BY Mine DEF LinkNew, Running
<1>2. /\ b.op = "link" /\ b.dp = 0 /\ b.ip # 0 /\ b.stage = "test"
  BY <1>1 DEF FrameOK, OpsAt, IpPcs, DpPcs, Threads
<1>3. "nameiparent" \in CurPcs /\ b.op \in OpsAt("nameiparent")
  BY <1>2 DEF CurPcs, OpsAt
<1>4. Elements(b.new) \in Seq(Elems)
  BY DEF Up, InodeInv, TypeOK
<1>5. outstanding' \subseteq Procs /\ UNCHANGED <<dinode, disk, lock, cwd, file, boot>>
  BY DEF LinkNew, FsOnly, Up, InodeInv, TypeOK
<1>6. StartWalk(p, b, "nameiparent", b.new)
  BY DEF LinkNew
<1> QED
  BY <1>1, <1>2, <1>3, <1>4, <1>5, <1>6, StartWalkKeeps

\* Where a path call goes on.
LEMMA FoundPc ==
  /\ \A op \in OpsAt("namei") :
       Found(op, "namei") = IF op = "link" THEN "link1" ELSE op
  /\ \A op \in OpsAt("nameiparent") :
       Found(op, "nameiparent") = IF op = "link" THEN "link2"
                                  ELSE IF op = "unlink" THEN "unlink1" ELSE "create1"
BY DEF OpsAt, Found, CreateOps

\* namex() at the end of the path.
LEMMA NamexEndKeeps ==
  ASSUME Up, NEW p \in Procs, NEW pc \in {"namei", "nameiparent"}, NamexEnd(p, pc)
  PROVE  InodeInv'
<1> DEFINE t == th[p]
<1>1. /\ t \in Threads /\ FrameOK(t) /\ Table(itable, dinode)
      /\ cwd[p] \in Slots /\ itable[cwd[p]].ref > 0
      /\ \A s \in {file[p], t.cur, t.ip, t.dp, t.put} :
           s # 0 => s \in Slots /\ itable[s].ref > 0 /\ itable[s].inum \in Inums
  BY Mine
<1>2. /\ t.pc = pc /\ t.op \in OpsAt(pc) /\ (t.ip # 0 <=> (t.op = "link" /\ pc = "nameiparent"))
      /\ t.put = 0 /\ t.stage = "test"
      /\ t.dp = 0
      /\ t.cur # 0 /\ t.cur \in Slots /\ itable[t.cur].ref > 0 /\ itable[t.cur].inum \in Inums
  <2>1. /\ t.pc = pc /\ t.op \in OpsAt(pc) /\ (t.ip # 0 <=> (t.op = "link" /\ pc = "nameiparent"))
      /\ t.put = 0 /\ t.stage = "test"
        /\ t.cur # 0
        /\ t.dp = 0
    BY <1>1 DEF NamexEnd, Running, Putting, FrameOK, OpsAt, CurPcs, DpPcs, IpPcs, CreateOps
  <2> QED
    BY <1>1, <2>1
<1>3. Locks(p)
  BY LocksMine
<1>4. CASE pc = "namei"
  <2> DEFINE r == [t EXCEPT !.pc = Found(t.op, pc), !.ip = t.cur, !.cur = 0]
  <2>1. /\ th' = [th EXCEPT ![p] = r] /\ boot' = boot
        /\ cwd' = cwd /\ file' = file /\ disk' = disk /\ outstanding' = outstanding
        /\ itable' = itable
        /\ dinode' = dinode
        /\ lock' = lock
    BY <1>4, <1>1, <1>2 DEF NamexEnd, Become, FsOnly
  <2>2. r \in Threads
    BY <1>4, <1>1, <1>2, SlotFacts, FoundPc DEF Threads, Pcs, OpsAt
  <2>3. /\ r.pc = (IF t.op = "link" THEN "link1" ELSE t.op) /\ r.op = t.op /\ r.new = t.new
        /\ r.cur = 0 /\ r.ip = t.cur /\ r.dp = t.dp
        /\ r.put = t.put /\ r.stage = t.stage
    BY <1>4, <1>1, <1>2, FoundPc DEF Threads
  <2> HIDE DEF r
  <2>4. OthersPoint(p) /\ th'[p] = r /\ TypeOK
    <3>1. TypeOK
      BY DEF Up, InodeInv
    <3>2. \A q \in Procs \ {p} : cwd'[q] = cwd[q] /\ file'[q] = file[q]
      BY <2>1, <3>1 DEF TypeOK
    <3>3. th' = [th EXCEPT ![p] = r]
      BY <2>1
    <3> QED
      BY ONLY p \in Procs, <3>1, <3>2, <3>3, OthersStay
  <2>5. FrameOK(r) /\ r.pc # "panic" /\ Elements(r.new) \in Seq(Elems)
    <3>1. Elements(r.new) \in Seq(Elems)
      BY <1>4, <2>3, <2>4 DEF TypeOK
    <3>2. r.op \in OpsAt(r.pc) /\ r.pc # "panic"
      BY <1>4, <1>2, <2>3 DEF OpsAt, CreateOps, Ops
    <3> QED
      BY <1>4, <1>2, <2>3, <3>1, <3>2 DEF FrameOK, CurPcs, DpPcs, IpPcs, OpsAt
  <2>6. /\ Table(itable', dinode')
        /\ \A s \in Slots : itable'[s].ref = itable[s].ref
    BY <1>4, <1>1, <2>1
  <2>7. RefsCounted'
    <3>1. /\ ptr[<<p, "cwd">>] = cwd[p] /\ ptr'[<<p, "cwd">>] = cwd'[p]
          /\ ptr[<<p, "file">>] = file[p] /\ ptr'[<<p, "file">>] = file'[p]
          /\ ptr[<<p, "cur">>] = t.cur /\ ptr'[<<p, "cur">>] = r.cur
          /\ ptr[<<p, "ip">>] = t.ip /\ ptr'[<<p, "ip">>] = r.ip
          /\ ptr[<<p, "dp">>] = t.dp /\ ptr'[<<p, "dp">>] = r.dp
          /\ ptr[<<p, "put">>] = t.put /\ ptr'[<<p, "put">>] = r.put
      BY <2>4, PtrView
    <3>2. \A h \in Holders \ {"cur", "ip"} : ptr'[<<p, h>>] = ptr[<<p, h>>]
      BY <1>2, <2>1, <2>3, <3>1 DEF Holders
    <3>3. RefsCounted
      BY DEF Up, InodeInv
    <3> HIDE DEF t
    <3>4. "cur" \in Holders /\ "ip" \in Holders
      BY DEF Holders
    <3> QED
      BY <1>4, <1>1, <1>2, <2>1, <2>3, <2>4, <2>6, <3>1, <3>2, <3>3, <3>4, RefsMove
  <2>8. LockStep(p, r)
    <3>1. Locked(t) = 0 /\ Freeing(t) = 0 /\ Locked(r) = 0 /\ Freeing(r) = 0
      BY <1>4, <1>2, <2>3 DEF Locked, Freeing, OpsAt
    <3>3. itable' = itable /\ lock' = lock
      BY <2>1
    <3> QED
      BY <1>4, <1>1, <1>2, <1>3, <2>6, <3>1, <3>3, SlotFacts DEF LockStep, Locks, Keeps
  <2>9. ValidStays(p)
    BY <1>1, <1>2, <1>3, <2>1, <2>6 DEF ValidStays, Keeps, Locks, Locked, Freeing
  <2> QED
    <3>1. disk' \in [Inums -> Dinodes] /\ outstanding' \subseteq Procs
          /\ cwd' \in [Procs -> Slots] /\ file' \in [Procs -> 0..NINODE]
      BY <1>1, <1>2, <2>1, <2>4, SlotFacts DEF TypeOK
    <3>2. th' = [th EXCEPT ![p] = r] /\ boot' = boot
      BY <2>1
    <3> QED
      BY ONLY Up, p \in Procs, <2>2, <2>4, <2>5, <2>6, <2>7, <2>8, <2>9, <3>1, <3>2, StepKeeps
<1>5. CASE pc = "nameiparent"
  <2> DEFINE r == [t EXCEPT !.pc = NotFound(t.op, pc), !.put = t.cur, !.cur = 0]
  <2>1. /\ th' = [th EXCEPT ![p] = r] /\ boot' = boot
        /\ cwd' = cwd /\ file' = file /\ disk' = disk /\ outstanding' = outstanding
        /\ itable' = itable
        /\ dinode' = dinode
        /\ lock' = lock
    BY <1>5, <1>1, <1>2 DEF NamexEnd, Become, FsOnly
  <2>2. r \in Threads
    BY <1>5, <1>1, <1>2, SlotFacts DEF Threads, Pcs, NotFound
  <2>3. /\ r.pc = (IF t.op = "link" THEN "linkbad" ELSE "end") /\ r.op = t.op /\ r.new = t.new
        /\ r.cur = 0 /\ r.ip = t.ip /\ r.dp = t.dp
        /\ r.put = t.cur /\ r.stage = t.stage
    BY <1>5, <1>1, <1>2 DEF Threads, NotFound
  <2> HIDE DEF r
  <2>4. OthersPoint(p) /\ th'[p] = r /\ TypeOK
    <3>1. TypeOK
      BY DEF Up, InodeInv
    <3>2. \A q \in Procs \ {p} : cwd'[q] = cwd[q] /\ file'[q] = file[q]
      BY <2>1, <3>1 DEF TypeOK
    <3>3. th' = [th EXCEPT ![p] = r]
      BY <2>1
    <3> QED
      BY ONLY p \in Procs, <3>1, <3>2, <3>3, OthersStay
  <2>5. FrameOK(r) /\ r.pc # "panic" /\ Elements(r.new) \in Seq(Elems)
    <3>1. Elements(r.new) \in Seq(Elems)
      BY <1>5, <2>3, <2>4 DEF TypeOK
    <3>2. r.op \in OpsAt(r.pc) /\ r.pc # "panic"
      BY <1>5, <1>2, <2>3 DEF OpsAt, CreateOps, Ops
    <3> QED
      BY <1>5, <1>2, <2>3, <3>1, <3>2 DEF FrameOK, CurPcs, DpPcs, IpPcs
  <2>6. /\ Table(itable', dinode')
        /\ \A s \in Slots : itable'[s].ref = itable[s].ref
    BY <1>5, <1>1, <2>1
  <2>7. RefsCounted'
    <3>1. /\ ptr[<<p, "cwd">>] = cwd[p] /\ ptr'[<<p, "cwd">>] = cwd'[p]
          /\ ptr[<<p, "file">>] = file[p] /\ ptr'[<<p, "file">>] = file'[p]
          /\ ptr[<<p, "cur">>] = t.cur /\ ptr'[<<p, "cur">>] = r.cur
          /\ ptr[<<p, "ip">>] = t.ip /\ ptr'[<<p, "ip">>] = r.ip
          /\ ptr[<<p, "dp">>] = t.dp /\ ptr'[<<p, "dp">>] = r.dp
          /\ ptr[<<p, "put">>] = t.put /\ ptr'[<<p, "put">>] = r.put
      BY <2>4, PtrView
    <3>2. \A h \in Holders \ {"cur", "put"} : ptr'[<<p, h>>] = ptr[<<p, h>>]
      BY <1>2, <2>1, <2>3, <3>1 DEF Holders
    <3>3. RefsCounted
      BY DEF Up, InodeInv
    <3> HIDE DEF t
    <3>4. "cur" \in Holders /\ "put" \in Holders
      BY DEF Holders
    <3> QED
      BY <1>5, <1>1, <1>2, <2>1, <2>3, <2>4, <2>6, <3>1, <3>2, <3>3, <3>4, RefsMove
  <2>8. LockStep(p, r)
    <3>1. Locked(t) = 0 /\ Freeing(t) = 0 /\ Locked(r) = 0 /\ Freeing(r) = 0
      BY <1>5, <1>2, <2>3 DEF Locked, Freeing
    <3>3. itable' = itable /\ lock' = lock
      BY <2>1
    <3> QED
      BY <1>5, <1>1, <1>2, <1>3, <2>6, <3>1, <3>3, SlotFacts DEF LockStep, Locks, Keeps
  <2>9. ValidStays(p)
    BY <1>1, <1>2, <1>3, <2>1, <2>6 DEF ValidStays, Keeps, Locks, Locked, Freeing
  <2> QED
    <3>1. disk' \in [Inums -> Dinodes] /\ outstanding' \subseteq Procs
          /\ cwd' \in [Procs -> Slots] /\ file' \in [Procs -> 0..NINODE]
      BY <1>1, <1>2, <2>1, <2>4, SlotFacts DEF TypeOK
    <3>2. th' = [th EXCEPT ![p] = r] /\ boot' = boot
      BY <2>1
    <3> QED
      BY ONLY Up, p \in Procs, <2>2, <2>4, <2>5, <2>6, <2>7, <2>8, <2>9, <3>1, <3>2, StepKeeps
<1> QED
  BY <1>4, <1>5

\* namex(): one element of the path.
LEMMA NamexStepKeeps ==
  ASSUME Up, NEW p \in Procs, NEW pc \in {"namei", "nameiparent"}, NamexStep(p, pc)
  PROVE  InodeInv'
<1> DEFINE t == th[p]
<1> DEFINE it == ilock(itable, t.cur)
<1> DEFINE next == dirlookup(it[t.cur].inum, Head(t.rest))
<1> DEFINE last == pc = "nameiparent" /\ Len(t.rest) = 1
<1>1. /\ t \in Threads /\ FrameOK(t) /\ Table(itable, dinode)
      /\ cwd[p] \in Slots /\ itable[cwd[p]].ref > 0
      /\ \A s \in {file[p], t.cur, t.ip, t.dp, t.put} :
           s # 0 => s \in Slots /\ itable[s].ref > 0 /\ itable[s].inum \in Inums
  BY Mine
<1>2. /\ t.pc = pc /\ t.op \in OpsAt(pc) /\ (t.ip # 0 <=> (t.op = "link" /\ pc = "nameiparent"))
      /\ t.put = 0 /\ t.stage = "test" /\ t.rest # <<>>
      /\ t.dp = 0
      /\ t.cur # 0 /\ t.cur \in Slots /\ itable[t.cur].ref > 0 /\ itable[t.cur].inum \in Inums
  <2>1. /\ t.pc = pc /\ t.op \in OpsAt(pc) /\ (t.ip # 0 <=> (t.op = "link" /\ pc = "nameiparent"))
      /\ t.put = 0 /\ t.stage = "test" /\ t.rest # <<>>
        /\ t.cur # 0
        /\ t.dp = 0
    BY <1>1 DEF NamexStep, Running, Putting, FrameOK, OpsAt, CurPcs, DpPcs, IpPcs, CreateOps
  <2> QED
    BY <1>1, <2>1
<1>3. Locks(p)
  BY LocksMine
<1>4. it[t.cur].type # "none" =>
        /\ Table(it, dinode) /\ Keeps(itable, it) /\ it[t.cur].valid
        /\ \A y \in Slots \ {t.cur} : it[y] = itable[y]
  BY <1>1, <1>2, IlockTable
<1>5. it[t.cur].type # "none" => next \in 0..NInodes
  <2> SUFFICES ASSUME it[t.cur].type # "none" PROVE next \in 0..NInodes
    OBVIOUS
  <2>1. it[t.cur].inum = itable[t.cur].inum
    BY <1>2, <1>4 DEF Keeps
  <2>2. Head(t.rest) \in Elems
    BY <1>1, <1>2 DEF Threads, NamexStep
  <2>3. dinode[itable[t.cur].inum] \in Dinodes
    BY <1>1, <1>2 DEF Table
  <2> QED
    BY <2>1, <2>2, <2>3 DEF Dinodes, dirlookup
<1>6. ASSUME it[t.cur].type # "none", next # 0, CanGet(it, next)
      PROVE  /\ IgetSlot(it, next) \in Slots /\ Table(iget(it, next), dinode)
             /\ iget(it, next)[IgetSlot(it, next)].ref = itable[IgetSlot(it, next)].ref + 1
             /\ \A x \in Slots \ {IgetSlot(it, next)} : iget(it, next)[x].ref = itable[x].ref
             /\ \A x \in Slots : it[x].valid => iget(it, next)[x].valid
             /\ \A x \in Slots : itable[x].valid => iget(it, next)[x].valid
  <2>1. Table(it, dinode) /\ Keeps(itable, it) /\ next \in Inums
    BY <1>4, <1>5, <1>6, SlotFacts
  <2> HIDE DEF it, next
  <2>2. /\ IgetSlot(it, next) \in Slots /\ Table(iget(it, next), dinode)
        /\ iget(it, next)[IgetSlot(it, next)].ref = it[IgetSlot(it, next)].ref + 1
        /\ \A x \in Slots \ {IgetSlot(it, next)} : iget(it, next)[x] = it[x]
        /\ \A x \in Slots : it[x].valid => iget(it, next)[x].valid
    BY <1>6, <2>1, IgetTable
  <2> QED
    BY <2>1, <2>2 DEF Keeps
<1>7. Head(t.rest) \in Elems /\ Tail(t.rest) \in Seq(Elems) /\ <<>> \in Seq(Elems)
  <2>1. t.rest \in Seq(Elems) /\ t.rest # <<>>
    BY <1>1, <1>2 DEF Threads
  <2> QED
    BY <2>1
<1>8. CASE it[t.cur].type = "none"
  <2>1. /\ Panic(p) /\ outstanding' = outstanding
        /\ UNCHANGED <<dinode, disk, itable, lock, cwd, file, boot>>
    BY <1>8, <1>1, <1>2 DEF NamexStep, FsOnly
  <2>2. outstanding' \subseteq Procs
    BY <2>1 DEF Up, InodeInv, TypeOK
  <2> QED
    BY <2>1, <2>2, PanicKeeps
<1>9. CASE it[t.cur].type # "none" /\ (it[t.cur].type # "DIR" \/ (~last /\ next = 0))
  <2> DEFINE r == [t EXCEPT !.pc = NotFound(t.op, pc), !.cur = 0, !.put = t.cur]
  <2>1. /\ th' = [th EXCEPT ![p] = r] /\ boot' = boot
        /\ cwd' = cwd /\ file' = file /\ disk' = disk /\ outstanding' = outstanding
        /\ itable' = it
        /\ dinode' = dinode
        /\ lock' = lock
    BY <1>9, <1>1, <1>2 DEF NamexStep, Become, FsOnly
  <2>2. r \in Threads
    BY <1>9, <1>1, <1>2, SlotFacts DEF Threads, Pcs, NotFound
  <2>3. /\ r.pc = (IF t.op = "link" /\ pc = "nameiparent" THEN "linkbad" ELSE "end") /\ r.op = t.op /\ r.new = t.new
        /\ r.cur = 0 /\ r.ip = t.ip /\ r.dp = t.dp
        /\ r.put = t.cur /\ r.stage = t.stage
    BY <1>9, <1>1, <1>2 DEF Threads, NotFound
  <2> HIDE DEF r, it, next
  <2>4. OthersPoint(p) /\ th'[p] = r /\ TypeOK
    <3>1. TypeOK
      BY DEF Up, InodeInv
    <3>2. \A q \in Procs \ {p} : cwd'[q] = cwd[q] /\ file'[q] = file[q]
      BY <2>1, <3>1 DEF TypeOK
    <3>3. th' = [th EXCEPT ![p] = r]
      BY <2>1
    <3> QED
      BY ONLY p \in Procs, <3>1, <3>2, <3>3, OthersStay
  <2>5. FrameOK(r) /\ r.pc # "panic" /\ Elements(r.new) \in Seq(Elems)
    <3>1. Elements(r.new) \in Seq(Elems)
      BY <1>9, <2>3, <2>4 DEF TypeOK
    <3>2. r.op \in OpsAt(r.pc) /\ r.pc # "panic"
      BY <1>9, <1>2, <2>3 DEF OpsAt, CreateOps, Ops, CreateOps
    <3> QED
      BY <1>9, <1>2, <2>3, <3>1, <3>2 DEF FrameOK, CurPcs, DpPcs, IpPcs, OpsAt
  <2>6. /\ Table(itable', dinode')
        /\ Keeps(itable, itable')
    BY <1>9, <1>4, <2>1
  <2>7. RefsCounted'
    <3>1. /\ ptr[<<p, "cwd">>] = cwd[p] /\ ptr'[<<p, "cwd">>] = cwd'[p]
          /\ ptr[<<p, "file">>] = file[p] /\ ptr'[<<p, "file">>] = file'[p]
          /\ ptr[<<p, "cur">>] = t.cur /\ ptr'[<<p, "cur">>] = r.cur
          /\ ptr[<<p, "ip">>] = t.ip /\ ptr'[<<p, "ip">>] = r.ip
          /\ ptr[<<p, "dp">>] = t.dp /\ ptr'[<<p, "dp">>] = r.dp
          /\ ptr[<<p, "put">>] = t.put /\ ptr'[<<p, "put">>] = r.put
      BY <2>4, PtrView
    <3>2. \A h \in Holders \ {"cur", "put"} : ptr'[<<p, h>>] = ptr[<<p, h>>]
      BY <1>2, <2>1, <2>3, <3>1 DEF Holders
    <3>3. RefsCounted
      BY DEF Up, InodeInv
    <3> HIDE DEF t
    <3>4. "cur" \in Holders /\ "put" \in Holders
      BY DEF Holders
    <3> QED
      BY <1>9, <1>1, <1>2, <2>1, <2>3, <2>4, <2>6, <3>1, <3>2, <3>3, <3>4, RefsMove DEF Keeps
  <2>8. LockStep(p, r)
    <3>1. Locked(t) = 0 /\ Freeing(t) = 0 /\ Locked(r) = 0 /\ Freeing(r) = 0
      BY <1>9, <1>2, <2>3 DEF Locked, Freeing
    <3>3. lock' = lock
      BY <2>1
    <3> QED
      BY <1>9, <1>1, <1>2, <1>3, <2>6, <3>1, <3>3, SlotFacts DEF LockStep, Locks, Keeps
  <2>9. ValidStays(p)
    BY <1>1, <1>2, <1>3, <2>6 DEF ValidStays, Keeps, Locks, Locked, Freeing
  <2> QED
    <3>1. disk' \in [Inums -> Dinodes] /\ outstanding' \subseteq Procs
          /\ cwd' \in [Procs -> Slots] /\ file' \in [Procs -> 0..NINODE]
      BY <1>1, <1>2, <2>1, <2>4, SlotFacts DEF TypeOK
    <3>2. th' = [th EXCEPT ![p] = r] /\ boot' = boot
      BY <2>1
    <3> QED
      BY ONLY Up, p \in Procs, <2>2, <2>4, <2>5, <2>6, <2>7, <2>8, <2>9, <3>1, <3>2, StepKeeps
<1>10. CASE it[t.cur].type = "DIR" /\ last
  <2> DEFINE r == [t EXCEPT !.pc = Found(t.op, pc), !.dp = t.cur, !.cur = 0, !.name = Head(t.rest), !.rest = <<>>]
  <2>1. /\ th' = [th EXCEPT ![p] = r] /\ boot' = boot
        /\ cwd' = cwd /\ file' = file /\ disk' = disk /\ outstanding' = outstanding
        /\ itable' = it
        /\ dinode' = dinode
        /\ lock' = lock
    BY <1>10, <1>1, <1>2 DEF NamexStep, Become, FsOnly
  <2>2. r \in Threads
    <3>1. Found(t.op, pc) \in Pcs
      BY <1>10, <1>1, <1>2, SlotFacts, FoundPc DEF Pcs
    <3> QED
      BY <1>1, <1>2, <3>1, SlotFacts, <1>7 DEF Threads
  <2>3. /\ r.pc = (IF t.op = "link" THEN "link2" ELSE IF t.op = "unlink" THEN "unlink1" ELSE "create1") /\ r.op = t.op /\ r.new = t.new
        /\ r.cur = 0 /\ r.ip = t.ip /\ r.dp = t.cur
        /\ r.put = t.put /\ r.stage = t.stage
    BY <1>10, <1>1, <1>2, FoundPc DEF Threads
  <2> HIDE DEF r, it, next
  <2>4. OthersPoint(p) /\ th'[p] = r /\ TypeOK
    <3>1. TypeOK
      BY DEF Up, InodeInv
    <3>2. \A q \in Procs \ {p} : cwd'[q] = cwd[q] /\ file'[q] = file[q]
      BY <2>1, <3>1 DEF TypeOK
    <3>3. th' = [th EXCEPT ![p] = r]
      BY <2>1
    <3> QED
      BY ONLY p \in Procs, <3>1, <3>2, <3>3, OthersStay
  <2>5. FrameOK(r) /\ r.pc # "panic" /\ Elements(r.new) \in Seq(Elems)
    <3>1. Elements(r.new) \in Seq(Elems)
      BY <1>10, <2>3, <2>4 DEF TypeOK
    <3>2. r.op \in OpsAt(r.pc) /\ r.pc # "panic"
      BY <1>10, <1>2, <2>3 DEF OpsAt, CreateOps, Ops
    <3> QED
      BY <1>10, <1>2, <2>3, <3>1, <3>2 DEF FrameOK, CurPcs, DpPcs, IpPcs, OpsAt, CreateOps
  <2>6. /\ Table(itable', dinode')
        /\ Keeps(itable, itable')
    BY <1>10, <1>4, <2>1
  <2>7. RefsCounted'
    <3>1. /\ ptr[<<p, "cwd">>] = cwd[p] /\ ptr'[<<p, "cwd">>] = cwd'[p]
          /\ ptr[<<p, "file">>] = file[p] /\ ptr'[<<p, "file">>] = file'[p]
          /\ ptr[<<p, "cur">>] = t.cur /\ ptr'[<<p, "cur">>] = r.cur
          /\ ptr[<<p, "ip">>] = t.ip /\ ptr'[<<p, "ip">>] = r.ip
          /\ ptr[<<p, "dp">>] = t.dp /\ ptr'[<<p, "dp">>] = r.dp
          /\ ptr[<<p, "put">>] = t.put /\ ptr'[<<p, "put">>] = r.put
      BY <2>4, PtrView
    <3>2. \A h \in Holders \ {"cur", "dp"} : ptr'[<<p, h>>] = ptr[<<p, h>>]
      BY <1>2, <2>1, <2>3, <3>1 DEF Holders
    <3>3. RefsCounted
      BY DEF Up, InodeInv
    <3> HIDE DEF t
    <3>4. "cur" \in Holders /\ "dp" \in Holders
      BY DEF Holders
    <3> QED
      BY <1>10, <1>1, <1>2, <2>1, <2>3, <2>4, <2>6, <3>1, <3>2, <3>3, <3>4, RefsMove DEF Keeps
  <2>8. LockStep(p, r)
    <3>1. Locked(t) = 0 /\ Freeing(t) = 0 /\ Locked(r) = 0 /\ Freeing(r) = 0
      BY <1>10, <1>2, <2>3 DEF Locked, Freeing, OpsAt
    <3>3. lock' = lock
      BY <2>1
    <3> QED
      BY <1>10, <1>1, <1>2, <1>3, <2>6, <3>1, <3>3, SlotFacts DEF LockStep, Locks, Keeps
  <2>9. ValidStays(p)
    BY <1>1, <1>2, <1>3, <2>6 DEF ValidStays, Keeps, Locks, Locked, Freeing
  <2> QED
    <3>1. disk' \in [Inums -> Dinodes] /\ outstanding' \subseteq Procs
          /\ cwd' \in [Procs -> Slots] /\ file' \in [Procs -> 0..NINODE]
      BY <1>1, <1>2, <2>1, <2>4, SlotFacts DEF TypeOK
    <3>2. th' = [th EXCEPT ![p] = r] /\ boot' = boot
      BY <2>1
    <3> QED
      BY ONLY Up, p \in Procs, <2>2, <2>4, <2>5, <2>6, <2>7, <2>8, <2>9, <3>1, <3>2, StepKeeps
<1>11. CASE it[t.cur].type = "DIR" /\ ~last /\ next # 0 /\ ~CanGet(it, next)
  <2>1. /\ Panic(p) /\ outstanding' = outstanding
        /\ UNCHANGED <<dinode, disk, itable, lock, cwd, file, boot>>
    BY <1>11, <1>1, <1>2 DEF NamexStep, FsOnly
  <2>2. outstanding' \subseteq Procs
    BY <2>1 DEF Up, InodeInv, TypeOK
  <2> QED
    BY <2>1, <2>2, PanicKeeps
<1>12. CASE it[t.cur].type = "DIR" /\ ~last /\ next # 0 /\ CanGet(it, next)
  <2> DEFINE r == [t EXCEPT !.rest = Tail(t.rest), !.put = t.cur, !.cur = IgetSlot(it, next)]
  <2>1. /\ th' = [th EXCEPT ![p] = r] /\ boot' = boot
        /\ cwd' = cwd /\ file' = file /\ disk' = disk /\ outstanding' = outstanding
        /\ itable' = iget(it, next)
        /\ dinode' = dinode
        /\ lock' = lock
    BY <1>12, <1>1, <1>2 DEF NamexStep, Become, FsOnly
  <2>2. r \in Threads
    BY <1>12, <1>1, <1>2, SlotFacts, <1>6, <1>7 DEF Threads, Pcs
  <2>3. /\ r.pc = pc /\ r.op = t.op /\ r.new = t.new
        /\ r.cur = IgetSlot(it, next) /\ r.ip = t.ip /\ r.dp = t.dp
        /\ r.put = t.cur /\ r.stage = t.stage
    BY <1>12, <1>1, <1>2 DEF Threads
  <2> HIDE DEF r, it, next
  <2>4. OthersPoint(p) /\ th'[p] = r /\ TypeOK
    <3>1. TypeOK
      BY DEF Up, InodeInv
    <3>2. \A q \in Procs \ {p} : cwd'[q] = cwd[q] /\ file'[q] = file[q]
      BY <2>1, <3>1 DEF TypeOK
    <3>3. th' = [th EXCEPT ![p] = r]
      BY <2>1
    <3> QED
      BY ONLY p \in Procs, <3>1, <3>2, <3>3, OthersStay
  <2>5. FrameOK(r) /\ r.pc # "panic" /\ Elements(r.new) \in Seq(Elems)
    <3>1. Elements(r.new) \in Seq(Elems)
      BY <1>12, <2>3, <2>4 DEF TypeOK
    <3>2. r.op \in OpsAt(r.pc) /\ r.pc # "panic"
      BY <1>12, <1>2, <2>3, <1>6, SlotFacts DEF CurPcs
    <3> QED
      BY <1>12, <1>2, <2>3, <3>1, <3>2, <1>6, SlotFacts DEF FrameOK, CurPcs, DpPcs, IpPcs
  <2>6. /\ Table(itable', dinode')
        /\ IgetSlot(it, next) \in Slots /\ itable'[IgetSlot(it, next)].ref = itable[IgetSlot(it, next)].ref + 1
        /\ \A x \in Slots \ {IgetSlot(it, next)} : itable'[x].ref = itable[x].ref
        /\ \A x \in Slots : itable[x].valid => itable'[x].valid
    BY <1>12, <1>6, <2>1
  <2>7. RefsCounted'
    <3>1. /\ ptr[<<p, "cwd">>] = cwd[p] /\ ptr'[<<p, "cwd">>] = cwd'[p]
          /\ ptr[<<p, "file">>] = file[p] /\ ptr'[<<p, "file">>] = file'[p]
          /\ ptr[<<p, "cur">>] = t.cur /\ ptr'[<<p, "cur">>] = r.cur
          /\ ptr[<<p, "ip">>] = t.ip /\ ptr'[<<p, "ip">>] = r.ip
          /\ ptr[<<p, "dp">>] = t.dp /\ ptr'[<<p, "dp">>] = r.dp
          /\ ptr[<<p, "put">>] = t.put /\ ptr'[<<p, "put">>] = r.put
      BY <2>4, PtrView
    <3>2. \A h \in Holders \ {"cur", "put", "cur"} : ptr'[<<p, h>>] = ptr[<<p, h>>]
      BY <1>2, <2>1, <2>3, <3>1 DEF Holders
    <3>3. RefsCounted
      BY DEF Up, InodeInv
    <3> HIDE DEF t
    <3>4. "cur" \in Holders /\ "put" \in Holders /\ "cur" \in Holders
      BY DEF Holders
    <3>5. /\ IgetSlot(it, next) \in Slots /\ itable'[IgetSlot(it, next)].ref = itable[IgetSlot(it, next)].ref + 1
          /\ \A w \in Slots \ {IgetSlot(it, next)} : itable'[w].ref = itable[w].ref
          /\ ptr[<<p, "put">>] = 0 /\ ptr'[<<p, "put">>] = ptr[<<p, "cur">>]
          /\ ptr'[<<p, "cur">>] = IgetSlot(it, next)
      BY <1>12, <1>1, <1>2, <2>1, <2>3, <2>6, <3>1 DEF Keeps
    <3> QED
      BY ONLY p \in Procs, <2>4, <3>2, <3>3, <3>4, <3>5, RefsMoveTake
  <2>8. LockStep(p, r)
    <3>1. Locked(t) = 0 /\ Freeing(t) = 0 /\ Locked(r) = 0 /\ Freeing(r) = 0
      BY <1>12, <1>2, <2>3 DEF Locked, Freeing
    <3>3. lock' = lock
      BY <2>1
    <3> QED
      BY <1>12, <1>1, <1>2, <1>3, <2>6, <3>1, <3>3, SlotFacts DEF LockStep, Locks, Keeps
  <2>9. ValidStays(p)
    BY <1>1, <1>2, <1>3, <2>6 DEF ValidStays, Keeps, Locks, Locked, Freeing
  <2> QED
    <3>1. disk' \in [Inums -> Dinodes] /\ outstanding' \subseteq Procs
          /\ cwd' \in [Procs -> Slots] /\ file' \in [Procs -> 0..NINODE]
      BY <1>1, <1>2, <2>1, <2>4, SlotFacts DEF TypeOK
    <3>2. th' = [th EXCEPT ![p] = r] /\ boot' = boot
      BY <2>1
    <3> QED
      BY ONLY Up, p \in Procs, <2>2, <2>4, <2>5, <2>6, <2>7, <2>8, <2>9, <3>1, <3>2, StepKeeps
<1> QED
  BY <1>8, <1>9, <1>10, <1>11, <1>12

\* unlink(): the directory is locked and the inode looked up.
LEMMA Unlink1Keeps ==
  ASSUME Up, NEW p \in Procs, Unlink1(p)
  PROVE  InodeInv'
<1> DEFINE t == th[p]
<1> DEFINE it == ilock(itable, t.dp)
<1> DEFINE i == dirlookup(it[t.dp].inum, t.name)
<1>1. /\ t \in Threads /\ FrameOK(t) /\ Table(itable, dinode)
      /\ cwd[p] \in Slots /\ itable[cwd[p]].ref > 0
      /\ \A s \in {file[p], t.cur, t.ip, t.dp, t.put} :
           s # 0 => s \in Slots /\ itable[s].ref > 0 /\ itable[s].inum \in Inums
  BY Mine
<1>2. /\ t.pc = "unlink1" /\ t.op = "unlink" /\ t.put = 0 /\ t.stage = "test"
      /\ t.cur = 0 /\ t.ip = 0
      /\ t.dp # 0 /\ t.dp \in Slots /\ itable[t.dp].ref > 0 /\ itable[t.dp].inum \in Inums
  <2>1. /\ t.pc = "unlink1" /\ t.op = "unlink" /\ t.put = 0 /\ t.stage = "test"
        /\ t.cur = 0
        /\ t.ip = 0
        /\ t.dp # 0
    BY <1>1 DEF Unlink1, Running, Putting, FrameOK, OpsAt, CurPcs, DpPcs, IpPcs, CreateOps
  <2> QED
    BY <1>1, <2>1
<1>3. Locks(p)
  BY LocksMine
<1>4. it[t.dp].type # "none" =>
        /\ Table(it, dinode) /\ Keeps(itable, it) /\ it[t.dp].valid
        /\ \A y \in Slots \ {t.dp} : it[y] = itable[y]
  BY <1>1, <1>2, IlockTable
<1>5. it[t.dp].type # "none" => i \in 0..NInodes
  <2> SUFFICES ASSUME it[t.dp].type # "none" PROVE i \in 0..NInodes
    OBVIOUS
  <2>1. it[t.dp].inum = itable[t.dp].inum
    BY <1>2, <1>4 DEF Keeps
  <2>2. t.name \in Elems
    BY <1>1, <1>2 DEF Threads, Unlink1
  <2>3. dinode[itable[t.dp].inum] \in Dinodes
    BY <1>1, <1>2 DEF Table
  <2> QED
    BY <2>1, <2>2, <2>3 DEF Dinodes, dirlookup
<1>6. ASSUME it[t.dp].type # "none", i # 0, CanGet(it, i)
      PROVE  /\ IgetSlot(it, i) \in Slots /\ Table(iget(it, i), dinode)
             /\ iget(it, i)[IgetSlot(it, i)].ref = itable[IgetSlot(it, i)].ref + 1
             /\ \A x \in Slots \ {IgetSlot(it, i)} : iget(it, i)[x].ref = itable[x].ref
             /\ \A x \in Slots : it[x].valid => iget(it, i)[x].valid
             /\ \A x \in Slots : itable[x].valid => iget(it, i)[x].valid
  <2>1. Table(it, dinode) /\ Keeps(itable, it) /\ i \in Inums
    BY <1>4, <1>5, <1>6, SlotFacts
  <2> HIDE DEF it, i
  <2>2. /\ IgetSlot(it, i) \in Slots /\ Table(iget(it, i), dinode)
        /\ iget(it, i)[IgetSlot(it, i)].ref = it[IgetSlot(it, i)].ref + 1
        /\ \A x \in Slots \ {IgetSlot(it, i)} : iget(it, i)[x] = it[x]
        /\ \A x \in Slots : it[x].valid => iget(it, i)[x].valid
    BY <1>6, <2>1, IgetTable
  <2> QED
    BY <2>1, <2>2 DEF Keeps
<1>7. CASE it[t.dp].type = "none"
  <2>1. /\ Panic(p) /\ outstanding' = outstanding
        /\ UNCHANGED <<dinode, disk, itable, lock, cwd, file, boot>>
    BY <1>7, <1>1, <1>2 DEF Unlink1, FsOnly
  <2>2. outstanding' \subseteq Procs
    BY <2>1 DEF Up, InodeInv, TypeOK
  <2> QED
    BY <2>1, <2>2, PanicKeeps
<1>8. CASE it[t.dp].type # "none" /\ (Undeletable(t.name) \/ i = 0)
  <2> DEFINE r == [t EXCEPT !.pc = "end", !.put = t.dp, !.dp = 0]
  <2>1. /\ th' = [th EXCEPT ![p] = r] /\ boot' = boot
        /\ cwd' = cwd /\ file' = file /\ disk' = disk /\ outstanding' = outstanding
        /\ itable' = it
        /\ dinode' = dinode
        /\ lock' = lock
    BY <1>8, <1>1, <1>2 DEF Unlink1, Become, FsOnly
  <2>2. r \in Threads
    BY <1>8, <1>1, <1>2, SlotFacts DEF Threads, Pcs
  <2>3. /\ r.pc = "end" /\ r.op = t.op /\ r.new = t.new
        /\ r.cur = t.cur /\ r.ip = t.ip /\ r.dp = 0
        /\ r.put = t.dp /\ r.stage = t.stage
    BY <1>8, <1>1, <1>2 DEF Threads
  <2> HIDE DEF r, it, i
  <2>4. OthersPoint(p) /\ th'[p] = r /\ TypeOK
    <3>1. TypeOK
      BY DEF Up, InodeInv
    <3>2. \A q \in Procs \ {p} : cwd'[q] = cwd[q] /\ file'[q] = file[q]
      BY <2>1, <3>1 DEF TypeOK
    <3>3. th' = [th EXCEPT ![p] = r]
      BY <2>1
    <3> QED
      BY ONLY p \in Procs, <3>1, <3>2, <3>3, OthersStay
  <2>5. FrameOK(r) /\ r.pc # "panic" /\ Elements(r.new) \in Seq(Elems)
    <3>1. Elements(r.new) \in Seq(Elems)
      BY <1>8, <2>3, <2>4 DEF TypeOK
    <3>2. r.op \in OpsAt(r.pc) /\ r.pc # "panic"
      BY <1>8, <1>2, <2>3 DEF OpsAt, CreateOps, Ops
    <3> QED
      BY <1>8, <1>2, <2>3, <3>1, <3>2 DEF FrameOK, CurPcs, DpPcs, IpPcs
  <2>6. /\ Table(itable', dinode')
        /\ Keeps(itable, itable')
    BY <1>8, <1>4, <2>1
  <2>7. RefsCounted'
    <3>1. /\ ptr[<<p, "cwd">>] = cwd[p] /\ ptr'[<<p, "cwd">>] = cwd'[p]
          /\ ptr[<<p, "file">>] = file[p] /\ ptr'[<<p, "file">>] = file'[p]
          /\ ptr[<<p, "cur">>] = t.cur /\ ptr'[<<p, "cur">>] = r.cur
          /\ ptr[<<p, "ip">>] = t.ip /\ ptr'[<<p, "ip">>] = r.ip
          /\ ptr[<<p, "dp">>] = t.dp /\ ptr'[<<p, "dp">>] = r.dp
          /\ ptr[<<p, "put">>] = t.put /\ ptr'[<<p, "put">>] = r.put
      BY <2>4, PtrView
    <3>2. \A h \in Holders \ {"dp", "put"} : ptr'[<<p, h>>] = ptr[<<p, h>>]
      BY <1>2, <2>1, <2>3, <3>1 DEF Holders
    <3>3. RefsCounted
      BY DEF Up, InodeInv
    <3> HIDE DEF t
    <3>4. "dp" \in Holders /\ "put" \in Holders
      BY DEF Holders
    <3> QED
      BY <1>8, <1>1, <1>2, <2>1, <2>3, <2>4, <2>6, <3>1, <3>2, <3>3, <3>4, RefsMove DEF Keeps
  <2>8. LockStep(p, r)
    <3>1. Locked(t) = 0 /\ Freeing(t) = 0 /\ Locked(r) = 0 /\ Freeing(r) = 0
      BY <1>8, <1>2, <2>3 DEF Locked, Freeing
    <3>3. lock' = lock
      BY <2>1
    <3> QED
      BY <1>8, <1>1, <1>2, <1>3, <2>6, <3>1, <3>3, SlotFacts DEF LockStep, Locks, Keeps
  <2>9. ValidStays(p)
    BY <1>1, <1>2, <1>3, <2>6 DEF ValidStays, Keeps, Locks, Locked, Freeing
  <2> QED
    <3>1. disk' \in [Inums -> Dinodes] /\ outstanding' \subseteq Procs
          /\ cwd' \in [Procs -> Slots] /\ file' \in [Procs -> 0..NINODE]
      BY <1>1, <1>2, <2>1, <2>4, SlotFacts DEF TypeOK
    <3>2. th' = [th EXCEPT ![p] = r] /\ boot' = boot
      BY <2>1
    <3> QED
      BY ONLY Up, p \in Procs, <2>2, <2>4, <2>5, <2>6, <2>7, <2>8, <2>9, <3>1, <3>2, StepKeeps
<1>9. CASE it[t.dp].type # "none" /\ ~(Undeletable(t.name) \/ i = 0) /\ ~CanGet(it, i)
  <2>1. /\ Panic(p) /\ outstanding' = outstanding
        /\ UNCHANGED <<dinode, disk, itable, lock, cwd, file, boot>>
    BY <1>9, <1>1, <1>2 DEF Unlink1, FsOnly
  <2>2. outstanding' \subseteq Procs
    BY <2>1 DEF Up, InodeInv, TypeOK
  <2> QED
    BY <2>1, <2>2, PanicKeeps
<1>10. CASE it[t.dp].type # "none" /\ ~(Undeletable(t.name) \/ i = 0) /\ CanGet(it, i)
  <2> DEFINE r == [t EXCEPT !.pc = "unlink2", !.ip = IgetSlot(it, i)]
  <2>1. /\ th' = [th EXCEPT ![p] = r] /\ boot' = boot
        /\ cwd' = cwd /\ file' = file /\ disk' = disk /\ outstanding' = outstanding
        /\ itable' = iget(it, i)
        /\ dinode' = dinode
        /\ lock' = [lock EXCEPT ![t.dp] = p]
        /\ lock[t.dp] = Free
    BY <1>10, <1>1, <1>2 DEF Unlink1, Become, FsOnly
  <2>2. r \in Threads
    BY <1>10, <1>1, <1>2, SlotFacts, <1>6 DEF Threads, Pcs
  <2>3. /\ r.pc = "unlink2" /\ r.op = t.op /\ r.new = t.new
        /\ r.cur = t.cur /\ r.ip = IgetSlot(it, i) /\ r.dp = t.dp
        /\ r.put = t.put /\ r.stage = t.stage
    BY <1>10, <1>1, <1>2 DEF Threads
  <2> HIDE DEF r, it, i
  <2>4. OthersPoint(p) /\ th'[p] = r /\ TypeOK
    <3>1. TypeOK
      BY DEF Up, InodeInv
    <3>2. \A q \in Procs \ {p} : cwd'[q] = cwd[q] /\ file'[q] = file[q]
      BY <2>1, <3>1 DEF TypeOK
    <3>3. th' = [th EXCEPT ![p] = r]
      BY <2>1
    <3> QED
      BY ONLY p \in Procs, <3>1, <3>2, <3>3, OthersStay
  <2>5. FrameOK(r) /\ r.pc # "panic" /\ Elements(r.new) \in Seq(Elems)
    <3>1. Elements(r.new) \in Seq(Elems)
      BY <1>10, <2>3, <2>4 DEF TypeOK
    <3>2. r.op \in OpsAt(r.pc) /\ r.pc # "panic"
      BY <1>10, <1>2, <2>3, <1>6, SlotFacts DEF OpsAt, CreateOps, Ops
    <3> QED
      BY <1>10, <1>2, <2>3, <3>1, <3>2, <1>6, SlotFacts DEF FrameOK, CurPcs, DpPcs, IpPcs
  <2>6. /\ Table(itable', dinode')
        /\ IgetSlot(it, i) \in Slots /\ itable'[IgetSlot(it, i)].ref = itable[IgetSlot(it, i)].ref + 1
        /\ \A x \in Slots \ {IgetSlot(it, i)} : itable'[x].ref = itable[x].ref
        /\ \A x \in Slots : itable[x].valid => itable'[x].valid
        /\ itable'[t.dp].valid
    BY <1>10, <1>2, <1>4, <1>6, <2>1
  <2>7. RefsCounted'
    <3>1. /\ ptr[<<p, "cwd">>] = cwd[p] /\ ptr'[<<p, "cwd">>] = cwd'[p]
          /\ ptr[<<p, "file">>] = file[p] /\ ptr'[<<p, "file">>] = file'[p]
          /\ ptr[<<p, "cur">>] = t.cur /\ ptr'[<<p, "cur">>] = r.cur
          /\ ptr[<<p, "ip">>] = t.ip /\ ptr'[<<p, "ip">>] = r.ip
          /\ ptr[<<p, "dp">>] = t.dp /\ ptr'[<<p, "dp">>] = r.dp
          /\ ptr[<<p, "put">>] = t.put /\ ptr'[<<p, "put">>] = r.put
      BY <2>4, PtrView
    <3>2. \A h \in Holders \ {"ip"} : ptr'[<<p, h>>] = ptr[<<p, h>>]
      BY <1>2, <2>1, <2>3, <3>1 DEF Holders
    <3>3. RefsCounted
      BY DEF Up, InodeInv
    <3> HIDE DEF t
    <3>4. "ip" \in Holders
      BY DEF Holders
    <3>5. /\ IgetSlot(it, i) \in Slots /\ itable'[IgetSlot(it, i)].ref = itable[IgetSlot(it, i)].ref + 1
          /\ \A w \in Slots \ {IgetSlot(it, i)} : itable'[w].ref = itable[w].ref
          /\ ptr[<<p, "ip">>] = 0 /\ ptr'[<<p, "ip">>] = IgetSlot(it, i)
      BY <1>10, <1>1, <1>2, <2>1, <2>3, <2>6, <3>1 DEF Keeps
    <3> QED
      BY ONLY p \in Procs, <2>4, <3>2, <3>3, <3>4, <3>5, RefsTake
  <2>8. LockStep(p, r)
    <3>1. Locked(t) = 0 /\ Freeing(t) = 0 /\ Locked(r) = t.dp /\ Freeing(r) = 0
      BY <1>10, <1>2, <2>3 DEF Locked, Freeing
    <3>3. lock' = [lock EXCEPT ![t.dp] = p] /\ lock[t.dp] = Free
      BY <2>1
    <3> QED
      BY <1>10, <1>1, <1>2, <1>3, <2>6, <3>1, <3>3, SlotFacts DEF LockStep, Locks, Keeps
  <2>9. ValidStays(p)
    BY <1>1, <1>2, <1>3, <2>6 DEF ValidStays, Keeps, Locks, Locked, Freeing
  <2> QED
    <3>1. disk' \in [Inums -> Dinodes] /\ outstanding' \subseteq Procs
          /\ cwd' \in [Procs -> Slots] /\ file' \in [Procs -> 0..NINODE]
      BY <1>1, <1>2, <2>1, <2>4, SlotFacts DEF TypeOK
    <3>2. th' = [th EXCEPT ![p] = r] /\ boot' = boot
      BY <2>1
    <3> QED
      BY ONLY Up, p \in Procs, <2>2, <2>4, <2>5, <2>6, <2>7, <2>8, <2>9, <3>1, <3>2, StepKeeps
<1> QED
  BY <1>7, <1>8, <1>9, <1>10

\* unlink(): the inode is locked and its entry erased.
LEMMA Unlink2Keeps ==
  ASSUME Up, NEW p \in Procs, Unlink2(p)
  PROVE  InodeInv'
<1> DEFINE t == th[p]
<1> DEFINE it == ilock(itable, t.ip)
<1> DEFINE i == it[t.ip].inum
<1> DEFINE d == it[t.dp].inum
<1> DEFINE n == it[t.dp].nlink - (IF it[t.ip].type = "DIR" THEN 1 ELSE 0)
<1> DEFINE bad == it[t.ip].type = "none" \/ it[t.ip].nlink < 1
<1> DEFINE full == it[t.ip].type = "DIR" /\ ~isdirempty(i)
<1>1. /\ t \in Threads /\ FrameOK(t) /\ Table(itable, dinode)
      /\ cwd[p] \in Slots /\ itable[cwd[p]].ref > 0
      /\ \A s \in {file[p], t.cur, t.ip, t.dp, t.put} :
           s # 0 => s \in Slots /\ itable[s].ref > 0 /\ itable[s].inum \in Inums
  BY Mine
<1>2. /\ t.pc = "unlink2" /\ t.op = "unlink" /\ t.put = 0 /\ t.stage = "test"
      /\ t.cur = 0
      /\ t.dp # 0 /\ t.dp \in Slots /\ itable[t.dp].ref > 0 /\ itable[t.dp].inum \in Inums
      /\ t.ip # 0 /\ t.ip \in Slots /\ itable[t.ip].ref > 0 /\ itable[t.ip].inum \in Inums
  <2>1. /\ t.pc = "unlink2" /\ t.op = "unlink" /\ t.put = 0 /\ t.stage = "test"
        /\ t.cur = 0
        /\ t.ip # 0
        /\ t.dp # 0
    BY <1>1 DEF Unlink2, Running, Putting, FrameOK, OpsAt, CurPcs, DpPcs, IpPcs, CreateOps
  <2> QED
    BY <1>1, <2>1
<1>3. Locks(p)
  BY LocksMine
<1>4. it[t.ip].type # "none" =>
        /\ Table(it, dinode) /\ Keeps(itable, it) /\ it[t.ip].valid
        /\ \A y \in Slots \ {t.ip} : it[y] = itable[y]
  BY <1>1, <1>2, IlockTable
<1>5. t.ip # t.dp /\ itable[t.dp].valid
  BY <1>1, <1>2, <1>3, SlotFacts DEF Unlink2, Locks, Locked
<1>6. CASE bad
  <2>1. /\ Panic(p) /\ outstanding' = outstanding
        /\ UNCHANGED <<dinode, disk, itable, lock, cwd, file, boot>>
    BY <1>6, <1>1, <1>2 DEF Unlink2, FsOnly
  <2>2. outstanding' \subseteq Procs
    BY <2>1 DEF Up, InodeInv, TypeOK
  <2> QED
    BY <2>1, <2>2, PanicKeeps
<1>7. CASE ~bad /\ full
  <2> DEFINE r == [t EXCEPT !.pc = "dropdp", !.put = t.ip, !.ip = 0]
  <2>1. /\ th' = [th EXCEPT ![p] = r] /\ boot' = boot
        /\ cwd' = cwd /\ file' = file /\ disk' = disk /\ outstanding' = outstanding
        /\ itable' = it
        /\ dinode' = dinode
        /\ lock' = lock
    BY <1>7, <1>1, <1>2 DEF Unlink2, Become, FsOnly
  <2>2. r \in Threads
    BY <1>7, <1>1, <1>2, SlotFacts DEF Threads, Pcs
  <2>3. /\ r.pc = "dropdp" /\ r.op = t.op /\ r.new = t.new
        /\ r.cur = t.cur /\ r.ip = 0 /\ r.dp = t.dp
        /\ r.put = t.ip /\ r.stage = t.stage
    BY <1>7, <1>1, <1>2 DEF Threads
  <2> HIDE DEF r, it, i, d, n
  <2>4. OthersPoint(p) /\ th'[p] = r /\ TypeOK
    <3>1. TypeOK
      BY DEF Up, InodeInv
    <3>2. \A q \in Procs \ {p} : cwd'[q] = cwd[q] /\ file'[q] = file[q]
      BY <2>1, <3>1 DEF TypeOK
    <3>3. th' = [th EXCEPT ![p] = r]
      BY <2>1
    <3> QED
      BY ONLY p \in Procs, <3>1, <3>2, <3>3, OthersStay
  <2>5. FrameOK(r) /\ r.pc # "panic" /\ Elements(r.new) \in Seq(Elems)
    <3>1. Elements(r.new) \in Seq(Elems)
      BY <1>7, <2>3, <2>4 DEF TypeOK
    <3>2. r.op \in OpsAt(r.pc) /\ r.pc # "panic"
      BY <1>7, <1>2, <2>3 DEF OpsAt, CreateOps, Ops
    <3> QED
      BY <1>7, <1>2, <2>3, <3>1, <3>2 DEF FrameOK, CurPcs, DpPcs, IpPcs
  <2>6. /\ Table(itable', dinode')
        /\ Keeps(itable, itable')
    BY <1>7, <1>4, <2>1
  <2>7. RefsCounted'
    <3>1. /\ ptr[<<p, "cwd">>] = cwd[p] /\ ptr'[<<p, "cwd">>] = cwd'[p]
          /\ ptr[<<p, "file">>] = file[p] /\ ptr'[<<p, "file">>] = file'[p]
          /\ ptr[<<p, "cur">>] = t.cur /\ ptr'[<<p, "cur">>] = r.cur
          /\ ptr[<<p, "ip">>] = t.ip /\ ptr'[<<p, "ip">>] = r.ip
          /\ ptr[<<p, "dp">>] = t.dp /\ ptr'[<<p, "dp">>] = r.dp
          /\ ptr[<<p, "put">>] = t.put /\ ptr'[<<p, "put">>] = r.put
      BY <2>4, PtrView
    <3>2. \A h \in Holders \ {"ip", "put"} : ptr'[<<p, h>>] = ptr[<<p, h>>]
      BY <1>2, <2>1, <2>3, <3>1 DEF Holders
    <3>3. RefsCounted
      BY DEF Up, InodeInv
    <3> HIDE DEF t
    <3>4. "ip" \in Holders /\ "put" \in Holders
      BY DEF Holders
    <3> QED
      BY <1>7, <1>1, <1>2, <2>1, <2>3, <2>4, <2>6, <3>1, <3>2, <3>3, <3>4, RefsMove DEF Keeps
  <2>8. LockStep(p, r)
    <3>1. Locked(t) = t.dp /\ Freeing(t) = 0 /\ Locked(r) = t.dp /\ Freeing(r) = 0
      BY <1>7, <1>2, <2>3 DEF Locked, Freeing
    <3>3. lock' = lock
      BY <2>1
    <3> QED
      BY <1>7, <1>1, <1>2, <1>3, <2>6, <3>1, <3>3, SlotFacts DEF LockStep, Locks, Keeps
  <2>9. ValidStays(p)
    BY <1>1, <1>2, <1>3, <2>6 DEF ValidStays, Keeps, Locks, Locked, Freeing
  <2> QED
    <3>1. disk' \in [Inums -> Dinodes] /\ outstanding' \subseteq Procs
          /\ cwd' \in [Procs -> Slots] /\ file' \in [Procs -> 0..NINODE]
      BY <1>1, <1>2, <2>1, <2>4, SlotFacts DEF TypeOK
    <3>2. th' = [th EXCEPT ![p] = r] /\ boot' = boot
      BY <2>1
    <3> QED
      BY ONLY Up, p \in Procs, <2>2, <2>4, <2>5, <2>6, <2>7, <2>8, <2>9, <3>1, <3>2, StepKeeps
<1>8. CASE ~bad /\ ~full
  <2> DEFINE r == [t EXCEPT !.pc = "unlink3", !.put = t.dp, !.dp = 0]
  <2>1. /\ th' = [th EXCEPT ![p] = r] /\ boot' = boot
        /\ cwd' = cwd /\ file' = file /\ disk' = disk /\ outstanding' = outstanding
        /\ itable' = SetNlink(it, t.dp, n)
        /\ dinode' = [dinode EXCEPT ![d].ents[t.name] = 0, ![d].nlink = n]
        /\ lock' = [lock EXCEPT ![t.dp] = Free, ![t.ip] = p]
        /\ lock[t.ip] = Free
    BY <1>8, <1>1, <1>2 DEF Unlink2, Become, FsOnly
  <2>2. r \in Threads
    BY <1>8, <1>1, <1>2, SlotFacts DEF Threads, Pcs
  <2>3. /\ r.pc = "unlink3" /\ r.op = t.op /\ r.new = t.new
        /\ r.cur = t.cur /\ r.ip = t.ip /\ r.dp = 0
        /\ r.put = t.dp /\ r.stage = t.stage
    BY <1>8, <1>1, <1>2 DEF Threads
  <2> HIDE DEF r, it, i, d, n
  <2>4. OthersPoint(p) /\ th'[p] = r /\ TypeOK
    <3>1. TypeOK
      BY DEF Up, InodeInv
    <3>2. \A q \in Procs \ {p} : cwd'[q] = cwd[q] /\ file'[q] = file[q]
      BY <2>1, <3>1 DEF TypeOK
    <3>3. th' = [th EXCEPT ![p] = r]
      BY <2>1
    <3> QED
      BY ONLY p \in Procs, <3>1, <3>2, <3>3, OthersStay
  <2>5. FrameOK(r) /\ r.pc # "panic" /\ Elements(r.new) \in Seq(Elems)
    <3>1. Elements(r.new) \in Seq(Elems)
      BY <1>8, <2>3, <2>4 DEF TypeOK
    <3>2. r.op \in OpsAt(r.pc) /\ r.pc # "panic"
      BY <1>8, <1>2, <2>3 DEF OpsAt, CreateOps, Ops
    <3> QED
      BY <1>8, <1>2, <2>3, <3>1, <3>2 DEF FrameOK, CurPcs, DpPcs, IpPcs
  <2>6. /\ Table(itable', dinode')
        /\ Keeps(itable, itable')
        /\ itable'[t.ip].valid
    <3> USE DEF d, n
    <3>1. /\ Table(it, dinode) /\ Keeps(itable, it) /\ it[t.ip].valid
          /\ it[t.dp].valid /\ it[t.dp].ref > 0 /\ d \in Inums /\ n \in Int
      <4>1. it[t.ip].type # "none" /\ t.ip # t.dp /\ itable[t.dp].valid
        BY <1>8, <1>2, <1>5
      <4>2. it[t.dp] = itable[t.dp] /\ itable[t.dp] \in Entries
        BY <1>1, <1>2, <1>4, <4>1 DEF Table, Tables
      <4> QED
        BY <1>2, <1>4, <4>1, <4>2 DEF Entries
    <3>2. t.name \in Elems /\ 0 \in 0..NInodes
      BY <1>1, InodeAssumption DEF Threads
    <3> HIDE DEF t, it, n
    <3>3. Table(itable', dinode') /\ Keeps(it, itable')
      BY ONLY <1>2, <2>1, <3>1, <3>2, DirStep
    <3> QED
      BY <3>1, <3>3, <1>2 DEF Keeps
  <2>7. RefsCounted'
    <3>1. /\ ptr[<<p, "cwd">>] = cwd[p] /\ ptr'[<<p, "cwd">>] = cwd'[p]
          /\ ptr[<<p, "file">>] = file[p] /\ ptr'[<<p, "file">>] = file'[p]
          /\ ptr[<<p, "cur">>] = t.cur /\ ptr'[<<p, "cur">>] = r.cur
          /\ ptr[<<p, "ip">>] = t.ip /\ ptr'[<<p, "ip">>] = r.ip
          /\ ptr[<<p, "dp">>] = t.dp /\ ptr'[<<p, "dp">>] = r.dp
          /\ ptr[<<p, "put">>] = t.put /\ ptr'[<<p, "put">>] = r.put
      BY <2>4, PtrView
    <3>2. \A h \in Holders \ {"dp", "put"} : ptr'[<<p, h>>] = ptr[<<p, h>>]
      BY <1>2, <2>1, <2>3, <3>1 DEF Holders
    <3>3. RefsCounted
      BY DEF Up, InodeInv
    <3> HIDE DEF t
    <3>4. "dp" \in Holders /\ "put" \in Holders
      BY DEF Holders
    <3>5. /\ \A w \in Slots : itable'[w].ref = itable[w].ref
          /\ ptr[<<p, "put">>] = 0 /\ ptr'[<<p, "dp">>] = 0
          /\ ptr'[<<p, "put">>] = ptr[<<p, "dp">>]
      BY <1>8, <1>1, <1>2, <2>1, <2>3, <2>6, <3>1 DEF Keeps
    <3> QED
      BY ONLY p \in Procs, <2>4, <3>2, <3>3, <3>4, <3>5, RefsMove
  <2>8. LockStep(p, r)
    <3>1. Locked(t) = t.dp /\ Freeing(t) = 0 /\ Locked(r) = t.ip /\ Freeing(r) = 0
      BY <1>8, <1>2, <2>3 DEF Locked, Freeing
    <3>2. /\ lock \in [Slots -> Procs \cup {Free}]
          /\ lock[t.ip] = Free /\ lock[t.dp] = p /\ p # Free /\ t.ip # t.dp
          /\ \A x \in Slots \ {t.ip, t.dp} : lock[x] # p
      BY <1>2, <1>3, <2>1, <3>1, <1>5, SlotFacts DEF Locks
    <3>3. /\ lock' \in [Slots -> Procs \cup {Free}]
          /\ lock'[t.ip] = p /\ lock'[t.dp] = Free
          /\ \A x \in Slots \ {t.ip, t.dp} : lock'[x] = lock[x]
      BY ONLY p \in Procs, <1>2, <2>1, <3>2
    <3> QED
      BY ONLY p \in Procs, <1>2, <2>6, <3>1, <3>2, <3>3, SlotFacts DEF LockStep
  <2>9. ValidStays(p)
    BY <1>1, <1>2, <1>3, <2>6 DEF ValidStays, Keeps, Locks, Locked, Freeing
  <2> QED
    <3>1. disk' \in [Inums -> Dinodes] /\ outstanding' \subseteq Procs
          /\ cwd' \in [Procs -> Slots] /\ file' \in [Procs -> 0..NINODE]
      BY <1>1, <1>2, <2>1, <2>4, SlotFacts DEF TypeOK
    <3>2. th' = [th EXCEPT ![p] = r] /\ boot' = boot
      BY <2>1
    <3> QED
      BY ONLY Up, p \in Procs, <2>2, <2>4, <2>5, <2>6, <2>7, <2>8, <2>9, <3>1, <3>2, StepKeeps
<1> QED
  BY <1>6, <1>7, <1>8

\* link(): the link count goes up.
LEMMA Link1Keeps ==
  ASSUME Up, NEW p \in Procs, Link1(p)
  PROVE  InodeInv'
<1> DEFINE t == th[p]
<1> DEFINE it == ilock(itable, t.ip)
<1>1. /\ t \in Threads /\ FrameOK(t) /\ Table(itable, dinode)
      /\ cwd[p] \in Slots /\ itable[cwd[p]].ref > 0
      /\ \A s \in {file[p], t.cur, t.ip, t.dp, t.put} :
           s # 0 => s \in Slots /\ itable[s].ref > 0 /\ itable[s].inum \in Inums
  BY Mine
<1>2. /\ t.pc = "link1" /\ t.op = "link" /\ t.put = 0 /\ t.stage = "test"
      /\ t.cur = 0 /\ t.dp = 0
      /\ t.ip # 0 /\ t.ip \in Slots /\ itable[t.ip].ref > 0 /\ itable[t.ip].inum \in Inums
  <2>1. /\ t.pc = "link1" /\ t.op = "link" /\ t.put = 0 /\ t.stage = "test"
        /\ t.cur = 0
        /\ t.ip # 0
        /\ t.dp = 0
    BY <1>1 DEF Link1, Running, Putting, FrameOK, OpsAt, CurPcs, DpPcs, IpPcs, CreateOps
  <2> QED
    BY <1>1, <2>1
<1>3. Locks(p)
  BY LocksMine
<1>4. it[t.ip].type # "none" =>
        /\ Table(it, dinode) /\ Keeps(itable, it) /\ it[t.ip].valid
        /\ \A y \in Slots \ {t.ip} : it[y] = itable[y]
  BY <1>1, <1>2, IlockTable
<1>5. CASE it[t.ip].type = "none"
  <2>1. /\ Panic(p) /\ outstanding' = outstanding
        /\ UNCHANGED <<dinode, disk, itable, lock, cwd, file, boot>>
    BY <1>5, <1>1, <1>2 DEF Link1, FsOnly
  <2>2. outstanding' \subseteq Procs
    BY <2>1 DEF Up, InodeInv, TypeOK
  <2> QED
    BY <2>1, <2>2, PanicKeeps
<1>6. CASE it[t.ip].type = "DIR"
  <2> DEFINE r == [t EXCEPT !.pc = "end", !.put = t.ip, !.ip = 0]
  <2>1. /\ th' = [th EXCEPT ![p] = r] /\ boot' = boot
        /\ cwd' = cwd /\ file' = file /\ disk' = disk /\ outstanding' = outstanding
        /\ itable' = it
        /\ dinode' = dinode
        /\ lock' = lock
    BY <1>6, <1>1, <1>2 DEF Link1, Become, FsOnly
  <2>2. r \in Threads
    BY <1>6, <1>1, <1>2, SlotFacts DEF Threads, Pcs
  <2>3. /\ r.pc = "end" /\ r.op = t.op /\ r.new = t.new
        /\ r.cur = t.cur /\ r.ip = 0 /\ r.dp = t.dp
        /\ r.put = t.ip /\ r.stage = t.stage
    BY <1>6, <1>1, <1>2 DEF Threads
  <2> HIDE DEF r, it
  <2>4. OthersPoint(p) /\ th'[p] = r /\ TypeOK
    <3>1. TypeOK
      BY DEF Up, InodeInv
    <3>2. \A q \in Procs \ {p} : cwd'[q] = cwd[q] /\ file'[q] = file[q]
      BY <2>1, <3>1 DEF TypeOK
    <3>3. th' = [th EXCEPT ![p] = r]
      BY <2>1
    <3> QED
      BY ONLY p \in Procs, <3>1, <3>2, <3>3, OthersStay
  <2>5. FrameOK(r) /\ r.pc # "panic" /\ Elements(r.new) \in Seq(Elems)
    <3>1. Elements(r.new) \in Seq(Elems)
      BY <1>6, <2>3, <2>4 DEF TypeOK
    <3>2. r.op \in OpsAt(r.pc) /\ r.pc # "panic"
      BY <1>6, <1>2, <2>3 DEF OpsAt, CreateOps, Ops
    <3> QED
      BY <1>6, <1>2, <2>3, <3>1, <3>2 DEF FrameOK, CurPcs, DpPcs, IpPcs
  <2>6. /\ Table(itable', dinode')
        /\ Keeps(itable, itable')
    BY <1>6, <1>4, <2>1
  <2>7. RefsCounted'
    <3>1. /\ ptr[<<p, "cwd">>] = cwd[p] /\ ptr'[<<p, "cwd">>] = cwd'[p]
          /\ ptr[<<p, "file">>] = file[p] /\ ptr'[<<p, "file">>] = file'[p]
          /\ ptr[<<p, "cur">>] = t.cur /\ ptr'[<<p, "cur">>] = r.cur
          /\ ptr[<<p, "ip">>] = t.ip /\ ptr'[<<p, "ip">>] = r.ip
          /\ ptr[<<p, "dp">>] = t.dp /\ ptr'[<<p, "dp">>] = r.dp
          /\ ptr[<<p, "put">>] = t.put /\ ptr'[<<p, "put">>] = r.put
      BY <2>4, PtrView
    <3>2. \A h \in Holders \ {"ip", "put"} : ptr'[<<p, h>>] = ptr[<<p, h>>]
      BY <1>2, <2>1, <2>3, <3>1 DEF Holders
    <3>3. RefsCounted
      BY DEF Up, InodeInv
    <3> HIDE DEF t
    <3>4. "ip" \in Holders /\ "put" \in Holders
      BY DEF Holders
    <3> QED
      BY <1>6, <1>1, <1>2, <2>1, <2>3, <2>4, <2>6, <3>1, <3>2, <3>3, <3>4, RefsMove DEF Keeps
  <2>8. LockStep(p, r)
    <3>1. Locked(t) = 0 /\ Freeing(t) = 0 /\ Locked(r) = 0 /\ Freeing(r) = 0
      BY <1>6, <1>2, <2>3 DEF Locked, Freeing
    <3>3. lock' = lock
      BY <2>1
    <3> QED
      BY <1>6, <1>1, <1>2, <1>3, <2>6, <3>1, <3>3, SlotFacts DEF LockStep, Locks, Keeps
  <2>9. ValidStays(p)
    BY <1>1, <1>2, <1>3, <2>6 DEF ValidStays, Keeps, Locks, Locked, Freeing
  <2> QED
    <3>1. disk' \in [Inums -> Dinodes] /\ outstanding' \subseteq Procs
          /\ cwd' \in [Procs -> Slots] /\ file' \in [Procs -> 0..NINODE]
      BY <1>1, <1>2, <2>1, <2>4, SlotFacts DEF TypeOK
    <3>2. th' = [th EXCEPT ![p] = r] /\ boot' = boot
      BY <2>1
    <3> QED
      BY ONLY Up, p \in Procs, <2>2, <2>4, <2>5, <2>6, <2>7, <2>8, <2>9, <3>1, <3>2, StepKeeps
<1>7. CASE it[t.ip].type # "none" /\ it[t.ip].type # "DIR"
  <2> DEFINE r == [t EXCEPT !.pc = "linknew"]
  <2>1. /\ th' = [th EXCEPT ![p] = r] /\ boot' = boot
        /\ cwd' = cwd /\ file' = file /\ disk' = disk /\ outstanding' = outstanding
        /\ itable' = SetNlink(it, t.ip, it[t.ip].nlink + 1)
        /\ dinode' = [dinode EXCEPT ![it[t.ip].inum].nlink = it[t.ip].nlink + 1]
        /\ lock' = lock
    BY <1>7, <1>1, <1>2 DEF Link1, Become, FsOnly
  <2>2. r \in Threads
    BY <1>7, <1>1, <1>2, SlotFacts DEF Threads, Pcs
  <2>3. /\ r.pc = "linknew" /\ r.op = t.op /\ r.new = t.new
        /\ r.cur = t.cur /\ r.ip = t.ip /\ r.dp = t.dp
        /\ r.put = t.put /\ r.stage = t.stage
    BY <1>7, <1>1, <1>2 DEF Threads
  <2> HIDE DEF r, it
  <2>4. OthersPoint(p) /\ th'[p] = r /\ TypeOK
    <3>1. TypeOK
      BY DEF Up, InodeInv
    <3>2. \A q \in Procs \ {p} : cwd'[q] = cwd[q] /\ file'[q] = file[q]
      BY <2>1, <3>1 DEF TypeOK
    <3>3. th' = [th EXCEPT ![p] = r]
      BY <2>1
    <3> QED
      BY ONLY p \in Procs, <3>1, <3>2, <3>3, OthersStay
  <2>5. FrameOK(r) /\ r.pc # "panic" /\ Elements(r.new) \in Seq(Elems)
    <3>1. Elements(r.new) \in Seq(Elems)
      BY <1>7, <2>3, <2>4 DEF TypeOK
    <3>2. r.op \in OpsAt(r.pc) /\ r.pc # "panic"
      BY <1>7, <1>2, <2>3 DEF OpsAt, CreateOps, Ops
    <3> QED
      BY <1>7, <1>2, <2>3, <3>1, <3>2 DEF FrameOK, CurPcs, DpPcs, IpPcs
  <2>6. /\ Table(itable', dinode')
        /\ Keeps(itable, itable')
    <3>1. Table(it, dinode) /\ Keeps(itable, it) /\ it[t.ip].valid /\ it[t.ip].ref > 0
      BY <1>7, <1>2, <1>4 DEF Keeps
    <3> HIDE DEF t, it
    <3>2. Table(itable', dinode') /\ Keeps(it, itable')
      BY <1>2, <2>1, <3>1, NlinkStep
    <3> QED
      BY <3>1, <3>2 DEF Keeps
  <2>7. RefsCounted'
    <3>1. /\ ptr[<<p, "cwd">>] = cwd[p] /\ ptr'[<<p, "cwd">>] = cwd'[p]
          /\ ptr[<<p, "file">>] = file[p] /\ ptr'[<<p, "file">>] = file'[p]
          /\ ptr[<<p, "cur">>] = t.cur /\ ptr'[<<p, "cur">>] = r.cur
          /\ ptr[<<p, "ip">>] = t.ip /\ ptr'[<<p, "ip">>] = r.ip
          /\ ptr[<<p, "dp">>] = t.dp /\ ptr'[<<p, "dp">>] = r.dp
          /\ ptr[<<p, "put">>] = t.put /\ ptr'[<<p, "put">>] = r.put
      BY <2>4, PtrView
    <3>2. \A h \in Holders : ptr'[<<p, h>>] = ptr[<<p, h>>]
      BY <1>2, <2>1, <2>3, <3>1 DEF Holders
    <3>3. RefsCounted
      BY DEF Up, InodeInv
    <3> HIDE DEF t
    <3>4. TRUE
      BY DEF Holders
    <3> QED
      BY <1>7, <1>1, <1>2, <2>1, <2>3, <2>4, <2>6, <3>1, <3>2, <3>3, <3>4, RefsStay DEF Keeps
  <2>8. LockStep(p, r)
    <3>1. Locked(t) = 0 /\ Freeing(t) = 0 /\ Locked(r) = 0 /\ Freeing(r) = 0
      BY <1>7, <1>2, <2>3 DEF Locked, Freeing
    <3>3. lock' = lock
      BY <2>1
    <3> QED
      BY <1>7, <1>1, <1>2, <1>3, <2>6, <3>1, <3>3, SlotFacts DEF LockStep, Locks, Keeps
  <2>9. ValidStays(p)
    BY <1>1, <1>2, <1>3, <2>6 DEF ValidStays, Keeps, Locks, Locked, Freeing
  <2> QED
    <3>1. disk' \in [Inums -> Dinodes] /\ outstanding' \subseteq Procs
          /\ cwd' \in [Procs -> Slots] /\ file' \in [Procs -> 0..NINODE]
      BY <1>1, <1>2, <2>1, <2>4, SlotFacts DEF TypeOK
    <3>2. th' = [th EXCEPT ![p] = r] /\ boot' = boot
      BY <2>1
    <3> QED
      BY ONLY Up, p \in Procs, <2>2, <2>4, <2>5, <2>6, <2>7, <2>8, <2>9, <3>1, <3>2, StepKeeps
<1> QED
  BY <1>5, <1>6, <1>7

\* link(): the link count is taken back.
LEMMA LinkBadKeeps ==
  ASSUME Up, NEW p \in Procs, LinkBad(p)
  PROVE  InodeInv'
<1> DEFINE t == th[p]
<1> DEFINE it == ilock(itable, t.ip)
<1>1. /\ t \in Threads /\ FrameOK(t) /\ Table(itable, dinode)
      /\ cwd[p] \in Slots /\ itable[cwd[p]].ref > 0
      /\ \A s \in {file[p], t.cur, t.ip, t.dp, t.put} :
           s # 0 => s \in Slots /\ itable[s].ref > 0 /\ itable[s].inum \in Inums
  BY Mine
<1>2. /\ t.pc = "linkbad" /\ t.op = "link" /\ t.put = 0 /\ t.stage = "test"
      /\ t.cur = 0 /\ t.dp = 0
      /\ t.ip # 0 /\ t.ip \in Slots /\ itable[t.ip].ref > 0 /\ itable[t.ip].inum \in Inums
  <2>1. /\ t.pc = "linkbad" /\ t.op = "link" /\ t.put = 0 /\ t.stage = "test"
        /\ t.cur = 0
        /\ t.ip # 0
        /\ t.dp = 0
    BY <1>1 DEF LinkBad, Running, Putting, FrameOK, OpsAt, CurPcs, DpPcs, IpPcs, CreateOps
  <2> QED
    BY <1>1, <2>1
<1>3. Locks(p)
  BY LocksMine
<1>4. it[t.ip].type # "none" =>
        /\ Table(it, dinode) /\ Keeps(itable, it) /\ it[t.ip].valid
        /\ \A y \in Slots \ {t.ip} : it[y] = itable[y]
  BY <1>1, <1>2, IlockTable
<1>5. CASE it[t.ip].type = "none"
  <2>1. /\ Panic(p) /\ outstanding' = outstanding
        /\ UNCHANGED <<dinode, disk, itable, lock, cwd, file, boot>>
    BY <1>5, <1>1, <1>2 DEF LinkBad, FsOnly
  <2>2. outstanding' \subseteq Procs
    BY <2>1 DEF Up, InodeInv, TypeOK
  <2> QED
    BY <2>1, <2>2, PanicKeeps
<1>6. CASE it[t.ip].type # "none"
  <2> DEFINE r == [t EXCEPT !.pc = "end", !.put = t.ip, !.ip = 0]
  <2>1. /\ th' = [th EXCEPT ![p] = r] /\ boot' = boot
        /\ cwd' = cwd /\ file' = file /\ disk' = disk /\ outstanding' = outstanding
        /\ itable' = SetNlink(it, t.ip, it[t.ip].nlink - 1)
        /\ dinode' = [dinode EXCEPT ![it[t.ip].inum].nlink = it[t.ip].nlink - 1]
        /\ lock' = lock
    BY <1>6, <1>1, <1>2 DEF LinkBad, Become, FsOnly
  <2>2. r \in Threads
    BY <1>6, <1>1, <1>2, SlotFacts DEF Threads, Pcs
  <2>3. /\ r.pc = "end" /\ r.op = t.op /\ r.new = t.new
        /\ r.cur = t.cur /\ r.ip = 0 /\ r.dp = t.dp
        /\ r.put = t.ip /\ r.stage = t.stage
    BY <1>6, <1>1, <1>2 DEF Threads
  <2> HIDE DEF r, it
  <2>4. OthersPoint(p) /\ th'[p] = r /\ TypeOK
    <3>1. TypeOK
      BY DEF Up, InodeInv
    <3>2. \A q \in Procs \ {p} : cwd'[q] = cwd[q] /\ file'[q] = file[q]
      BY <2>1, <3>1 DEF TypeOK
    <3>3. th' = [th EXCEPT ![p] = r]
      BY <2>1
    <3> QED
      BY ONLY p \in Procs, <3>1, <3>2, <3>3, OthersStay
  <2>5. FrameOK(r) /\ r.pc # "panic" /\ Elements(r.new) \in Seq(Elems)
    <3>1. Elements(r.new) \in Seq(Elems)
      BY <1>6, <2>3, <2>4 DEF TypeOK
    <3>2. r.op \in OpsAt(r.pc) /\ r.pc # "panic"
      BY <1>6, <1>2, <2>3 DEF OpsAt, CreateOps, Ops
    <3> QED
      BY <1>6, <1>2, <2>3, <3>1, <3>2 DEF FrameOK, CurPcs, DpPcs, IpPcs
  <2>6. /\ Table(itable', dinode')
        /\ Keeps(itable, itable')
    <3>1. Table(it, dinode) /\ Keeps(itable, it) /\ it[t.ip].valid /\ it[t.ip].ref > 0
      BY <1>6, <1>2, <1>4 DEF Keeps
    <3> HIDE DEF t, it
    <3>2. Table(itable', dinode') /\ Keeps(it, itable')
      BY <1>2, <2>1, <3>1, NlinkStep
    <3> QED
      BY <3>1, <3>2 DEF Keeps
  <2>7. RefsCounted'
    <3>1. /\ ptr[<<p, "cwd">>] = cwd[p] /\ ptr'[<<p, "cwd">>] = cwd'[p]
          /\ ptr[<<p, "file">>] = file[p] /\ ptr'[<<p, "file">>] = file'[p]
          /\ ptr[<<p, "cur">>] = t.cur /\ ptr'[<<p, "cur">>] = r.cur
          /\ ptr[<<p, "ip">>] = t.ip /\ ptr'[<<p, "ip">>] = r.ip
          /\ ptr[<<p, "dp">>] = t.dp /\ ptr'[<<p, "dp">>] = r.dp
          /\ ptr[<<p, "put">>] = t.put /\ ptr'[<<p, "put">>] = r.put
      BY <2>4, PtrView
    <3>2. \A h \in Holders \ {"ip", "put"} : ptr'[<<p, h>>] = ptr[<<p, h>>]
      BY <1>2, <2>1, <2>3, <3>1 DEF Holders
    <3>3. RefsCounted
      BY DEF Up, InodeInv
    <3> HIDE DEF t
    <3>4. "ip" \in Holders /\ "put" \in Holders
      BY DEF Holders
    <3>5. /\ \A w \in Slots : itable'[w].ref = itable[w].ref
          /\ ptr[<<p, "put">>] = 0 /\ ptr'[<<p, "ip">>] = 0
          /\ ptr'[<<p, "put">>] = ptr[<<p, "ip">>]
      BY <1>6, <1>1, <1>2, <2>1, <2>3, <2>6, <3>1 DEF Keeps
    <3> QED
      BY ONLY p \in Procs, <2>4, <3>2, <3>3, <3>4, <3>5, RefsMove
  <2>8. LockStep(p, r)
    <3>1. Locked(t) = 0 /\ Freeing(t) = 0 /\ Locked(r) = 0 /\ Freeing(r) = 0
      BY <1>6, <1>2, <2>3 DEF Locked, Freeing
    <3>3. lock' = lock
      BY <2>1
    <3> QED
      BY <1>6, <1>1, <1>2, <1>3, <2>6, <3>1, <3>3, SlotFacts DEF LockStep, Locks, Keeps
  <2>9. ValidStays(p)
    BY <1>1, <1>2, <1>3, <2>6 DEF ValidStays, Keeps, Locks, Locked, Freeing
  <2> QED
    <3>1. disk' \in [Inums -> Dinodes] /\ outstanding' \subseteq Procs
          /\ cwd' \in [Procs -> Slots] /\ file' \in [Procs -> 0..NINODE]
      BY <1>1, <1>2, <2>1, <2>4, SlotFacts DEF TypeOK
    <3>2. th' = [th EXCEPT ![p] = r] /\ boot' = boot
      BY <2>1
    <3> QED
      BY ONLY Up, p \in Procs, <2>2, <2>4, <2>5, <2>6, <2>7, <2>8, <2>9, <3>1, <3>2, StepKeeps
<1> QED
  BY <1>5, <1>6

\* link(): the directory is locked and the entry written.
LEMMA Link2Keeps ==
  ASSUME Up, NEW p \in Procs, NEW ok, Link2(p, ok)
  PROVE  InodeInv'
<1> DEFINE t == th[p]
<1> DEFINE it == ilock(itable, t.dp)
<1> DEFINE old == dirlookup(it[t.dp].inum, t.name)
<1> DEFINE bad == it[t.dp].type = "none" \/ (old # 0 /\ ~CanGet(it, old))
<1>1. /\ t \in Threads /\ FrameOK(t) /\ Table(itable, dinode)
      /\ cwd[p] \in Slots /\ itable[cwd[p]].ref > 0
      /\ \A s \in {file[p], t.cur, t.ip, t.dp, t.put} :
           s # 0 => s \in Slots /\ itable[s].ref > 0 /\ itable[s].inum \in Inums
  BY Mine
<1>2. /\ t.pc = "link2" /\ t.op = "link" /\ t.put = 0 /\ t.stage = "test"
      /\ t.cur = 0
      /\ t.dp # 0 /\ t.dp \in Slots /\ itable[t.dp].ref > 0 /\ itable[t.dp].inum \in Inums
      /\ t.ip # 0 /\ t.ip \in Slots /\ itable[t.ip].ref > 0 /\ itable[t.ip].inum \in Inums
  <2>1. /\ t.pc = "link2" /\ t.op = "link" /\ t.put = 0 /\ t.stage = "test"
        /\ t.cur = 0
        /\ t.ip # 0
        /\ t.dp # 0
    BY <1>1 DEF Link2, Running, Putting, FrameOK, OpsAt, CurPcs, DpPcs, IpPcs, CreateOps
  <2> QED
    BY <1>1, <2>1
<1>3. Locks(p)
  BY LocksMine
<1>4. it[t.dp].type # "none" =>
        /\ Table(it, dinode) /\ Keeps(itable, it) /\ it[t.dp].valid
        /\ \A y \in Slots \ {t.dp} : it[y] = itable[y]
  BY <1>1, <1>2, IlockTable
<1>5. it[t.dp].type # "none" => old \in 0..NInodes
  <2> SUFFICES ASSUME it[t.dp].type # "none" PROVE old \in 0..NInodes
    OBVIOUS
  <2>1. it[t.dp].inum = itable[t.dp].inum
    BY <1>2, <1>4 DEF Keeps
  <2>2. t.name \in Elems
    BY <1>1, <1>2 DEF Threads, Link2
  <2>3. dinode[itable[t.dp].inum] \in Dinodes
    BY <1>1, <1>2 DEF Table
  <2> QED
    BY <2>1, <2>2, <2>3 DEF Dinodes, dirlookup
<1>6. ASSUME it[t.dp].type # "none", old # 0, CanGet(it, old)
      PROVE  /\ IgetSlot(it, old) \in Slots /\ Table(iget(it, old), dinode)
             /\ iget(it, old)[IgetSlot(it, old)].ref = itable[IgetSlot(it, old)].ref + 1
             /\ \A x \in Slots \ {IgetSlot(it, old)} : iget(it, old)[x].ref = itable[x].ref
             /\ \A x \in Slots : it[x].valid => iget(it, old)[x].valid
             /\ \A x \in Slots : itable[x].valid => iget(it, old)[x].valid
  <2>1. Table(it, dinode) /\ Keeps(itable, it) /\ old \in Inums
    BY <1>4, <1>5, <1>6, SlotFacts
  <2> HIDE DEF it, old
  <2>2. /\ IgetSlot(it, old) \in Slots /\ Table(iget(it, old), dinode)
        /\ iget(it, old)[IgetSlot(it, old)].ref = it[IgetSlot(it, old)].ref + 1
        /\ \A x \in Slots \ {IgetSlot(it, old)} : iget(it, old)[x] = it[x]
        /\ \A x \in Slots : it[x].valid => iget(it, old)[x].valid
    BY <1>6, <2>1, IgetTable
  <2> QED
    BY <2>1, <2>2 DEF Keeps
<1>7. CASE bad
  <2>1. /\ Panic(p) /\ outstanding' = outstanding
        /\ UNCHANGED <<dinode, disk, itable, lock, cwd, file, boot>>
    BY <1>7, <1>1, <1>2 DEF Link2, FsOnly
  <2>2. outstanding' \subseteq Procs
    BY <2>1 DEF Up, InodeInv, TypeOK
  <2> QED
    BY <2>1, <2>2, PanicKeeps
<1>8. CASE ~bad /\ old # 0
  <2> DEFINE r == [t EXCEPT !.pc = "dropdp", !.put = IgetSlot(it, old)]
  <2>1. /\ th' = [th EXCEPT ![p] = r] /\ boot' = boot
        /\ cwd' = cwd /\ file' = file /\ disk' = disk /\ outstanding' = outstanding
        /\ itable' = iget(it, old)
        /\ dinode' = dinode
        /\ lock' = [lock EXCEPT ![t.dp] = p]
        /\ lock[t.dp] = Free
    BY <1>8, <1>1, <1>2 DEF Link2, Become, FsOnly
  <2>2. r \in Threads
    BY <1>8, <1>1, <1>2, SlotFacts, <1>6 DEF Threads, Pcs
  <2>3. /\ r.pc = "dropdp" /\ r.op = t.op /\ r.new = t.new
        /\ r.cur = t.cur /\ r.ip = t.ip /\ r.dp = t.dp
        /\ r.put = IgetSlot(it, old) /\ r.stage = t.stage
    BY <1>8, <1>1, <1>2 DEF Threads
  <2> HIDE DEF r, it, old
  <2>4. OthersPoint(p) /\ th'[p] = r /\ TypeOK
    <3>1. TypeOK
      BY DEF Up, InodeInv
    <3>2. \A q \in Procs \ {p} : cwd'[q] = cwd[q] /\ file'[q] = file[q]
      BY <2>1, <3>1 DEF TypeOK
    <3>3. th' = [th EXCEPT ![p] = r]
      BY <2>1
    <3> QED
      BY ONLY p \in Procs, <3>1, <3>2, <3>3, OthersStay
  <2>5. FrameOK(r) /\ r.pc # "panic" /\ Elements(r.new) \in Seq(Elems)
    <3>1. Elements(r.new) \in Seq(Elems)
      BY <1>8, <2>3, <2>4 DEF TypeOK
    <3>2. r.op \in OpsAt(r.pc) /\ r.pc # "panic"
      BY <1>8, <1>2, <2>3, <1>6, SlotFacts DEF OpsAt, CreateOps, Ops
    <3> QED
      BY <1>8, <1>2, <2>3, <3>1, <3>2, <1>6, SlotFacts DEF FrameOK, CurPcs, DpPcs, IpPcs
  <2>6. /\ Table(itable', dinode')
        /\ IgetSlot(it, old) \in Slots /\ itable'[IgetSlot(it, old)].ref = itable[IgetSlot(it, old)].ref + 1
        /\ \A x \in Slots \ {IgetSlot(it, old)} : itable'[x].ref = itable[x].ref
        /\ \A x \in Slots : itable[x].valid => itable'[x].valid
        /\ itable'[t.dp].valid
    BY <1>8, <1>2, <1>4, <1>6, <2>1
  <2>7. RefsCounted'
    <3>1. /\ ptr[<<p, "cwd">>] = cwd[p] /\ ptr'[<<p, "cwd">>] = cwd'[p]
          /\ ptr[<<p, "file">>] = file[p] /\ ptr'[<<p, "file">>] = file'[p]
          /\ ptr[<<p, "cur">>] = t.cur /\ ptr'[<<p, "cur">>] = r.cur
          /\ ptr[<<p, "ip">>] = t.ip /\ ptr'[<<p, "ip">>] = r.ip
          /\ ptr[<<p, "dp">>] = t.dp /\ ptr'[<<p, "dp">>] = r.dp
          /\ ptr[<<p, "put">>] = t.put /\ ptr'[<<p, "put">>] = r.put
      BY <2>4, PtrView
    <3>2. \A h \in Holders \ {"put"} : ptr'[<<p, h>>] = ptr[<<p, h>>]
      BY <1>2, <2>1, <2>3, <3>1 DEF Holders
    <3>3. RefsCounted
      BY DEF Up, InodeInv
    <3> HIDE DEF t
    <3>4. "put" \in Holders
      BY DEF Holders
    <3>5. /\ IgetSlot(it, old) \in Slots /\ itable'[IgetSlot(it, old)].ref = itable[IgetSlot(it, old)].ref + 1
          /\ \A w \in Slots \ {IgetSlot(it, old)} : itable'[w].ref = itable[w].ref
          /\ ptr[<<p, "put">>] = 0 /\ ptr'[<<p, "put">>] = IgetSlot(it, old)
      BY <1>8, <1>1, <1>2, <2>1, <2>3, <2>6, <3>1 DEF Keeps
    <3> QED
      BY ONLY p \in Procs, <2>4, <3>2, <3>3, <3>4, <3>5, RefsTake
  <2>8. LockStep(p, r)
    <3>1. Locked(t) = 0 /\ Freeing(t) = 0 /\ Locked(r) = t.dp /\ Freeing(r) = 0
      BY <1>8, <1>2, <2>3 DEF Locked, Freeing
    <3>3. lock' = [lock EXCEPT ![t.dp] = p] /\ lock[t.dp] = Free
      BY <2>1
    <3> QED
      BY <1>8, <1>1, <1>2, <1>3, <2>6, <3>1, <3>3, SlotFacts DEF LockStep, Locks, Keeps
  <2>9. ValidStays(p)
    BY <1>1, <1>2, <1>3, <2>6 DEF ValidStays, Keeps, Locks, Locked, Freeing
  <2> QED
    <3>1. disk' \in [Inums -> Dinodes] /\ outstanding' \subseteq Procs
          /\ cwd' \in [Procs -> Slots] /\ file' \in [Procs -> 0..NINODE]
      BY <1>1, <1>2, <2>1, <2>4, SlotFacts DEF TypeOK
    <3>2. th' = [th EXCEPT ![p] = r] /\ boot' = boot
      BY <2>1
    <3> QED
      BY ONLY Up, p \in Procs, <2>2, <2>4, <2>5, <2>6, <2>7, <2>8, <2>9, <3>1, <3>2, StepKeeps
<1>9. CASE ~bad /\ old = 0 /\ ~ok
  <2> DEFINE r == [t EXCEPT !.pc = "linkbad", !.put = t.dp, !.dp = 0]
  <2>1. /\ th' = [th EXCEPT ![p] = r] /\ boot' = boot
        /\ cwd' = cwd /\ file' = file /\ disk' = disk /\ outstanding' = outstanding
        /\ itable' = it
        /\ dinode' = dinode
        /\ lock' = lock
    BY <1>9, <1>1, <1>2 DEF Link2, Become, FsOnly
  <2>2. r \in Threads
    BY <1>9, <1>1, <1>2, SlotFacts DEF Threads, Pcs
  <2>3. /\ r.pc = "linkbad" /\ r.op = t.op /\ r.new = t.new
        /\ r.cur = t.cur /\ r.ip = t.ip /\ r.dp = 0
        /\ r.put = t.dp /\ r.stage = t.stage
    BY <1>9, <1>1, <1>2 DEF Threads
  <2> HIDE DEF r, it, old
  <2>4. OthersPoint(p) /\ th'[p] = r /\ TypeOK
    <3>1. TypeOK
      BY DEF Up, InodeInv
    <3>2. \A q \in Procs \ {p} : cwd'[q] = cwd[q] /\ file'[q] = file[q]
      BY <2>1, <3>1 DEF TypeOK
    <3>3. th' = [th EXCEPT ![p] = r]
      BY <2>1
    <3> QED
      BY ONLY p \in Procs, <3>1, <3>2, <3>3, OthersStay
  <2>5. FrameOK(r) /\ r.pc # "panic" /\ Elements(r.new) \in Seq(Elems)
    <3>1. Elements(r.new) \in Seq(Elems)
      BY <1>9, <2>3, <2>4 DEF TypeOK
    <3>2. r.op \in OpsAt(r.pc) /\ r.pc # "panic"
      BY <1>9, <1>2, <2>3 DEF OpsAt, CreateOps, Ops
    <3> QED
      BY <1>9, <1>2, <2>3, <3>1, <3>2 DEF FrameOK, CurPcs, DpPcs, IpPcs
  <2>6. /\ Table(itable', dinode')
        /\ Keeps(itable, itable')
    BY <1>9, <1>4, <2>1
  <2>7. RefsCounted'
    <3>1. /\ ptr[<<p, "cwd">>] = cwd[p] /\ ptr'[<<p, "cwd">>] = cwd'[p]
          /\ ptr[<<p, "file">>] = file[p] /\ ptr'[<<p, "file">>] = file'[p]
          /\ ptr[<<p, "cur">>] = t.cur /\ ptr'[<<p, "cur">>] = r.cur
          /\ ptr[<<p, "ip">>] = t.ip /\ ptr'[<<p, "ip">>] = r.ip
          /\ ptr[<<p, "dp">>] = t.dp /\ ptr'[<<p, "dp">>] = r.dp
          /\ ptr[<<p, "put">>] = t.put /\ ptr'[<<p, "put">>] = r.put
      BY <2>4, PtrView
    <3>2. \A h \in Holders \ {"dp", "put"} : ptr'[<<p, h>>] = ptr[<<p, h>>]
      BY <1>2, <2>1, <2>3, <3>1 DEF Holders
    <3>3. RefsCounted
      BY DEF Up, InodeInv
    <3> HIDE DEF t
    <3>4. "dp" \in Holders /\ "put" \in Holders
      BY DEF Holders
    <3>5. /\ \A w \in Slots : itable'[w].ref = itable[w].ref
          /\ ptr[<<p, "put">>] = 0 /\ ptr'[<<p, "dp">>] = 0
          /\ ptr'[<<p, "put">>] = ptr[<<p, "dp">>]
      BY <1>9, <1>1, <1>2, <2>1, <2>3, <2>6, <3>1 DEF Keeps
    <3> QED
      BY ONLY p \in Procs, <2>4, <3>2, <3>3, <3>4, <3>5, RefsMove
  <2>8. LockStep(p, r)
    <3>1. Locked(t) = 0 /\ Freeing(t) = 0 /\ Locked(r) = 0 /\ Freeing(r) = 0
      BY <1>9, <1>2, <2>3 DEF Locked, Freeing
    <3>3. lock' = lock
      BY <2>1
    <3> QED
      BY <1>9, <1>1, <1>2, <1>3, <2>6, <3>1, <3>3, SlotFacts DEF LockStep, Locks, Keeps
  <2>9. ValidStays(p)
    BY <1>1, <1>2, <1>3, <2>6 DEF ValidStays, Keeps, Locks, Locked, Freeing
  <2> QED
    <3>1. disk' \in [Inums -> Dinodes] /\ outstanding' \subseteq Procs
          /\ cwd' \in [Procs -> Slots] /\ file' \in [Procs -> 0..NINODE]
      BY <1>1, <1>2, <2>1, <2>4, SlotFacts DEF TypeOK
    <3>2. th' = [th EXCEPT ![p] = r] /\ boot' = boot
      BY <2>1
    <3> QED
      BY ONLY Up, p \in Procs, <2>2, <2>4, <2>5, <2>6, <2>7, <2>8, <2>9, <3>1, <3>2, StepKeeps
<1>10. CASE ~bad /\ old = 0 /\ ok
  <2> DEFINE r == [t EXCEPT !.pc = "linked", !.put = t.dp, !.dp = 0]
  <2>1. /\ th' = [th EXCEPT ![p] = r] /\ boot' = boot
        /\ cwd' = cwd /\ file' = file /\ disk' = disk /\ outstanding' = outstanding
        /\ itable' = it
        /\ dinode' = [dinode EXCEPT ![it[t.dp].inum].ents[t.name] = it[t.ip].inum]
        /\ lock' = lock
    BY <1>10, <1>1, <1>2 DEF Link2, Become, FsOnly
  <2>2. r \in Threads
    BY <1>10, <1>1, <1>2, SlotFacts DEF Threads, Pcs
  <2>3. /\ r.pc = "linked" /\ r.op = t.op /\ r.new = t.new
        /\ r.cur = t.cur /\ r.ip = t.ip /\ r.dp = 0
        /\ r.put = t.dp /\ r.stage = t.stage
    BY <1>10, <1>1, <1>2 DEF Threads
  <2> HIDE DEF r, it, old
  <2>4. OthersPoint(p) /\ th'[p] = r /\ TypeOK
    <3>1. TypeOK
      BY DEF Up, InodeInv
    <3>2. \A q \in Procs \ {p} : cwd'[q] = cwd[q] /\ file'[q] = file[q]
      BY <2>1, <3>1 DEF TypeOK
    <3>3. th' = [th EXCEPT ![p] = r]
      BY <2>1
    <3> QED
      BY ONLY p \in Procs, <3>1, <3>2, <3>3, OthersStay
  <2>5. FrameOK(r) /\ r.pc # "panic" /\ Elements(r.new) \in Seq(Elems)
    <3>1. Elements(r.new) \in Seq(Elems)
      BY <1>10, <2>3, <2>4 DEF TypeOK
    <3>2. r.op \in OpsAt(r.pc) /\ r.pc # "panic"
      BY <1>10, <1>2, <2>3 DEF OpsAt, CreateOps, Ops
    <3> QED
      BY <1>10, <1>2, <2>3, <3>1, <3>2 DEF FrameOK, CurPcs, DpPcs, IpPcs
  <2>6. /\ Table(itable', dinode')
        /\ Keeps(itable, itable')
    <3>1. Table(it, dinode) /\ Keeps(itable, it)
      BY <1>10, <1>4
    <3>2. it[t.dp].inum \in Inums /\ it[t.ip].inum \in 0..NInodes /\ t.name \in Elems
      BY <1>1, <1>2, <3>1, SlotFacts DEF Keeps, Threads
    <3>3. dinode \in [Inums -> Dinodes]
      BY <1>1 DEF Table
    <3> HIDE DEF t, it
    <3>4. /\ dinode' \in [Inums -> Dinodes]
          /\ \A x \in Inums : dinode'[x].type = dinode[x].type /\ dinode'[x].nlink = dinode[x].nlink
      BY <2>1, <3>2, <3>3 DEF Dinodes
    <3>5. Table(it, dinode')
      BY ONLY <3>1, <3>4, EntsTable
    <3> QED
      BY <2>1, <3>1, <3>5
  <2>7. RefsCounted'
    <3>1. /\ ptr[<<p, "cwd">>] = cwd[p] /\ ptr'[<<p, "cwd">>] = cwd'[p]
          /\ ptr[<<p, "file">>] = file[p] /\ ptr'[<<p, "file">>] = file'[p]
          /\ ptr[<<p, "cur">>] = t.cur /\ ptr'[<<p, "cur">>] = r.cur
          /\ ptr[<<p, "ip">>] = t.ip /\ ptr'[<<p, "ip">>] = r.ip
          /\ ptr[<<p, "dp">>] = t.dp /\ ptr'[<<p, "dp">>] = r.dp
          /\ ptr[<<p, "put">>] = t.put /\ ptr'[<<p, "put">>] = r.put
      BY <2>4, PtrView
    <3>2. \A h \in Holders \ {"dp", "put"} : ptr'[<<p, h>>] = ptr[<<p, h>>]
      BY <1>2, <2>1, <2>3, <3>1 DEF Holders
    <3>3. RefsCounted
      BY DEF Up, InodeInv
    <3> HIDE DEF t
    <3>4. "dp" \in Holders /\ "put" \in Holders
      BY DEF Holders
    <3>5. /\ \A w \in Slots : itable'[w].ref = itable[w].ref
          /\ ptr[<<p, "put">>] = 0 /\ ptr'[<<p, "dp">>] = 0
          /\ ptr'[<<p, "put">>] = ptr[<<p, "dp">>]
      BY <1>10, <1>1, <1>2, <2>1, <2>3, <2>6, <3>1 DEF Keeps
    <3> QED
      BY ONLY p \in Procs, <2>4, <3>2, <3>3, <3>4, <3>5, RefsMove
  <2>8. LockStep(p, r)
    <3>1. Locked(t) = 0 /\ Freeing(t) = 0 /\ Locked(r) = 0 /\ Freeing(r) = 0
      BY <1>10, <1>2, <2>3 DEF Locked, Freeing
    <3>3. lock' = lock
      BY <2>1
    <3> QED
      BY <1>10, <1>1, <1>2, <1>3, <2>6, <3>1, <3>3, SlotFacts DEF LockStep, Locks, Keeps
  <2>9. ValidStays(p)
    BY <1>1, <1>2, <1>3, <2>6 DEF ValidStays, Keeps, Locks, Locked, Freeing
  <2> QED
    <3>1. disk' \in [Inums -> Dinodes] /\ outstanding' \subseteq Procs
          /\ cwd' \in [Procs -> Slots] /\ file' \in [Procs -> 0..NINODE]
      BY <1>1, <1>2, <2>1, <2>4, SlotFacts DEF TypeOK
    <3>2. th' = [th EXCEPT ![p] = r] /\ boot' = boot
      BY <2>1
    <3> QED
      BY ONLY Up, p \in Procs, <2>2, <2>4, <2>5, <2>6, <2>7, <2>8, <2>9, <3>1, <3>2, StepKeeps
<1> QED
  BY <1>7, <1>8, <1>9, <1>10

\* create(): the directory is locked; the inode exists or is allocated.
LEMMA Create1Keeps ==
  ASSUME Up, NEW p \in Procs, Create1(p)
  PROVE  InodeInv'
<1> DEFINE t == th[p]
<1> DEFINE it == ilock(itable, t.dp)
<1> DEFINE i == dirlookup(it[t.dp].inum, t.name)
<1> DEFINE bad == it[t.dp].type = "none" \/ (i # 0 /\ ~CanGet(it, i))
<1> DEFINE m == Min(FreeInums)
<1>1. /\ t \in Threads /\ FrameOK(t) /\ Table(itable, dinode)
      /\ cwd[p] \in Slots /\ itable[cwd[p]].ref > 0
      /\ \A s \in {file[p], t.cur, t.ip, t.dp, t.put} :
           s # 0 => s \in Slots /\ itable[s].ref > 0 /\ itable[s].inum \in Inums
  BY Mine
<1>2. /\ t.pc = "create1" /\ t.op \in CreateOps /\ t.put = 0 /\ t.stage = "test"
      /\ t.cur = 0 /\ t.ip = 0
      /\ t.dp # 0 /\ t.dp \in Slots /\ itable[t.dp].ref > 0 /\ itable[t.dp].inum \in Inums
  <2>1. /\ t.pc = "create1" /\ t.op \in CreateOps /\ t.put = 0 /\ t.stage = "test"
        /\ t.cur = 0
        /\ t.ip = 0
        /\ t.dp # 0
    BY <1>1 DEF Create1, Running, Putting, FrameOK, OpsAt, CurPcs, DpPcs, IpPcs, CreateOps
  <2> QED
    BY <1>1, <2>1
<1>3. Locks(p)
  BY LocksMine
<1>4. it[t.dp].type # "none" =>
        /\ Table(it, dinode) /\ Keeps(itable, it) /\ it[t.dp].valid
        /\ \A y \in Slots \ {t.dp} : it[y] = itable[y]
  BY <1>1, <1>2, IlockTable
<1>5. it[t.dp].type # "none" => i \in 0..NInodes
  <2> SUFFICES ASSUME it[t.dp].type # "none" PROVE i \in 0..NInodes
    OBVIOUS
  <2>1. it[t.dp].inum = itable[t.dp].inum
    BY <1>2, <1>4 DEF Keeps
  <2>2. t.name \in Elems
    BY <1>1, <1>2 DEF Threads, Create1
  <2>3. dinode[itable[t.dp].inum] \in Dinodes
    BY <1>1, <1>2 DEF Table
  <2> QED
    BY <2>1, <2>2, <2>3 DEF Dinodes, dirlookup
<1>6. ASSUME it[t.dp].type # "none", i # 0, CanGet(it, i)
      PROVE  /\ IgetSlot(it, i) \in Slots /\ Table(iget(it, i), dinode)
             /\ iget(it, i)[IgetSlot(it, i)].ref = itable[IgetSlot(it, i)].ref + 1
             /\ \A x \in Slots \ {IgetSlot(it, i)} : iget(it, i)[x].ref = itable[x].ref
             /\ \A x \in Slots : it[x].valid => iget(it, i)[x].valid
             /\ \A x \in Slots : itable[x].valid => iget(it, i)[x].valid
  <2>1. Table(it, dinode) /\ Keeps(itable, it) /\ i \in Inums
    BY <1>4, <1>5, <1>6, SlotFacts
  <2> HIDE DEF it, i
  <2>2. /\ IgetSlot(it, i) \in Slots /\ Table(iget(it, i), dinode)
        /\ iget(it, i)[IgetSlot(it, i)].ref = it[IgetSlot(it, i)].ref + 1
        /\ \A x \in Slots \ {IgetSlot(it, i)} : iget(it, i)[x] = it[x]
        /\ \A x \in Slots : it[x].valid => iget(it, i)[x].valid
    BY <1>6, <2>1, IgetTable
  <2> QED
    BY <2>1, <2>2 DEF Keeps
<1>7. FreeInums # {} => m \in FreeInums /\ m \in Inums /\ m \in 0..NInodes
  <2> SUFFICES ASSUME FreeInums # {} PROVE m \in FreeInums
    BY SlotFacts DEF FreeInums
  <2>1. FreeInums \subseteq Nat
    BY DEF FreeInums, Inums
  <2>2. \E x \in FreeInums : \A y \in FreeInums : x <= y
    BY <2>1, LeastExists
  <2> QED
    BY <2>2 DEF Min
<1>8. CASE bad
  <2>1. /\ Panic(p) /\ outstanding' = outstanding
        /\ UNCHANGED <<dinode, disk, itable, lock, cwd, file, boot>>
    BY <1>8, <1>1, <1>2 DEF Create1, FsOnly
  <2>2. outstanding' \subseteq Procs
    BY <2>1 DEF Up, InodeInv, TypeOK
  <2> QED
    BY <2>1, <2>2, PanicKeeps
<1>9. CASE ~bad /\ i # 0
  <2> DEFINE r == [t EXCEPT !.pc = "create2", !.put = t.dp, !.dp = 0, !.ip = IgetSlot(it, i)]
  <2>1. /\ th' = [th EXCEPT ![p] = r] /\ boot' = boot
        /\ cwd' = cwd /\ file' = file /\ disk' = disk /\ outstanding' = outstanding
        /\ itable' = iget(it, i)
        /\ dinode' = dinode
        /\ lock' = lock
    BY <1>9, <1>1, <1>2 DEF Create1, Become, FsOnly
  <2>2. r \in Threads
    BY <1>9, <1>1, <1>2, SlotFacts, <1>6 DEF Threads, Pcs
  <2>3. /\ r.pc = "create2" /\ r.op = t.op /\ r.new = t.new
        /\ r.cur = t.cur /\ r.ip = IgetSlot(it, i) /\ r.dp = 0
        /\ r.put = t.dp /\ r.stage = t.stage
    BY <1>9, <1>1, <1>2 DEF Threads
  <2> HIDE DEF r, it, i, m
  <2>4. OthersPoint(p) /\ th'[p] = r /\ TypeOK
    <3>1. TypeOK
      BY DEF Up, InodeInv
    <3>2. \A q \in Procs \ {p} : cwd'[q] = cwd[q] /\ file'[q] = file[q]
      BY <2>1, <3>1 DEF TypeOK
    <3>3. th' = [th EXCEPT ![p] = r]
      BY <2>1
    <3> QED
      BY ONLY p \in Procs, <3>1, <3>2, <3>3, OthersStay
  <2>5. FrameOK(r) /\ r.pc # "panic" /\ Elements(r.new) \in Seq(Elems)
    <3>1. Elements(r.new) \in Seq(Elems)
      BY <1>9, <2>3, <2>4 DEF TypeOK
    <3>2. r.op \in OpsAt(r.pc) /\ r.pc # "panic"
      BY <1>9, <1>2, <2>3, <1>6, SlotFacts DEF OpsAt, CreateOps, Ops
    <3> QED
      BY <1>9, <1>2, <2>3, <3>1, <3>2, <1>6, SlotFacts DEF FrameOK, CurPcs, DpPcs, IpPcs
  <2>6. /\ Table(itable', dinode')
        /\ IgetSlot(it, i) \in Slots /\ itable'[IgetSlot(it, i)].ref = itable[IgetSlot(it, i)].ref + 1
        /\ \A x \in Slots \ {IgetSlot(it, i)} : itable'[x].ref = itable[x].ref
        /\ \A x \in Slots : itable[x].valid => itable'[x].valid
    BY <1>9, <1>2, <1>4, <1>6, <2>1
  <2>7. RefsCounted'
    <3>1. /\ ptr[<<p, "cwd">>] = cwd[p] /\ ptr'[<<p, "cwd">>] = cwd'[p]
          /\ ptr[<<p, "file">>] = file[p] /\ ptr'[<<p, "file">>] = file'[p]
          /\ ptr[<<p, "cur">>] = t.cur /\ ptr'[<<p, "cur">>] = r.cur
          /\ ptr[<<p, "ip">>] = t.ip /\ ptr'[<<p, "ip">>] = r.ip
          /\ ptr[<<p, "dp">>] = t.dp /\ ptr'[<<p, "dp">>] = r.dp
          /\ ptr[<<p, "put">>] = t.put /\ ptr'[<<p, "put">>] = r.put
      BY <2>4, PtrView
    <3>2. \A h \in Holders \ {"dp", "put", "ip"} : ptr'[<<p, h>>] = ptr[<<p, h>>]
      BY <1>2, <2>1, <2>3, <3>1 DEF Holders
    <3>3. RefsCounted
      BY DEF Up, InodeInv
    <3> HIDE DEF t
    <3>4. "dp" \in Holders /\ "put" \in Holders /\ "ip" \in Holders
      BY DEF Holders
    <3>5. /\ IgetSlot(it, i) \in Slots /\ itable'[IgetSlot(it, i)].ref = itable[IgetSlot(it, i)].ref + 1
          /\ \A w \in Slots \ {IgetSlot(it, i)} : itable'[w].ref = itable[w].ref
          /\ ptr[<<p, "put">>] = 0 /\ ptr'[<<p, "put">>] = ptr[<<p, "dp">>]
          /\ ptr'[<<p, "ip">>] = IgetSlot(it, i)
          /\ ptr[<<p, "ip">>] = 0 /\ ptr'[<<p, "dp">>] = 0
      BY <1>9, <1>1, <1>2, <2>1, <2>3, <2>6, <3>1 DEF Keeps
    <3> QED
      BY ONLY p \in Procs, <2>4, <3>2, <3>3, <3>4, <3>5, RefsMoveTake
  <2>8. LockStep(p, r)
    <3>1. Locked(t) = 0 /\ Freeing(t) = 0 /\ Locked(r) = 0 /\ Freeing(r) = 0
      BY <1>9, <1>2, <2>3 DEF Locked, Freeing
    <3>3. lock' = lock
      BY <2>1
    <3> QED
      BY <1>9, <1>1, <1>2, <1>3, <2>6, <3>1, <3>3, SlotFacts DEF LockStep, Locks, Keeps
  <2>9. ValidStays(p)
    BY <1>1, <1>2, <1>3, <2>6 DEF ValidStays, Keeps, Locks, Locked, Freeing
  <2> QED
    <3>1. disk' \in [Inums -> Dinodes] /\ outstanding' \subseteq Procs
          /\ cwd' \in [Procs -> Slots] /\ file' \in [Procs -> 0..NINODE]
      BY <1>1, <1>2, <2>1, <2>4, SlotFacts DEF TypeOK
    <3>2. th' = [th EXCEPT ![p] = r] /\ boot' = boot
      BY <2>1
    <3> QED
      BY ONLY Up, p \in Procs, <2>2, <2>4, <2>5, <2>6, <2>7, <2>8, <2>9, <3>1, <3>2, StepKeeps
<1>10. CASE ~bad /\ i = 0 /\ FreeInums = {}
  <2> DEFINE r == [t EXCEPT !.pc = "end", !.put = t.dp, !.dp = 0]
  <2>1. /\ th' = [th EXCEPT ![p] = r] /\ boot' = boot
        /\ cwd' = cwd /\ file' = file /\ disk' = disk /\ outstanding' = outstanding
        /\ itable' = it
        /\ dinode' = dinode
        /\ lock' = lock
    BY <1>10, <1>1, <1>2 DEF Create1, Become, FsOnly
  <2>2. r \in Threads
    BY <1>10, <1>1, <1>2, SlotFacts DEF Threads, Pcs
  <2>3. /\ r.pc = "end" /\ r.op = t.op /\ r.new = t.new
        /\ r.cur = t.cur /\ r.ip = t.ip /\ r.dp = 0
        /\ r.put = t.dp /\ r.stage = t.stage
    BY <1>10, <1>1, <1>2 DEF Threads
  <2> HIDE DEF r, it, i, m
  <2>4. OthersPoint(p) /\ th'[p] = r /\ TypeOK
    <3>1. TypeOK
      BY DEF Up, InodeInv
    <3>2. \A q \in Procs \ {p} : cwd'[q] = cwd[q] /\ file'[q] = file[q]
      BY <2>1, <3>1 DEF TypeOK
    <3>3. th' = [th EXCEPT ![p] = r]
      BY <2>1
    <3> QED
      BY ONLY p \in Procs, <3>1, <3>2, <3>3, OthersStay
  <2>5. FrameOK(r) /\ r.pc # "panic" /\ Elements(r.new) \in Seq(Elems)
    <3>1. Elements(r.new) \in Seq(Elems)
      BY <1>10, <2>3, <2>4 DEF TypeOK
    <3>2. r.op \in OpsAt(r.pc) /\ r.pc # "panic"
      BY <1>10, <1>2, <2>3 DEF OpsAt, CreateOps, Ops
    <3> QED
      BY <1>10, <1>2, <2>3, <3>1, <3>2 DEF FrameOK, CurPcs, DpPcs, IpPcs
  <2>6. /\ Table(itable', dinode')
        /\ Keeps(itable, itable')
    BY <1>10, <1>4, <2>1
  <2>7. RefsCounted'
    <3>1. /\ ptr[<<p, "cwd">>] = cwd[p] /\ ptr'[<<p, "cwd">>] = cwd'[p]
          /\ ptr[<<p, "file">>] = file[p] /\ ptr'[<<p, "file">>] = file'[p]
          /\ ptr[<<p, "cur">>] = t.cur /\ ptr'[<<p, "cur">>] = r.cur
          /\ ptr[<<p, "ip">>] = t.ip /\ ptr'[<<p, "ip">>] = r.ip
          /\ ptr[<<p, "dp">>] = t.dp /\ ptr'[<<p, "dp">>] = r.dp
          /\ ptr[<<p, "put">>] = t.put /\ ptr'[<<p, "put">>] = r.put
      BY <2>4, PtrView
    <3>2. \A h \in Holders \ {"dp", "put"} : ptr'[<<p, h>>] = ptr[<<p, h>>]
      BY <1>2, <2>1, <2>3, <3>1 DEF Holders
    <3>3. RefsCounted
      BY DEF Up, InodeInv
    <3> HIDE DEF t
    <3>4. "dp" \in Holders /\ "put" \in Holders
      BY DEF Holders
    <3>5. /\ \A w \in Slots : itable'[w].ref = itable[w].ref
          /\ ptr[<<p, "put">>] = 0 /\ ptr'[<<p, "dp">>] = 0
          /\ ptr'[<<p, "put">>] = ptr[<<p, "dp">>]
      BY <1>10, <1>1, <1>2, <2>1, <2>3, <2>6, <3>1 DEF Keeps
    <3> QED
      BY ONLY p \in Procs, <2>4, <3>2, <3>3, <3>4, <3>5, RefsMove
  <2>8. LockStep(p, r)
    <3>1. Locked(t) = 0 /\ Freeing(t) = 0 /\ Locked(r) = 0 /\ Freeing(r) = 0
      BY <1>10, <1>2, <2>3 DEF Locked, Freeing
    <3>3. lock' = lock
      BY <2>1
    <3> QED
      BY <1>10, <1>1, <1>2, <1>3, <2>6, <3>1, <3>3, SlotFacts DEF LockStep, Locks, Keeps
  <2>9. ValidStays(p)
    BY <1>1, <1>2, <1>3, <2>6 DEF ValidStays, Keeps, Locks, Locked, Freeing
  <2> QED
    <3>1. disk' \in [Inums -> Dinodes] /\ outstanding' \subseteq Procs
          /\ cwd' \in [Procs -> Slots] /\ file' \in [Procs -> 0..NINODE]
      BY <1>1, <1>2, <2>1, <2>4, SlotFacts DEF TypeOK
    <3>2. th' = [th EXCEPT ![p] = r] /\ boot' = boot
      BY <2>1
    <3> QED
      BY ONLY Up, p \in Procs, <2>2, <2>4, <2>5, <2>6, <2>7, <2>8, <2>9, <3>1, <3>2, StepKeeps
<1>11. CASE ~bad /\ i = 0 /\ FreeInums # {}
  <2> DEFINE r == [t EXCEPT !.pc = "create3", !.ino = m]
  <2>1. /\ th' = [th EXCEPT ![p] = r] /\ boot' = boot
        /\ cwd' = cwd /\ file' = file /\ disk' = disk /\ outstanding' = outstanding
        /\ itable' = it
        /\ dinode' = [dinode EXCEPT ![m] = [Freed EXCEPT !.type = CreateType(t.op)]]
        /\ lock' = [lock EXCEPT ![t.dp] = p]
        /\ lock[t.dp] = Free
    BY <1>11, <1>1, <1>2 DEF Create1, Become, FsOnly
  <2>2. r \in Threads
    BY <1>11, <1>1, <1>2, SlotFacts, <1>7 DEF Threads, Pcs
  <2>3. /\ r.pc = "create3" /\ r.op = t.op /\ r.new = t.new
        /\ r.cur = t.cur /\ r.ip = t.ip /\ r.dp = t.dp
        /\ r.put = t.put /\ r.stage = t.stage /\ r.ino = m
    BY <1>11, <1>1, <1>2 DEF Threads
  <2> HIDE DEF r, it, i, m
  <2>4. OthersPoint(p) /\ th'[p] = r /\ TypeOK
    <3>1. TypeOK
      BY DEF Up, InodeInv
    <3>2. \A q \in Procs \ {p} : cwd'[q] = cwd[q] /\ file'[q] = file[q]
      BY <2>1, <3>1 DEF TypeOK
    <3>3. th' = [th EXCEPT ![p] = r]
      BY <2>1
    <3> QED
      BY ONLY p \in Procs, <3>1, <3>2, <3>3, OthersStay
  <2>5. FrameOK(r) /\ r.pc # "panic" /\ Elements(r.new) \in Seq(Elems)
    <3>1. Elements(r.new) \in Seq(Elems)
      BY <1>11, <2>3, <2>4 DEF TypeOK
    <3>2. r.op \in OpsAt(r.pc) /\ r.pc # "panic"
      BY <1>11, <1>2, <2>3, <1>7, SlotFacts DEF OpsAt, CreateOps, Ops
    <3> QED
      BY <1>11, <1>2, <2>3, <3>1, <3>2, <1>7, SlotFacts DEF FrameOK, CurPcs, DpPcs, IpPcs
  <2>6. /\ Table(itable', dinode')
        /\ Keeps(itable, itable')
        /\ itable'[t.dp].valid
    <3>1. Table(it, dinode) /\ Keeps(itable, it) /\ it[t.dp].valid /\ dinode \in [Inums -> Dinodes]
      BY <1>11, <1>1, <1>4 DEF Table
    <3>2. m \in Inums /\ dinode[m].type = "none"
      BY <1>11, <1>7 DEF FreeInums
    <3>3. [Freed EXCEPT !.type = CreateType(t.op)] \in Dinodes
      <4>1. CreateType(t.op) \in Types
        BY <1>2 DEF CreateType, CreateOps, Types
      <4> QED
        <5>1. [Freed EXCEPT !.type = CreateType(t.op)] =
                [type |-> CreateType(t.op), nlink |-> 0, ents |-> NoDir]
          BY DEF Freed
        <5>2. NoDir \in [Elems -> 0..NInodes]
          BY InodeAssumption DEF NoDir
        <5> QED
          BY <4>1, <5>1, <5>2 DEF Dinodes
    <3> HIDE DEF m, it, t
    <3>4. dinode' \in [Inums -> Dinodes] /\ \A j \in Inums \ {m} : dinode'[j] = dinode[j]
      BY <2>1, <3>1, <3>2, <3>3
    <3>5. Table(it, dinode')
      BY ONLY <3>1, <3>2, <3>4, FreeTable
    <3> QED
      BY <2>1, <3>1, <3>5
  <2>7. RefsCounted'
    <3>1. /\ ptr[<<p, "cwd">>] = cwd[p] /\ ptr'[<<p, "cwd">>] = cwd'[p]
          /\ ptr[<<p, "file">>] = file[p] /\ ptr'[<<p, "file">>] = file'[p]
          /\ ptr[<<p, "cur">>] = t.cur /\ ptr'[<<p, "cur">>] = r.cur
          /\ ptr[<<p, "ip">>] = t.ip /\ ptr'[<<p, "ip">>] = r.ip
          /\ ptr[<<p, "dp">>] = t.dp /\ ptr'[<<p, "dp">>] = r.dp
          /\ ptr[<<p, "put">>] = t.put /\ ptr'[<<p, "put">>] = r.put
      BY <2>4, PtrView
    <3>2. \A h \in Holders : ptr'[<<p, h>>] = ptr[<<p, h>>]
      BY <1>2, <2>1, <2>3, <3>1 DEF Holders
    <3>3. RefsCounted
      BY DEF Up, InodeInv
    <3> HIDE DEF t
    <3>4. TRUE
      BY DEF Holders
    <3> QED
      BY <1>11, <1>1, <1>2, <2>1, <2>3, <2>4, <2>6, <3>1, <3>2, <3>3, <3>4, RefsStay DEF Keeps
  <2>8. LockStep(p, r)
    <3>1. Locked(t) = 0 /\ Freeing(t) = 0 /\ Locked(r) = t.dp /\ Freeing(r) = 0
      BY <1>11, <1>2, <2>3 DEF Locked, Freeing
    <3>3. lock' = [lock EXCEPT ![t.dp] = p] /\ lock[t.dp] = Free
      BY <2>1
    <3> QED
      BY <1>11, <1>1, <1>2, <1>3, <2>6, <3>1, <3>3, SlotFacts DEF LockStep, Locks, Keeps
  <2>9. ValidStays(p)
    BY <1>1, <1>2, <1>3, <2>6 DEF ValidStays, Keeps, Locks, Locked, Freeing
  <2> QED
    <3>1. disk' \in [Inums -> Dinodes] /\ outstanding' \subseteq Procs
          /\ cwd' \in [Procs -> Slots] /\ file' \in [Procs -> 0..NINODE]
      BY <1>1, <1>2, <2>1, <2>4, SlotFacts DEF TypeOK
    <3>2. th' = [th EXCEPT ![p] = r] /\ boot' = boot
      BY <2>1
    <3> QED
      BY ONLY Up, p \in Procs, <2>2, <2>4, <2>5, <2>6, <2>7, <2>8, <2>9, <3>1, <3>2, StepKeeps
<1> QED
  BY <1>8, <1>9, <1>10, <1>11

\* create(): the inode existed.
LEMMA Create2Keeps ==
  ASSUME Up, NEW p \in Procs, Create2(p)
  PROVE  InodeInv'
<1> DEFINE t == th[p]
<1> DEFINE it == ilock(itable, t.ip)
<1> DEFINE fine == t.op = "create" /\ it[t.ip].type \in {"FILE", "DEVICE"}
<1>1. /\ t \in Threads /\ FrameOK(t) /\ Table(itable, dinode)
      /\ cwd[p] \in Slots /\ itable[cwd[p]].ref > 0
      /\ \A s \in {file[p], t.cur, t.ip, t.dp, t.put} :
           s # 0 => s \in Slots /\ itable[s].ref > 0 /\ itable[s].inum \in Inums
  BY Mine
<1>2. /\ t.pc = "create2" /\ t.op \in CreateOps /\ t.put = 0 /\ t.stage = "test"
      /\ t.cur = 0 /\ t.dp = 0
      /\ t.ip # 0 /\ t.ip \in Slots /\ itable[t.ip].ref > 0 /\ itable[t.ip].inum \in Inums
  <2>1. /\ t.pc = "create2" /\ t.op \in CreateOps /\ t.put = 0 /\ t.stage = "test"
        /\ t.cur = 0
        /\ t.ip # 0
        /\ t.dp = 0
    BY <1>1 DEF Create2, Running, Putting, FrameOK, OpsAt, CurPcs, DpPcs, IpPcs, CreateOps
  <2> QED
    BY <1>1, <2>1
<1>3. Locks(p)
  BY LocksMine
<1>4. it[t.ip].type # "none" =>
        /\ Table(it, dinode) /\ Keeps(itable, it) /\ it[t.ip].valid
        /\ \A y \in Slots \ {t.ip} : it[y] = itable[y]
  BY <1>1, <1>2, IlockTable
<1>5. CASE it[t.ip].type = "none"
  <2>1. /\ Panic(p) /\ outstanding' = outstanding
        /\ UNCHANGED <<dinode, disk, itable, lock, cwd, file, boot>>
    BY <1>5, <1>1, <1>2 DEF Create2, FsOnly
  <2>2. outstanding' \subseteq Procs
    BY <2>1 DEF Up, InodeInv, TypeOK
  <2> QED
    BY <2>1, <2>2, PanicKeeps
<1>6. CASE it[t.ip].type # "none" /\ fine
  <2> DEFINE r == [t EXCEPT !.pc = "opened"]
  <2>1. /\ th' = [th EXCEPT ![p] = r] /\ boot' = boot
        /\ cwd' = cwd /\ file' = file /\ disk' = disk /\ outstanding' = outstanding
        /\ itable' = it
        /\ dinode' = dinode
        /\ lock' = [lock EXCEPT ![t.ip] = p]
        /\ lock[t.ip] = Free
    BY <1>6, <1>1, <1>2 DEF Create2, Become, FsOnly
  <2>2. r \in Threads
    BY <1>6, <1>1, <1>2, SlotFacts DEF Threads, Pcs
  <2>3. /\ r.pc = "opened" /\ r.op = t.op /\ r.new = t.new
        /\ r.cur = t.cur /\ r.ip = t.ip /\ r.dp = t.dp
        /\ r.put = t.put /\ r.stage = t.stage
    BY <1>6, <1>1, <1>2 DEF Threads
  <2> HIDE DEF r, it, fine
  <2>4. OthersPoint(p) /\ th'[p] = r /\ TypeOK
    <3>1. TypeOK
      BY DEF Up, InodeInv
    <3>2. \A q \in Procs \ {p} : cwd'[q] = cwd[q] /\ file'[q] = file[q]
      BY <2>1, <3>1 DEF TypeOK
    <3>3. th' = [th EXCEPT ![p] = r]
      BY <2>1
    <3> QED
      BY ONLY p \in Procs, <3>1, <3>2, <3>3, OthersStay
  <2>5. FrameOK(r) /\ r.pc # "panic" /\ Elements(r.new) \in Seq(Elems)
    <3>1. Elements(r.new) \in Seq(Elems)
      BY <1>6, <2>3, <2>4 DEF TypeOK
    <3>2. r.op \in OpsAt(r.pc) /\ r.pc # "panic"
      BY <1>6, <1>2, <2>3 DEF OpsAt, CreateOps, Ops
    <3> QED
      BY <1>6, <1>2, <2>3, <3>1, <3>2 DEF FrameOK, CurPcs, DpPcs, IpPcs
  <2>6. /\ Table(itable', dinode')
        /\ Keeps(itable, itable')
        /\ itable'[t.ip].valid
    BY <1>6, <1>4, <2>1
  <2>7. RefsCounted'
    <3>1. /\ ptr[<<p, "cwd">>] = cwd[p] /\ ptr'[<<p, "cwd">>] = cwd'[p]
          /\ ptr[<<p, "file">>] = file[p] /\ ptr'[<<p, "file">>] = file'[p]
          /\ ptr[<<p, "cur">>] = t.cur /\ ptr'[<<p, "cur">>] = r.cur
          /\ ptr[<<p, "ip">>] = t.ip /\ ptr'[<<p, "ip">>] = r.ip
          /\ ptr[<<p, "dp">>] = t.dp /\ ptr'[<<p, "dp">>] = r.dp
          /\ ptr[<<p, "put">>] = t.put /\ ptr'[<<p, "put">>] = r.put
      BY <2>4, PtrView
    <3>2. \A h \in Holders : ptr'[<<p, h>>] = ptr[<<p, h>>]
      BY <1>2, <2>1, <2>3, <3>1 DEF Holders
    <3>3. RefsCounted
      BY DEF Up, InodeInv
    <3> HIDE DEF t
    <3>4. TRUE
      BY DEF Holders
    <3> QED
      BY <1>6, <1>1, <1>2, <2>1, <2>3, <2>4, <2>6, <3>1, <3>2, <3>3, <3>4, RefsStay DEF Keeps
  <2>8. LockStep(p, r)
    <3>1. Locked(t) = 0 /\ Freeing(t) = 0 /\ Locked(r) = t.ip /\ Freeing(r) = 0
      BY <1>6, <1>2, <2>3 DEF Locked, Freeing
    <3>3. lock' = [lock EXCEPT ![t.ip] = p] /\ lock[t.ip] = Free
      BY <2>1
    <3> QED
      BY <1>6, <1>1, <1>2, <1>3, <2>6, <3>1, <3>3, SlotFacts DEF LockStep, Locks, Keeps
  <2>9. ValidStays(p)
    BY <1>1, <1>2, <1>3, <2>6 DEF ValidStays, Keeps, Locks, Locked, Freeing
  <2> QED
    <3>1. disk' \in [Inums -> Dinodes] /\ outstanding' \subseteq Procs
          /\ cwd' \in [Procs -> Slots] /\ file' \in [Procs -> 0..NINODE]
      BY <1>1, <1>2, <2>1, <2>4, SlotFacts DEF TypeOK
    <3>2. th' = [th EXCEPT ![p] = r] /\ boot' = boot
      BY <2>1
    <3> QED
      BY ONLY Up, p \in Procs, <2>2, <2>4, <2>5, <2>6, <2>7, <2>8, <2>9, <3>1, <3>2, StepKeeps
<1>7. CASE it[t.ip].type # "none" /\ ~fine
  <2> DEFINE r == [t EXCEPT !.pc = "end", !.put = t.ip, !.ip = 0]
  <2>1. /\ th' = [th EXCEPT ![p] = r] /\ boot' = boot
        /\ cwd' = cwd /\ file' = file /\ disk' = disk /\ outstanding' = outstanding
        /\ itable' = it
        /\ dinode' = dinode
        /\ lock' = lock
    BY <1>7, <1>1, <1>2 DEF Create2, Become, FsOnly
  <2>2. r \in Threads
    BY <1>7, <1>1, <1>2, SlotFacts DEF Threads, Pcs
  <2>3. /\ r.pc = "end" /\ r.op = t.op /\ r.new = t.new
        /\ r.cur = t.cur /\ r.ip = 0 /\ r.dp = t.dp
        /\ r.put = t.ip /\ r.stage = t.stage
    BY <1>7, <1>1, <1>2 DEF Threads
  <2> HIDE DEF r, it, fine
  <2>4. OthersPoint(p) /\ th'[p] = r /\ TypeOK
    <3>1. TypeOK
      BY DEF Up, InodeInv
    <3>2. \A q \in Procs \ {p} : cwd'[q] = cwd[q] /\ file'[q] = file[q]
      BY <2>1, <3>1 DEF TypeOK
    <3>3. th' = [th EXCEPT ![p] = r]
      BY <2>1
    <3> QED
      BY ONLY p \in Procs, <3>1, <3>2, <3>3, OthersStay
  <2>5. FrameOK(r) /\ r.pc # "panic" /\ Elements(r.new) \in Seq(Elems)
    <3>1. Elements(r.new) \in Seq(Elems)
      BY <1>7, <2>3, <2>4 DEF TypeOK
    <3>2. r.op \in OpsAt(r.pc) /\ r.pc # "panic"
      BY <1>7, <1>2, <2>3 DEF OpsAt, CreateOps, Ops
    <3> QED
      BY <1>7, <1>2, <2>3, <3>1, <3>2 DEF FrameOK, CurPcs, DpPcs, IpPcs
  <2>6. /\ Table(itable', dinode')
        /\ Keeps(itable, itable')
    BY <1>7, <1>4, <2>1
  <2>7. RefsCounted'
    <3>1. /\ ptr[<<p, "cwd">>] = cwd[p] /\ ptr'[<<p, "cwd">>] = cwd'[p]
          /\ ptr[<<p, "file">>] = file[p] /\ ptr'[<<p, "file">>] = file'[p]
          /\ ptr[<<p, "cur">>] = t.cur /\ ptr'[<<p, "cur">>] = r.cur
          /\ ptr[<<p, "ip">>] = t.ip /\ ptr'[<<p, "ip">>] = r.ip
          /\ ptr[<<p, "dp">>] = t.dp /\ ptr'[<<p, "dp">>] = r.dp
          /\ ptr[<<p, "put">>] = t.put /\ ptr'[<<p, "put">>] = r.put
      BY <2>4, PtrView
    <3>2. \A h \in Holders \ {"ip", "put"} : ptr'[<<p, h>>] = ptr[<<p, h>>]
      BY <1>2, <2>1, <2>3, <3>1 DEF Holders
    <3>3. RefsCounted
      BY DEF Up, InodeInv
    <3> HIDE DEF t
    <3>4. "ip" \in Holders /\ "put" \in Holders
      BY DEF Holders
    <3>5. /\ \A w \in Slots : itable'[w].ref = itable[w].ref
          /\ ptr[<<p, "put">>] = 0 /\ ptr'[<<p, "ip">>] = 0
          /\ ptr'[<<p, "put">>] = ptr[<<p, "ip">>]
      BY <1>7, <1>1, <1>2, <2>1, <2>3, <2>6, <3>1 DEF Keeps
    <3> QED
      BY ONLY p \in Procs, <2>4, <3>2, <3>3, <3>4, <3>5, RefsMove
  <2>8. LockStep(p, r)
    <3>1. Locked(t) = 0 /\ Freeing(t) = 0 /\ Locked(r) = 0 /\ Freeing(r) = 0
      BY <1>7, <1>2, <2>3 DEF Locked, Freeing
    <3>3. lock' = lock
      BY <2>1
    <3> QED
      BY <1>7, <1>1, <1>2, <1>3, <2>6, <3>1, <3>3, SlotFacts DEF LockStep, Locks, Keeps
  <2>9. ValidStays(p)
    BY <1>1, <1>2, <1>3, <2>6 DEF ValidStays, Keeps, Locks, Locked, Freeing
  <2> QED
    <3>1. disk' \in [Inums -> Dinodes] /\ outstanding' \subseteq Procs
          /\ cwd' \in [Procs -> Slots] /\ file' \in [Procs -> 0..NINODE]
      BY <1>1, <1>2, <2>1, <2>4, SlotFacts DEF TypeOK
    <3>2. th' = [th EXCEPT ![p] = r] /\ boot' = boot
      BY <2>1
    <3> QED
      BY ONLY Up, p \in Procs, <2>2, <2>4, <2>5, <2>6, <2>7, <2>8, <2>9, <3>1, <3>2, StepKeeps
<1> QED
  BY <1>5, <1>6, <1>7

\* ialloc(): the iget() of the new inode.
LEMMA Create3Keeps ==
  ASSUME Up, NEW p \in Procs, Create3(p)
  PROVE  InodeInv'
<1> DEFINE t == th[p]
<1>1. /\ t \in Threads /\ FrameOK(t) /\ Table(itable, dinode)
      /\ cwd[p] \in Slots /\ itable[cwd[p]].ref > 0
      /\ \A s \in {file[p], t.cur, t.ip, t.dp, t.put} :
           s # 0 => s \in Slots /\ itable[s].ref > 0 /\ itable[s].inum \in Inums
  BY Mine
<1>2. /\ t.pc = "create3" /\ t.op \in CreateOps /\ t.put = 0 /\ t.stage = "test" /\ t.ino \in Inums
      /\ t.cur = 0 /\ t.ip = 0
      /\ t.dp # 0 /\ t.dp \in Slots /\ itable[t.dp].ref > 0 /\ itable[t.dp].inum \in Inums
  <2>1. /\ t.pc = "create3" /\ t.op \in CreateOps /\ t.put = 0 /\ t.stage = "test" /\ t.ino \in Inums
        /\ t.cur = 0
        /\ t.ip = 0
        /\ t.dp # 0
    BY <1>1 DEF Create3, Running, Putting, FrameOK, OpsAt, CurPcs, DpPcs, IpPcs, CreateOps, Threads, Inums
  <2> QED
    BY <1>1, <2>1
<1>3. Locks(p)
  BY LocksMine
<1>4. CanGet(itable, t.ino) => IgetSlot(itable, t.ino) \in Slots
  BY <1>1, <1>2, IgetTable
<1>5. CASE ~CanGet(itable, t.ino)
  <2>1. /\ Panic(p) /\ outstanding' = outstanding
        /\ UNCHANGED <<dinode, disk, itable, lock, cwd, file, boot>>
    BY <1>5, <1>1, <1>2 DEF Create3, FsOnly
  <2>2. outstanding' \subseteq Procs
    BY <2>1 DEF Up, InodeInv, TypeOK
  <2> QED
    BY <2>1, <2>2, PanicKeeps
<1>6. CASE CanGet(itable, t.ino)
  <2> DEFINE r == [t EXCEPT !.pc = "create4", !.ino = 0, !.ip = IgetSlot(itable, t.ino)]
  <2>1. /\ th' = [th EXCEPT ![p] = r] /\ boot' = boot
        /\ cwd' = cwd /\ file' = file /\ disk' = disk /\ outstanding' = outstanding
        /\ itable' = iget(itable, t.ino)
        /\ dinode' = dinode
        /\ lock' = lock
    BY <1>6, <1>1, <1>2 DEF Create3, Become, FsOnly
  <2>2. r \in Threads
    <3>1. 0 \in 0..NInodes /\ IgetSlot(itable, t.ino) \in 0..NINODE /\ "create4" \in Pcs
      BY <1>6, <1>1, <1>2, SlotFacts, <1>4, InodeAssumption DEF Pcs
    <3> QED
      BY <1>1, <1>2, <3>1, SlotFacts DEF Threads
  <2>3. /\ r.pc = "create4" /\ r.op = t.op /\ r.new = t.new
        /\ r.cur = t.cur /\ r.ip = IgetSlot(itable, t.ino) /\ r.dp = t.dp
        /\ r.put = t.put /\ r.stage = t.stage
    BY <1>6, <1>1, <1>2 DEF Threads
  <2> HIDE DEF r
  <2>4. OthersPoint(p) /\ th'[p] = r /\ TypeOK
    <3>1. TypeOK
      BY DEF Up, InodeInv
    <3>2. \A q \in Procs \ {p} : cwd'[q] = cwd[q] /\ file'[q] = file[q]
      BY <2>1, <3>1 DEF TypeOK
    <3>3. th' = [th EXCEPT ![p] = r]
      BY <2>1
    <3> QED
      BY ONLY p \in Procs, <3>1, <3>2, <3>3, OthersStay
  <2>5. FrameOK(r) /\ r.pc # "panic" /\ Elements(r.new) \in Seq(Elems)
    <3>1. Elements(r.new) \in Seq(Elems)
      BY <1>6, <2>3, <2>4 DEF TypeOK
    <3>2. r.op \in OpsAt(r.pc) /\ r.pc # "panic"
      BY <1>6, <1>2, <2>3, <1>4, SlotFacts DEF OpsAt, CreateOps, Ops
    <3> QED
      BY <1>6, <1>2, <2>3, <3>1, <3>2, <1>4, SlotFacts DEF FrameOK, CurPcs, DpPcs, IpPcs
  <2>6. /\ Table(itable', dinode')
        /\ IgetSlot(itable, t.ino) \in Slots /\ itable'[IgetSlot(itable, t.ino)].ref = itable[IgetSlot(itable, t.ino)].ref + 1
        /\ \A x \in Slots \ {IgetSlot(itable, t.ino)} : itable'[x].ref = itable[x].ref
        /\ \A x \in Slots : itable[x].valid => itable'[x].valid
    BY <1>6, <1>1, <1>2, <2>1, IgetTable
  <2>7. RefsCounted'
    <3>1. /\ ptr[<<p, "cwd">>] = cwd[p] /\ ptr'[<<p, "cwd">>] = cwd'[p]
          /\ ptr[<<p, "file">>] = file[p] /\ ptr'[<<p, "file">>] = file'[p]
          /\ ptr[<<p, "cur">>] = t.cur /\ ptr'[<<p, "cur">>] = r.cur
          /\ ptr[<<p, "ip">>] = t.ip /\ ptr'[<<p, "ip">>] = r.ip
          /\ ptr[<<p, "dp">>] = t.dp /\ ptr'[<<p, "dp">>] = r.dp
          /\ ptr[<<p, "put">>] = t.put /\ ptr'[<<p, "put">>] = r.put
      BY <2>4, PtrView
    <3>2. \A h \in Holders \ {"ip"} : ptr'[<<p, h>>] = ptr[<<p, h>>]
      BY <1>2, <2>1, <2>3, <3>1 DEF Holders
    <3>3. RefsCounted
      BY DEF Up, InodeInv
    <3> HIDE DEF t
    <3>4. "ip" \in Holders
      BY DEF Holders
    <3>5. /\ IgetSlot(itable, t.ino) \in Slots /\ itable'[IgetSlot(itable, t.ino)].ref = itable[IgetSlot(itable, t.ino)].ref + 1
          /\ \A w \in Slots \ {IgetSlot(itable, t.ino)} : itable'[w].ref = itable[w].ref
          /\ ptr[<<p, "ip">>] = 0 /\ ptr'[<<p, "ip">>] = IgetSlot(itable, t.ino)
      BY <1>6, <1>1, <1>2, <2>1, <2>3, <2>6, <3>1 DEF Keeps
    <3> QED
      BY ONLY p \in Procs, <2>4, <3>2, <3>3, <3>4, <3>5, RefsTake
  <2>8. LockStep(p, r)
    <3>1. Locked(t) = t.dp /\ Freeing(t) = 0 /\ Locked(r) = t.dp /\ Freeing(r) = 0
      BY <1>6, <1>2, <2>3 DEF Locked, Freeing
    <3>3. lock' = lock
      BY <2>1
    <3> QED
      BY <1>6, <1>1, <1>2, <1>3, <2>6, <3>1, <3>3, SlotFacts DEF LockStep, Locks, Keeps
  <2>9. ValidStays(p)
    BY <1>1, <1>2, <1>3, <2>6 DEF ValidStays, Keeps, Locks, Locked, Freeing
  <2> QED
    <3>1. disk' \in [Inums -> Dinodes] /\ outstanding' \subseteq Procs
          /\ cwd' \in [Procs -> Slots] /\ file' \in [Procs -> 0..NINODE]
      BY <1>1, <1>2, <2>1, <2>4, SlotFacts DEF TypeOK
    <3>2. th' = [th EXCEPT ![p] = r] /\ boot' = boot
      BY <2>1
    <3> QED
      BY ONLY Up, p \in Procs, <2>2, <2>4, <2>5, <2>6, <2>7, <2>8, <2>9, <3>1, <3>2, StepKeeps
<1> QED
  BY <1>5, <1>6

\* create(): the new inode and its entry.
LEMMA Create4Keeps ==
  ASSUME Up, NEW p \in Procs, NEW ok, Create4(p, ok)
  PROVE  InodeInv'
<1> DEFINE t == th[p]
<1> DEFINE it == ilock(itable, t.ip)
<1> DEFINE i == it[t.ip].inum
<1> DEFINE d == it[t.dp].inum
<1> DEFINE dir == t.op = "mkdir"
<1> DEFINE n == it[t.dp].nlink + (IF dir THEN 1 ELSE 0)
<1> DEFINE made == [type |-> it[t.ip].type, nlink |-> 1, ents |-> IF dir THEN [NoDir EXCEPT !["."] = i, ![".."] = d] ELSE NoDir]
<1>1. /\ t \in Threads /\ FrameOK(t) /\ Table(itable, dinode)
      /\ cwd[p] \in Slots /\ itable[cwd[p]].ref > 0
      /\ \A s \in {file[p], t.cur, t.ip, t.dp, t.put} :
           s # 0 => s \in Slots /\ itable[s].ref > 0 /\ itable[s].inum \in Inums
  BY Mine
<1>2. /\ t.pc = "create4" /\ t.op \in CreateOps /\ t.put = 0 /\ t.stage = "test"
      /\ t.cur = 0
      /\ t.dp # 0 /\ t.dp \in Slots /\ itable[t.dp].ref > 0 /\ itable[t.dp].inum \in Inums
      /\ t.ip # 0 /\ t.ip \in Slots /\ itable[t.ip].ref > 0 /\ itable[t.ip].inum \in Inums
  <2>1. /\ t.pc = "create4" /\ t.op \in CreateOps /\ t.put = 0 /\ t.stage = "test"
        /\ t.cur = 0
        /\ t.ip # 0
        /\ t.dp # 0
    BY <1>1 DEF Create4, Running, Putting, FrameOK, OpsAt, CurPcs, DpPcs, IpPcs, CreateOps
  <2> QED
    BY <1>1, <2>1
<1>3. Locks(p)
  BY LocksMine
<1>4. it[t.ip].type # "none" =>
        /\ Table(it, dinode) /\ Keeps(itable, it) /\ it[t.ip].valid
        /\ \A y \in Slots \ {t.ip} : it[y] = itable[y]
  BY <1>1, <1>2, IlockTable
<1>5. t.ip # t.dp /\ itable[t.dp].valid /\ t.name \in Elems
  BY <1>1, <1>2, <1>3, SlotFacts DEF Create4, Locks, Locked, Threads
<1>6. ASSUME it[t.ip].type # "none"
      PROVE  /\ Table(it, dinode) /\ Keeps(itable, it) /\ it[t.ip].valid /\ it[t.ip].ref > 0
             /\ it[t.dp].valid /\ it[t.dp].ref > 0 /\ n \in Int
             /\ made \in Dinodes /\ made.type = it[t.ip].type /\ made.nlink = 1
  <2>1. it[t.ip] \in Entries /\ it[t.dp] \in Entries /\ i \in 0..NInodes /\ d \in 0..NInodes
    BY <1>2, <1>4, <1>6 DEF Table, Tables, Entries
  <2>2. NoDir \in [Elems -> 0..NInodes]
    BY InodeAssumption DEF NoDir
  <2>3. it[t.ip].type \in Types /\ 1 \in Int
    BY <2>1 DEF Entries
  <2>4. made.ents \in [Elems -> 0..NInodes]
    BY <2>1, <2>2 DEF Elems
  <2>5. made \in Dinodes
    BY <2>3, <2>4 DEF Dinodes
  <2>6. n \in Int
    BY <2>1 DEF Entries
  <2> QED
    BY <1>2, <1>4, <1>5, <1>6, <2>5, <2>6 DEF Keeps
<1>7. CASE it[t.ip].type = "none"
  <2>1. /\ Panic(p) /\ outstanding' = outstanding
        /\ UNCHANGED <<dinode, disk, itable, lock, cwd, file, boot>>
    BY <1>7, <1>1, <1>2 DEF Create4, FsOnly
  <2>2. outstanding' \subseteq Procs
    BY <2>1 DEF Up, InodeInv, TypeOK
  <2> QED
    BY <2>1, <2>2, PanicKeeps
<1>8. CASE it[t.ip].type # "none" /\ ok
  <2> DEFINE r == [t EXCEPT !.pc = "opened", !.put = t.dp, !.dp = 0]
  <2>1. /\ th' = [th EXCEPT ![p] = r] /\ boot' = boot
        /\ cwd' = cwd /\ file' = file /\ disk' = disk /\ outstanding' = outstanding
        /\ itable' = SetNlink(SetNlink(it, t.ip, 1), t.dp, n)
        /\ dinode' = [dinode EXCEPT ![i] = made, ![d].ents[t.name] = i, ![d].nlink = n]
        /\ lock' = [lock EXCEPT ![t.ip] = p, ![t.dp] = Free]
        /\ lock[t.ip] = Free
    BY <1>8, <1>1, <1>2 DEF Create4, Become, FsOnly
  <2>2. r \in Threads
    BY <1>8, <1>1, <1>2, SlotFacts DEF Threads, Pcs
  <2>3. /\ r.pc = "opened" /\ r.op = t.op /\ r.new = t.new
        /\ r.cur = t.cur /\ r.ip = t.ip /\ r.dp = 0
        /\ r.put = t.dp /\ r.stage = t.stage
    BY <1>8, <1>1, <1>2 DEF Threads
  <2> HIDE DEF r, it, i, d, dir, n, made
  <2>4. OthersPoint(p) /\ th'[p] = r /\ TypeOK
    <3>1. TypeOK
      BY DEF Up, InodeInv
    <3>2. \A q \in Procs \ {p} : cwd'[q] = cwd[q] /\ file'[q] = file[q]
      BY <2>1, <3>1 DEF TypeOK
    <3>3. th' = [th EXCEPT ![p] = r]
      BY <2>1
    <3> QED
      BY ONLY p \in Procs, <3>1, <3>2, <3>3, OthersStay
  <2>5. FrameOK(r) /\ r.pc # "panic" /\ Elements(r.new) \in Seq(Elems)
    <3>1. Elements(r.new) \in Seq(Elems)
      BY <1>8, <2>3, <2>4 DEF TypeOK
    <3>2. r.op \in OpsAt(r.pc) /\ r.pc # "panic"
      BY <1>8, <1>2, <2>3 DEF OpsAt, CreateOps, Ops
    <3> QED
      BY <1>8, <1>2, <2>3, <3>1, <3>2 DEF FrameOK, CurPcs, DpPcs, IpPcs
  <2>6. /\ Table(itable', dinode')
        /\ Keeps(itable, itable')
        /\ itable'[t.ip].valid
    <3> USE DEF i, d
    <3>1. made \in Dinodes /\ made.type = it[t.ip].type /\ made.nlink = 1
      BY <1>8, <1>6
    <3> HIDE DEF t, it, n, made
    <3>2. Table(itable', dinode') /\ Keeps(it, itable')
      BY ONLY <1>8, <1>2, <1>5, <1>6, <2>1, <3>1, CreateStep
    <3> QED
      BY <1>8, <1>2, <1>6, <3>2 DEF Keeps
  <2>7. RefsCounted'
    <3>1. /\ ptr[<<p, "cwd">>] = cwd[p] /\ ptr'[<<p, "cwd">>] = cwd'[p]
          /\ ptr[<<p, "file">>] = file[p] /\ ptr'[<<p, "file">>] = file'[p]
          /\ ptr[<<p, "cur">>] = t.cur /\ ptr'[<<p, "cur">>] = r.cur
          /\ ptr[<<p, "ip">>] = t.ip /\ ptr'[<<p, "ip">>] = r.ip
          /\ ptr[<<p, "dp">>] = t.dp /\ ptr'[<<p, "dp">>] = r.dp
          /\ ptr[<<p, "put">>] = t.put /\ ptr'[<<p, "put">>] = r.put
      BY <2>4, PtrView
    <3>2. \A h \in Holders \ {"dp", "put"} : ptr'[<<p, h>>] = ptr[<<p, h>>]
      BY <1>2, <2>1, <2>3, <3>1 DEF Holders
    <3>3. RefsCounted
      BY DEF Up, InodeInv
    <3> HIDE DEF t
    <3>4. "dp" \in Holders /\ "put" \in Holders
      BY DEF Holders
    <3>5. /\ \A w \in Slots : itable'[w].ref = itable[w].ref
          /\ ptr[<<p, "put">>] = 0 /\ ptr'[<<p, "dp">>] = 0
          /\ ptr'[<<p, "put">>] = ptr[<<p, "dp">>]
      BY <1>8, <1>1, <1>2, <2>1, <2>3, <2>6, <3>1 DEF Keeps
    <3> QED
      BY ONLY p \in Procs, <2>4, <3>2, <3>3, <3>4, <3>5, RefsMove
  <2>8. LockStep(p, r)
    <3>1. Locked(t) = t.dp /\ Freeing(t) = 0 /\ Locked(r) = t.ip /\ Freeing(r) = 0
      BY <1>8, <1>2, <2>3 DEF Locked, Freeing
    <3>2. /\ lock \in [Slots -> Procs \cup {Free}]
          /\ lock[t.ip] = Free /\ lock[t.dp] = p /\ p # Free /\ t.ip # t.dp
          /\ \A x \in Slots \ {t.ip, t.dp} : lock[x] # p
      BY <1>2, <1>3, <2>1, <3>1, <1>5, SlotFacts DEF Locks
    <3>3. /\ lock' \in [Slots -> Procs \cup {Free}]
          /\ lock'[t.ip] = p /\ lock'[t.dp] = Free
          /\ \A x \in Slots \ {t.ip, t.dp} : lock'[x] = lock[x]
      BY ONLY p \in Procs, <1>2, <2>1, <3>2
    <3> QED
      BY ONLY p \in Procs, <1>2, <2>6, <3>1, <3>2, <3>3, SlotFacts DEF LockStep
  <2>9. ValidStays(p)
    BY <1>1, <1>2, <1>3, <2>6 DEF ValidStays, Keeps, Locks, Locked, Freeing
  <2> QED
    <3>1. disk' \in [Inums -> Dinodes] /\ outstanding' \subseteq Procs
          /\ cwd' \in [Procs -> Slots] /\ file' \in [Procs -> 0..NINODE]
      BY <1>1, <1>2, <2>1, <2>4, SlotFacts DEF TypeOK
    <3>2. th' = [th EXCEPT ![p] = r] /\ boot' = boot
      BY <2>1
    <3> QED
      BY ONLY Up, p \in Procs, <2>2, <2>4, <2>5, <2>6, <2>7, <2>8, <2>9, <3>1, <3>2, StepKeeps
<1>9. CASE it[t.ip].type # "none" /\ ~ok
  <2> DEFINE r == [t EXCEPT !.pc = "dropdp", !.put = t.ip, !.ip = 0]
  <2>1. /\ th' = [th EXCEPT ![p] = r] /\ boot' = boot
        /\ cwd' = cwd /\ file' = file /\ disk' = disk /\ outstanding' = outstanding
        /\ itable' = SetNlink(it, t.ip, 0)
        /\ dinode' = [dinode EXCEPT ![i] = [made EXCEPT !.nlink = 0]]
        /\ lock' = lock
    BY <1>9, <1>1, <1>2 DEF Create4, Become, FsOnly
  <2>2. r \in Threads
    BY <1>9, <1>1, <1>2, SlotFacts DEF Threads, Pcs
  <2>3. /\ r.pc = "dropdp" /\ r.op = t.op /\ r.new = t.new
        /\ r.cur = t.cur /\ r.ip = 0 /\ r.dp = t.dp
        /\ r.put = t.ip /\ r.stage = t.stage
    BY <1>9, <1>1, <1>2 DEF Threads
  <2> HIDE DEF r, it, i, d, dir, n, made
  <2>4. OthersPoint(p) /\ th'[p] = r /\ TypeOK
    <3>1. TypeOK
      BY DEF Up, InodeInv
    <3>2. \A q \in Procs \ {p} : cwd'[q] = cwd[q] /\ file'[q] = file[q]
      BY <2>1, <3>1 DEF TypeOK
    <3>3. th' = [th EXCEPT ![p] = r]
      BY <2>1
    <3> QED
      BY ONLY p \in Procs, <3>1, <3>2, <3>3, OthersStay
  <2>5. FrameOK(r) /\ r.pc # "panic" /\ Elements(r.new) \in Seq(Elems)
    <3>1. Elements(r.new) \in Seq(Elems)
      BY <1>9, <2>3, <2>4 DEF TypeOK
    <3>2. r.op \in OpsAt(r.pc) /\ r.pc # "panic"
      BY <1>9, <1>2, <2>3 DEF OpsAt, CreateOps, Ops
    <3> QED
      BY <1>9, <1>2, <2>3, <3>1, <3>2 DEF FrameOK, CurPcs, DpPcs, IpPcs, CreateOps
  <2>6. /\ Table(itable', dinode')
        /\ Keeps(itable, itable')
        /\ itable'[t.dp].valid
    <3> USE DEF i
    <3> DEFINE none == [made EXCEPT !.nlink = 0]
    <3>1. none \in Dinodes /\ none.type = it[t.ip].type /\ none.nlink = 0
      BY <1>9, <1>6 DEF Dinodes
    <3>2. itable' = SetNlink(it, t.ip, none.nlink) /\ dinode' = [dinode EXCEPT ![it[t.ip].inum] = none]
      BY <2>1, <3>1
    <3> HIDE DEF t, it, none
    <3>3. Table(itable', dinode') /\ Keeps(it, itable')
      BY ONLY <1>9, <1>2, <1>6, <3>1, <3>2, MadeStep
    <3> QED
      BY <1>9, <1>2, <1>6, <3>3 DEF Keeps
  <2>7. RefsCounted'
    <3>1. /\ ptr[<<p, "cwd">>] = cwd[p] /\ ptr'[<<p, "cwd">>] = cwd'[p]
          /\ ptr[<<p, "file">>] = file[p] /\ ptr'[<<p, "file">>] = file'[p]
          /\ ptr[<<p, "cur">>] = t.cur /\ ptr'[<<p, "cur">>] = r.cur
          /\ ptr[<<p, "ip">>] = t.ip /\ ptr'[<<p, "ip">>] = r.ip
          /\ ptr[<<p, "dp">>] = t.dp /\ ptr'[<<p, "dp">>] = r.dp
          /\ ptr[<<p, "put">>] = t.put /\ ptr'[<<p, "put">>] = r.put
      BY <2>4, PtrView
    <3>2. \A h \in Holders \ {"ip", "put"} : ptr'[<<p, h>>] = ptr[<<p, h>>]
      BY <1>2, <2>1, <2>3, <3>1 DEF Holders
    <3>3. RefsCounted
      BY DEF Up, InodeInv
    <3> HIDE DEF t
    <3>4. "ip" \in Holders /\ "put" \in Holders
      BY DEF Holders
    <3>5. /\ \A w \in Slots : itable'[w].ref = itable[w].ref
          /\ ptr[<<p, "put">>] = 0 /\ ptr'[<<p, "ip">>] = 0
          /\ ptr'[<<p, "put">>] = ptr[<<p, "ip">>]
      BY <1>9, <1>1, <1>2, <2>1, <2>3, <2>6, <3>1 DEF Keeps
    <3> QED
      BY ONLY p \in Procs, <2>4, <3>2, <3>3, <3>4, <3>5, RefsMove
  <2>8. LockStep(p, r)
    <3>1. Locked(t) = t.dp /\ Freeing(t) = 0 /\ Locked(r) = t.dp /\ Freeing(r) = 0
      BY <1>9, <1>2, <2>3 DEF Locked, Freeing
    <3>2. /\ lock \in [Slots -> Procs \cup {Free}]
          /\ lock[t.dp] = p /\ p # Free
          /\ \A x \in Slots \ {t.dp} : lock[x] # p
      BY <1>2, <1>3, <2>1, <3>1, SlotFacts DEF Locks
    <3>3. /\ lock' = lock
      BY ONLY p \in Procs, <1>2, <2>1, <3>2
    <3> QED
      BY ONLY p \in Procs, <1>2, <2>6, <3>1, <3>2, <3>3, SlotFacts DEF LockStep
  <2>9. ValidStays(p)
    BY <1>1, <1>2, <1>3, <2>6 DEF ValidStays, Keeps, Locks, Locked, Freeing
  <2> QED
    <3>1. disk' \in [Inums -> Dinodes] /\ outstanding' \subseteq Procs
          /\ cwd' \in [Procs -> Slots] /\ file' \in [Procs -> 0..NINODE]
      BY <1>1, <1>2, <2>1, <2>4, SlotFacts DEF TypeOK
    <3>2. th' = [th EXCEPT ![p] = r] /\ boot' = boot
      BY <2>1
    <3> QED
      BY ONLY Up, p \in Procs, <2>2, <2>4, <2>5, <2>6, <2>7, <2>8, <2>9, <3>1, <3>2, StepKeeps
<1> QED
  BY <1>7, <1>8, <1>9

\* open(): the inode is locked.
LEMMA OpenKeeps ==
  ASSUME Up, NEW p \in Procs, Open(p)
  PROVE  InodeInv'
<1> DEFINE t == th[p]
<1> DEFINE it == ilock(itable, t.ip)
<1> DEFINE opens == Become(p, [t EXCEPT !.pc = "opened"]) /\ lock' = [lock EXCEPT ![t.ip] = p]
<1> DEFINE fails == Become(p, [t EXCEPT !.pc = "end", !.put = t.ip, !.ip = 0]) /\ lock' = lock
<1>1. /\ t \in Threads /\ FrameOK(t) /\ Table(itable, dinode)
      /\ cwd[p] \in Slots /\ itable[cwd[p]].ref > 0
      /\ \A s \in {file[p], t.cur, t.ip, t.dp, t.put} :
           s # 0 => s \in Slots /\ itable[s].ref > 0 /\ itable[s].inum \in Inums
  BY Mine
<1>2. /\ t.pc = "open" /\ t.op = "open" /\ t.put = 0 /\ t.stage = "test"
      /\ t.cur = 0 /\ t.dp = 0
      /\ t.ip # 0 /\ t.ip \in Slots /\ itable[t.ip].ref > 0 /\ itable[t.ip].inum \in Inums
  <2>1. /\ t.pc = "open" /\ t.op = "open" /\ t.put = 0 /\ t.stage = "test"
        /\ t.cur = 0
        /\ t.ip # 0
        /\ t.dp = 0
    BY <1>1 DEF Open, Running, Putting, FrameOK, OpsAt, CurPcs, DpPcs, IpPcs, CreateOps
  <2> QED
    BY <1>1, <2>1
<1>3. Locks(p)
  BY LocksMine
<1>4. it[t.ip].type # "none" =>
        /\ Table(it, dinode) /\ Keeps(itable, it) /\ it[t.ip].valid
        /\ \A y \in Slots \ {t.ip} : it[y] = itable[y]
  BY <1>1, <1>2, IlockTable
<1>5. CASE it[t.ip].type = "none"
  <2>1. /\ Panic(p) /\ outstanding' = outstanding
        /\ UNCHANGED <<dinode, disk, itable, lock, cwd, file, boot>>
    BY <1>5, <1>1, <1>2 DEF Open, FsOnly
  <2>2. outstanding' \subseteq Procs
    BY <2>1 DEF Up, InodeInv, TypeOK
  <2> QED
    BY <2>1, <2>2, PanicKeeps
<1>6. CASE it[t.ip].type # "none" /\ opens
  <2> DEFINE r == [t EXCEPT !.pc = "opened"]
  <2>1. /\ th' = [th EXCEPT ![p] = r] /\ boot' = boot
        /\ cwd' = cwd /\ file' = file /\ disk' = disk /\ outstanding' = outstanding
        /\ itable' = it
        /\ dinode' = dinode
        /\ lock' = [lock EXCEPT ![t.ip] = p]
        /\ lock[t.ip] = Free
    BY <1>6, <1>1, <1>2 DEF Open, Become, FsOnly
  <2>2. r \in Threads
    BY <1>6, <1>1, <1>2, SlotFacts DEF Threads, Pcs
  <2>3. /\ r.pc = "opened" /\ r.op = t.op /\ r.new = t.new
        /\ r.cur = t.cur /\ r.ip = t.ip /\ r.dp = t.dp
        /\ r.put = t.put /\ r.stage = t.stage
    BY <1>6, <1>1, <1>2 DEF Threads
  <2> HIDE DEF r, it, opens, fails
  <2>4. OthersPoint(p) /\ th'[p] = r /\ TypeOK
    <3>1. TypeOK
      BY DEF Up, InodeInv
    <3>2. \A q \in Procs \ {p} : cwd'[q] = cwd[q] /\ file'[q] = file[q]
      BY <2>1, <3>1 DEF TypeOK
    <3>3. th' = [th EXCEPT ![p] = r]
      BY <2>1
    <3> QED
      BY ONLY p \in Procs, <3>1, <3>2, <3>3, OthersStay
  <2>5. FrameOK(r) /\ r.pc # "panic" /\ Elements(r.new) \in Seq(Elems)
    <3>1. Elements(r.new) \in Seq(Elems)
      BY <1>6, <2>3, <2>4 DEF TypeOK
    <3>2. r.op \in OpsAt(r.pc) /\ r.pc # "panic"
      BY <1>6, <1>2, <2>3 DEF OpsAt, CreateOps, Ops
    <3> QED
      BY <1>6, <1>2, <2>3, <3>1, <3>2 DEF FrameOK, CurPcs, DpPcs, IpPcs
  <2>6. /\ Table(itable', dinode')
        /\ Keeps(itable, itable')
        /\ itable'[t.ip].valid
    BY <1>6, <1>4, <2>1
  <2>7. RefsCounted'
    <3>1. /\ ptr[<<p, "cwd">>] = cwd[p] /\ ptr'[<<p, "cwd">>] = cwd'[p]
          /\ ptr[<<p, "file">>] = file[p] /\ ptr'[<<p, "file">>] = file'[p]
          /\ ptr[<<p, "cur">>] = t.cur /\ ptr'[<<p, "cur">>] = r.cur
          /\ ptr[<<p, "ip">>] = t.ip /\ ptr'[<<p, "ip">>] = r.ip
          /\ ptr[<<p, "dp">>] = t.dp /\ ptr'[<<p, "dp">>] = r.dp
          /\ ptr[<<p, "put">>] = t.put /\ ptr'[<<p, "put">>] = r.put
      BY <2>4, PtrView
    <3>2. \A h \in Holders : ptr'[<<p, h>>] = ptr[<<p, h>>]
      BY <1>2, <2>1, <2>3, <3>1 DEF Holders
    <3>3. RefsCounted
      BY DEF Up, InodeInv
    <3> HIDE DEF t
    <3>4. TRUE
      BY DEF Holders
    <3> QED
      BY <1>6, <1>1, <1>2, <2>1, <2>3, <2>4, <2>6, <3>1, <3>2, <3>3, <3>4, RefsStay DEF Keeps
  <2>8. LockStep(p, r)
    <3>1. Locked(t) = 0 /\ Freeing(t) = 0 /\ Locked(r) = t.ip /\ Freeing(r) = 0
      BY <1>6, <1>2, <2>3 DEF Locked, Freeing
    <3>3. lock' = [lock EXCEPT ![t.ip] = p] /\ lock[t.ip] = Free
      BY <2>1
    <3> QED
      BY <1>6, <1>1, <1>2, <1>3, <2>6, <3>1, <3>3, SlotFacts DEF LockStep, Locks, Keeps
  <2>9. ValidStays(p)
    BY <1>1, <1>2, <1>3, <2>6 DEF ValidStays, Keeps, Locks, Locked, Freeing
  <2> QED
    <3>1. disk' \in [Inums -> Dinodes] /\ outstanding' \subseteq Procs
          /\ cwd' \in [Procs -> Slots] /\ file' \in [Procs -> 0..NINODE]
      BY <1>1, <1>2, <2>1, <2>4, SlotFacts DEF TypeOK
    <3>2. th' = [th EXCEPT ![p] = r] /\ boot' = boot
      BY <2>1
    <3> QED
      BY ONLY Up, p \in Procs, <2>2, <2>4, <2>5, <2>6, <2>7, <2>8, <2>9, <3>1, <3>2, StepKeeps
<1>7. CASE it[t.ip].type # "none" /\ fails
  <2> DEFINE r == [t EXCEPT !.pc = "end", !.put = t.ip, !.ip = 0]
  <2>1. /\ th' = [th EXCEPT ![p] = r] /\ boot' = boot
        /\ cwd' = cwd /\ file' = file /\ disk' = disk /\ outstanding' = outstanding
        /\ itable' = it
        /\ dinode' = dinode
        /\ lock' = lock
    BY <1>7, <1>1, <1>2 DEF Open, Become, FsOnly
  <2>2. r \in Threads
    BY <1>7, <1>1, <1>2, SlotFacts DEF Threads, Pcs
  <2>3. /\ r.pc = "end" /\ r.op = t.op /\ r.new = t.new
        /\ r.cur = t.cur /\ r.ip = 0 /\ r.dp = t.dp
        /\ r.put = t.ip /\ r.stage = t.stage
    BY <1>7, <1>1, <1>2 DEF Threads
  <2> HIDE DEF r, it, opens, fails
  <2>4. OthersPoint(p) /\ th'[p] = r /\ TypeOK
    <3>1. TypeOK
      BY DEF Up, InodeInv
    <3>2. \A q \in Procs \ {p} : cwd'[q] = cwd[q] /\ file'[q] = file[q]
      BY <2>1, <3>1 DEF TypeOK
    <3>3. th' = [th EXCEPT ![p] = r]
      BY <2>1
    <3> QED
      BY ONLY p \in Procs, <3>1, <3>2, <3>3, OthersStay
  <2>5. FrameOK(r) /\ r.pc # "panic" /\ Elements(r.new) \in Seq(Elems)
    <3>1. Elements(r.new) \in Seq(Elems)
      BY <1>7, <2>3, <2>4 DEF TypeOK
    <3>2. r.op \in OpsAt(r.pc) /\ r.pc # "panic"
      BY <1>7, <1>2, <2>3 DEF OpsAt, CreateOps, Ops
    <3> QED
      BY <1>7, <1>2, <2>3, <3>1, <3>2 DEF FrameOK, CurPcs, DpPcs, IpPcs
  <2>6. /\ Table(itable', dinode')
        /\ Keeps(itable, itable')
    BY <1>7, <1>4, <2>1
  <2>7. RefsCounted'
    <3>1. /\ ptr[<<p, "cwd">>] = cwd[p] /\ ptr'[<<p, "cwd">>] = cwd'[p]
          /\ ptr[<<p, "file">>] = file[p] /\ ptr'[<<p, "file">>] = file'[p]
          /\ ptr[<<p, "cur">>] = t.cur /\ ptr'[<<p, "cur">>] = r.cur
          /\ ptr[<<p, "ip">>] = t.ip /\ ptr'[<<p, "ip">>] = r.ip
          /\ ptr[<<p, "dp">>] = t.dp /\ ptr'[<<p, "dp">>] = r.dp
          /\ ptr[<<p, "put">>] = t.put /\ ptr'[<<p, "put">>] = r.put
      BY <2>4, PtrView
    <3>2. \A h \in Holders \ {"ip", "put"} : ptr'[<<p, h>>] = ptr[<<p, h>>]
      BY <1>2, <2>1, <2>3, <3>1 DEF Holders
    <3>3. RefsCounted
      BY DEF Up, InodeInv
    <3> HIDE DEF t
    <3>4. "ip" \in Holders /\ "put" \in Holders
      BY DEF Holders
    <3>5. /\ \A w \in Slots : itable'[w].ref = itable[w].ref
          /\ ptr[<<p, "put">>] = 0 /\ ptr'[<<p, "ip">>] = 0
          /\ ptr'[<<p, "put">>] = ptr[<<p, "ip">>]
      BY <1>7, <1>1, <1>2, <2>1, <2>3, <2>6, <3>1 DEF Keeps
    <3> QED
      BY ONLY p \in Procs, <2>4, <3>2, <3>3, <3>4, <3>5, RefsMove
  <2>8. LockStep(p, r)
    <3>1. Locked(t) = 0 /\ Freeing(t) = 0 /\ Locked(r) = 0 /\ Freeing(r) = 0
      BY <1>7, <1>2, <2>3 DEF Locked, Freeing
    <3>3. lock' = lock
      BY <2>1
    <3> QED
      BY <1>7, <1>1, <1>2, <1>3, <2>6, <3>1, <3>3, SlotFacts DEF LockStep, Locks, Keeps
  <2>9. ValidStays(p)
    BY <1>1, <1>2, <1>3, <2>6 DEF ValidStays, Keeps, Locks, Locked, Freeing
  <2> QED
    <3>1. disk' \in [Inums -> Dinodes] /\ outstanding' \subseteq Procs
          /\ cwd' \in [Procs -> Slots] /\ file' \in [Procs -> 0..NINODE]
      BY <1>1, <1>2, <2>1, <2>4, SlotFacts DEF TypeOK
    <3>2. th' = [th EXCEPT ![p] = r] /\ boot' = boot
      BY <2>1
    <3> QED
      BY ONLY Up, p \in Procs, <2>2, <2>4, <2>5, <2>6, <2>7, <2>8, <2>9, <3>1, <3>2, StepKeeps
<1> QED
  BY <1>5, <1>6, <1>7 DEF Open

\* open(), mkdir() and mknod(): the end.
LEMMA OpenedKeeps ==
  ASSUME Up, NEW p \in Procs, Opened(p)
  PROVE  InodeInv'
<1> DEFINE t == th[p]
<1> DEFINE opens == /\ file[p] = 0 /\ file' = [file EXCEPT ![p] = t.ip]
             /\ Become(p, [t EXCEPT !.pc = "end", !.ip = 0])
<1> DEFINE fails == file' = file /\ Become(p, [t EXCEPT !.pc = "end", !.put = t.ip, !.ip = 0])
<1>1. /\ t \in Threads /\ FrameOK(t) /\ Table(itable, dinode)
      /\ cwd[p] \in Slots /\ itable[cwd[p]].ref > 0
      /\ \A s \in {file[p], t.cur, t.ip, t.dp, t.put} :
           s # 0 => s \in Slots /\ itable[s].ref > 0 /\ itable[s].inum \in Inums
  BY Mine
<1>2. /\ t.pc = "opened" /\ t.op \in CreateOps \cup {"open"} /\ t.put = 0 /\ t.stage = "test"
      /\ t.cur = 0 /\ t.dp = 0
      /\ t.ip # 0 /\ t.ip \in Slots /\ itable[t.ip].ref > 0 /\ itable[t.ip].inum \in Inums
  <2>1. /\ t.pc = "opened" /\ t.op \in CreateOps \cup {"open"} /\ t.put = 0 /\ t.stage = "test"
        /\ t.cur = 0
        /\ t.ip # 0
        /\ t.dp = 0
    BY <1>1 DEF Opened, Running, Putting, FrameOK, OpsAt, CurPcs, DpPcs, IpPcs, CreateOps
  <2> QED
    BY <1>1, <2>1
<1>3. Locks(p)
  BY LocksMine
<1>4. file \in [Procs -> 0..NINODE] /\ cwd \in [Procs -> Slots]
  BY DEF Up, InodeInv, TypeOK
<1>5. opens \/ fails
  <2>1. [[t EXCEPT !.pc = "end", !.ip = 0] EXCEPT !.put = t.ip] =
          [t EXCEPT !.pc = "end", !.put = t.ip, !.ip = 0]
    BY <1>1 DEF Threads
  <2> QED
    BY <2>1 DEF Opened
<1>6. CASE opens
  <2> DEFINE r == [t EXCEPT !.pc = "end", !.ip = 0]
  <2>1. /\ th' = [th EXCEPT ![p] = r] /\ boot' = boot
        /\ cwd' = cwd /\ file' = [file EXCEPT ![p] = t.ip] /\ disk' = disk /\ outstanding' = outstanding
        /\ itable' = itable
        /\ dinode' = dinode
        /\ lock' = [lock EXCEPT ![t.ip] = Free]
        /\ file[p] = 0 /\ file'[p] = t.ip
    BY <1>6, <1>4, <1>1, <1>2 DEF Opened, Become, FsOnly
  <2>2. r \in Threads
    BY <1>6, <1>1, <1>2, SlotFacts DEF Threads, Pcs
  <2>3. /\ r.pc = "end" /\ r.op = t.op /\ r.new = t.new
        /\ r.cur = t.cur /\ r.ip = 0 /\ r.dp = t.dp
        /\ r.put = t.put /\ r.stage = t.stage
    BY <1>6, <1>1, <1>2 DEF Threads
  <2> HIDE DEF r, opens, fails
  <2>4. OthersPoint(p) /\ th'[p] = r /\ TypeOK
    <3>1. TypeOK
      BY DEF Up, InodeInv
    <3>2. \A q \in Procs \ {p} : cwd'[q] = cwd[q] /\ file'[q] = file[q]
      BY <2>1, <3>1 DEF TypeOK
    <3>3. th' = [th EXCEPT ![p] = r]
      BY <2>1
    <3> QED
      BY ONLY p \in Procs, <3>1, <3>2, <3>3, OthersStay
  <2>5. FrameOK(r) /\ r.pc # "panic" /\ Elements(r.new) \in Seq(Elems)
    <3>1. Elements(r.new) \in Seq(Elems)
      BY <1>6, <2>3, <2>4 DEF TypeOK
    <3>2. r.op \in OpsAt(r.pc) /\ r.pc # "panic"
      BY <1>6, <1>2, <2>3 DEF OpsAt, CreateOps, Ops
    <3> QED
      BY <1>6, <1>2, <2>3, <3>1, <3>2 DEF FrameOK, CurPcs, DpPcs, IpPcs
  <2>6. /\ Table(itable', dinode')
        /\ \A s \in Slots : itable'[s].ref = itable[s].ref
    BY <1>6, <1>1, <2>1
  <2>7. RefsCounted'
    <3>1. /\ ptr[<<p, "cwd">>] = cwd[p] /\ ptr'[<<p, "cwd">>] = cwd'[p]
          /\ ptr[<<p, "file">>] = file[p] /\ ptr'[<<p, "file">>] = file'[p]
          /\ ptr[<<p, "cur">>] = t.cur /\ ptr'[<<p, "cur">>] = r.cur
          /\ ptr[<<p, "ip">>] = t.ip /\ ptr'[<<p, "ip">>] = r.ip
          /\ ptr[<<p, "dp">>] = t.dp /\ ptr'[<<p, "dp">>] = r.dp
          /\ ptr[<<p, "put">>] = t.put /\ ptr'[<<p, "put">>] = r.put
      BY <2>4, PtrView
    <3>2. \A h \in Holders \ {"ip", "file"} : ptr'[<<p, h>>] = ptr[<<p, h>>]
      BY <1>2, <2>1, <2>3, <3>1 DEF Holders
    <3>3. RefsCounted
      BY DEF Up, InodeInv
    <3> HIDE DEF t
    <3>4. "ip" \in Holders /\ "file" \in Holders
      BY DEF Holders
    <3>5. /\ \A w \in Slots : itable'[w].ref = itable[w].ref
          /\ ptr[<<p, "file">>] = 0 /\ ptr'[<<p, "ip">>] = 0
          /\ ptr'[<<p, "file">>] = ptr[<<p, "ip">>]
      BY <1>6, <1>1, <1>2, <2>1, <2>3, <2>6, <3>1 DEF Keeps
    <3> QED
      BY ONLY p \in Procs, <2>4, <3>2, <3>3, <3>4, <3>5, RefsMove
  <2>8. LockStep(p, r)
    <3>1. Locked(t) = t.ip /\ Freeing(t) = 0 /\ Locked(r) = 0 /\ Freeing(r) = 0
      BY <1>6, <1>2, <2>3 DEF Locked, Freeing
    <3>3. itable' = itable /\ lock' = [lock EXCEPT ![t.ip] = Free]
      BY <2>1
    <3> QED
      BY <1>6, <1>1, <1>2, <1>3, <2>6, <3>1, <3>3, SlotFacts DEF LockStep, Locks, Keeps
  <2>9. ValidStays(p)
    BY <1>1, <1>2, <1>3, <2>1, <2>6 DEF ValidStays, Keeps, Locks, Locked, Freeing
  <2> QED
    <3>1. disk' \in [Inums -> Dinodes] /\ outstanding' \subseteq Procs
          /\ cwd' \in [Procs -> Slots] /\ file' \in [Procs -> 0..NINODE]
      BY <1>1, <1>2, <2>1, <2>4, SlotFacts DEF TypeOK
    <3>2. th' = [th EXCEPT ![p] = r] /\ boot' = boot
      BY <2>1
    <3> QED
      BY ONLY Up, p \in Procs, <2>2, <2>4, <2>5, <2>6, <2>7, <2>8, <2>9, <3>1, <3>2, StepKeeps
<1>7. CASE fails
  <2> DEFINE r == [t EXCEPT !.pc = "end", !.put = t.ip, !.ip = 0]
  <2>1. /\ th' = [th EXCEPT ![p] = r] /\ boot' = boot
        /\ cwd' = cwd /\ file' = file /\ disk' = disk /\ outstanding' = outstanding
        /\ itable' = itable
        /\ dinode' = dinode
        /\ lock' = [lock EXCEPT ![t.ip] = Free]
    BY <1>7, <1>1, <1>2 DEF Opened, Become, FsOnly
  <2>2. r \in Threads
    BY <1>7, <1>1, <1>2, SlotFacts DEF Threads, Pcs
  <2>3. /\ r.pc = "end" /\ r.op = t.op /\ r.new = t.new
        /\ r.cur = t.cur /\ r.ip = 0 /\ r.dp = t.dp
        /\ r.put = t.ip /\ r.stage = t.stage
    BY <1>7, <1>1, <1>2 DEF Threads
  <2> HIDE DEF r, opens, fails
  <2>4. OthersPoint(p) /\ th'[p] = r /\ TypeOK
    <3>1. TypeOK
      BY DEF Up, InodeInv
    <3>2. \A q \in Procs \ {p} : cwd'[q] = cwd[q] /\ file'[q] = file[q]
      BY <2>1, <3>1 DEF TypeOK
    <3>3. th' = [th EXCEPT ![p] = r]
      BY <2>1
    <3> QED
      BY ONLY p \in Procs, <3>1, <3>2, <3>3, OthersStay
  <2>5. FrameOK(r) /\ r.pc # "panic" /\ Elements(r.new) \in Seq(Elems)
    <3>1. Elements(r.new) \in Seq(Elems)
      BY <1>7, <2>3, <2>4 DEF TypeOK
    <3>2. r.op \in OpsAt(r.pc) /\ r.pc # "panic"
      BY <1>7, <1>2, <2>3 DEF OpsAt, CreateOps, Ops
    <3> QED
      BY <1>7, <1>2, <2>3, <3>1, <3>2 DEF FrameOK, CurPcs, DpPcs, IpPcs
  <2>6. /\ Table(itable', dinode')
        /\ \A s \in Slots : itable'[s].ref = itable[s].ref
    BY <1>7, <1>1, <2>1
  <2>7. RefsCounted'
    <3>1. /\ ptr[<<p, "cwd">>] = cwd[p] /\ ptr'[<<p, "cwd">>] = cwd'[p]
          /\ ptr[<<p, "file">>] = file[p] /\ ptr'[<<p, "file">>] = file'[p]
          /\ ptr[<<p, "cur">>] = t.cur /\ ptr'[<<p, "cur">>] = r.cur
          /\ ptr[<<p, "ip">>] = t.ip /\ ptr'[<<p, "ip">>] = r.ip
          /\ ptr[<<p, "dp">>] = t.dp /\ ptr'[<<p, "dp">>] = r.dp
          /\ ptr[<<p, "put">>] = t.put /\ ptr'[<<p, "put">>] = r.put
      BY <2>4, PtrView
    <3>2. \A h \in Holders \ {"ip", "put"} : ptr'[<<p, h>>] = ptr[<<p, h>>]
      BY <1>2, <2>1, <2>3, <3>1 DEF Holders
    <3>3. RefsCounted
      BY DEF Up, InodeInv
    <3> HIDE DEF t
    <3>4. "ip" \in Holders /\ "put" \in Holders
      BY DEF Holders
    <3>5. /\ \A w \in Slots : itable'[w].ref = itable[w].ref
          /\ ptr[<<p, "put">>] = 0 /\ ptr'[<<p, "ip">>] = 0
          /\ ptr'[<<p, "put">>] = ptr[<<p, "ip">>]
      BY <1>7, <1>1, <1>2, <2>1, <2>3, <2>6, <3>1 DEF Keeps
    <3> QED
      BY ONLY p \in Procs, <2>4, <3>2, <3>3, <3>4, <3>5, RefsMove
  <2>8. LockStep(p, r)
    <3>1. Locked(t) = t.ip /\ Freeing(t) = 0 /\ Locked(r) = 0 /\ Freeing(r) = 0
      BY <1>7, <1>2, <2>3 DEF Locked, Freeing
    <3>3. itable' = itable /\ lock' = [lock EXCEPT ![t.ip] = Free]
      BY <2>1
    <3> QED
      BY <1>7, <1>1, <1>2, <1>3, <2>6, <3>1, <3>3, SlotFacts DEF LockStep, Locks, Keeps
  <2>9. ValidStays(p)
    BY <1>1, <1>2, <1>3, <2>1, <2>6 DEF ValidStays, Keeps, Locks, Locked, Freeing
  <2> QED
    <3>1. disk' \in [Inums -> Dinodes] /\ outstanding' \subseteq Procs
          /\ cwd' \in [Procs -> Slots] /\ file' \in [Procs -> 0..NINODE]
      BY <1>1, <1>2, <2>1, <2>4, SlotFacts DEF TypeOK
    <3>2. th' = [th EXCEPT ![p] = r] /\ boot' = boot
      BY <2>1
    <3> QED
      BY ONLY Up, p \in Procs, <2>2, <2>4, <2>5, <2>6, <2>7, <2>8, <2>9, <3>1, <3>2, StepKeeps
<1> QED
  BY <1>6, <1>7, <1>5

\* chdir(): the old directory is given back.
LEMMA ChdirKeeps ==
  ASSUME Up, NEW p \in Procs, Chdir(p)
  PROVE  InodeInv'
<1> DEFINE t == th[p]
<1> DEFINE it == ilock(itable, t.ip)
<1>1. /\ t \in Threads /\ FrameOK(t) /\ Table(itable, dinode)
      /\ cwd[p] \in Slots /\ itable[cwd[p]].ref > 0
      /\ \A s \in {file[p], t.cur, t.ip, t.dp, t.put} :
           s # 0 => s \in Slots /\ itable[s].ref > 0 /\ itable[s].inum \in Inums
  BY Mine
<1>2. /\ t.pc = "chdir" /\ t.op = "chdir" /\ t.put = 0 /\ t.stage = "test"
      /\ t.cur = 0 /\ t.dp = 0
      /\ t.ip # 0 /\ t.ip \in Slots /\ itable[t.ip].ref > 0 /\ itable[t.ip].inum \in Inums
  <2>1. /\ t.pc = "chdir" /\ t.op = "chdir" /\ t.put = 0 /\ t.stage = "test"
        /\ t.cur = 0
        /\ t.ip # 0
        /\ t.dp = 0
    BY <1>1 DEF Chdir, Running, Putting, FrameOK, OpsAt, CurPcs, DpPcs, IpPcs, CreateOps
  <2> QED
    BY <1>1, <2>1
<1>3. Locks(p)
  BY LocksMine
<1>4. it[t.ip].type # "none" =>
        /\ Table(it, dinode) /\ Keeps(itable, it) /\ it[t.ip].valid
        /\ \A y \in Slots \ {t.ip} : it[y] = itable[y]
  BY <1>1, <1>2, IlockTable
<1>5. file \in [Procs -> 0..NINODE] /\ cwd \in [Procs -> Slots]
  BY DEF Up, InodeInv, TypeOK
<1>6. \A s : [[t EXCEPT !.pc = "end", !.ip = 0] EXCEPT !.put = s] =
              [t EXCEPT !.pc = "end", !.put = s, !.ip = 0]
  BY <1>1 DEF Threads
<1>7. CASE it[t.ip].type = "none"
  <2>1. /\ Panic(p) /\ outstanding' = outstanding
        /\ UNCHANGED <<dinode, disk, itable, lock, cwd, file, boot>>
    BY <1>7, <1>1, <1>2 DEF Chdir, FsOnly
  <2>2. outstanding' \subseteq Procs
    BY <2>1 DEF Up, InodeInv, TypeOK
  <2> QED
    BY <2>1, <2>2, PanicKeeps
<1>8. CASE it[t.ip].type = "DIR"
  <2> DEFINE r == [t EXCEPT !.pc = "end", !.put = cwd[p], !.ip = 0]
  <2>1. /\ th' = [th EXCEPT ![p] = r] /\ boot' = boot
        /\ cwd' = [cwd EXCEPT ![p] = t.ip] /\ file' = file /\ disk' = disk /\ outstanding' = outstanding
        /\ itable' = it
        /\ dinode' = dinode
        /\ lock' = lock
        /\ cwd'[p] = t.ip
    BY <1>8, <1>5, <1>6, <1>1, <1>2 DEF Chdir, Become, FsOnly
  <2>2. r \in Threads
    BY <1>8, <1>1, <1>2, SlotFacts DEF Threads, Pcs
  <2>3. /\ r.pc = "end" /\ r.op = t.op /\ r.new = t.new
        /\ r.cur = t.cur /\ r.ip = 0 /\ r.dp = t.dp
        /\ r.put = cwd[p] /\ r.stage = t.stage
    BY <1>8, <1>1, <1>2 DEF Threads
  <2> HIDE DEF r, it
  <2>4. OthersPoint(p) /\ th'[p] = r /\ TypeOK
    <3>1. TypeOK
      BY DEF Up, InodeInv
    <3>2. \A q \in Procs \ {p} : cwd'[q] = cwd[q] /\ file'[q] = file[q]
      BY <2>1, <3>1 DEF TypeOK
    <3>3. th' = [th EXCEPT ![p] = r]
      BY <2>1
    <3> QED
      BY ONLY p \in Procs, <3>1, <3>2, <3>3, OthersStay
  <2>5. FrameOK(r) /\ r.pc # "panic" /\ Elements(r.new) \in Seq(Elems)
    <3>1. Elements(r.new) \in Seq(Elems)
      BY <1>8, <2>3, <2>4 DEF TypeOK
    <3>2. r.op \in OpsAt(r.pc) /\ r.pc # "panic"
      BY <1>8, <1>2, <2>3 DEF OpsAt, CreateOps, Ops
    <3> QED
      BY <1>8, <1>2, <2>3, <3>1, <3>2 DEF FrameOK, CurPcs, DpPcs, IpPcs
  <2>6. /\ Table(itable', dinode')
        /\ Keeps(itable, itable')
    BY <1>8, <1>4, <2>1
  <2>7. RefsCounted'
    <3>1. /\ ptr[<<p, "cwd">>] = cwd[p] /\ ptr'[<<p, "cwd">>] = cwd'[p]
          /\ ptr[<<p, "file">>] = file[p] /\ ptr'[<<p, "file">>] = file'[p]
          /\ ptr[<<p, "cur">>] = t.cur /\ ptr'[<<p, "cur">>] = r.cur
          /\ ptr[<<p, "ip">>] = t.ip /\ ptr'[<<p, "ip">>] = r.ip
          /\ ptr[<<p, "dp">>] = t.dp /\ ptr'[<<p, "dp">>] = r.dp
          /\ ptr[<<p, "put">>] = t.put /\ ptr'[<<p, "put">>] = r.put
      BY <2>4, PtrView
    <3>2. \A h \in Holders \ {"cwd", "put", "ip"} : ptr'[<<p, h>>] = ptr[<<p, h>>]
      BY <1>2, <2>1, <2>3, <3>1 DEF Holders
    <3>3. RefsCounted
      BY DEF Up, InodeInv
    <3> HIDE DEF t
    <3>4. "cwd" \in Holders /\ "put" \in Holders /\ "ip" \in Holders
      BY DEF Holders
    <3>5. /\ \A w \in Slots : itable'[w].ref = itable[w].ref
          /\ ptr[<<p, "put">>] = 0 /\ ptr'[<<p, "ip">>] = 0
          /\ ptr'[<<p, "put">>] = ptr[<<p, "cwd">>] /\ ptr'[<<p, "cwd">>] = ptr[<<p, "ip">>]
      BY <1>8, <1>1, <1>2, <2>1, <2>3, <2>6, <3>1 DEF Keeps
    <3> QED
      BY ONLY p \in Procs, <2>4, <3>2, <3>3, <3>4, <3>5, RefsMoveMove
  <2>8. LockStep(p, r)
    <3>1. Locked(t) = 0 /\ Freeing(t) = 0 /\ Locked(r) = 0 /\ Freeing(r) = 0
      BY <1>8, <1>2, <2>3 DEF Locked, Freeing
    <3>3. lock' = lock
      BY <2>1
    <3> QED
      BY <1>8, <1>1, <1>2, <1>3, <2>6, <3>1, <3>3, SlotFacts DEF LockStep, Locks, Keeps
  <2>9. ValidStays(p)
    BY <1>1, <1>2, <1>3, <2>6 DEF ValidStays, Keeps, Locks, Locked, Freeing
  <2> QED
    <3>1. disk' \in [Inums -> Dinodes] /\ outstanding' \subseteq Procs
          /\ cwd' \in [Procs -> Slots] /\ file' \in [Procs -> 0..NINODE]
      BY <1>1, <1>2, <2>1, <2>4, SlotFacts DEF TypeOK
    <3>2. th' = [th EXCEPT ![p] = r] /\ boot' = boot
      BY <2>1
    <3> QED
      BY ONLY Up, p \in Procs, <2>2, <2>4, <2>5, <2>6, <2>7, <2>8, <2>9, <3>1, <3>2, StepKeeps
<1>9. CASE it[t.ip].type # "none" /\ it[t.ip].type # "DIR"
  <2> DEFINE r == [t EXCEPT !.pc = "end", !.put = t.ip, !.ip = 0]
  <2>1. /\ th' = [th EXCEPT ![p] = r] /\ boot' = boot
        /\ cwd' = cwd /\ file' = file /\ disk' = disk /\ outstanding' = outstanding
        /\ itable' = it
        /\ dinode' = dinode
        /\ lock' = lock
    BY <1>9, <1>6, <1>1, <1>2 DEF Chdir, Become, FsOnly
  <2>2. r \in Threads
    BY <1>9, <1>1, <1>2, SlotFacts DEF Threads, Pcs
  <2>3. /\ r.pc = "end" /\ r.op = t.op /\ r.new = t.new
        /\ r.cur = t.cur /\ r.ip = 0 /\ r.dp = t.dp
        /\ r.put = t.ip /\ r.stage = t.stage
    BY <1>9, <1>1, <1>2 DEF Threads
  <2> HIDE DEF r, it
  <2>4. OthersPoint(p) /\ th'[p] = r /\ TypeOK
    <3>1. TypeOK
      BY DEF Up, InodeInv
    <3>2. \A q \in Procs \ {p} : cwd'[q] = cwd[q] /\ file'[q] = file[q]
      BY <2>1, <3>1 DEF TypeOK
    <3>3. th' = [th EXCEPT ![p] = r]
      BY <2>1
    <3> QED
      BY ONLY p \in Procs, <3>1, <3>2, <3>3, OthersStay
  <2>5. FrameOK(r) /\ r.pc # "panic" /\ Elements(r.new) \in Seq(Elems)
    <3>1. Elements(r.new) \in Seq(Elems)
      BY <1>9, <2>3, <2>4 DEF TypeOK
    <3>2. r.op \in OpsAt(r.pc) /\ r.pc # "panic"
      BY <1>9, <1>2, <2>3 DEF OpsAt, CreateOps, Ops
    <3> QED
      BY <1>9, <1>2, <2>3, <3>1, <3>2 DEF FrameOK, CurPcs, DpPcs, IpPcs
  <2>6. /\ Table(itable', dinode')
        /\ Keeps(itable, itable')
    BY <1>9, <1>4, <2>1
  <2>7. RefsCounted'
    <3>1. /\ ptr[<<p, "cwd">>] = cwd[p] /\ ptr'[<<p, "cwd">>] = cwd'[p]
          /\ ptr[<<p, "file">>] = file[p] /\ ptr'[<<p, "file">>] = file'[p]
          /\ ptr[<<p, "cur">>] = t.cur /\ ptr'[<<p, "cur">>] = r.cur
          /\ ptr[<<p, "ip">>] = t.ip /\ ptr'[<<p, "ip">>] = r.ip
          /\ ptr[<<p, "dp">>] = t.dp /\ ptr'[<<p, "dp">>] = r.dp
          /\ ptr[<<p, "put">>] = t.put /\ ptr'[<<p, "put">>] = r.put
      BY <2>4, PtrView
    <3>2. \A h \in Holders \ {"ip", "put"} : ptr'[<<p, h>>] = ptr[<<p, h>>]
      BY <1>2, <2>1, <2>3, <3>1 DEF Holders
    <3>3. RefsCounted
      BY DEF Up, InodeInv
    <3> HIDE DEF t
    <3>4. "ip" \in Holders /\ "put" \in Holders
      BY DEF Holders
    <3>5. /\ \A w \in Slots : itable'[w].ref = itable[w].ref
          /\ ptr[<<p, "put">>] = 0 /\ ptr'[<<p, "ip">>] = 0
          /\ ptr'[<<p, "put">>] = ptr[<<p, "ip">>]
      BY <1>9, <1>1, <1>2, <2>1, <2>3, <2>6, <3>1 DEF Keeps
    <3> QED
      BY ONLY p \in Procs, <2>4, <3>2, <3>3, <3>4, <3>5, RefsMove
  <2>8. LockStep(p, r)
    <3>1. Locked(t) = 0 /\ Freeing(t) = 0 /\ Locked(r) = 0 /\ Freeing(r) = 0
      BY <1>9, <1>2, <2>3 DEF Locked, Freeing
    <3>3. lock' = lock
      BY <2>1
    <3> QED
      BY <1>9, <1>1, <1>2, <1>3, <2>6, <3>1, <3>3, SlotFacts DEF LockStep, Locks, Keeps
  <2>9. ValidStays(p)
    BY <1>1, <1>2, <1>3, <2>6 DEF ValidStays, Keeps, Locks, Locked, Freeing
  <2> QED
    <3>1. disk' \in [Inums -> Dinodes] /\ outstanding' \subseteq Procs
          /\ cwd' \in [Procs -> Slots] /\ file' \in [Procs -> 0..NINODE]
      BY <1>1, <1>2, <2>1, <2>4, SlotFacts DEF TypeOK
    <3>2. th' = [th EXCEPT ![p] = r] /\ boot' = boot
      BY <2>1
    <3> QED
      BY ONLY Up, p \in Procs, <2>2, <2>4, <2>5, <2>6, <2>7, <2>8, <2>9, <3>1, <3>2, StepKeeps
<1> QED
  BY <1>7, <1>8, <1>9

\* fileclose() of the last descriptor.
LEMMA CloseKeeps ==
  ASSUME Up, NEW p \in Procs, Close(p)
  PROVE  InodeInv'
<1> DEFINE t == th[p]
<1>1. /\ t \in Threads /\ FrameOK(t) /\ Table(itable, dinode)
      /\ cwd[p] \in Slots /\ itable[cwd[p]].ref > 0
      /\ \A s \in {file[p], t.cur, t.ip, t.dp, t.put} :
           s # 0 => s \in Slots /\ itable[s].ref > 0 /\ itable[s].inum \in Inums
  BY Mine
<1>2. /\ t.pc = "idle" /\ t.op = "none" /\ file[p] # 0 /\ t.put = 0 /\ t.stage = "test"
      /\ t.cur = 0 /\ t.ip = 0 /\ t.dp = 0
  <2>1. /\ t.pc = "idle" /\ t.op = "none" /\ file[p] # 0 /\ t.put = 0 /\ t.stage = "test"
        /\ t.cur = 0
        /\ t.ip = 0
        /\ t.dp = 0
    BY <1>1 DEF Close, Running, Putting, FrameOK, OpsAt, CurPcs, DpPcs, IpPcs, CreateOps
  <2> QED
    BY <1>1, <2>1
<1>3. Locks(p)
  BY LocksMine
<1>4. file \in [Procs -> 0..NINODE] /\ cwd \in [Procs -> Slots]
  BY DEF Up, InodeInv, TypeOK
<1>5. InodeInv'
  <2> DEFINE r == [Idle EXCEPT !.pc = "end", !.op = "close", !.put = file[p]]
  <2>1. /\ th' = [th EXCEPT ![p] = r] /\ boot' = boot
        /\ cwd' = cwd /\ file' = [file EXCEPT ![p] = 0] /\ disk' = disk /\ outstanding' = outstanding \cup {p}
        /\ itable' = itable
        /\ dinode' = dinode
        /\ lock' = lock
        /\ file'[p] = 0
    BY <1>4, <1>1, <1>2 DEF Close, Become, FsOnly
  <2>2. r \in Threads
    BY <1>1, <1>2, SlotFacts, IdleThread DEF Threads, Pcs, Ops
  <2>3. /\ r.pc = "end" /\ r.op = "close" /\ r.new = <<>>
        /\ r.cur = 0 /\ r.ip = 0 /\ r.dp = 0
        /\ r.put = file[p] /\ r.stage = "test"
    BY <1>1, <1>2 DEF Threads, Idle
  <2> HIDE DEF r
  <2>4. OthersPoint(p) /\ th'[p] = r /\ TypeOK
    <3>1. TypeOK
      BY DEF Up, InodeInv
    <3>2. \A q \in Procs \ {p} : cwd'[q] = cwd[q] /\ file'[q] = file[q]
      BY <2>1, <3>1 DEF TypeOK
    <3>3. th' = [th EXCEPT ![p] = r]
      BY <2>1
    <3> QED
      BY ONLY p \in Procs, <3>1, <3>2, <3>3, OthersStay
  <2>5. FrameOK(r) /\ r.pc # "panic" /\ Elements(r.new) \in Seq(Elems)
    <3>1. Elements(r.new) \in Seq(Elems)
      BY <2>3, <2>4 DEF TypeOK, Elements, Absolute
    <3>2. r.op \in OpsAt(r.pc) /\ r.pc # "panic"
      BY <1>2, <2>3 DEF OpsAt, CreateOps, Ops
    <3> QED
      BY <1>2, <2>3, <3>1, <3>2 DEF FrameOK, CurPcs, DpPcs, IpPcs
  <2>6. /\ Table(itable', dinode')
        /\ \A s \in Slots : itable'[s].ref = itable[s].ref
    BY <1>1, <2>1
  <2>7. RefsCounted'
    <3>1. /\ ptr[<<p, "cwd">>] = cwd[p] /\ ptr'[<<p, "cwd">>] = cwd'[p]
          /\ ptr[<<p, "file">>] = file[p] /\ ptr'[<<p, "file">>] = file'[p]
          /\ ptr[<<p, "cur">>] = t.cur /\ ptr'[<<p, "cur">>] = r.cur
          /\ ptr[<<p, "ip">>] = t.ip /\ ptr'[<<p, "ip">>] = r.ip
          /\ ptr[<<p, "dp">>] = t.dp /\ ptr'[<<p, "dp">>] = r.dp
          /\ ptr[<<p, "put">>] = t.put /\ ptr'[<<p, "put">>] = r.put
      BY <2>4, PtrView
    <3>2. \A h \in Holders \ {"file", "put"} : ptr'[<<p, h>>] = ptr[<<p, h>>]
      BY <1>2, <2>1, <2>3, <3>1 DEF Holders
    <3>3. RefsCounted
      BY DEF Up, InodeInv
    <3> HIDE DEF t
    <3>4. "file" \in Holders /\ "put" \in Holders
      BY DEF Holders
    <3>5. /\ \A w \in Slots : itable'[w].ref = itable[w].ref
          /\ ptr[<<p, "put">>] = 0 /\ ptr'[<<p, "file">>] = 0
          /\ ptr'[<<p, "put">>] = ptr[<<p, "file">>]
      BY <1>1, <1>2, <2>1, <2>3, <2>6, <3>1 DEF Keeps
    <3> QED
      BY ONLY p \in Procs, <2>4, <3>2, <3>3, <3>4, <3>5, RefsMove
  <2>8. LockStep(p, r)
    <3>1. Locked(t) = 0 /\ Freeing(t) = 0 /\ Locked(r) = 0 /\ Freeing(r) = 0
      BY <1>2, <2>3 DEF Locked, Freeing
    <3>3. itable' = itable /\ lock' = lock
      BY <2>1
    <3> QED
      BY <1>1, <1>2, <1>3, <2>6, <3>1, <3>3, SlotFacts DEF LockStep, Locks, Keeps
  <2>9. ValidStays(p)
    BY <1>1, <1>2, <1>3, <2>1, <2>6 DEF ValidStays, Keeps, Locks, Locked, Freeing
  <2> QED
    <3>1. disk' \in [Inums -> Dinodes] /\ outstanding' \subseteq Procs
          /\ cwd' \in [Procs -> Slots] /\ file' \in [Procs -> 0..NINODE]
      BY <1>1, <1>2, <2>1, <2>4, SlotFacts DEF TypeOK
    <3>2. th' = [th EXCEPT ![p] = r] /\ boot' = boot
      BY <2>1
    <3> QED
      BY ONLY Up, p \in Procs, <2>2, <2>4, <2>5, <2>6, <2>7, <2>8, <2>9, <3>1, <3>2, StepKeeps
<1> QED
  BY <1>5

-----------------------------------------------------------------------------
(* Boot, and power failure. *)

\* The machine before its first step.
Fresh ==
  /\ dinode \in [Inums -> Dinodes] /\ disk \in [Inums -> Dinodes]
  /\ outstanding = {} /\ itable = Booted
  /\ lock = [s \in Slots |-> Free]
  /\ cwd = [p \in Procs |-> 1] /\ file = [p \in Procs |-> 0]
  /\ th = [p \in Procs |-> Idle]
  /\ boot \in {0, ROOTINO}

\* Every process is in the root directory: that is what Booted counts.
LEMMA BootedCount ==
  ASSUME NEW f, \A q \in Procs, h \in Holders : f[<<q, h>>] = IF h = "cwd" THEN 1 ELSE 0
  PROVE  \A s \in Slots : Booted[s].ref = Count(f, s)
<1>1. Booted[1].ref = Count(f, 1)
  <2>1. {e \in Places : f[e] = 1} = Procs \X {"cwd"}
    <3>1. "cwd" \in Holders
      BY DEF Holders
    <3>2. ASSUME NEW e \in Places
          PROVE  f[e] = 1 <=> e \in Procs \X {"cwd"}
      <4>1. PICK q \in Procs, h \in Holders : e = <<q, h>>
        BY DEF Places
      <4>2. f[e] = IF h = "cwd" THEN 1 ELSE 0
        BY <4>1
      <4> QED
        BY <4>1, <4>2
    <3> QED
      BY <3>1, <3>2 DEF Places
  <2>2. /\ IsFiniteSet({"cwd"}) /\ Cardinality({"cwd"}) = 1
        /\ IsFiniteSet(Procs) /\ Cardinality(Procs) \in Nat
    BY FS_Singleton, FS_CardinalityType, InodeAssumption
  <2>3. Cardinality(Procs \X {"cwd"}) = Cardinality(Procs) * Cardinality({"cwd"})
    BY <2>2, FS_Product
  <2>4. Cardinality(Procs \X {"cwd"}) = Cardinality(Procs)
    BY <2>2, <2>3
  <2>5. 1 \in Slots
    BY InodeAssumption DEF Slots
  <2> QED
    BY <2>1, <2>4, <2>5 DEF Booted, NoInode, Count
<1>2. ASSUME NEW s \in Slots, s # 1
      PROVE  Booted[s].ref = Count(f, s)
  <2>1. {e \in Places : f[e] = s} = {}
    <3> SUFFICES ASSUME NEW e \in Places, f[e] = s PROVE FALSE
      OBVIOUS
    <3>1. PICK q \in Procs, h \in Holders : e = <<q, h>>
      BY DEF Places
    <3> QED
      BY <1>2, <3>1, SlotFacts
  <2>2. Count(f, s) = 0
    BY <2>1, FS_EmptySet DEF Count
  <2> QED
    BY <1>2, <2>2 DEF Booted, NoInode
<1> QED
  BY <1>1, <1>2

LEMMA FreshInv == Fresh => InodeInv
<1> SUFFICES ASSUME Fresh PROVE InodeInv
  OBVIOUS
<1>1. 1 \in Slots /\ 1 \in Inums /\ 0 \in 0..NINODE /\ 1 \in 0..NInodes /\ 0 \in 0..NInodes
  BY InodeAssumption DEF Slots, Inums
<1>2. Cardinality(Procs) \in Nat /\ Cardinality(Procs) # 0
  BY FS_CardinalityType, FS_EmptySet, InodeAssumption
<1> DEFINE R == [inum |-> ROOTINO, ref |-> Cardinality(Procs), valid |-> FALSE,
                 type |-> "none", nlink |-> 0]
<1>3. \A s \in Slots : itable[s] = IF s = 1 THEN R ELSE NoInode
  BY DEF Fresh, Booted
<1>4. R \in Entries /\ NoInode \in Entries
  BY <1>1, <1>2 DEF Entries, Types, NoInode, ROOTINO
<1>5. itable \in [Slots -> Entries]
  <2>1. itable = [s \in Slots |-> itable[s]]
    BY DEF Fresh, Booted
  <2> QED
    BY <1>3, <1>4, <2>1
<1>6. \A q \in Procs : th[q] = Idle /\ cwd[q] = 1 /\ file[q] = 0
  BY DEF Fresh
<1>7. TypeOK
  <2>1. th \in [Procs -> Threads] /\ \A q \in Procs : Elements(th[q].new) \in Seq(Elems)
    <3>1. Elements(Idle.new) \in Seq(Elems)
      BY IdleThread DEF Elements, Absolute
    <3> QED
      BY <1>6, <3>1, IdleThread DEF Fresh
  <2>2. boot \in 0..NInodes
    BY <1>1 DEF Fresh, ROOTINO
  <2> QED
    BY <1>1, <1>5, <2>1, <2>2 DEF TypeOK, Fresh
<1>8. \A s \in Slots : ~itable[s].valid
  BY <1>3 DEF NoInode
<1>9. TableOK(itable, dinode)
  <2>1. \A s \in Slots : IF itable[s].ref = 0 THEN itable[s] = NoInode ELSE itable[s].inum # 0
    BY <1>2, <1>3 DEF NoInode, ROOTINO
  <2>2. \A s \in Slots : itable[s].ref > 0 => s = 1
    BY <1>3 DEF NoInode
  <2> QED
    BY <1>8, <2>1, <2>2 DEF TableOK
<1>10. BootOK
  BY <1>8 DEF BootOK, Fresh, ROOTINO
<1>11. RefsCounted
  <2>1. \A q \in Procs, h \in Holders : ptr[<<q, h>>] = IF h = "cwd" THEN 1 ELSE 0
    <3> SUFFICES ASSUME NEW q \in Procs, NEW h \in Holders
                 PROVE  ptr[<<q, h>>] = IF h = "cwd" THEN 1 ELSE 0
      OBVIOUS
    <3>1. h \in {"cwd", "file", "cur", "ip", "dp", "put"}
      BY DEF Holders
    <3>2. /\ ptr[<<q, "cwd">>] = 1 /\ ptr[<<q, "file">>] = 0 /\ ptr[<<q, "cur">>] = 0
          /\ ptr[<<q, "ip">>] = 0 /\ ptr[<<q, "dp">>] = 0 /\ ptr[<<q, "put">>] = 0
      <4>1. th[q].cur = 0 /\ th[q].ip = 0 /\ th[q].dp = 0 /\ th[q].put = 0
        BY <1>6 DEF Idle
      <4> QED
        BY <1>6, <4>1, PtrView
    <3> QED
      BY <3>1, <3>2
  <2>2. \A s \in Slots : Booted[s].ref = Count(ptr, s)
    BY <2>1, BootedCount
  <2> QED
    BY <2>2, RefsAre DEF Fresh
<1>12. \A q \in Procs : FrameOK(th[q])
  BY <1>6, IdleThread
<1>13. LocksHeld
  <2>1. Locked(Idle) = 0 /\ Freeing(Idle) = 0
    BY DEF Locked, Freeing, Idle
  <2> QED
    BY <1>6, <2>1, SlotFacts, InodeAssumption DEF LocksHeld, Fresh
<1> QED
  BY <1>7, <1>9, <1>10, <1>11, <1>12, <1>13 DEF InodeInv

LEMMA CrashKeeps ==
  ASSUME InodeInv, Crash
  PROVE  InodeInv'
<1>1. Fresh'
  BY DEF Fresh, Crash, InodeInv, TypeOK
<1>2. Fresh' => InodeInv'
  BY FreshInv, PTL
<1> QED
  BY <1>1, <1>2

\* The threads, what they point to and their locks stay.
LEMMA ThreadsSame ==
  ASSUME InodeInv, itable' = itable, lock' = lock, cwd' = cwd, file' = file, th' = th
  PROVE  ~Panicked' => RefsCounted' /\ (\A p \in Procs : FrameOK(th'[p])) /\ LocksHeld'
<1> SUFFICES ASSUME ~Panicked'
             PROVE  RefsCounted' /\ (\A p \in Procs : FrameOK(th'[p])) /\ LocksHeld'
  OBVIOUS
<1>1. RefsCounted /\ (\A p \in Procs : FrameOK(th[p])) /\ LocksHeld
  BY DEF Panicked, InodeInv
<1>2. ptr' = ptr
  BY DEF ptr
<1>3. RefsCounted'
  <2>1. \A s \in Slots : Count(ptr', s) = Count(ptr, s) /\ itable'[s].ref = itable[s].ref
    BY <1>2
  <2> QED
    BY <1>1, <2>1, RefsAre
<1>4. LocksHeld'
  BY <1>1 DEF LocksHeld
<1> QED
  BY <1>1, <1>3, <1>4

\* ireclaim(): one more inode has been looked at.
LEMMA ReclaimKeeps ==
  ASSUME InodeInv, Reclaim
  PROVE  /\ InodeInv'
         /\ boot' = 0 => \A i \in Inums : dinode'[i].type # "none" => dinode'[i].nlink # 0
<1>1. /\ boot \in Inums /\ dinode \in [Inums -> Dinodes] /\ NInodes \in Nat
      /\ itable' = itable /\ lock' = lock /\ cwd' = cwd /\ file' = file /\ th' = th
      /\ outstanding' = outstanding /\ disk' = dinode'
      /\ boot' = IF boot = NInodes THEN 0 ELSE boot + 1
  BY SlotFacts, InodeAssumption DEF InodeInv, TypeOK, Reclaim
<1>2. /\ dinode' \in [Inums -> Dinodes] /\ \A i \in Inums \ {boot} : dinode'[i] = dinode[i]
      /\ dinode'[boot].type # "none" => dinode'[boot].nlink # 0
  <2>1. Freed \in Dinodes /\ Freed.type = "none"
    BY InodeAssumption DEF Freed, Dinodes, NoDir, Types
  <2> QED
    BY <1>1, <2>1 DEF Reclaim
<1>3. \A i \in 1..boot-1 : dinode[i].type # "none" => dinode[i].nlink # 0
  BY <1>1, SlotFacts DEF InodeInv, BootOK
<1>4. \A i \in 1..boot : dinode'[i].type # "none" => dinode'[i].nlink # 0
  BY <1>1, <1>2, <1>3 DEF Inums
<1>5. \A s \in Slots : ~itable[s].valid
  BY <1>1, SlotFacts DEF InodeInv, BootOK
<1>6. TypeOK'
  <2>1. boot' \in 0..NInodes
    BY <1>1 DEF Inums
  <2> QED
    BY <1>1, <1>2, <2>1 DEF InodeInv, TypeOK
<1>7. TableOK(itable', dinode')
  BY <1>1, <1>5 DEF InodeInv, TableOK
<1>8. BootOK'
  BY <1>1, <1>4, <1>5 DEF BootOK, Inums
<1>9. ~Panicked' => RefsCounted' /\ (\A p \in Procs : FrameOK(th'[p])) /\ LocksHeld'
  BY <1>1, ThreadsSame
<1>10. boot' = 0 => \A i \in Inums : dinode'[i].type # "none" => dinode'[i].nlink # 0
  BY <1>1, <1>4 DEF Inums
<1> QED
  BY <1>6, <1>7, <1>8, <1>9, <1>10 DEF InodeInv

-----------------------------------------------------------------------------
(* The theorems. *)

LEMMA ProcKeeps ==
  ASSUME InodeInv, NEW p \in Procs, Step(p)
  PROVE  InodeInv' /\ boot = 0

<1>1. CASE \E c \in Calls : Call(p, c)
  <2>1. PICK c \in Calls : Call(p, c)
    BY <1>1
  <2>2. Up
    BY <2>1 DEF Up, Call, Running
  <2> QED
    BY <2>1, <2>2, CallKeeps DEF Up
<1>2. CASE \E pc \in {"namei", "nameiparent"} : NamexEnd(p, pc)
  <2>1. PICK pc \in {"namei", "nameiparent"} : NamexEnd(p, pc)
    BY <1>2
  <2>2. Up
    BY <2>1 DEF Up, NamexEnd, Running
  <2> QED
    BY <2>1, <2>2, NamexEndKeeps DEF Up
<1>3. CASE \E pc \in {"namei", "nameiparent"} : NamexStep(p, pc)
  <2>1. PICK pc \in {"namei", "nameiparent"} : NamexStep(p, pc)
    BY <1>3
  <2>2. Up
    BY <2>1 DEF Up, NamexStep, Running
  <2> QED
    BY <2>1, <2>2, NamexStepKeeps DEF Up
<1>4. CASE \E ok \in Writable : Link2(p, ok)
  <2>1. PICK ok \in Writable : Link2(p, ok)
    BY <1>4
  <2>2. Up
    BY <2>1 DEF Up, Link2, Running
  <2> QED
    BY <2>1, <2>2, Link2Keeps DEF Up
<1>5. CASE \E ok \in Writable : Create4(p, ok)
  <2>1. PICK ok \in Writable : Create4(p, ok)
    BY <1>5
  <2>2. Up
    BY <2>1 DEF Up, Create4, Running
  <2> QED
    BY <2>1, <2>2, Create4Keeps DEF Up
<1>6. CASE IputTest(p)
  <2>1. Up
    BY <1>6 DEF Up, IputTest, Putting
  <2> QED
    BY <1>6, <2>1, IputTestKeeps DEF Up
<1>7. CASE IputFree(p)
  <2>1. Up
    BY <1>7 DEF Up, IputFree, Putting
  <2> QED
    BY <1>7, <2>1, IputFreeKeeps DEF Up
<1>8. CASE IputDrop(p)
  <2>1. Up
    BY <1>8 DEF Up, IputDrop, Putting
  <2> QED
    BY <1>8, <2>1, IputDropKeeps DEF Up
<1>9. CASE DropDp(p)
  <2>1. Up
    BY <1>9 DEF Up, DropDp, Running
  <2> QED
    BY <1>9, <2>1, DropDpKeeps DEF Up
<1>10. CASE Unlink1(p)
  <2>1. Up
    BY <1>10 DEF Up, Unlink1, Running
  <2> QED
    BY <1>10, <2>1, Unlink1Keeps DEF Up
<1>11. CASE Unlink2(p)
  <2>1. Up
    BY <1>11 DEF Up, Unlink2, Running
  <2> QED
    BY <1>11, <2>1, Unlink2Keeps DEF Up
<1>12. CASE Unlink3(p)
  <2>1. Up
    BY <1>12 DEF Up, Unlink3, Running
  <2> QED
    BY <1>12, <2>1, Unlink3Keeps DEF Up
<1>13. CASE Link1(p)
  <2>1. Up
    BY <1>13 DEF Up, Link1, Running
  <2> QED
    BY <1>13, <2>1, Link1Keeps DEF Up
<1>14. CASE LinkNew(p)
  <2>1. Up
    BY <1>14 DEF Up, LinkNew, Running
  <2> QED
    BY <1>14, <2>1, LinkNewKeeps DEF Up
<1>15. CASE Linked(p)
  <2>1. Up
    BY <1>15 DEF Up, Linked, Running
  <2> QED
    BY <1>15, <2>1, LinkedKeeps DEF Up
<1>16. CASE LinkBad(p)
  <2>1. Up
    BY <1>16 DEF Up, LinkBad, Running
  <2> QED
    BY <1>16, <2>1, LinkBadKeeps DEF Up
<1>17. CASE Create1(p)
  <2>1. Up
    BY <1>17 DEF Up, Create1, Running
  <2> QED
    BY <1>17, <2>1, Create1Keeps DEF Up
<1>18. CASE Create2(p)
  <2>1. Up
    BY <1>18 DEF Up, Create2, Running
  <2> QED
    BY <1>18, <2>1, Create2Keeps DEF Up
<1>19. CASE Create3(p)
  <2>1. Up
    BY <1>19 DEF Up, Create3, Running
  <2> QED
    BY <1>19, <2>1, Create3Keeps DEF Up
<1>20. CASE Open(p)
  <2>1. Up
    BY <1>20 DEF Up, Open, Running
  <2> QED
    BY <1>20, <2>1, OpenKeeps DEF Up
<1>21. CASE Opened(p)
  <2>1. Up
    BY <1>21 DEF Up, Opened, Running
  <2> QED
    BY <1>21, <2>1, OpenedKeeps DEF Up
<1>22. CASE Chdir(p)
  <2>1. Up
    BY <1>22 DEF Up, Chdir, Running
  <2> QED
    BY <1>22, <2>1, ChdirKeeps DEF Up
<1>23. CASE Close(p)
  <2>1. Up
    BY <1>23 DEF Up, Close, Running
  <2> QED
    BY <1>23, <2>1, CloseKeeps DEF Up
<1>24. CASE EndOp(p)
  <2>1. Up
    BY <1>24 DEF Up, EndOp, Running
  <2> QED
    BY <1>24, <2>1, EndOpKeeps DEF Up
<1> QED
  BY <1>1, <1>2, <1>3, <1>4, <1>5, <1>6, <1>7, <1>8, <1>9, <1>10, <1>11,
     <1>12, <1>13, <1>14, <1>15, <1>16, <1>17, <1>18, <1>19, <1>20, <1>21,
     <1>22, <1>23, <1>24
  DEF Step

LEMMA NextKeeps ==
  ASSUME InodeInv, [Next]_vars
  PROVE  InodeInv'
<1>1. CASE Crash
  BY <1>1, CrashKeeps
<1>2. CASE Reclaim
  BY <1>2, ReclaimKeeps
<1>3. ASSUME NEW p \in Procs, Step(p) PROVE InodeInv'
  BY <1>3, ProcKeeps
<1>4. CASE UNCHANGED vars
  <2>1. /\ dinode' = dinode /\ disk' = disk /\ outstanding' = outstanding /\ itable' = itable
        /\ lock' = lock /\ cwd' = cwd /\ file' = file /\ th' = th /\ boot' = boot
    BY <1>4 DEF vars
  <2>2. TypeOK' /\ BootOK' /\ TableOK(itable', dinode')
    BY <2>1 DEF InodeInv, TypeOK, BootOK, TableOK
  <2>3. ~Panicked' => RefsCounted' /\ (\A p \in Procs : FrameOK(th'[p])) /\ LocksHeld'
    BY <2>1, ThreadsSame
  <2> QED
    BY <2>2, <2>3 DEF InodeInv
<1> QED
  BY <1>1, <1>2, <1>3, <1>4 DEF Next

\* The inductive invariant of the path calls of sysfile.c and of the inode table:
\* at every label a call points to the inodes its local variables say and holds
\* the locks the code says, through every error path, whatever the image.
THEOREM InodeInvariant == Spec => []InodeInv
<1>1. Init => InodeInv
  <2>1. Init => Fresh
    BY InodeAssumption DEF Init, Fresh
  <2> QED
    BY <2>1, FreshInv
<1>2. InodeInv /\ [Next]_vars => InodeInv'
  BY NextKeeps
<1> QED
  BY <1>1, <1>2, PTL DEF Spec

\* ip->ref counts the pointers to the entry (fs.c:133): no path through link,
\* unlink, create, open, chdir, close and namex() leaks a reference or drops one
\* twice, for any number of processes and any calls.
THEOREM RefsExact == Spec => []RefExact
<1>1. InodeInv => RefExact
  BY DEF InodeInv, RefExact
<1> QED
  BY <1>1, InodeInvariant, PTL

\* The table has one entry per inode (iget(), fs.c:254), and a valid entry in use
\* agrees with its inode, for any number of processes, entries and inodes.
THEOREM TableCoherent == Spec => []Coherent
<1>1. InodeInv => Coherent
  <2> SUFFICES ASSUME InodeInv PROVE Coherent
    OBVIOUS
  <2>1. ASSUME NEW i \in Inums PROVE Cardinality(Cached(itable, i)) <= 1
    <3>1. \A r, s \in Cached(itable, i) : r = s
      BY DEF InodeInv, TableOK, Cached
    <3>2. CASE Cached(itable, i) = {}
      BY <3>2, FS_EmptySet
    <3>3. CASE Cached(itable, i) # {}
      <4>1. PICK s \in Cached(itable, i) : TRUE
        BY <3>3
      <4>2. Cached(itable, i) = {s}
        BY <3>1, <4>1
      <4>3. Cardinality({s}) = 1
        BY FS_Singleton
      <4> QED
        BY <4>2, <4>3
    <3> QED
      BY <3>2, <3>3
  <2>2. \A s \in Slots :
          (itable[s].ref > 0 /\ itable[s].valid) =>
            /\ itable[s].type = dinode[itable[s].inum].type
            /\ itable[s].nlink = dinode[itable[s].inum].nlink
    BY DEF InodeInv, TableOK
  <2> QED
    BY <2>1, <2>2 DEF Coherent
<1> QED
  BY <1>1, InodeInvariant, PTL

\* When ireclaim() is done no inode is allocated and without links (fs.c:373),
\* whatever the crash interrupted and however often it came.
THEOREM OrphansReclaimed == Spec => Reclaimed
<1>1. InodeInv /\ [Next]_vars =>
        [(boot # 0 /\ boot' = 0) =>
           \A i \in Inums : dinode'[i].type # "none" => dinode'[i].nlink # 0]_vars
  <2> SUFFICES ASSUME InodeInv, Next, boot # 0, boot' = 0
               PROVE  \A i \in Inums : dinode'[i].type # "none" => dinode'[i].nlink # 0
    OBVIOUS
  <2>1. CASE Crash
    BY <2>1 DEF Crash, ROOTINO
  <2>2. CASE Reclaim
    BY <2>2, ReclaimKeeps
  <2>3. ASSUME NEW p \in Procs, Step(p) PROVE FALSE
    BY <2>3, ProcKeeps
  <2> QED
    BY <2>1, <2>2, <2>3 DEF Next
<1> QED
  BY <1>1, InodeInvariant, PTL DEF Spec, Reclaimed
=============================================================================
