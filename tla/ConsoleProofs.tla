--------------------------- MODULE ConsoleProofs ---------------------------
(***************************************************************************)
(* Proofs about Console, for any number of readers and writers, any ring   *)
(* size and any width of its indices that is a multiple of it: ConsoleInv  *)
(* is inductive; so the ring holds the input as line editing defines it,   *)
(* and nobody sleeps whom no event will wake.                              *)
(***************************************************************************)
EXTENDS Console, Integers, SequenceTheorems, TLAPS

-----------------------------------------------------------------------------
(* Indices that wrap *)

Index == 0..(Wrap - 1)

LEMMA Sizes == Size \in Nat /\ Size > 0 /\ Wrap \in Nat /\ Wrap > Size
BY ConsoleAssumption

LEMMA One == 1 \in 0..Wrap
BY Sizes

LEMMA IndexNat == Index \subseteq Nat
BY Sizes DEF Index

LEMMA MinusIs ==
  ASSUME NEW x \in Index, NEW y \in Index
  PROVE  /\ Minus(x, y) \in Index
         /\ Minus(x, y) = IF x >= y THEN x - y ELSE x - y + Wrap
<1>1. PICK d \in Nat : d = x + Wrap - y /\ d < Wrap + Wrap
  BY Sizes DEF Index
<1>2. (d < Wrap => d % Wrap = d) /\ (d >= Wrap => d % Wrap = d - Wrap)
  BY Sizes, <1>1
<1> QED
  BY Sizes, <1>1, <1>2 DEF Index, Minus

LEMMA PlusIs ==
  ASSUME NEW x \in Index, NEW k \in 0..Wrap
  PROVE  /\ Plus(x, k) \in Index
         /\ Plus(x, k) = IF x + k < Wrap THEN x + k ELSE x + k - Wrap
<1>1. PICK d \in Nat : d = x + k /\ d < Wrap + Wrap
  BY Sizes DEF Index
<1>2. (d < Wrap => d % Wrap = d) /\ (d >= Wrap => d % Wrap = d - Wrap)
  BY Sizes, <1>1
<1> QED
  BY Sizes, <1>1, <1>2 DEF Index, Plus

\* The slot of index x.
Slot(x) == x % Size

LEMMA SlotIs ==
  ASSUME NEW x \in Nat
  PROVE  /\ Slot(x) \in 0..(Size - 1)
         /\ \E q \in Int : x = Size * q + Slot(x)
<1>1. x % Size \in 0..(Size - 1) /\ x \div Size \in Int /\ x = Size * (x \div Size) + (x % Size)
  BY Sizes
<1> QED
  BY <1>1 DEF Slot

\* Wrap is a multiple of Size, so that wrapping does not change the slot.
LEMMA SlotWraps ==
  ASSUME NEW x \in Nat, x >= Wrap
  PROVE  Slot(x - Wrap) = Slot(x)
<1>1. PICK m \in Nat : Wrap = Size * m
  BY ConsoleAssumption
<1>2. PICK q \in Int, s \in 0..(Size - 1) : x = Size * q + s /\ s = Slot(x)
  BY SlotIs
<1>3. x - Wrap = Size * (q - m) + s /\ q - m \in Int
  BY <1>1, <1>2, Sizes
<1>4. (Size * (q - m) + s) % Size = s
  BY <1>3, Sizes
<1> QED
  BY <1>2, <1>3, <1>4 DEF Slot

LEMMA SlotOfPlus ==
  ASSUME NEW x \in Index, NEW k \in 0..Wrap
  PROVE  Slot(Plus(x, k)) = Slot(x + k)
<1>1. x + k \in Nat
  BY Sizes DEF Index
<1>2. CASE x + k < Wrap
  BY <1>2, PlusIs
<1>3. CASE x + k >= Wrap
  <2>1. Plus(x, k) = x + k - Wrap
    BY <1>1, <1>3, PlusIs, Sizes
  <2> QED
    <3>1. PICK y \in Nat : y = x + k /\ Plus(x, k) = y - Wrap
      BY <1>1, <2>1, Sizes DEF Index
    <3>2. Slot(y - Wrap) = Slot(y)
      BY <1>3, <3>1, SlotWraps
    <3> QED
      BY <3>1, <3>2
<1> QED
  BY <1>1, <1>2, <1>3, Sizes

\* Indices less than Size apart have slots of their own.
LEMMA SlotsDiffer ==
  ASSUME NEW x \in Nat, NEW j \in Nat, NEW k \in Nat, j < k, k - j < Size
  PROVE  Slot(x + j) # Slot(x + k)
<1> SUFFICES ASSUME Slot(x + j) = Slot(x + k) PROVE FALSE
  OBVIOUS
<1>1. PICK q \in Int, s \in 0..(Size - 1) : x + j = Size * q + s /\ s = Slot(x + j)
  BY SlotIs, x + j \in Nat
<1>2. PICK t \in Int, u \in 0..(Size - 1) : x + k = Size * t + u /\ u = Slot(x + k)
  BY SlotIs, x + k \in Nat
<1>3. PICK d \in Int : d = t - q /\ Size * d = k - j
  BY <1>1, <1>2, Sizes
<1>4. d > 0 /\ d < 1
  BY <1>3, Sizes
<1> QED
  BY <1>4

-----------------------------------------------------------------------------
(* The ring *)

Rings == [0..(Size - 1) -> Chars]

\* The n characters of ring b that begin at index x.
Segment(b, x, n) == [k \in 1..n |-> b[Slot(x + (k - 1))]]

LEMMA SegmentSeq ==
  ASSUME NEW b \in Rings, NEW x \in Nat, NEW n \in Nat
  PROVE  Segment(b, x, n) \in Seq(Chars) /\ Len(Segment(b, x, n)) = n
<1>1. ASSUME NEW k \in 1..n PROVE b[Slot(x + (k - 1))] \in Chars
  BY SlotIs, x + (k - 1) \in Nat DEF Rings
<1>2. Segment(b, x, n) \in [1..n -> Chars]
  BY <1>1 DEF Segment
<1> QED
  BY <1>2

LEMMA RingIs ==
  ASSUME NEW b, NEW x \in Index, NEW y \in Index
  PROVE  [k \in 1..Minus(y, x) |-> b[Plus(x, k - 1) % Size]] = Segment(b, x, Minus(y, x))
<1>1. Minus(y, x) \in Index
  BY MinusIs
<1>2. ASSUME NEW k \in 1..Minus(y, x)
      PROVE  b[Plus(x, k - 1) % Size] = b[Slot(x + (k - 1))]
  <2>1. k - 1 \in 0..Wrap
    BY <1>1, Sizes DEF Index
  <2> QED
    BY <2>1, SlotOfPlus DEF Slot
<1> QED
  BY <1>2 DEF Segment

\* A segment that begins where the index has wrapped.
LEMMA SegmentWraps ==
  ASSUME NEW b, NEW x \in Nat, x >= Wrap, NEW n \in Nat
  PROVE  Segment(b, x - Wrap, n) = Segment(b, x, n)
<1>1. ASSUME NEW k \in 1..n
      PROVE  Slot(x - Wrap + (k - 1)) = Slot(x + (k - 1))
  <2>1. PICK y \in Nat : y = x + (k - 1) /\ y >= Wrap
    BY Sizes
  <2>2. Slot(y - Wrap) = Slot(y)
    BY <2>1, SlotWraps
  <2>3. y - Wrap = x - Wrap + (k - 1)
    BY <2>1, Sizes
  <2> QED
    BY <2>1, <2>2, <2>3
<1> QED
  BY <1>1 DEF Segment

LEMMA SegmentOfPlus ==
  ASSUME NEW b, NEW x \in Index, NEW j \in 0..Wrap, NEW n \in Nat
  PROVE  Segment(b, Plus(x, j), n) = Segment(b, x + j, n)
<1>1. x + j \in Nat
  BY Sizes DEF Index
<1>2. CASE x + j < Wrap
  BY <1>2, PlusIs
<1>3. CASE x + j >= Wrap
  <2>1. Plus(x, j) = x + j - Wrap
    BY <1>1, <1>3, PlusIs, Sizes
  <2> QED
    <3>1. PICK y \in Nat : y = x + j /\ Plus(x, j) = y - Wrap
      BY <1>1, <2>1, Sizes DEF Index
    <3>2. Segment(b, y - Wrap, n) = Segment(b, y, n)
      BY <1>3, <3>1, SegmentWraps
    <3> QED
      BY <3>1, <3>2
<1> QED
  BY <1>1, <1>2, <1>3, Sizes

\* The first character is taken away.
LEMMA SegmentTail ==
  ASSUME NEW b \in Rings, NEW x \in Nat, NEW n \in Nat, n > 0
  PROVE  Segment(b, x + 1, n - 1) = Tail(Segment(b, x, n))
<1> DEFINE s == Segment(b, x, n)
           t == Segment(b, x + 1, n - 1)
<1>1. s \in Seq(Chars) /\ Len(s) = n
  BY SegmentSeq
<1>2. t \in Seq(Chars) /\ Len(t) = n - 1
  BY SegmentSeq, x + 1 \in Nat, n - 1 \in Nat
<1>3. ASSUME NEW k \in 1..(n - 1) PROVE t[k] = s[k + 1]
  <2>1. x + 1 + (k - 1) = x + (k + 1 - 1)
    OBVIOUS
  <2>2. t[k] = b[Slot(x + 1 + (k - 1))] /\ s[k + 1] = b[Slot(x + (k + 1 - 1))]
    BY DEF Segment
  <2> QED
    BY <2>1, <2>2
<1> HIDE DEF s, t
<1>4. /\ Tail(s) \in Seq(Chars) /\ Len(Tail(s)) = n - 1
      /\ \A k \in 1..Len(Tail(s)) : Tail(s)[k] = s[k + 1]
  <2>1. s # <<>>
    BY <1>1
  <2> QED
    BY <1>1, <2>1, HeadTailProperties
<1>5. t = Tail(s)
  BY <1>2, <1>3, <1>4, SeqEqual
<1> QED
  BY <1>5 DEF s, t

\* The last character is taken away.
LEMMA SegmentFront ==
  ASSUME NEW b \in Rings, NEW x \in Nat, NEW n \in Nat, n > 0
  PROVE  Segment(b, x, n - 1) = SubSeq(Segment(b, x, n), 1, n - 1)
<1> DEFINE s == Segment(b, x, n)
           t == Segment(b, x, n - 1)
<1>1. s \in Seq(Chars) /\ Len(s) = n
  BY SegmentSeq
<1>2. t \in Seq(Chars) /\ Len(t) = n - 1
  BY SegmentSeq, n - 1 \in Nat
<1>3. ASSUME NEW k \in 1..(n - 1) PROVE t[k] = s[k]
  BY DEF Segment
<1> HIDE DEF s, t
<1>4. /\ SubSeq(s, 1, n - 1) \in Seq(Chars) /\ Len(SubSeq(s, 1, n - 1)) = n - 1
      /\ \A k \in 1..(n - 1) : SubSeq(s, 1, n - 1)[k] = s[k]
  BY <1>1
<1>5. t = SubSeq(s, 1, n - 1)
  BY <1>2, <1>3, <1>4, SeqEqual
<1> QED
  BY <1>5 DEF s, t

Cat(s, t) == s \o t
Snoc(s, c) == Append(s, c)

\* Two segments that follow each other.
LEMMA SegmentConcat ==
  ASSUME NEW b \in Rings, NEW x \in Nat, NEW n \in Nat, NEW m \in Nat,
         NEW y \in Nat, y = x + n, NEW l \in Nat, l = n + m
  PROVE  Segment(b, x, l) = Cat(Segment(b, x, n), Segment(b, y, m))
<1> DEFINE s == Segment(b, x, n)
           t == Segment(b, x + n, m)
           u == Segment(b, x, n + m)
<1>1. s \in Seq(Chars) /\ Len(s) = n
  BY SegmentSeq
<1>2. t \in Seq(Chars) /\ Len(t) = m
  BY SegmentSeq, x + n \in Nat
<1>3. u \in Seq(Chars) /\ Len(u) = n + m
  BY SegmentSeq, n + m \in Nat
<1>4. ASSUME NEW k \in 1..(n + m) PROVE u[k] = IF k <= n THEN s[k] ELSE t[k - n]
  <2>1. CASE k <= n
    BY <2>1 DEF Segment
  <2>2. CASE k > n
    <3>1. x + n + (k - n - 1) = x + (k - 1) /\ k - n \in 1..m
      BY <2>2
    <3>2. t[k - n] = b[Slot(x + n + (k - n - 1))] /\ u[k] = b[Slot(x + (k - 1))]
      BY <3>1 DEF Segment
    <3> QED
      BY <2>2, <3>1, <3>2
  <2> QED
    BY <2>1, <2>2
<1> HIDE DEF s, t, u
<1>5. /\ s \o t \in Seq(Chars) /\ Len(s \o t) = n + m
      /\ \A k \in 1..(n + m) : (s \o t)[k] = IF k <= n THEN s[k] ELSE t[k - n]
  BY <1>1, <1>2, ConcatProperties
<1>6. u = s \o t
  BY <1>3, <1>4, <1>5, SeqEqual
<1> QED
  BY <1>6 DEF s, t, u, Cat

LEMMA SegmentJoin ==
  ASSUME NEW b \in Rings, NEW x \in Index, NEW n \in 0..Wrap,
         NEW m \in Nat, NEW l \in Nat, l = n + m
  PROVE  Segment(b, x, l) = Cat(Segment(b, x, n), Segment(b, Plus(x, n), m))
<1>1. PICK x0 \in Nat, z \in Nat : x0 = x /\ z = x0 + n
  BY IndexNat
<1>2. Segment(b, Plus(x, n), m) = Segment(b, z, m)
  BY <1>1, SegmentOfPlus
<1>3. Segment(b, x0, l) = Cat(Segment(b, x0, n), Segment(b, z, m))
  BY <1>1, SegmentConcat
<1> QED
  BY <1>1, <1>2, <1>3

\* A character is written behind a segment.
Written(b, d, x, c) ==
  d[Slot(x)] = c /\ \A y \in 0..(Size - 1) : y # Slot(x) => d[y] = b[y]

LEMMA SegmentKeeps ==
  ASSUME NEW b, NEW d, NEW x \in Nat, NEW n \in Nat,
         NEW z \in Nat, x + n <= z, z < x + Size, NEW c, Written(b, d, z, c)
  PROVE  Segment(d, x, n) = Segment(b, x, n)
<1>1. ASSUME NEW k \in 1..n
      PROVE  d[Slot(x + (k - 1))] = b[Slot(x + (k - 1))]
  <2>1. PICK m \in Nat : z = x + m /\ k - 1 \in Nat /\ k - 1 < m /\ m - (k - 1) < Size
    BY Sizes, z - x \in Nat
  <2>2. Slot(x + (k - 1)) # Slot(x + m)
    BY <2>1, SlotsDiffer
  <2>3. Slot(x + (k - 1)) \in 0..(Size - 1)
    BY <2>1, SlotIs, x + (k - 1) \in Nat
  <2> QED
    BY <2>1, <2>2, <2>3 DEF Written
<1> QED
  BY <1>1 DEF Segment

LEMMA SegmentAppend ==
  ASSUME NEW b \in Rings, NEW d \in Rings,
         NEW x \in Nat, NEW n \in Nat, n < Size, NEW c \in Chars,
         NEW z \in Nat, z = x + n, Written(b, d, z, c), NEW l \in Nat, l = n + 1
  PROVE  Segment(d, x, l) = Snoc(Segment(b, x, n), c)
<1> DEFINE s == Segment(b, x, n)
           t == Segment(d, x, n + 1)
<1>1. s \in Seq(Chars) /\ Len(s) = n
  BY SegmentSeq
<1>3. Segment(d, x, n) = s
  <2>1. x + n <= z /\ z < x + Size
    BY Sizes
  <2> QED
    BY <2>1, SegmentKeeps
<1>4. t \in Seq(Chars) /\ Len(t) = n + 1
  BY SegmentSeq, n + 1 \in Nat
<1>5. ASSUME NEW k \in 1..n PROVE t[k] = s[k]
  <2>1. t[k] = Segment(d, x, n)[k]
    BY DEF Segment
  <2> QED
    BY <1>3, <2>1
<1>6. t[n + 1] = c
  <2>1. x + (n + 1 - 1) = x + n
    OBVIOUS
  <2>2. t[n + 1] = d[Slot(x + (n + 1 - 1))]
    BY DEF Segment
  <2> QED
    BY <2>1, <2>2 DEF Written
<1> HIDE DEF s, t
<1>7. /\ Append(s, c) \in Seq(Chars) /\ Len(Append(s, c)) = n + 1
      /\ \A k \in 1..n : Append(s, c)[k] = s[k]
      /\ Append(s, c)[n + 1] = c
  BY <1>1, AppendProperties
<1>8. ASSUME NEW k \in 1..(n + 1) PROVE t[k] = Append(s, c)[k]
  <2>1. CASE k = n + 1
    BY <1>6, <1>7, <2>1
  <2>2. CASE k # n + 1
    BY <1>5, <1>7, <2>2
  <2> QED
    BY <2>1, <2>2
<1>9. t = Append(s, c)
  BY <1>4, <1>7, <1>8, SeqEqual
<1> QED
  BY <1>9 DEF s, t, Snoc

\* The same for indices that have wrapped.
LEMMA EnterKeeps ==
  ASSUME NEW b, NEW d, NEW x \in Index, NEW n \in Nat, NEW j \in Nat, n <= j, j < Size,
         NEW c, Written(b, d, Plus(x, j), c)
  PROVE  Segment(d, x, n) = Segment(b, x, n)
<1>1. PICK x0 \in Nat, z \in Nat : x0 = x /\ z = x0 + j
  BY IndexNat
<1>2. Slot(Plus(x, j)) = Slot(z)
  <2>1. j \in 0..Wrap
    BY Sizes
  <2> QED
    BY <1>1, <2>1, SlotOfPlus
<1>3. Written(b, d, z, c)
  BY <1>2 DEF Written
<1>4. x0 + n <= z /\ z < x0 + Size
  BY <1>1, Sizes
<1> QED
  BY <1>1, <1>3, <1>4, SegmentKeeps

LEMMA EnterAppends ==
  ASSUME NEW b \in Rings, NEW d \in Rings, NEW x \in Index, NEW n \in Nat, n < Size,
         NEW c \in Chars, Written(b, d, Plus(x, n), c), NEW l \in Nat, l = n + 1
  PROVE  Segment(d, x, l) = Snoc(Segment(b, x, n), c)
<1>1. PICK x0 \in Nat, z \in Nat : x0 = x /\ z = x0 + n
  BY IndexNat
<1>2. Slot(Plus(x, n)) = Slot(z)
  <2>1. n \in 0..Wrap
    BY Sizes
  <2> QED
    BY <1>1, <2>1, SlotOfPlus
<1>3. Written(b, d, z, c)
  BY <1>2 DEF Written
<1> QED
  BY <1>1, <1>3, SegmentAppend

-----------------------------------------------------------------------------
(* What the changes of the ring do to the input and the line *)

RingOK == TypeOK /\ RingOrder /\ InputKept

LEMMA KeptIs ==
  ASSUME r \in Index, w \in Index, e \in Index
  PROVE  InputKept <=> /\ input = Segment(buf, r, Minus(w, r))
                       /\ line = Segment(buf, w, Minus(e, w))
BY RingIs DEF InputKept, Ring

LEMMA KeptIsNext ==
  ASSUME r' \in Index, w' \in Index, e' \in Index,
         input' = Segment(buf', r', Minus(w', r')),
         line' = Segment(buf', w', Minus(e', w'))
  PROVE  InputKept'
<1>1. Ring(r, w)' = Segment(buf', r', Minus(w', r'))
  BY RingIs DEF Ring
<1>2. Ring(w, e)' = Segment(buf', w', Minus(e', w'))
  BY RingIs DEF Ring
<1> QED
  BY <1>1, <1>2 DEF InputKept

\* The ring from r: n characters of input, then m of the line.
LEMMA Parts ==
  ASSUME RingOK
  PROVE  \E n, m \in Nat :
           /\ n = Minus(w, r) /\ m = Minus(e, w) /\ n + m = Minus(e, r) /\ n + m <= Size
           /\ w = Plus(r, n) /\ e = Plus(w, m) /\ e = Plus(r, n + m)
           /\ input = Segment(buf, r, n) /\ line = Segment(buf, w, m)
           /\ line = Segment(buf, r + n, m)
<1>1. r \in Index /\ w \in Index /\ e \in Index
  BY DEF RingOK, TypeOK, Index, Rings
<1>2. PICK n \in Nat, m \in Nat :
         n = Minus(w, r) /\ m = Minus(e, w) /\ n < Wrap /\ m < Wrap
  <2>1. Minus(w, r) \in Index /\ Minus(e, w) \in Index
    BY <1>1, MinusIs
  <2> QED
    BY <2>1, Sizes DEF Index
<1>3. n <= Minus(e, r) /\ Minus(e, r) <= Size
  BY <1>2 DEF RingOK, RingOrder
<1>4. n + m = Minus(e, r)
  <2>1. /\ n = IF w >= r THEN w - r ELSE w - r + Wrap
        /\ m = IF e >= w THEN e - w ELSE e - w + Wrap
        /\ Minus(e, r) = IF e >= r THEN e - r ELSE e - r + Wrap
    BY <1>1, <1>2, MinusIs
  <2> QED
    BY <1>1, <1>3, <2>1, Sizes DEF Index
<1>5. w = Plus(r, n) /\ e = Plus(w, m) /\ e = Plus(r, n + m)
  <2>1. /\ Plus(r, n) = IF r + n < Wrap THEN r + n ELSE r + n - Wrap
        /\ Plus(w, m) = IF w + m < Wrap THEN w + m ELSE w + m - Wrap
        /\ Plus(r, n + m) = IF r + (n + m) < Wrap THEN r + (n + m) ELSE r + (n + m) - Wrap
    <3>1. n \in 0..Wrap /\ m \in 0..Wrap /\ n + m \in 0..Wrap
      BY <1>2, <1>3, <1>4, Sizes
    <3> QED
      BY <1>1, <3>1, PlusIs
  <2>2. /\ n = IF w >= r THEN w - r ELSE w - r + Wrap
        /\ m = IF e >= w THEN e - w ELSE e - w + Wrap
        /\ n + m = IF e >= r THEN e - r ELSE e - r + Wrap
    BY <1>1, <1>2, <1>4, MinusIs
  <2> QED
    BY <1>1, <2>1, <2>2, Sizes DEF Index
<1>6. input = Segment(buf, r, n) /\ line = Segment(buf, w, m)
  BY <1>1, <1>2, KeptIs DEF RingOK
<1>7. line = Segment(buf, r + n, m)
  <2>1. n \in 0..Wrap
    BY <1>2, Sizes
  <2>2. Segment(buf, Plus(r, n), m) = Segment(buf, r + n, m)
    BY <1>1, <2>1, SegmentOfPlus
  <2> QED
    BY <1>5, <1>6, <2>2
<1> QED
  BY <1>2, <1>3, <1>4, <1>5, <1>6, <1>7

\* cons.r++ of consoleread().
LEMMA TakeRing ==
  ASSUME RingOK, ~Nothing, Take, UNCHANGED <<buf, w, e, line>>
  PROVE  /\ r' \in Index /\ input' \in Seq(Chars)
         /\ RingOrder' /\ InputKept'
<1>0. /\ r \in Index /\ w \in Index /\ e \in Index /\ buf \in Rings
      /\ input \in Seq(Chars)
  BY DEF RingOK, TypeOK, Index, Rings
<1>1. PICK n \in Nat, m \in Nat :
           /\ n = Minus(w, r) /\ m = Minus(e, w) /\ n + m = Minus(e, r) /\ n + m <= Size
           /\ input = Segment(buf, r, n) /\ line = Segment(buf, w, m)
  BY Parts
<1>2. n > 0 /\ n < Wrap /\ n - 1 \in Nat
  <2>1. n \in Index /\ n = IF w >= r THEN w - r ELSE w - r + Wrap
    BY <1>0, <1>1, MinusIs
  <2> QED
    BY <1>0, <1>1, <2>1, Sizes DEF Nothing, Index
<1>3. r' = Plus(r, 1) /\ r' \in Index /\ r' = IF r + 1 < Wrap THEN r + 1 ELSE r + 1 - Wrap
  BY <1>0, One, PlusIs DEF Take
<1>4. Minus(w, r') = n - 1 /\ Minus(e, r') = n + m - 1
  <2>0. r \in 0..(Wrap - 1) /\ w \in 0..(Wrap - 1) /\ e \in 0..(Wrap - 1) /\ r' \in 0..(Wrap - 1)
    BY <1>0, <1>3 DEF Index
  <2>1. Minus(w, r') = n - 1
    <3>1. Minus(w, r') = IF w >= r' THEN w - r' ELSE w - r' + Wrap
      BY <1>0, <1>3, MinusIs
    <3>2. n = IF w >= r THEN w - r ELSE w - r + Wrap
      BY <1>0, <1>1, MinusIs
    <3> QED
      BY <1>2, <1>3, <2>0, <3>1, <3>2, Sizes
  <2>2. Minus(e, r') = n + m - 1
    <3>1. Minus(e, r') = IF e >= r' THEN e - r' ELSE e - r' + Wrap
      BY <1>0, <1>3, MinusIs
    <3>2. n + m = IF e >= r THEN e - r ELSE e - r + Wrap
      BY <1>0, <1>1, MinusIs
    <3> QED
      BY <1>2, <1>3, <2>0, <3>1, <3>2, Sizes
  <2> QED
    BY <2>1, <2>2
<1>5. Tail(input) = Segment(buf, r', n - 1)
  <2>1. Segment(buf, r + 1, n - 1) = Tail(Segment(buf, r, n))
    BY <1>0, <1>2, IndexNat, SegmentTail
  <2>2. Segment(buf, r', n - 1) = Segment(buf, r + 1, n - 1)
    BY <1>0, <1>2, <1>3, One, SegmentOfPlus
  <2> QED
    BY <1>1, <2>1, <2>2
<1>6. RingOrder'
  <2>1. Minus(w, r)' = n - 1 /\ Minus(e, r)' = n + m - 1
    BY <1>4
  <2> QED
    BY <1>1, <2>1, Sizes DEF RingOrder
<1>7. InputKept'
  BY <1>0, <1>1, <1>3, <1>4, <1>5, KeptIsNext DEF Take
<1>8. input' \in Seq(Chars)
  <2>1. Segment(buf, r', n - 1) \in Seq(Chars)
    BY <1>0, <1>2, <1>3, IndexNat, SegmentSeq
  <2> QED
    BY <1>5, <2>1 DEF Take
<1> QED
  BY <1>3, <1>6, <1>7, <1>8

\* C('U') of consoleintr(): the line is erased.
LEMMA KillRing ==
  ASSUME RingOK, e' = w, line' = <<>>, UNCHANGED <<buf, r, w, input>>
  PROVE  RingOrder' /\ InputKept'
<1>0. r \in Index /\ w \in Index /\ e \in Index
  BY DEF RingOK, TypeOK, Index, Rings
<1>1. PICK n \in Nat, m \in Nat :
           n = Minus(w, r) /\ n + m <= Size /\ input = Segment(buf, r, n)
  BY Parts
<1>2. Minus(w, w) = 0
  BY <1>0, MinusIs, IndexNat
<1>3. RingOrder'
  <2>1. Minus(w, r)' = n /\ Minus(e, r)' = n
    BY <1>1
  <2> QED
    BY <1>1, <2>1, Sizes DEF RingOrder
<1>4. Segment(buf, w, 0) = <<>>
  BY DEF Segment
<1>5. InputKept'
  BY <1>0, <1>1, <1>2, <1>4, KeptIsNext
<1> QED
  BY <1>3, <1>5

\* C('H') of consoleintr(): the last character of the line is erased.
LEMMA EraseRing ==
  ASSUME RingOK, Editable, e' = Minus(e, 1), line' = SubSeq(line, 1, Len(line) - 1),
         UNCHANGED <<buf, r, w, input>>
  PROVE  /\ e' \in Index /\ line' \in Seq(Chars)
         /\ RingOrder' /\ InputKept'
<1>0. r \in Index /\ w \in Index /\ e \in Index /\ buf \in Rings
  BY DEF RingOK, TypeOK, Index, Rings
<1>1. PICK n \in Nat, m \in Nat :
           /\ n = Minus(w, r) /\ m = Minus(e, w) /\ n + m = Minus(e, r) /\ n + m <= Size
           /\ input = Segment(buf, r, n) /\ line = Segment(buf, w, m)
  BY Parts
<1>2. m > 0 /\ m - 1 \in Nat
  <2>1. m = IF e >= w THEN e - w ELSE e - w + Wrap
    BY <1>0, <1>1, MinusIs
  <2> QED
    BY <1>0, <1>1, <2>1, Sizes DEF Editable, Index
<1>3. e' \in Index /\ e' = IF e >= 1 THEN e - 1 ELSE e - 1 + Wrap
  <2>1. 1 \in Index
    BY Sizes DEF Index
  <2> QED
    BY <1>0, <2>1, MinusIs
<1>4. Minus(e', w) = m - 1 /\ Minus(e', r) = n + m - 1
  <2>0. r \in 0..(Wrap - 1) /\ w \in 0..(Wrap - 1) /\ e \in 0..(Wrap - 1) /\ e' \in 0..(Wrap - 1)
    BY <1>0, <1>3 DEF Index
  <2>1. Minus(e', w) = m - 1
    <3>1. Minus(e', w) = IF e' >= w THEN e' - w ELSE e' - w + Wrap
      BY <1>0, <1>3, MinusIs
    <3>2. m = IF e >= w THEN e - w ELSE e - w + Wrap
      BY <1>0, <1>1, MinusIs
    <3> QED
      BY <1>2, <1>3, <2>0, <3>1, <3>2, Sizes
  <2>2. Minus(e', r) = n + m - 1
    <3>1. Minus(e', r) = IF e' >= r THEN e' - r ELSE e' - r + Wrap
      BY <1>0, <1>3, MinusIs
    <3>2. PICK d \in Nat : d = n + m /\ d > 0
      BY <1>2
    <3>3. d = IF e >= r THEN e - r ELSE e - r + Wrap
      BY <1>0, <1>1, <3>2, MinusIs
    <3>4. Minus(e', r) = d - 1
      <4>1. CASE e = 0
        BY <1>3, <2>0, <3>1, <3>2, <3>3, <4>1, Sizes
      <4>2. CASE e >= 1
        <5>1. e' = e - 1
          BY <1>3, <4>2
        <5>2. CASE e >= r
          BY <2>0, <3>1, <3>2, <3>3, <5>1, <5>2, Sizes
        <5>3. CASE e < r
          BY <2>0, <3>1, <3>2, <3>3, <5>1, <5>3, Sizes
        <5> QED
          BY <2>0, <5>2, <5>3
      <4> QED
        BY <2>0, <4>1, <4>2
    <3> QED
      BY <3>2, <3>4
  <2> QED
    BY <2>1, <2>2
<1>5. line' = Segment(buf, w, m - 1) /\ line' \in Seq(Chars)
  <2>1. Len(line) = m
    BY <1>0, <1>1, IndexNat, SegmentSeq
  <2>2. Segment(buf, w, m - 1) = SubSeq(Segment(buf, w, m), 1, m - 1)
    BY <1>0, <1>2, IndexNat, SegmentFront
  <2>3. Segment(buf, w, m - 1) \in Seq(Chars)
    BY <1>0, <1>2, IndexNat, SegmentSeq
  <2> QED
    BY <1>1, <2>1, <2>2, <2>3
<1>6. RingOrder'
  <2>1. Minus(w, r)' = n /\ Minus(e, r)' = n + m - 1
    BY <1>1, <1>4
  <2> QED
    BY <1>1, <1>2, <2>1, Sizes DEF RingOrder
<1>7. InputKept'
  BY <1>0, <1>1, <1>3, <1>4, <1>5, KeptIsNext
<1> QED
  BY <1>3, <1>5, <1>6, <1>7

\* The default of consoleintr(): a character is added, and the line passed on
\* if it has ended or the ring is full.
LEMMA EnterRing ==
  ASSUME RingOK, NEW c \in Chars, Room, Enter(c), UNCHANGED r
  PROVE  /\ buf' \in Rings /\ e' \in Index /\ w' \in Index
         /\ line' \in Seq(Chars) /\ input' \in Seq(Chars)
         /\ RingOrder' /\ InputKept'
<1>0. /\ r \in Index /\ w \in Index /\ e \in Index /\ buf \in Rings
      /\ line \in Seq(Chars) /\ input \in Seq(Chars)
  BY DEF RingOK, TypeOK, Index, Rings
<1>1. PICK n \in Nat, m \in Nat :
           /\ n = Minus(w, r) /\ m = Minus(e, w) /\ n + m = Minus(e, r) /\ n + m <= Size
           /\ e = Plus(w, m) /\ e = Plus(r, n + m) /\ w = Plus(r, n)
           /\ input = Segment(buf, r, n) /\ line = Segment(buf, w, m)
  BY Parts
<1>2. n + m < Size /\ m < Size /\ n + m \in 0..Wrap /\ m \in 0..Wrap /\ n \in 0..Wrap
  BY <1>1, Sizes DEF Room
<1>3. e' = Plus(e, 1) /\ e' \in Index /\ e' = IF e + 1 < Wrap THEN e + 1 ELSE e + 1 - Wrap
  BY <1>0, One, PlusIs DEF Enter
<1>4. Minus(e', w) = m + 1 /\ Minus(e', r) = n + m + 1
  <2>0. r \in 0..(Wrap - 1) /\ w \in 0..(Wrap - 1) /\ e \in 0..(Wrap - 1) /\ e' \in 0..(Wrap - 1)
    BY <1>0, <1>3 DEF Index
  <2>1. Minus(e', w) = m + 1
    <3>1. Minus(e', w) = IF e' >= w THEN e' - w ELSE e' - w + Wrap
      BY <1>0, <1>3, MinusIs
    <3>2. m = IF e >= w THEN e - w ELSE e - w + Wrap
      BY <1>0, <1>1, MinusIs
    <3> QED
      BY <1>2, <1>3, <2>0, <3>1, <3>2, Sizes
  <2>2. Minus(e', r) = n + m + 1
    <3>1. Minus(e', r) = IF e' >= r THEN e' - r ELSE e' - r + Wrap
      BY <1>0, <1>3, MinusIs
    <3>2. n + m = IF e >= r THEN e - r ELSE e - r + Wrap
      BY <1>0, <1>1, MinusIs
    <3> QED
      BY <1>2, <1>3, <2>0, <3>1, <3>2, Sizes
  <2> QED
    BY <2>1, <2>2
<1>5. buf' \in Rings /\ Written(buf, buf', e, c)
  <2>1. Slot(e) \in 0..(Size - 1)
    BY <1>0, IndexNat, SlotIs
  <2> QED
    BY <1>0, <2>1 DEF Enter, Slot, Written, Rings
<1>6. /\ Segment(buf', r, n) = input
      /\ Segment(buf', w, m + 1) = Append(line, c)
      /\ Segment(buf', r, n + m + 1) = input \o Append(line, c)
  <2>1. PICK j \in Nat, i \in Nat, l \in Nat : j = n + m /\ i = m + 1 /\ l = j + 1
    OBVIOUS
  <2>2. j < Size /\ n <= j /\ m < Size /\ l = n + i
    BY <1>2, <2>1
  <2>3. Written(buf, buf', Plus(r, j), c) /\ Written(buf, buf', Plus(w, m), c)
    BY <1>1, <1>5, <2>1
  <2>4. Segment(buf', r, n) = Segment(buf, r, n)
    BY <1>0, <2>2, <2>3, EnterKeeps
  <2>5. Segment(buf', w, i) = Snoc(Segment(buf, w, m), c)
    BY <1>0, <1>5, <2>1, <2>2, <2>3, EnterAppends
  <2>6. Segment(buf', r, l) = Cat(Segment(buf', r, n), Segment(buf', w, i))
    <3>1. Segment(buf', r, l) = Cat(Segment(buf', r, n), Segment(buf', Plus(r, n), i))
      BY <1>0, <1>2, <1>5, <2>2, SegmentJoin
    <3> QED
      BY <1>1, <3>1
  <2> QED
    BY <1>1, <2>1, <2>4, <2>5, <2>6 DEF Snoc, Cat
<1>9. Append(line, c) \in Seq(Chars)
  BY <1>0
<1>10. CASE ~Commits(c)
  <2>1. line' = Append(line, c) /\ UNCHANGED <<w, input>>
    BY <1>10 DEF Enter
  <2>2. RingOrder'
    <3>1. Minus(w, r)' = n /\ Minus(e, r)' = n + m + 1
      BY <1>1, <1>4, <2>1
    <3> QED
      BY <1>2, <3>1, Sizes DEF RingOrder
  <2>3. InputKept'
    BY <1>0, <1>1, <1>3, <1>4, <1>6, <2>1, KeptIsNext
  <2> QED
    BY <1>0, <1>3, <1>5, <1>9, <2>1, <2>2, <2>3
<1>11. CASE Commits(c)
  <2>1. w' = e' /\ line' = <<>> /\ input' = input \o Append(line, c)
    BY <1>3, <1>11 DEF Enter, Passed
  <2>3. Minus(e', e') = 0
    BY <1>3, MinusIs, IndexNat
  <2>4. RingOrder'
    <3>1. Minus(w, r)' = n + m + 1 /\ Minus(e, r)' = n + m + 1
      BY <1>4, <2>1
    <3> QED
      BY <1>2, <3>1, Sizes DEF RingOrder
  <2>5. Segment(buf', e', 0) = <<>>
    BY DEF Segment
  <2>6. InputKept'
    <3>1. Minus(w', r') = n + m + 1
      BY <1>4, <2>1
    <3> QED
      BY <1>0, <1>3, <1>6, <2>1, <2>3, <2>5, <3>1, KeptIsNext
  <2>7. line' \in Seq(Chars) /\ input' \in Seq(Chars)
    BY <1>0, <1>9, <2>1
  <2> QED
    BY <1>3, <1>5, <2>1, <2>4, <2>6, <2>7
<1> QED
  BY <1>10, <1>11

-----------------------------------------------------------------------------
(* The steps that leave the ring alone *)

LEMMA RingFrame ==
  ASSUME RingOrder, InputKept, UNCHANGED <<cons, line, input>>
  PROVE  RingOrder' /\ InputKept'
BY DEF RingOrder, InputKept, Ring, cons

\* A write to THR: the UART sends.
LEMMA THRSends ==
  ASSUME TypeOK, THR
  PROVE  fifo' \in 0..FifoSize /\ fifo' > 0 /\ thre' = FALSE
<1>1. FifoSize \in Nat /\ FifoSize >= 3 /\ fifo \in 0..FifoSize
  BY ConsoleAssumption DEF TypeOK
<1> QED
  BY <1>1 DEF THR

\* A new state of one reader.
LEMMA ReaderSet ==
  ASSUME reader \in [Readers -> ReaderStates], NEW p \in Readers, NEW x \in ReaderStates,
         reader' = [reader EXCEPT ![p] = x]
  PROVE  /\ reader' \in [Readers -> ReaderStates] /\ reader'[p] = x
         /\ \A q \in Readers \ {p} : reader'[q] = reader[q]
OBVIOUS

\* release() by a reader: its lock is free, and it has left the loop.
LEMMA LeaveReader ==
  ASSUME TypeOK, NEW p \in Readers, NEW pc \in {"user", "asleep"}, Leave(p, pc)
  PROVE  /\ reader' \in [Readers -> ReaderStates] /\ conslock' = None
         /\ \A q \in Readers \ {p} : reader'[q] = reader[q]
         /\ reader'[p].pc = pc
<1>1. reader \in [Readers -> ReaderStates] /\ reader[p] \in ReaderStates
  BY DEF TypeOK
<1>2. PICK x : x \in ReaderStates /\ x.pc = pc /\ reader' = [reader EXCEPT ![p] = x]
  <2>1. CASE pc = "asleep"
    <3> DEFINE x == [reader[p] EXCEPT !.pc = pc]
    <3>1. x \in ReaderStates /\ x.pc = pc
      BY <1>1, <2>1 DEF ReaderStates
    <3>2. reader' = [reader EXCEPT ![p] = x]
      BY <1>1, <2>1 DEF Leave
    <3> QED
      BY <3>1, <3>2
  <2>2. CASE pc = "user"
    <3> DEFINE x == [reader[p] EXCEPT !.pc = pc, !.n = 0, !.target = 0]
    <3>1. x \in ReaderStates /\ x.pc = pc
      BY <1>1, <2>2 DEF ReaderStates
    <3>2. reader' = [reader EXCEPT ![p] = x]
      BY <1>1, <2>2 DEF Leave
    <3> QED
      BY <3>1, <3>2
  <2> QED
    BY <2>1, <2>2
<1> QED
  BY <1>1, <1>2, ReaderSet DEF Leave

\* A character leaves the UART: if it was the last, its interrupt is pending.
LEMMA TransmitInv ==
  ASSUME ConsoleInv, Transmit
  PROVE  ConsoleInv'
<1>0. TypeOK /\ LockOwner /\ Owing /\ NoSleeperOnInput /\ NoSleeperOnIdle
  BY DEF ConsoleInv
<1>1. TypeOK'
  BY <1>0, ConsoleAssumption DEF Transmit, TypeOK, None, Handler, cons, uart
<1>2. LockOwner' /\ Owing'
  BY <1>0, ConsoleAssumption DEF Transmit, TypeOK, LockOwner, Owing, None, Handler, cons, uart
<1>3. NoSleeperOnInput'
  BY <1>0 DEF Transmit, TypeOK, NoSleeperOnInput, Nothing, cons, uart
<1>4. NoSleeperOnIdle'
  BY <1>0, ConsoleAssumption DEF Transmit, TypeOK, NoSleeperOnIdle, cons, uart
<1>5. RingOrder' /\ InputKept'
  BY RingFrame DEF ConsoleInv, Transmit
<1> QED
  BY <1>1, <1>2, <1>3, <1>4, <1>5 DEF ConsoleInv

\* A key is typed.
LEMMA TypeInv ==
  ASSUME ConsoleInv, NEW c \in Keys, Type(c)
  PROVE  ConsoleInv'
<1>0. TypeOK /\ LockOwner /\ Owing /\ NoSleeperOnInput /\ NoSleeperOnIdle
  BY DEF ConsoleInv
<1>1. TypeOK'
  BY <1>0, ConsoleAssumption DEF Type, TypeOK, None, Handler, cons, uart
<1>2. LockOwner' /\ Owing'
  BY <1>0, ConsoleAssumption DEF Type, TypeOK, LockOwner, Owing, None, Handler, cons, uart
<1>3. NoSleeperOnInput'
  BY <1>0 DEF Type, TypeOK, NoSleeperOnInput, Nothing, cons, uart
<1>4. NoSleeperOnIdle'
  BY <1>0, ConsoleAssumption DEF Type, TypeOK, NoSleeperOnIdle, cons, uart
<1>5. RingOrder' /\ InputKept'
  BY RingFrame DEF ConsoleInv, Type
<1> QED
  BY <1>1, <1>2, <1>3, <1>4, <1>5 DEF ConsoleInv

\* consolewrite() goes on to the next chunk.
LEMMA consolewriteInv ==
  ASSUME ConsoleInv, NEW p \in Writers, consolewrite(p)
  PROVE  ConsoleInv'
<1>0. TypeOK /\ LockOwner /\ Owing /\ NoSleeperOnInput /\ NoSleeperOnIdle
  BY DEF ConsoleInv
<1>1. writer' \in [Writers -> WriterStates] /\ \A q \in Writers : writer'[q].pc # "asleep" \/ writer'[q] = writer[q]
  <2>1. writer[p] \in WriterStates /\ writer \in [Writers -> WriterStates]
    BY <1>0 DEF TypeOK
  <2>2. PICK x : /\ writer' = [writer EXCEPT ![p] = x]
                 /\ x \in WriterStates /\ x.pc \in {"write", "done"}
    <3>1. CASE writer' = [writer EXCEPT ![p].pc = "done"]
      <4>1. [writer[p] EXCEPT !.pc = "done"] \in WriterStates
        BY <2>1 DEF WriterStates
      <4>2. [writer[p] EXCEPT !.pc = "done"].pc = "done"
        BY <2>1 DEF WriterStates
      <4>3. writer' = [writer EXCEPT ![p] = [writer[p] EXCEPT !.pc = "done"]]
        BY <2>1, <3>1
      <4> QED
        BY <4>1, <4>2, <4>3
    <3>2. CASE writer' # [writer EXCEPT ![p].pc = "done"]
      <4> DEFINE end == IF writer[p].end + Chunk < WriteSize THEN writer[p].end + Chunk
                        ELSE WriteSize
                 x == [writer[p] EXCEPT !.pc = "write", !.end = end]
      <4>1. end \in Nat
        BY <2>1, ConsoleAssumption DEF WriterStates
      <4>2. writer' = [writer EXCEPT ![p].pc = "write", ![p].end = end]
        BY <2>1, <3>2 DEF consolewrite
      <4> HIDE DEF end
      <4>3. writer' = [writer EXCEPT ![p] = x]
        BY <2>1, <4>2
      <4>4. x \in WriterStates /\ x.pc = "write"
        BY <2>1, <4>1 DEF WriterStates
      <4> QED
        BY <4>3, <4>4
    <3> QED
      BY <3>1, <3>2
  <2>3. writer' \in [Writers -> WriterStates]
    BY <2>1, <2>2
  <2>4. ASSUME NEW q \in Writers PROVE writer'[q].pc # "asleep" \/ writer'[q] = writer[q]
    BY <2>1, <2>2
  <2> QED
    BY <2>3, <2>4
<1>2. TypeOK'
  BY <1>0, <1>1, ConsoleAssumption DEF consolewrite, TypeOK, None, Handler, cons, uart
<1>3. LockOwner' /\ Owing'
  BY <1>0, <1>1, ConsoleAssumption DEF consolewrite, TypeOK, LockOwner, Owing, None, Handler, cons, uart
<1>4. NoSleeperOnInput'
  BY <1>0, <1>1 DEF consolewrite, TypeOK, NoSleeperOnInput, Nothing, cons, uart
<1>5. NoSleeperOnIdle'
  BY <1>0, <1>1, ConsoleAssumption DEF consolewrite, TypeOK, NoSleeperOnIdle, cons, uart
<1>6. RingOrder' /\ InputKept'
  BY RingFrame DEF ConsoleInv, consolewrite
<1> QED
  BY <1>2, <1>3, <1>4, <1>5, <1>6 DEF ConsoleInv

\* printf() waits until THR is empty ...
LEMMA PrintWaitInv ==
  ASSUME ConsoleInv, PrintWait
  PROVE  ConsoleInv'
<1>0. TypeOK /\ LockOwner /\ Owing /\ NoSleeperOnInput /\ NoSleeperOnIdle
  BY DEF ConsoleInv
<1>1. print' \in PrinterStates /\ print'.left = print.left
  BY <1>0 DEF PrintWait, TypeOK, PrinterStates
<1>2. TypeOK'
  BY <1>0, <1>1, ConsoleAssumption DEF PrintWait, LSR_TX_IDLE, TypeOK, None, Handler, cons, uart
<1>3. LockOwner' /\ Owing'
  BY <1>0, <1>1, ConsoleAssumption DEF PrintWait, LSR_TX_IDLE, TypeOK, LockOwner, Owing, None, Handler, cons, uart
<1>4. NoSleeperOnInput'
  BY <1>0, <1>1 DEF PrintWait, LSR_TX_IDLE, TypeOK, NoSleeperOnInput, Nothing, cons, uart
<1>5. NoSleeperOnIdle'
  BY <1>0, <1>1, ConsoleAssumption DEF PrintWait, LSR_TX_IDLE, TypeOK, NoSleeperOnIdle, cons, uart
<1>6. RingOrder' /\ InputKept'
  BY RingFrame DEF ConsoleInv, PrintWait
<1> QED
  BY <1>2, <1>3, <1>4, <1>5, <1>6 DEF ConsoleInv

\* ... and writes it.
LEMMA PrintPutInv ==
  ASSUME ConsoleInv, PrintPut
  PROVE  ConsoleInv'
<1>0. TypeOK /\ LockOwner /\ Owing /\ NoSleeperOnInput /\ NoSleeperOnIdle
  BY DEF ConsoleInv
<1>1. print' \in PrinterStates /\ print'.pc = "idle"
  BY <1>0 DEF PrintPut, Owing, TypeOK, PrinterStates
<1>2. fifo' \in 0..FifoSize /\ fifo' > 0 /\ thre' = FALSE
  BY <1>0, THRSends DEF PrintPut
<1>3. TypeOK'
  BY <1>0, <1>1, <1>2, ConsoleAssumption DEF PrintPut, TypeOK, None, Handler, cons, uart
<1>4. LockOwner' /\ Owing'
  BY <1>0, <1>1, <1>2, ConsoleAssumption DEF PrintPut, TypeOK, LockOwner, Owing, None, Handler, cons, uart
<1>5. NoSleeperOnInput'
  BY <1>0, <1>1, <1>2 DEF PrintPut, TypeOK, NoSleeperOnInput, Nothing, cons, uart
<1>6. NoSleeperOnIdle'
  BY <1>0, <1>1, <1>2, ConsoleAssumption DEF PrintPut, TypeOK, NoSleeperOnIdle, cons, uart
<1>7. RingOrder' /\ InputKept'
  BY RingFrame DEF ConsoleInv, PrintPut
<1> QED
  BY <1>3, <1>4, <1>5, <1>6, <1>7 DEF ConsoleInv

\* consoleread() is called.
LEMMA ReadInv ==
  ASSUME ConsoleInv, NEW p \in Readers, NEW n \in ReadSizes, Read(p, n)
  PROVE  ConsoleInv'
<1>0. TypeOK /\ LockOwner /\ Owing /\ NoSleeperOnInput /\ NoSleeperOnIdle
  BY DEF ConsoleInv
<1>1. /\ reader' \in [Readers -> ReaderStates]
      /\ \A q \in Readers \ {p} : reader'[q] = reader[q]
      /\ reader'[p].pc = "lock"
  BY <1>0, ConsoleAssumption DEF Read, TypeOK, ReaderStates
<1>2. TypeOK'
  BY <1>0, <1>1, ConsoleAssumption DEF Read, TypeOK, None, Handler, cons, uart
<1>3. LockOwner' /\ Owing'
  BY <1>0, <1>1, ConsoleAssumption DEF Read, TypeOK, LockOwner, Owing, None, Handler, cons, uart
<1>4. NoSleeperOnInput'
  BY <1>0, <1>1 DEF Read, TypeOK, NoSleeperOnInput, Nothing, cons, uart
<1>5. NoSleeperOnIdle'
  BY <1>0, <1>1, ConsoleAssumption DEF Read, TypeOK, NoSleeperOnIdle, cons, uart
<1>6. RingOrder' /\ InputKept'
  BY RingFrame DEF ConsoleInv, Read
<1> QED
  BY <1>2, <1>3, <1>4, <1>5, <1>6 DEF ConsoleInv

\* The reader has the lock.
LEMMA ReadLockInv ==
  ASSUME ConsoleInv, NEW p \in Readers, ReadLock(p)
  PROVE  ConsoleInv'
<1>0. TypeOK /\ LockOwner /\ Owing /\ NoSleeperOnInput /\ NoSleeperOnIdle
  BY DEF ConsoleInv
<1>1. /\ reader' \in [Readers -> ReaderStates]
      /\ \A q \in Readers \ {p} : reader'[q] = reader[q]
      /\ reader'[p].pc = "loop"
  BY <1>0, ConsoleAssumption DEF ReadLock, TypeOK, ReaderStates
<1>2. TypeOK'
  BY <1>0, <1>1, ConsoleAssumption DEF ReadLock, TypeOK, None, Handler, cons, uart
<1>3. LockOwner' /\ Owing'
  BY <1>0, <1>1, ConsoleAssumption DEF ReadLock, TypeOK, LockOwner, Owing, None, Handler, cons, uart
<1>4. NoSleeperOnInput'
  BY <1>0, <1>1 DEF ReadLock, TypeOK, NoSleeperOnInput, Nothing, cons, uart
<1>5. NoSleeperOnIdle'
  BY <1>0, <1>1, ConsoleAssumption DEF ReadLock, TypeOK, NoSleeperOnIdle, cons, uart
<1>6. RingOrder' /\ InputKept'
  BY RingFrame DEF ConsoleInv, ReadLock
<1> QED
  BY <1>2, <1>3, <1>4, <1>5, <1>6 DEF ConsoleInv

\* The reader finds nothing, and sleeps or returns.
LEMMA ReadWaitInv ==
  ASSUME ConsoleInv, NEW p \in Readers, ReadWait(p)
  PROVE  ConsoleInv'
<1>0. TypeOK /\ LockOwner /\ Owing /\ NoSleeperOnInput /\ NoSleeperOnIdle
  BY DEF ConsoleInv
<1>1. /\ reader' \in [Readers -> ReaderStates]
      /\ \A q \in Readers \ {p} : reader'[q] = reader[q]
      /\ reader'[p].pc \in {"user", "asleep"} /\ conslock' = None
  <2>1. PICK pc \in {"user", "asleep"} : Leave(p, pc)
    BY DEF ReadWait
  <2> QED
    BY <1>0, <2>1, LeaveReader
<1>2. TypeOK'
  BY <1>0, <1>1, ConsoleAssumption DEF ReadWait, TypeOK, None, Handler, cons, uart
<1>3. LockOwner' /\ Owing'
  BY <1>0, <1>1, ConsoleAssumption DEF ReadWait, TypeOK, LockOwner, Owing, None, Handler, cons, uart
<1>4. NoSleeperOnInput'
  BY <1>0, <1>1 DEF ReadWait, TypeOK, NoSleeperOnInput, Nothing, cons, uart
<1>5. NoSleeperOnIdle'
  BY <1>0, <1>1, ConsoleAssumption DEF ReadWait, TypeOK, NoSleeperOnIdle, cons, uart
<1>6. RingOrder' /\ InputKept'
  BY RingFrame DEF ConsoleInv, ReadWait
<1> QED
  BY <1>2, <1>3, <1>4, <1>5, <1>6 DEF ConsoleInv

\* The reader has all it asked for.
LEMMA ReadDoneInv ==
  ASSUME ConsoleInv, NEW p \in Readers, ReadDone(p)
  PROVE  ConsoleInv'
<1>0. TypeOK /\ LockOwner /\ Owing /\ NoSleeperOnInput /\ NoSleeperOnIdle
  BY DEF ConsoleInv
<1>1. /\ reader' \in [Readers -> ReaderStates]
      /\ \A q \in Readers \ {p} : reader'[q] = reader[q]
      /\ reader'[p].pc = "user" /\ conslock' = None
  BY <1>0, LeaveReader DEF ReadDone
<1>2. TypeOK'
  BY <1>0, <1>1, ConsoleAssumption DEF ReadDone, TypeOK, None, Handler, cons, uart
<1>3. LockOwner' /\ Owing'
  BY <1>0, <1>1, ConsoleAssumption DEF ReadDone, TypeOK, LockOwner, Owing, None, Handler, cons, uart
<1>4. NoSleeperOnInput'
  BY <1>0, <1>1 DEF ReadDone, TypeOK, NoSleeperOnInput, Nothing, cons, uart
<1>5. NoSleeperOnIdle'
  BY <1>0, <1>1, ConsoleAssumption DEF ReadDone, TypeOK, NoSleeperOnIdle, cons, uart
<1>6. RingOrder' /\ InputKept'
  BY RingFrame DEF ConsoleInv, ReadDone
<1> QED
  BY <1>2, <1>3, <1>4, <1>5, <1>6 DEF ConsoleInv

\* A reader is killed.
LEMMA KillInv ==
  ASSUME ConsoleInv, NEW p \in Readers, Kill(p)
  PROVE  ConsoleInv'
<1>0. TypeOK /\ LockOwner /\ Owing /\ NoSleeperOnInput /\ NoSleeperOnIdle
  BY DEF ConsoleInv
<1>1. /\ reader' \in [Readers -> ReaderStates]
      /\ \A q \in Readers \ {p} : reader'[q] = reader[q]
      /\ reader'[p].pc = IF reader[p].pc = "asleep" THEN "lock" ELSE reader[p].pc
  <2> DEFINE pc == IF reader[p].pc = "asleep" THEN "lock" ELSE reader[p].pc
             x == [reader[p] EXCEPT !.pc = pc]
  <2>1. reader \in [Readers -> ReaderStates] /\ reader[p] \in ReaderStates
    BY <1>0 DEF TypeOK
  <2>2. reader' = [reader EXCEPT ![p] = x]
    BY <2>1 DEF Kill
  <2>3. pc \in {"user", "lock", "loop", "asleep"}
    BY <2>1 DEF ReaderStates
  <2> HIDE DEF pc
  <2>4. x \in ReaderStates /\ x.pc = pc
    BY <2>1, <2>3 DEF ReaderStates
  <2>5. reader' \in [Readers -> ReaderStates] /\ reader'[p] = x
        /\ \A q \in Readers \ {p} : reader'[q] = reader[q]
    <3> HIDE DEF x
    <3> QED
      BY <2>1, <2>2, <2>4, ReaderSet
  <2> QED
    BY <2>4, <2>5 DEF pc
<1>2. TypeOK'
  BY <1>0, <1>1, ConsoleAssumption DEF Kill, TypeOK, None, Handler, cons, uart
<1>3. LockOwner' /\ Owing'
  <2>1. \A q \in Readers : reader'[q].pc = "loop" <=> reader[q].pc = "loop"
    BY <1>1
  <2> QED
    BY <1>0, <2>1 DEF Kill, LockOwner, Owing
<1>4. NoSleeperOnInput'
  BY <1>0, <1>1 DEF Kill, TypeOK, NoSleeperOnInput, Nothing, cons, uart
<1>5. NoSleeperOnIdle'
  BY <1>0, <1>1, ConsoleAssumption DEF Kill, TypeOK, NoSleeperOnIdle, cons, uart
<1>6. RingOrder' /\ InputKept'
  BY RingFrame DEF ConsoleInv, Kill
<1> QED
  BY <1>2, <1>3, <1>4, <1>5, <1>6 DEF ConsoleInv

\* The interrupt is acknowledged: the handler has yet to look at tx_busy.
LEMMA uartintrInv ==
  ASSUME ConsoleInv, uartintr
  PROVE  ConsoleInv'
<1>0. TypeOK /\ LockOwner /\ Owing /\ NoSleeperOnInput /\ NoSleeperOnIdle
  BY DEF ConsoleInv
<1>1. intr' \in HandlerStates /\ intr'.pc = "tx" /\ intr.pc = "user"
  BY <1>0 DEF uartintr, plic_claim, TypeOK, HandlerStates
<1>2. TypeOK'
  BY <1>0, <1>1, ConsoleAssumption DEF uartintr, TypeOK, None, Handler, cons, uart
<1>3. LockOwner' /\ Owing'
  BY <1>0, <1>1, ConsoleAssumption DEF uartintr, TypeOK, LockOwner, Owing, None, Handler, cons, uart
<1>4. NoSleeperOnInput'
  BY <1>0, <1>1 DEF uartintr, TypeOK, NoSleeperOnInput, Nothing, cons, uart
<1>5. NoSleeperOnIdle'
  BY <1>0, <1>1, ConsoleAssumption DEF uartintr, TypeOK, NoSleeperOnIdle, cons, uart
<1>6. RingOrder' /\ InputKept'
  BY RingFrame DEF ConsoleInv, uartintr
<1> QED
  BY <1>2, <1>3, <1>4, <1>5, <1>6 DEF ConsoleInv

\* The handler takes a character.
LEMMA IntrRxInv ==
  ASSUME ConsoleInv, IntrRx
  PROVE  ConsoleInv'
<1>0. TypeOK /\ LockOwner /\ Owing /\ NoSleeperOnInput /\ NoSleeperOnIdle
  BY DEF ConsoleInv
<1>1. rx' \in Seq(Keys) /\ (rx # <<>> => Head(rx) \in Chars)
  <2>1. rx \in Seq(Keys) /\ (rx' = rx \/ (rx # <<>> /\ rx' = Tail(rx)))
    BY <1>0 DEF IntrRx, LSR_RX_READY, TypeOK
  <2>2. rx # <<>> => Head(rx) \in Keys /\ Tail(rx) \in Seq(Keys)
    BY <2>1, HeadTailProperties
  <2> QED
    BY <2>1, <2>2 DEF Chars
<1>2. intr' \in HandlerStates /\ intr.pc = "rx" /\ intr'.pc \in {"user", "cons"}
  BY <1>0, <1>1 DEF IntrRx, LSR_RX_READY, plic_complete, TypeOK, HandlerStates
<1>3. TypeOK'
  BY <1>0, <1>1, <1>2, ConsoleAssumption DEF IntrRx, TypeOK, None, Handler, cons, uart
<1>4. LockOwner' /\ Owing'
  BY <1>0, <1>1, <1>2, ConsoleAssumption DEF IntrRx, TypeOK, LockOwner, Owing, None, Handler, cons, uart
<1>5. NoSleeperOnInput'
  BY <1>0, <1>1, <1>2 DEF IntrRx, TypeOK, NoSleeperOnInput, Nothing, cons, uart
<1>6. NoSleeperOnIdle'
  BY <1>0, <1>1, <1>2, ConsoleAssumption DEF IntrRx, TypeOK, NoSleeperOnIdle, cons, uart
<1>7. RingOrder' /\ InputKept'
  BY RingFrame DEF ConsoleInv, IntrRx
<1> QED
  BY <1>3, <1>4, <1>5, <1>6, <1>7 DEF ConsoleInv

\* The echo waits until THR is empty ...
LEMMA EchoWaitInv ==
  ASSUME ConsoleInv, EchoWait
  PROVE  ConsoleInv'
<1>0. TypeOK /\ LockOwner /\ Owing /\ NoSleeperOnInput /\ NoSleeperOnIdle
  BY DEF ConsoleInv
<1>1. intr' \in HandlerStates /\ intr'.pc = "put" /\ intr'.k = intr.k
  BY <1>0 DEF EchoWait, TypeOK, HandlerStates
<1>2. TypeOK'
  BY <1>0, <1>1, ConsoleAssumption DEF EchoWait, LSR_TX_IDLE, TypeOK, None, Handler, cons, uart
<1>3. LockOwner' /\ Owing'
  BY <1>0, <1>1, ConsoleAssumption DEF EchoWait, LSR_TX_IDLE, TypeOK, LockOwner, Owing, None, Handler, cons, uart
<1>4. NoSleeperOnInput'
  BY <1>0, <1>1 DEF EchoWait, LSR_TX_IDLE, TypeOK, NoSleeperOnInput, Nothing, cons, uart
<1>5. NoSleeperOnIdle'
  BY <1>0, <1>1, ConsoleAssumption DEF EchoWait, LSR_TX_IDLE, TypeOK, NoSleeperOnIdle, cons, uart
<1>6. RingOrder' /\ InputKept'
  BY RingFrame DEF ConsoleInv, EchoWait
<1> QED
  BY <1>2, <1>3, <1>4, <1>5, <1>6 DEF ConsoleInv

\* ... and writes it.
LEMMA EchoPutInv ==
  ASSUME ConsoleInv, EchoPut
  PROVE  ConsoleInv'
<1>0. TypeOK /\ LockOwner /\ Owing /\ NoSleeperOnInput /\ NoSleeperOnIdle
  BY DEF ConsoleInv
<1>1. intr' \in HandlerStates /\ intr'.pc = "echo"
  <2>1. intr.k - 1 \in Nat
    BY <1>0 DEF EchoPut, Owing, TypeOK, HandlerStates
  <2> QED
    BY <1>0, <2>1 DEF EchoPut, TypeOK, HandlerStates
<1>2. fifo' \in 0..FifoSize /\ fifo' > 0 /\ thre' = FALSE
  BY <1>0, THRSends DEF EchoPut
<1>3. TypeOK'
  BY <1>0, <1>1, <1>2, ConsoleAssumption DEF EchoPut, TypeOK, None, Handler, cons, uart
<1>4. LockOwner' /\ Owing'
  BY <1>0, <1>1, <1>2, ConsoleAssumption DEF EchoPut, TypeOK, LockOwner, Owing, None, Handler, cons, uart
<1>5. NoSleeperOnInput'
  BY <1>0, <1>1, <1>2 DEF EchoPut, TypeOK, NoSleeperOnInput, Nothing, cons, uart
<1>6. NoSleeperOnIdle'
  BY <1>0, <1>1, <1>2, ConsoleAssumption DEF EchoPut, TypeOK, NoSleeperOnIdle, cons, uart
<1>7. RingOrder' /\ InputKept'
  BY RingFrame DEF ConsoleInv, EchoPut
<1> QED
  BY <1>3, <1>4, <1>5, <1>6, <1>7 DEF ConsoleInv

\* The handler lets go of the lock.
LEMMA IntrUnlockInv ==
  ASSUME ConsoleInv, IntrUnlock
  PROVE  ConsoleInv'
<1>0. TypeOK /\ LockOwner /\ Owing /\ NoSleeperOnInput /\ NoSleeperOnIdle
  BY DEF ConsoleInv
<1>1. intr' \in HandlerStates /\ intr'.pc = "rx"
  BY <1>0 DEF IntrUnlock, TypeOK, HandlerStates
<1>2. TypeOK'
  BY <1>0, <1>1, ConsoleAssumption DEF IntrUnlock, TypeOK, None, Handler, cons, uart
<1>3. LockOwner' /\ Owing'
  BY <1>0, <1>1, ConsoleAssumption DEF IntrUnlock, TypeOK, LockOwner, Owing, None, Handler, cons, uart
<1>4. NoSleeperOnInput'
  BY <1>0, <1>1 DEF IntrUnlock, TypeOK, NoSleeperOnInput, Nothing, cons, uart
<1>5. NoSleeperOnIdle'
  BY <1>0, <1>1, ConsoleAssumption DEF IntrUnlock, TypeOK, NoSleeperOnIdle, cons, uart
<1>6. RingOrder' /\ InputKept'
  BY RingFrame DEF ConsoleInv, IntrUnlock
<1> QED
  BY <1>2, <1>3, <1>4, <1>5, <1>6 DEF ConsoleInv

\* uartwrite() sends a character or sleeps.
LEMMA uartwriteInv ==
  ASSUME ConsoleInv, NEW p \in Writers, uartwrite(p)
  PROVE  ConsoleInv'
<1>0. TypeOK /\ LockOwner /\ Owing /\ NoSleeperOnInput /\ NoSleeperOnIdle
  BY DEF ConsoleInv
<1>1. writer \in [Writers -> WriterStates] /\ writer[p] \in WriterStates
  BY <1>0 DEF TypeOK
<1>2. ASSUME tx_busy PROVE TypeOK' /\ NoSleeperOnIdle'
  <2>0. writer' \in [Writers -> WriterStates]
    BY <1>1, <1>2 DEF uartwrite, WriterStates
  <2>1. UNCHANGED uart
    BY <1>2 DEF uartwrite
  <2>2. TypeOK'
    BY <1>0, <2>0, <2>1 DEF uartwrite, TypeOK, cons, uart
  <2>3. NoSleeperOnIdle'
    BY <1>0, <1>2, <2>1 DEF uartwrite, NoSleeperOnIdle, uart
  <2> QED
    BY <2>2, <2>3
<1>3. ASSUME ~tx_busy PROVE TypeOK' /\ NoSleeperOnIdle'
  <2>0. writer' \in [Writers -> WriterStates]
    <3> DEFINE pc == IF writer[p].i + 1 = writer[p].end THEN "copy" ELSE writer[p].pc
               x == [writer[p] EXCEPT !.i = @ + 1, !.pc = pc]
    <3>1. writer' = [writer EXCEPT ![p] = x]
      BY <1>1, <1>3 DEF uartwrite
    <3>2. x \in WriterStates
      <4>1. pc \in {"copy", "write", "asleep", "done"} /\ writer[p].i + 1 \in Nat
        BY <1>1 DEF WriterStates
      <4> HIDE DEF pc
      <4> QED
        BY <1>1, <4>1 DEF WriterStates
    <3> HIDE DEF x
    <3> QED
      BY <1>1, <3>1, <3>2
  <2>1. tx_busy' = TRUE /\ fifo' \in 0..FifoSize /\ fifo' > 0 /\ thre' = FALSE
    BY <1>0, <1>3, THRSends DEF uartwrite
  <2>2. TypeOK'
    BY <1>0, <2>0, <2>1 DEF uartwrite, TypeOK, cons
  <2>3. NoSleeperOnIdle'
    BY <2>1 DEF NoSleeperOnIdle
  <2> QED
    BY <2>2, <2>3
<1>4. LockOwner' /\ Owing' /\ NoSleeperOnInput'
  BY <1>0 DEF uartwrite, LockOwner, Owing, NoSleeperOnInput, Nothing, cons
<1>5. RingOrder' /\ InputKept'
  BY RingFrame DEF ConsoleInv, uartwrite
<1> QED
  BY <1>2, <1>3, <1>4, <1>5 DEF ConsoleInv

\* The handler clears tx_busy and wakes the writers.
LEMMA IntrTxInv ==
  ASSUME ConsoleInv, IntrTx
  PROVE  ConsoleInv'
<1>0. TypeOK /\ LockOwner /\ Owing /\ NoSleeperOnInput /\ NoSleeperOnIdle
  BY DEF ConsoleInv
<1>1. intr' \in HandlerStates /\ intr.pc = "tx" /\ intr'.pc = "rx"
  BY <1>0 DEF IntrTx, TypeOK, HandlerStates
<1>2. ASSUME fifo = 0 PROVE TypeOK' /\ NoSleeperOnIdle'
  <2>1. tx_busy' = FALSE /\ WakeWriters
    BY <1>2 DEF IntrTx, LSR_TX_IDLE
  <2>2. writer' \in [Writers -> WriterStates] /\ \A p \in Writers : writer'[p].pc # "asleep"
    BY <1>0, <2>1 DEF WakeWriters, TypeOK, WriterStates
  <2>3. TypeOK'
    BY <1>0, <1>1, <2>1, <2>2 DEF IntrTx, TypeOK, cons
  <2>4. NoSleeperOnIdle'
    BY <2>1, <2>2 DEF NoSleeperOnIdle
  <2> QED
    BY <2>3, <2>4
<1>3. ASSUME fifo # 0 PROVE TypeOK' /\ NoSleeperOnIdle'
  <2>1. UNCHANGED <<tx_busy, writer>>
    BY <1>3 DEF IntrTx, LSR_TX_IDLE
  <2>2. TypeOK'
    BY <1>0, <1>1, <2>1 DEF IntrTx, TypeOK, cons
  <2>3. fifo' > 0
    BY <1>0, <1>3 DEF IntrTx, TypeOK
  <2>4. NoSleeperOnIdle'
    BY <1>0, <2>1, <2>3 DEF NoSleeperOnIdle
  <2> QED
    BY <2>2, <2>4
<1>4. LockOwner' /\ Owing' /\ NoSleeperOnInput'
  BY <1>0, <1>1 DEF IntrTx, LockOwner, Owing, NoSleeperOnInput, Nothing, cons
<1>5. RingOrder' /\ InputKept'
  BY RingFrame DEF ConsoleInv, IntrTx
<1> QED
  BY <1>2, <1>3, <1>4, <1>5 DEF ConsoleInv

-----------------------------------------------------------------------------
(* The steps that change the ring *)

\* consoleread() takes a character: not one of a line still being typed, and
\* the one that was typed first.
LEMMA ReadCharInv ==
  ASSUME ConsoleInv, NEW p \in Readers, ReadChar(p)
  PROVE  ConsoleInv'
<1>0. /\ TypeOK /\ LockOwner /\ Owing /\ NoSleeperOnInput /\ NoSleeperOnIdle
      /\ RingOrder /\ InputKept /\ RingOK
  BY DEF ConsoleInv, RingOK
<1>1. /\ reader[p].pc = "loop" /\ reader[p].n > 0 /\ ~Nothing
      /\ UNCHANGED <<buf, w, e, killed, writer, intr, print, uart, rx, typed, line>>
  BY DEF ReadChar
<1>2. conslock = p
  BY <1>0, <1>1 DEF LockOwner
<1>3. \A q \in Readers : reader[q].pc # "asleep"
  BY <1>0, <1>1 DEF NoSleeperOnInput
<1>4. UNCHANGED <<r, input>> \/ Take
  BY DEF ReadChar
<1>5. r' \in 0..(Wrap - 1) /\ input' \in Seq(Chars) /\ RingOrder' /\ InputKept'
  <2>1. CASE UNCHANGED <<r, input>>
    BY <1>0, <1>1, <2>1, RingFrame DEF TypeOK, cons
  <2>2. CASE Take
    BY <1>0, <1>1, <2>2, TakeRing DEF Index
  <2> QED
    BY <1>4, <2>1, <2>2
<1>6. /\ reader' \in [Readers -> ReaderStates]
      /\ \A q \in Readers \ {p} : reader'[q] = reader[q]
      /\ \/ reader'[p].pc = "user" /\ conslock' = None
         \/ reader'[p].pc = "loop" /\ conslock' = conslock
  <2>1. CASE Leave(p, "user")
    BY <1>0, <2>1, LeaveReader
  <2>2. CASE reader' = [reader EXCEPT ![p].n = @ - 1] /\ UNCHANGED conslock
    <3>1. reader[p].n - 1 \in Nat
      BY <1>0, <1>1 DEF TypeOK, ReaderStates
    <3> QED
      BY <1>0, <1>1, <2>2, <3>1 DEF TypeOK, ReaderStates
  <2> QED
    BY <2>1, <2>2 DEF ReadChar
<1>7. TypeOK'
  BY <1>0, <1>1, <1>5, <1>6 DEF TypeOK, uart
<1>8. LockOwner' /\ Owing'
  BY <1>0, <1>1, <1>2, <1>6, ConsoleAssumption DEF LockOwner, Owing, None, Handler
<1>9. NoSleeperOnInput' /\ NoSleeperOnIdle'
  BY <1>0, <1>1, <1>3, <1>6 DEF NoSleeperOnInput, NoSleeperOnIdle, uart
<1> QED
  BY <1>5, <1>7, <1>8, <1>9 DEF ConsoleInv

\* What WakeReaders leaves of the readers.
LEMMA ReadersAwake ==
  ASSUME TypeOK, WakeReaders
  PROVE  /\ reader' \in [Readers -> ReaderStates]
         /\ \A p \in Readers : /\ reader'[p].pc # "asleep"
                               /\ reader'[p].pc = "loop" <=> reader[p].pc = "loop"
BY DEF WakeReaders, TypeOK, ReaderStates

\* consoleintr(): what a key does to the ring and the readers.
LEMMA KeyEffect ==
  ASSUME ConsoleInv, consoleintr
  PROVE  /\ buf' \in [0..(Size - 1) -> Chars] /\ e' \in Index /\ w' \in Index
         /\ line' \in Seq(Chars) /\ input' \in Seq(Chars)
         /\ RingOrder' /\ InputKept'
         /\ \/ UNCHANGED <<w, reader>>
            \/ WakeReaders
         /\ \E k \in Nat : intr' = [intr EXCEPT !.pc = "echo", !.c = "nul", !.k = k]
<1>0. TypeOK /\ RingOrder /\ InputKept /\ RingOK
  BY DEF ConsoleInv, RingOK
<1>1. /\ buf \in [0..(Size - 1) -> Chars] /\ r \in Index /\ w \in Index /\ e \in Index
      /\ line \in Seq(Chars) /\ input \in Seq(Chars) /\ intr.c \in Chars
  BY <1>0 DEF TypeOK, Index, HandlerStates
<1> DEFINE c == IF intr.c = "cr" THEN "nl" ELSE intr.c
           Echo(k) == intr' = [intr EXCEPT !.pc = "echo", !.c = "nul", !.k = k]
<1>2. c \in Chars
  BY <1>1 DEF Chars
<1>3. UNCHANGED r
  BY DEF consoleintr
<1>4. \/ c = "U" /\ e' = w /\ Echo(3 * Minus(e, w)) /\ line' = <<>>
           /\ UNCHANGED <<buf, w, reader, input>>
      \/ /\ c = "H" /\ Editable /\ e' = Minus(e, 1) /\ Echo(3)
         /\ line' = SubSeq(line, 1, Len(line) - 1) /\ UNCHANGED <<buf, w, reader, input>>
      \/ Room /\ Enter(c) /\ Echo(1)
      \/ Echo(0) /\ UNCHANGED <<buf, w, e, reader, line, input>>
  BY DEF consoleintr
<1> HIDE DEF c, Echo
<1>5. CASE e' = w /\ Echo(3 * Minus(e, w)) /\ line' = <<>> /\ UNCHANGED <<buf, w, reader, input>>
  <2>1. PICK k \in Nat : k = 3 * Minus(e, w)
    <3>1. Minus(e, w) \in Nat
      BY <1>1, MinusIs, IndexNat
    <3> QED
      BY <3>1
  <2>2. RingOrder' /\ InputKept'
    BY <1>0, <1>3, <1>5, KillRing
  <2>3. \E i \in Nat : intr' = [intr EXCEPT !.pc = "echo", !.c = "nul", !.k = i]
    BY <1>5, <2>1, Zenon DEF Echo
  <2>4. line' \in Seq(Chars)
    BY <1>5
  <2>5. e' \in Index /\ UNCHANGED <<buf, w, reader, input>>
    BY <1>1, <1>5
  <2> QED
    BY <1>1, <2>2, <2>3, <2>4, <2>5
<1>6. CASE /\ Editable /\ e' = Minus(e, 1) /\ Echo(3)
           /\ line' = SubSeq(line, 1, Len(line) - 1) /\ UNCHANGED <<buf, w, reader, input>>
  <2>1. e' \in Index /\ line' \in Seq(Chars) /\ RingOrder' /\ InputKept'
    BY <1>0, <1>3, <1>6, EraseRing
  <2> QED
    BY <1>1, <1>6, <2>1 DEF Echo
<1>7. CASE Room /\ Enter(c) /\ Echo(1)
  <2>1. /\ buf' \in [0..(Size - 1) -> Chars] /\ e' \in Index /\ w' \in Index
        /\ line' \in Seq(Chars) /\ input' \in Seq(Chars)
        /\ RingOrder' /\ InputKept'
    BY <1>0, <1>2, <1>3, <1>7, EnterRing DEF Rings
  <2>2. UNCHANGED <<w, reader>> \/ WakeReaders
    BY <1>7 DEF Enter
  <2> QED
    BY <1>7, <2>1, <2>2 DEF Echo
<1>8. CASE Echo(0) /\ UNCHANGED <<buf, w, e, reader, line, input>>
  <2>1. RingOrder' /\ InputKept'
    BY <1>0, <1>3, <1>8, RingFrame DEF cons
  <2> QED
    BY <1>1, <1>8, <2>1 DEF Echo
<1> QED
  BY <1>4, <1>5, <1>6, <1>7, <1>8

LEMMA consoleintrInv ==
  ASSUME ConsoleInv, consoleintr
  PROVE  ConsoleInv'
<1>0. TypeOK /\ LockOwner /\ Owing /\ NoSleeperOnInput /\ NoSleeperOnIdle
  BY DEF ConsoleInv
<1>1. /\ intr.pc = "cons" /\ conslock = None /\ conslock' = Handler
      /\ UNCHANGED <<r, killed, writer, print, uart, rx, typed>>
  BY DEF consoleintr
<1>2. /\ buf' \in [0..(Size - 1) -> Chars] /\ e' \in 0..(Wrap - 1) /\ w' \in 0..(Wrap - 1)
      /\ line' \in Seq(Chars) /\ input' \in Seq(Chars)
      /\ RingOrder' /\ InputKept'
  BY KeyEffect DEF Index
<1>3. UNCHANGED <<w, reader>> \/ WakeReaders
  BY KeyEffect
<1>4. intr' \in HandlerStates /\ intr'.pc = "echo"
  <2>1. PICK k \in Nat : intr' = [intr EXCEPT !.pc = "echo", !.c = "nul", !.k = k]
    BY KeyEffect
  <2> QED
    BY <1>0, <2>1 DEF TypeOK, HandlerStates, Chars
<1>5. /\ reader' \in [Readers -> ReaderStates]
      /\ \A p \in Readers : reader'[p].pc = "loop" <=> reader[p].pc = "loop"
      /\ NoSleeperOnInput'
  <2>1. CASE UNCHANGED <<w, reader>>
    BY <1>0, <1>1, <2>1 DEF TypeOK, NoSleeperOnInput, Nothing
  <2>2. CASE WakeReaders
    BY <1>0, <2>2, ReadersAwake DEF NoSleeperOnInput
  <2> QED
    BY <1>3, <2>1, <2>2
<1>6. TypeOK'
  BY <1>0, <1>1, <1>2, <1>4, <1>5 DEF TypeOK, uart
<1>7. LockOwner' /\ Owing'
  BY <1>0, <1>1, <1>4, <1>5, ConsoleAssumption DEF LockOwner, Owing, None, Handler
<1>8. NoSleeperOnIdle'
  BY <1>0, <1>1, <1>4 DEF NoSleeperOnIdle, uart
<1> QED
  BY <1>2, <1>5, <1>6, <1>7, <1>8 DEF ConsoleInv

-----------------------------------------------------------------------------
(* The theorems *)

LEMMA InitInv == Init => ConsoleInv
<1> SUFFICES ASSUME Init PROVE ConsoleInv
  OBVIOUS
<1>1. TypeOK
  <2>1. r \in 0..(Wrap - 1) /\ w \in 0..(Wrap - 1) /\ e \in 0..(Wrap - 1) /\ fifo \in 0..FifoSize
    BY ConsoleAssumption DEF Init, consoleinit, uartinit
  <2>2. reader \in [Readers -> ReaderStates] /\ writer \in [Writers -> WriterStates]
    BY ConsoleAssumption DEF Init, ReaderStates, WriterStates
  <2>3. intr \in HandlerStates /\ print \in PrinterStates
    BY ConsoleAssumption DEF Init, HandlerStates, PrinterStates, Chars
  <2>4. buf \in [0..(Size - 1) -> Chars]
    BY DEF Init, consoleinit, Chars
  <2>5. line \in Seq(Chars) /\ input \in Seq(Chars) /\ rx \in Seq(Keys)
    BY DEF Init, consoleinit, uartinit
  <2> QED
    BY <2>1, <2>2, <2>3, <2>4, <2>5, ConsoleAssumption
    DEF Init, consoleinit, uartinit, TypeOK
<1>2. LockOwner /\ Owing /\ NoSleeperOnInput /\ NoSleeperOnIdle
  BY ConsoleAssumption
  DEF Init, consoleinit, uartinit, LockOwner, Owing, NoSleeperOnInput, NoSleeperOnIdle, None, Handler
<1>3. r = 0 /\ w = 0 /\ e = 0 /\ input = <<>> /\ line = <<>>
  BY DEF Init, consoleinit
<1>4. Minus(0, 0) = 0
  <2>1. 0 \in Index
    BY Sizes DEF Index
  <2> QED
    BY <2>1, MinusIs
<1>5. RingOrder
  BY <1>3, <1>4, Sizes DEF RingOrder
<1>6. InputKept
  BY <1>3, <1>4 DEF InputKept, Ring
<1> QED
  BY <1>1, <1>2, <1>5, <1>6 DEF ConsoleInv

LEMMA NextInv == ConsoleInv /\ [Next]_vars => ConsoleInv'
<1> SUFFICES ASSUME ConsoleInv, [Next]_vars PROVE ConsoleInv'
  OBVIOUS
<1>1. CASE UNCHANGED vars
  BY <1>1 DEF vars, cons, uart, ConsoleInv, TypeOK, LockOwner, Owing, NoSleeperOnInput,
     NoSleeperOnIdle, Nothing, RingOrder, InputKept, Ring
<1>2. ASSUME NEW p \in Readers, Reading(p) \/ Kill(p) \/ \E n \in ReadSizes : Read(p, n)
      PROVE  ConsoleInv'
  BY <1>2, ReadLockInv, ReadWaitInv, ReadCharInv, ReadDoneInv, KillInv, ReadInv DEF Reading
<1>3. ASSUME NEW p \in Writers, Writing(p) PROVE ConsoleInv'
  BY <1>3, consolewriteInv, uartwriteInv DEF Writing
<1>4. CASE printf \/ Transmit
  BY <1>4, PrintWaitInv, PrintPutInv, TransmitInv DEF printf
<1>5. CASE Interrupt
  BY <1>5, uartintrInv, IntrTxInv, IntrRxInv, consoleintrInv, EchoWaitInv, EchoPutInv,
     IntrUnlockInv DEF Interrupt
<1>6. ASSUME NEW c \in Keys, Type(c) PROVE ConsoleInv'
  BY <1>6, TypeInv
<1> QED
  BY <1>1, <1>2, <1>3, <1>4, <1>5, <1>6 DEF Next

\* Whatever readers, writers, printing harts and the handler do, the console's
\* lock has one owner, its indices are in order, the ring holds the input, and
\* the sleepers are accounted for.
THEOREM ConsoleInvariant == Spec => []ConsoleInv
BY InitInv, NextInv, PTL DEF Spec

\* consoleintr() and consoleread() lose no character, repeat none and reorder
\* none, whatever is erased, wherever the indices wrap and however full the ring is.
THEOREM InputNotLost == Spec => []InputKept
<1>1. ConsoleInv => InputKept
  BY DEF ConsoleInv
<1> QED
  BY <1>1, ConsoleInvariant, PTL

\* No reader sleeps on input that is there, and no writer whom no interrupt of
\* the UART will wake, although printf() and the echo also write to it.
THEOREM WakeupsNotMissed == Spec => [](NoSleeperOnInput /\ NoSleeperOnIdle)
<1>1. ConsoleInv => NoSleeperOnInput /\ NoSleeperOnIdle
  BY DEF ConsoleInv
<1> QED
  BY <1>1, ConsoleInvariant, PTL
=============================================================================
