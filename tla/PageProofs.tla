------------------------------ MODULE PageProofs ------------------------------
(***************************************************************************)
(* Proofs about module PageAlloc, for any zones, free ranges and largest   *)
(* order: no page is lost or handed out twice, merging is exact, and what  *)
(* was freed is whole again.  Descriptors of pages that are reserved at    *)
(* boot read as busy (ReservedClean); the others may hold anything.        *)
(***************************************************************************)
EXTENDS PageAlloc, QueueLemmas

LEMMA OrderIs == MAX_ORDER \in Nat /\ Order = 0 .. MAX_ORDER /\ Order \in SUBSET Nat
  BY PageAllocAssumption DEF Order

-----------------------------------------------------------------------------
(***************************************************************************)
(* Sizes and alignment.                                                    *)
(***************************************************************************)

\* f is the table of sizes up to order n
Doubles(n, f) == f = [k \in 0 .. n |-> IF k = 0 THEN 1 ELSE 2 * f[k - 1]]

\* There is one such table, so the recursion of Size means what it says.
LEMMA SizeDefined ==
    Size = [k \in Order |-> IF k = 0 THEN 1 ELSE 2 * Size[k - 1]]
<1> DEFINE Bad == {n \in Nat : ~ \E f : Doubles(n, f)}
<1>1. SUFFICES ASSUME Bad # {}
               PROVE  FALSE
  <2>1. Bad = {} => \E f : Doubles(MAX_ORDER, f)
    BY OrderIs
  <2> HIDE DEF Bad
  <2>2. PICK f : Doubles(MAX_ORDER, f)
    BY <1>1, <2>1
  <2>3. \E f_1 : f_1 = [k \in Order |-> IF k = 0 THEN 1 ELSE 2 * f_1[k - 1]]
    BY <2>2, OrderIs DEF Doubles
  <2> QED
    BY <2>3 DEF Size
<1>2. PICK n \in Bad : \A m \in Bad : n <= m
  BY <1>1, LeastElement
<1>3. CASE n = 0
  <2>1. Doubles(0, [k \in 0 .. 0 |-> 1])
    BY DEF Doubles
  <2> QED
    BY <1>3, <2>1
<1>4. CASE n > 0
  <2>1. n - 1 \in Nat /\ n - 1 \notin Bad
    <3>1. n \in Nat
      BY <1>2
    <3> HIDE DEF Bad
    <3> QED
      BY <1>2, <1>4, <3>1
  <2>2. PICK f : Doubles(n - 1, f)
    BY <2>1
  <2>3. PICK g : g = [k \in 0 .. n |-> IF k = n THEN 2 * f[n - 1] ELSE f[k]]
    OBVIOUS
  <2>4. \A k \in 0 .. n - 1 : f[k] = IF k = 0 THEN 1 ELSE 2 * f[k - 1]
    BY <2>2 DEF Doubles
  <2>5. ASSUME NEW k \in 0 .. n
        PROVE  g[k] = IF k = 0 THEN 1 ELSE 2 * g[k - 1]
    <3>1. CASE k = n
      <4>1. g[n] = 2 * f[n - 1] /\ g[n - 1] = f[n - 1]
        BY <1>4, <2>1, <2>3
      <4> QED
        BY <1>4, <3>1, <4>1
    <3>2. CASE k # n
      <4>1. k \in 0 .. n - 1 /\ g[k] = f[k]
        BY <2>1, <2>3, <3>2
      <4>2. k # 0 => k - 1 \in 0 .. n /\ k - 1 # n
        BY <2>1, <4>1
      <4>3. k # 0 => g[k - 1] = f[k - 1]
        BY <2>3, <4>2
      <4> QED
        BY <2>4, <4>1, <4>3
    <3> QED
      BY <3>1, <3>2
  <2>6. Doubles(n, g)
    BY <2>3, <2>5 DEF Doubles
  <2> QED
    BY <1>2, <2>6
<1> QED
  BY <1>2, <1>3, <1>4

LEMMA SizeIs ==
    /\ \A k \in Order : Size[k] \in Nat \ {0}
    /\ Size[0] = 1
    /\ \A k \in Order : k + 1 \in Order => Size[k + 1] = 2 * Size[k]
<1>1. \A k \in Order : Size[k] = IF k = 0 THEN 1 ELSE 2 * Size[k - 1]
  BY SizeDefined
<1>2. 0 \in Order /\ Size[0] = 1
  BY <1>1, OrderIs
<1>3. \A k \in Order : k + 1 \in Order => Size[k + 1] = 2 * Size[k]
  <2> SUFFICES ASSUME NEW k \in Order, k + 1 \in Order
               PROVE  Size[k + 1] = 2 * Size[k]
    OBVIOUS
  <2>1. k + 1 # 0 /\ (k + 1) - 1 = k
    BY OrderIs
  <2>2. Size[k + 1] = 2 * Size[(k + 1) - 1]
    BY <1>1, <2>1
  <2> QED
    BY <2>1, <2>2
<1> DEFINE Bad == {k \in Order : Size[k] \notin Nat \ {0}}
<1>4. SUFFICES ASSUME Bad # {}
               PROVE  FALSE
  BY <1>2, <1>3
<1>5. PICK n \in Bad : \A m \in Bad : n <= m
  <2>1. Bad \in SUBSET Nat
    BY OrderIs
  <2> HIDE DEF Bad
  <2> QED
    BY <1>4, <2>1, LeastElement
<1>6. n # 0 /\ n - 1 \in Order /\ n - 1 \notin Bad
  <2>1. n \in Order /\ n # 0 /\ n - 1 \in Order
    BY <1>2, <1>5, OrderIs
  <2> HIDE DEF Bad
  <2> QED
    BY <1>5, <2>1, OrderIs
<1>7. Size[n] = 2 * Size[n - 1]
  BY <1>1, <1>6
<1> QED
  BY <1>5, <1>6, <1>7

\* Larger sizes are multiples of smaller ones.
LEMMA SizeDivides ==
    ASSUME NEW j \in Order, NEW k \in Order, j <= k
    PROVE  \E c \in Nat \ {0} : Size[k] = c * Size[j]
<1> DEFINE Bad == {i \in Order : j <= i /\ ~ \E c \in Nat \ {0} : Size[i] = c * Size[j]}
<1>1. SUFFICES ASSUME Bad # {}
               PROVE  FALSE
  OBVIOUS
<1>2. PICK n \in Bad : \A m \in Bad : n <= m
  <2>1. Bad \in SUBSET Nat
    BY OrderIs
  <2> HIDE DEF Bad
  <2> QED
    BY <1>1, <2>1, LeastElement
<1>3. n \in Order /\ j <= n /\ ~ \E c \in Nat \ {0} : Size[n] = c * Size[j]
  BY <1>2
<1>4. n # j
  <2>1. Size[j] = 1 * Size[j]
    BY SizeIs
  <2> QED
    BY <1>3, <2>1
<1>5. n - 1 \in Order /\ j <= n - 1 /\ (n - 1) + 1 = n /\ ~(n <= n - 1)
  BY <1>3, <1>4, OrderIs
<1>6. n - 1 \notin Bad
  <2> HIDE DEF Bad
  <2> QED
    BY <1>2, <1>5
<1>7. PICK c \in Nat \ {0} : Size[n - 1] = c * Size[j]
  BY <1>5, <1>6
<1>8. Size[n] = 2 * Size[n - 1]
  <2>1. \A i \in Order : i + 1 \in Order => Size[i + 1] = 2 * Size[i]
    BY SizeIs
  <2> QED
    BY <1>3, <1>5, <2>1
<1>9. 2 * c \in Nat \ {0} /\ Size[n] = (2 * c) * Size[j]
  BY <1>7, <1>8, SizeIs
<1> QED
  BY <1>3, <1>9

LEMMA DivisionIs ==
    ASSUME NEW p \in Nat, NEW s \in Nat, s > 0
    PROVE  /\ p \div s \in Nat /\ p = (p \div s) * s + (p % s)
           /\ \A m \in Nat : p = m * s => p % s = 0
<1>1. p \div s \in Nat
  OBVIOUS
<1>2. p = (p \div s) * s + (p % s)
  OBVIOUS
<1>3. ASSUME NEW m \in Nat, p = m * s
      PROVE  p % s = 0
  BY <1>3
<1> QED
  BY <1>1, <1>2, <1>3

LEMMA AlignedIs ==
    ASSUME NEW p \in Nat, NEW k \in Order
    PROVE  Aligned(p, k) <=> \E m \in Nat : p = m * Size[k]
<1>1. PICK s \in Nat \ {0} : s = Size[k]
  BY SizeIs
<1>2. /\ p \div s \in Nat /\ p = (p \div s) * s + (p % s)
      /\ \A m \in Nat : p = m * s => p % s = 0
  BY <1>1, s > 0, DivisionIs
<1>3. ASSUME p % s = 0
      PROVE  p = (p \div s) * s
  <2>1. PICK d \in Nat, r \in Nat : d = p \div s /\ r = p % s /\ p = d * s + r
    BY <1>2
  <2> QED
    BY <1>1, <1>3, <2>1
<1> QED
  BY <1>1, <1>2, <1>3 DEF Aligned

LEMMA AlignedDown ==
    ASSUME NEW p \in Nat, NEW j \in Order, NEW k \in Order, j <= k, Aligned(p, k)
    PROVE  Aligned(p, j)
<1>1. PICK m \in Nat : p = m * Size[k]
  BY AlignedIs
<1>2. PICK c \in Nat \ {0} : Size[k] = c * Size[j]
  BY SizeDivides
<1>3. PICK s \in Nat \ {0} : s = Size[j]
  BY SizeIs
<1>4. m * c \in Nat /\ p = (m * c) * s
  BY <1>1, <1>2, <1>3
<1> QED
  BY <1>3, <1>4, AlignedIs

\* Blocks of one size do not overlap.
LEMMA AlignedGap ==
    ASSUME NEW p \in Nat, NEW q \in Nat, NEW k \in Order, Aligned(p, k), Aligned(q, k), p < q
    PROVE  p + Size[k] <= q
<1>1. PICK s \in Nat \ {0} : s = Size[k]
  BY SizeIs
<1>2. PICK m \in Nat : p = m * s
  BY <1>1, AlignedIs
<1>3. PICK n \in Nat : q = n * s
  BY <1>1, AlignedIs
<1>4. m * s + s <= n * s
  BY <1>1, <1>2, <1>3
<1> QED
  BY <1>1, <1>2, <1>3, <1>4

LEMMA AlignedNext ==
    ASSUME NEW p \in Nat, NEW k \in Order, Aligned(p, k)
    PROVE  p + Size[k] \in Nat /\ Aligned(p + Size[k], k)
<1>1. PICK s \in Nat \ {0} : s = Size[k]
  BY SizeIs
<1>2. PICK m \in Nat : p = m * s
  BY <1>1, AlignedIs
<1>3. m + 1 \in Nat /\ p + s = (m + 1) * s /\ p + s \in Nat
  BY <1>1, <1>2
<1> QED
  BY <1>1, <1>3, AlignedIs

\* Of two aligned blocks that overlap the smaller one lies in the other.
LEMMA Nested ==
    ASSUME NEW p \in Nat, NEW j \in Order, Aligned(p, j),
           NEW q \in Nat, NEW k \in Order, Aligned(q, k), j <= k,
           NEW x \in Nat, p <= x, x < p + Size[j], q <= x, x < q + Size[k]
    PROVE  q <= p /\ p + Size[j] <= q + Size[k]
<1>1. PICK s \in Nat \ {0}, t \in Nat \ {0} : s = Size[j] /\ t = Size[k]
  BY SizeIs
<1>2. q + t \in Nat /\ Aligned(q + t, k)
  BY <1>1, AlignedNext
<1>3. Aligned(q, j) /\ Aligned(q + t, j)
  BY <1>2, AlignedDown
<1>4. ~(p < q)
  <2> SUFFICES ASSUME p < q
               PROVE  FALSE
    OBVIOUS
  <2>1. p + s <= q
    BY <1>1, <1>3, AlignedGap
  <2> QED
    BY <1>1, <2>1
<1>5. p < q + t
  BY <1>1
<1>6. p + s <= q + t
  BY <1>1, <1>2, <1>3, <1>5, AlignedGap
<1> QED
  BY <1>1, <1>4, <1>6

LEMMA BaseIs ==
    ASSUME NEW p \in Nat, NEW k \in Order
    PROVE  /\ Base(p, k) \in Nat /\ Aligned(Base(p, k), k)
           /\ Base(p, k) <= p /\ p < Base(p, k) + Size[k]
           /\ \A q \in Nat : Aligned(q, k) /\ q <= p /\ p < q + Size[k] => Base(p, k) = q
<1>1. PICK s \in Nat \ {0} : s = Size[k]
  BY SizeIs
<1>2. PICK m \in Nat, b \in Nat : m = p \div s /\ b = p - (p % s) /\ b = m * s /\ b <= p /\ p < b + s
  <2>1. p = (p \div s) * s + (p % s) /\ p \div s \in Nat /\ p % s \in 0 .. s - 1
    BY <1>1
  <2> QED
    BY <2>1
<1>3. Base(p, k) = b
  BY <1>1, <1>2 DEF Base
<1>4. Aligned(b, k)
  BY <1>1, <1>2, AlignedIs
<1>5. ASSUME NEW q \in Nat, Aligned(q, k), q <= p, p < q + s
      PROVE  b = q
  <2>1. b < q => b + s <= q
    BY <1>1, <1>4, <1>5, AlignedGap
  <2>2. q < b => q + s <= b
    BY <1>1, <1>4, <1>5, AlignedGap
  <2> QED
    BY <1>1, <1>2, <1>5, <2>1, <2>2
<1> QED
  BY <1>1, <1>2, <1>3, <1>4, <1>5

\* A block and its buddy are the halves of the next larger block.
LEMMA BuddyIs ==
    ASSUME NEW p \in Nat, NEW k \in Order, k + 1 \in Order, Aligned(p, k)
    PROVE  /\ BuddyOf(p, k) \in Nat /\ Aligned(BuddyOf(p, k), k)
           /\ \/ p = Base(p, k + 1) /\ BuddyOf(p, k) = p + Size[k]
              \/ BuddyOf(p, k) = Base(p, k + 1) /\ p = BuddyOf(p, k) + Size[k]
           /\ BuddyOf(BuddyOf(p, k), k) = p
<1>1. PICK s \in Nat \ {0} : s = Size[k] /\ Size[k + 1] = 2 * s
  BY SizeIs
<1>2. PICK m \in Nat : p = m * s
  BY <1>1, AlignedIs
<1>3. p \div s = m /\ (p + s) \div s = m + 1 /\ (m > 0 => (p - s) \div s = m - 1)
  <2>1. p + s = (m + 1) * s /\ (m > 0 => p - s = (m - 1) * s)
    BY <1>1, <1>2
  <2>2. \A i \in Nat : (i * s) \div s = i
    BY <1>1
  <2> QED
    BY <1>2, <2>1, <2>2
<1>4. CASE m % 2 = 0
  <2>1. PICK i \in Nat : m = 2 * i
    BY <1>4
  <2>2. Aligned(p, k + 1)
    <3>1. p = i * (2 * s)
      BY <1>1, <1>2, <2>1
    <3> QED
      BY <1>1, <3>1, AlignedIs
  <2>3. Base(p, k + 1) = p
    BY <1>1, <2>2, BaseIs
  <2>4. BuddyOf(p, k) = p + s
    BY <1>1, <1>3, <1>4 DEF BuddyOf
  <2>5. BuddyOf(p + s, k) = p
    <3>1. ((p + s) \div s) % 2 # 0
      BY <1>3, <2>1
    <3>2. BuddyOf(p + s, k) = (p + s) - s
      BY <1>1, <3>1 DEF BuddyOf
    <3> QED
      BY <1>1, <3>2
  <2>6. p + s \in Nat /\ Aligned(p + s, k)
    BY <1>1, AlignedNext
  <2> QED
    BY <1>1, <2>3, <2>4, <2>5, <2>6
<1>5. CASE m % 2 = 1
  <2>1. PICK i \in Nat : m = 2 * i + 1
    BY <1>5
  <2>2. PICK b \in Nat : b = p - s /\ b = i * (2 * s) /\ b = (m - 1) * s /\ m - 1 \in Nat
    <3>1. p = (2 * i + 1) * s
      BY <1>2, <2>1
    <3>2. (2 * i + 1) * s = i * (2 * s) + s /\ i * (2 * s) \in Nat
      BY <1>1
    <3>3. (m - 1) * s = i * (2 * s) /\ m - 1 \in Nat
      BY <1>1, <2>1
    <3> QED
      BY <1>1, <3>1, <3>2, <3>3
  <2>3. Aligned(b, k + 1) /\ Aligned(b, k)
    <3>1. b = i * Size[k + 1] /\ b = (m - 1) * Size[k]
      BY <1>1, <2>2
    <3>2. Aligned(b, k + 1)
      BY <2>1, <2>2, <3>1, AlignedIs
    <3>3. Aligned(b, k)
      BY <2>2, <3>1, AlignedIs
    <3> QED
      BY <3>2, <3>3
  <2>4. Base(p, k + 1) = b
    <3>1. b <= p /\ p < b + Size[k + 1]
      BY <1>1, <2>2
    <3> QED
      BY <2>2, <2>3, <3>1, BaseIs
  <2>5. BuddyOf(p, k) = b
    BY <1>1, <1>3, <1>5, <2>2 DEF BuddyOf
  <2>6. BuddyOf(b, k) = p
    <3>1. b \div s = m - 1 /\ (m - 1) % 2 = 0
      BY <1>3, <2>1, <2>2
    <3>2. BuddyOf(b, k) = b + s
      BY <1>1, <3>1 DEF BuddyOf
    <3> QED
      BY <1>1, <2>2, <3>2
  <2> QED
    BY <1>1, <2>2, <2>3, <2>4, <2>5, <2>6
<1> QED
  BY <1>2, <1>4, <1>5

-----------------------------------------------------------------------------
(***************************************************************************)
(* Sets of blocks.                                                         *)
(***************************************************************************)
IsBlock(b) == b \in Nat \X Order /\ Aligned(b[1], b[2])

\* B are blocks that do not overlap
Blocks(B) ==
    /\ \A b \in B : IsBlock(b)
    /\ \A b, c \in B : b # c => Pages(b) \cap Pages(c) = {}

Cover(B) == UNION {Pages(b) : b \in B}

LEMMA PagesIs ==
    ASSUME NEW b, IsBlock(b)
    PROVE  /\ b[1] \in Nat /\ b[2] \in Order /\ b = <<b[1], b[2]>>
           /\ Size[b[2]] \in Nat \ {0} /\ b[1] \in Pages(b)
           /\ \A x : x \in Pages(b) <=> x \in Nat /\ b[1] <= x /\ x < b[1] + Size[b[2]]
<1>1. b[1] \in Nat /\ b[2] \in Order /\ b = <<b[1], b[2]>>
  BY DEF IsBlock
<1>2. PICK p \in Nat, s \in Nat \ {0} : p = b[1] /\ s = Size[b[2]]
  BY <1>1, SizeIs
<1>3. Pages(b) = p .. p + s - 1
  BY <1>2 DEF Pages
<1> QED
  BY <1>1, <1>2, <1>3

LEMMA NestedBlocks ==
    ASSUME NEW b, NEW c, IsBlock(b), IsBlock(c), b[2] <= c[2],
           NEW x, x \in Pages(b), x \in Pages(c)
    PROVE  /\ Pages(b) \subseteq Pages(c)
           /\ b[2] = c[2] => b = c
<1>1. /\ b[1] \in Nat /\ b[2] \in Order /\ Aligned(b[1], b[2]) /\ b = <<b[1], b[2]>>
      /\ c[1] \in Nat /\ c[2] \in Order /\ Aligned(c[1], c[2]) /\ c = <<c[1], c[2]>>
  BY PagesIs DEF IsBlock
<1>2. PICK p \in Nat, j \in Order, q \in Nat, k \in Order :
        p = b[1] /\ j = b[2] /\ q = c[1] /\ k = c[2]
  BY <1>1
<1>3. PICK s \in Nat \ {0}, t \in Nat \ {0} : s = Size[j] /\ t = Size[k]
  BY SizeIs
<1>4. /\ \A y : y \in Pages(b) <=> y \in Nat /\ p <= y /\ y < p + s
      /\ \A y : y \in Pages(c) <=> y \in Nat /\ q <= y /\ y < q + t
  BY <1>2, <1>3, PagesIs
<1>5. Aligned(p, j) /\ Aligned(q, k) /\ j <= k /\ x \in Nat /\ p <= x /\ x < p + s /\ q <= x /\ x < q + t
  BY <1>1, <1>2, <1>4
<1>6. q <= p /\ p + s <= q + t
  BY <1>3, <1>5, Nested
<1>7. Pages(b) \subseteq Pages(c)
  BY <1>4, <1>6
<1>8. j = k => b = c
  BY <1>1, <1>2, <1>3, <1>6
<1> QED
  BY <1>2, <1>7, <1>8

\* A page is in the block at its base, and blocks of one order are told by any page.
LEMMA BaseBlock ==
    ASSUME NEW p \in Nat, NEW k \in Order
    PROVE  /\ IsBlock(<<Base(p, k), k>>) /\ p \in Pages(<<Base(p, k), k>>)
           /\ IsBlock(<<p, k>>) => Base(p, k) = p
<1>1. PICK h : h = Base(p, k)
  OBVIOUS
<1>2. PICK s \in Nat \ {0} : s = Size[k]
  BY SizeIs
<1>3. h \in Nat /\ Aligned(h, k) /\ h <= p /\ p < h + s
  BY <1>1, <1>2, BaseIs
<1>4. IsBlock(<<h, k>>)
  BY <1>3 DEF IsBlock
<1>5. p \in Pages(<<h, k>>)
  BY <1>2, <1>3, <1>4, PagesIs
<1>6. ASSUME IsBlock(<<p, k>>)
      PROVE  h = p
  <2>1. Aligned(p, k) /\ p <= p /\ p < p + s
    BY <1>2, <1>6 DEF IsBlock
  <2> QED
    BY <1>1, <1>2, <2>1, BaseIs
<1> QED
  BY <1>1, <1>4, <1>5, <1>6

\* The next larger block around a page consists of two buddies.
LEMMA BaseUp ==
    ASSUME NEW p \in Nat, NEW k \in Order, k + 1 \in Order
    PROVE  /\ IsBlock(<<BuddyOf(Base(p, k), k), k>>)
           /\ Pages(<<Base(p, k), k>>) \cap Pages(<<BuddyOf(Base(p, k), k), k>>) = {}
           /\ Pages(<<Base(p, k + 1), k + 1>>)
                = Pages(<<Base(p, k), k>>) \cup Pages(<<BuddyOf(Base(p, k), k), k>>)
           /\ Base(p, k + 1) \in {Base(p, k), BuddyOf(Base(p, k), k)}
<1>1. PICK q, b, h : q = Base(p, k) /\ b = BuddyOf(q, k) /\ h = Base(q, k + 1)
  OBVIOUS
<1>2. PICK s \in Nat \ {0} : s = Size[k] /\ Size[k + 1] = 2 * s
  BY SizeIs
<1>3. q \in Nat /\ Aligned(q, k) /\ q <= p /\ p < q + s
  BY <1>1, <1>2, BaseIs
<1>4. /\ b \in Nat /\ Aligned(b, k)
      /\ (q = h /\ b = q + s) \/ (b = h /\ q = b + s)
  BY <1>1, <1>2, <1>3, BuddyIs
<1>5. h \in Nat /\ Aligned(h, k + 1)
  BY <1>1, <1>3, BaseIs
<1>6. Base(p, k + 1) = h
  <2>1. h <= p /\ p < h + Size[k + 1]
    BY <1>2, <1>3, <1>4, <1>5
  <2> QED
    BY <1>5, <2>1, BaseIs
<1>7. IsBlock(<<q, k>>) /\ IsBlock(<<b, k>>) /\ IsBlock(<<h, k + 1>>)
  BY <1>3, <1>4, <1>5 DEF IsBlock
<1>8. /\ \A x : x \in Pages(<<q, k>>) <=> x \in Nat /\ q <= x /\ x < q + s
      /\ \A x : x \in Pages(<<b, k>>) <=> x \in Nat /\ b <= x /\ x < b + s
      /\ \A x : x \in Pages(<<h, k + 1>>) <=> x \in Nat /\ h <= x /\ x < h + 2 * s
  <2>1. \A y, j : IsBlock(<<y, j>>) =>
          \A x : x \in Pages(<<y, j>>) <=> x \in Nat /\ y <= x /\ x < y + Size[j]
    <3> SUFFICES ASSUME NEW y, NEW j, IsBlock(<<y, j>>)
                 PROVE  \A x : x \in Pages(<<y, j>>) <=> x \in Nat /\ y <= x /\ x < y + Size[j]
      OBVIOUS
    <3>1. PICK c : c = <<y, j>>
      OBVIOUS
    <3>2. IsBlock(c) /\ c[1] = y /\ c[2] = j
      BY <3>1
    <3> QED
      BY <3>1, <3>2, PagesIs
  <2> QED
    BY <1>2, <1>7, <2>1
<1>9. Pages(<<q, k>>) \cap Pages(<<b, k>>) = {}
  BY <1>2, <1>3, <1>4, <1>8
<1>10. ASSUME NEW x
       PROVE  x \in Pages(<<h, k + 1>>) <=> x \in Pages(<<q, k>>) \/ x \in Pages(<<b, k>>)
  BY <1>2, <1>3, <1>4, <1>8
<1>11. Pages(<<h, k + 1>>) = Pages(<<q, k>>) \cup Pages(<<b, k>>)
  BY <1>10
<1> QED
  BY <1>1, <1>4, <1>6, <1>7, <1>9, <1>11

\* Blocks of a set may be replaced by others that consist of the same pages.
LEMMA Replaced ==
    ASSUME NEW B, NEW M, NEW N, Blocks(B), M \subseteq B, Blocks(N), Cover(N) = Cover(M)
    PROVE  /\ Blocks((B \ M) \cup N)
           /\ Cover((B \ M) \cup N) = Cover(B)
           /\ N \cap (B \ M) = {}
<1>1. \A b \in B \ M : \A c \in N : Pages(b) \cap Pages(c) = {}
  <2> SUFFICES ASSUME NEW b \in B \ M, NEW c \in N, NEW x, x \in Pages(b), x \in Pages(c)
               PROVE  FALSE
    OBVIOUS
  <2>1. x \in Cover(M)
    BY DEF Cover
  <2>2. PICK m \in M : x \in Pages(m)
    BY <2>1 DEF Cover
  <2> QED
    BY <2>2 DEF Blocks
<1>2. \A b \in B \cup N : IsBlock(b) /\ b[1] \in Pages(b)
  BY PagesIs DEF Blocks
<1>3. N \cap (B \ M) = {}
  BY <1>1, <1>2
<1>4. Blocks((B \ M) \cup N)
  BY <1>1 DEF Blocks
<1>5. Cover((B \ M) \cup N) = Cover(B)
  <2>1. Cover((B \ M) \cup N) = Cover(B \ M) \cup Cover(N) /\ Cover(B) = Cover(B \ M) \cup Cover(M)
    BY DEF Cover
  <2> QED
    BY <2>1
<1> QED
  BY <1>3, <1>4, <1>5

\* What splitting makes of a block, and what merging puts together: block p of order
\* k, and the buddies it has to join on its way up to order n.
Chain(p, k, n) == {<<p, k>>} \cup {<<BuddyOf(Base(p, j), j), j>> : j \in k .. n - 1}

LEMMA ChainIs ==
    ASSUME NEW p \in Nat, NEW k \in Order, NEW n \in Order, k <= n, IsBlock(<<p, k>>)
    PROVE  /\ Blocks(Chain(p, k, n))
           /\ Cover(Chain(p, k, n)) = Pages(<<Base(p, n), n>>)
<1> DEFINE Good(i) == /\ Blocks(Chain(p, k, i))
                      /\ Cover(Chain(p, k, i)) = Pages(<<Base(p, i), i>>)
           Bad == {i \in Order : k <= i /\ ~Good(i)}
<1>1. SUFFICES ASSUME Bad # {}
               PROVE  FALSE
  OBVIOUS
<1>2. PICK i \in Bad : \A m \in Bad : i <= m
  <2>1. Bad \in SUBSET Nat
    BY OrderIs
  <2> HIDE DEF Bad
  <2> QED
    BY <1>1, <2>1, LeastElement
<1>3. i \in Order /\ k <= i /\ ~Good(i)
  BY <1>2
<1>4. CASE i = k
  <2>1. Chain(p, k, i) = {<<p, k>>}
    BY <1>4, OrderIs DEF Chain
  <2>2. Base(p, k) = p
    BY BaseBlock
  <2>3. Blocks({<<p, k>>}) /\ Cover({<<p, k>>}) = Pages(<<p, k>>)
    BY DEF Blocks, Cover
  <2> QED
    BY <1>3, <1>4, <2>1, <2>2, <2>3
<1>5. CASE i # k
  <2>1. PICK l \in Order : l = i - 1 /\ l + 1 = i /\ k <= l /\ ~(i <= l)
    BY <1>3, <1>5, OrderIs
  <2>2. Good(l)
    <3> HIDE DEF Good
    <3>1. l \notin Bad
      <4> HIDE DEF Bad
      <4> QED
        BY <1>2, <2>1
    <3> QED
      BY <2>1, <3>1
  <2>3. PICK x : x = <<BuddyOf(Base(p, l), l), l>>
    OBVIOUS
  <2>4. Chain(p, k, i) = Chain(p, k, l) \cup {x}
    <3>1. k .. i - 1 = (k .. l - 1) \cup {l}
      BY <1>3, <2>1, OrderIs
    <3> QED
      BY <2>3, <3>1 DEF Chain
  <2>5. /\ IsBlock(x) /\ Pages(<<Base(p, l), l>>) \cap Pages(x) = {}
        /\ Pages(<<Base(p, i), i>>) = Pages(<<Base(p, l), l>>) \cup Pages(x)
    <3> HIDE DEF Good, Bad
    <3>1. l + 1 \in Order
      BY <1>3, <2>1
    <3>2. /\ IsBlock(<<BuddyOf(Base(p, l), l), l>>)
          /\ Pages(<<Base(p, l), l>>) \cap Pages(<<BuddyOf(Base(p, l), l), l>>) = {}
          /\ Pages(<<Base(p, l + 1), l + 1>>)
               = Pages(<<Base(p, l), l>>) \cup Pages(<<BuddyOf(Base(p, l), l), l>>)
      BY <3>1, BaseUp
    <3> QED
      BY <2>1, <2>3, <3>2
  <2>6. PICK C : C = Chain(p, k, l)
    OBVIOUS
  <2>7. Blocks(C) /\ Cover(C) \cap Pages(x) = {}
    BY <2>2, <2>5, <2>6
  <2>8. Blocks(C \cup {x})
    BY <2>5, <2>7 DEF Blocks, Cover
  <2>9. Cover(C \cup {x}) = Cover(C) \cup Pages(x)
    BY DEF Cover
  <2> QED
    BY <1>3, <2>2, <2>4, <2>5, <2>6, <2>8, <2>9
<1> QED
  BY <1>4, <1>5

\* Two buddies are never both in F.
NoBuddies(F) == \A b \in F : b[2] < MAX_ORDER => <<BuddyOf(b[1], b[2]), b[2]>> \notin F

\* A block whose pages are covered by blocks that are no larger, no two of them buddies,
\* is one of them.
LEMMA Fills ==
    ASSUME NEW F, Blocks(F), NoBuddies(F), NEW b, IsBlock(b), Pages(b) \subseteq Cover(F),
           \A c \in F : Pages(c) \cap Pages(b) # {} => c[2] <= b[2]
    PROVE  b \in F
<1> DEFINE S == {j \in Order : \E c \in F : c[2] = j /\ Pages(c) \cap Pages(b) # {}}
<1>1. \A c \in F : IsBlock(c) /\ c[1] \in Nat /\ c[2] \in Order /\ c = <<c[1], c[2]>> /\ c[1] \in Pages(c)
  BY PagesIs DEF Blocks
<1>2. S # {}
  <2>1. b[1] \in Cover(F) /\ b[1] \in Pages(b)
    BY PagesIs
  <2>2. PICK c \in F : b[1] \in Pages(c)
    BY <2>1 DEF Cover
  <2> QED
    BY <1>1, <2>1, <2>2
<1>3. PICK j \in S : \A i \in S : j <= i
  <2>1. S \in SUBSET Nat
    BY OrderIs
  <2> HIDE DEF S
  <2> QED
    BY <1>2, <2>1, LeastElement
<1>4. PICK c, x : c \in F /\ c[2] = j /\ x \in Pages(c) /\ x \in Pages(b)
  BY <1>3
<1>5. \A e \in F : \A y : y \in Pages(e) /\ y \in Pages(b) => j <= e[2]
  BY <1>1, <1>3
<1>6. j \in Order /\ j <= b[2] /\ b[2] \in Order
  BY <1>1, <1>4, PagesIs
<1>7. CASE j = b[2]
  <2>1. c = b
    BY <1>1, <1>4, <1>6, <1>7, NestedBlocks
  <2> QED
    BY <1>4, <2>1
<1>8. CASE j < b[2]
  <2>1. j + 1 \in Order /\ j + 1 <= b[2] /\ j < MAX_ORDER
    BY <1>6, <1>8, OrderIs
  <2>2. PICK d, y : d = <<BuddyOf(c[1], j), j>> /\ y = <<Base(c[1], j + 1), j + 1>>
    OBVIOUS
  <2>3. Base(c[1], j) = c[1]
    <3>1. PICK q : q = c[1]
      OBVIOUS
    <3>2. q \in Nat /\ <<q, j>> = c /\ IsBlock(<<q, j>>)
      BY <1>1, <1>4, <3>1
    <3>3. Base(q, j) = q
      BY <1>6, <3>2, BaseBlock
    <3> QED
      BY <3>1, <3>3
  <2>4. IsBlock(d) /\ IsBlock(y) /\ Pages(y) = Pages(c) \cup Pages(d) /\ d[1] \in Pages(d)
    <3>1. c[1] \in Nat /\ c = <<c[1], j>>
      BY <1>1, <1>4
    <3>2. /\ IsBlock(<<BuddyOf(Base(c[1], j), j), j>>)
          /\ Pages(<<Base(c[1], j + 1), j + 1>>)
               = Pages(<<Base(c[1], j), j>>) \cup Pages(<<BuddyOf(Base(c[1], j), j), j>>)
      BY <1>6, <2>1, <3>1, BaseUp
    <3>3. IsBlock(d) /\ Pages(y) = Pages(c) \cup Pages(d)
      BY <2>2, <2>3, <3>1, <3>2
    <3>4. IsBlock(y)
      BY <2>1, <2>2, <3>1, BaseBlock
    <3> QED
      BY <3>3, <3>4, PagesIs
  <2>5. d[2] = j /\ y[2] = j + 1
    BY <2>2
  <2>6. Pages(y) \subseteq Pages(b)
    BY <1>4, <2>1, <2>4, <2>5, NestedBlocks
  <2>7. PICK e \in F : d[1] \in Pages(e)
    BY <2>4, <2>6 DEF Cover
  <2>8. j <= e[2] /\ e[2] \in Order
    BY <1>1, <1>5, <2>4, <2>6, <2>7
  <2>9. CASE e[2] = j
    <3>1. d = e
      BY <1>1, <2>4, <2>5, <2>7, <2>9, <1>6, OrderIs, NestedBlocks
    <3> QED
      BY <1>4, <2>1, <2>2, <3>1 DEF NoBuddies
  <2>10. CASE e[2] # j
    <3>1. y[2] <= e[2] /\ d[1] \in Pages(y)
      BY <1>6, <2>4, <2>5, <2>8, <2>10, OrderIs
    <3>2. Pages(y) \subseteq Pages(e)
      BY <1>1, <2>4, <2>7, <3>1, NestedBlocks
    <3>3. x \in Pages(e) /\ c # e
      BY <1>4, <2>4, <2>10, <3>2
    <3> QED
      BY <1>4, <3>3 DEF Blocks
  <2> QED
    BY <2>9, <2>10
<1> QED
  BY <1>6, <1>7, <1>8, OrderIs

-----------------------------------------------------------------------------
(***************************************************************************)
(* The inductive invariant.                                                *)
(***************************************************************************)

\* The lists hold each block once, in the zone that it lies in.
Shelved ==
    \A z \in DOMAIN Zones : \A k \in Order :
        IsInjective(lists[z][k]) /\ ToSet(lists[z][k]) \subseteq ZoneOf(z)

\* No block reaches from one zone into another.
InZones == \A b \in Free \cup live : Pages(b) \subseteq ZoneOf(PageZone(b[1]))

\* What a flag says of the first page of a block is true, and the pages that were
\* reserved at boot read as busy.  Flags of other pages may be stale.
FlagsTrue ==
    /\ \A b \in Free : mark[b[1]] = b[2]
    /\ \A b \in live : mark[b[1]] = Busy
    /\ \A p \in Page \ Given : mark[p] = Busy

\* While range i is being carved, its blocks are as large as they can be: the block
\* in which such a block would be the first half reaches beyond the range.
CarvedLarge ==
    \A i \in DOMAIN FreeRanges : rest[i] < End(i) =>
        \A b \in Free :
            /\ b[2] < MAX_ORDER /\ Aligned(b[1], b[2] + 1)
            /\ Start(i) < b[1] + Size[b[2]] /\ b[1] + Size[b[2]] <= End(i)
            => End(i) < b[1] + Size[b[2] + 1]

PageInv ==
    /\ PageTypeOK
    /\ Shelved
    /\ Blocks(Free \cup live)
    /\ Cover(Free \cup live) = Carved
    /\ Free \cap live = {}
    /\ InZones
    /\ FlagsTrue
    /\ NoBuddies(Free)
    /\ Ready \/ live = {}
    /\ CarvedLarge

-----------------------------------------------------------------------------
(***************************************************************************)
(* What the lists, the zones and the choices of the code mean.             *)
(***************************************************************************)

\* A page is in one zone only.
LEMMA ZoneIs ==
    ASSUME NEW z \in DOMAIN Zones, NEW p \in ZoneOf(z)
    PROVE  PageZone(p) = z /\ p \in Nat /\ p \in Page
<1>1. \A y \in DOMAIN Zones : Zones[y][1] \in Nat /\ Zones[y][2] \in Nat
  BY PageAllocAssumption
<1>2. p \in Nat /\ p \in Page
  BY <1>1 DEF Page, ZoneOf
<1>3. ASSUME NEW y \in DOMAIN Zones, p \in ZoneOf(y)
      PROVE  y = z
  <2>1. y # z => Zones[y][2] < Zones[z][1] \/ Zones[z][2] < Zones[y][1]
    BY PageAllocAssumption DEF Separate
  <2> QED
    BY <1>1, <1>3, <2>1 DEF ZoneOf
<1> QED
  BY <1>2, <1>3 DEF PageZone

LEMMA PageIs ==
    ASSUME NEW p \in Page
    PROVE  p \in Nat /\ PageZone(p) \in DOMAIN Zones /\ p \in ZoneOf(PageZone(p))
<1>1. PICK z \in DOMAIN Zones : p \in ZoneOf(z)
  BY DEF Page
<1> QED
  BY <1>1, ZoneIs

\* Two pages next to each other are in one zone, if both are in zones.
LEMMA ZonesApart ==
    ASSUME NEW z \in DOMAIN Zones, NEW y \in DOMAIN Zones, NEW p \in ZoneOf(z), p + 1 \in ZoneOf(y)
    PROVE  y = z
<1>1. Zones[y][1] \in Nat /\ Zones[y][2] \in Nat /\ Zones[z][1] \in Nat /\ Zones[z][2] \in Nat
  BY PageAllocAssumption
<1>2. y # z => Zones[y][2] < Zones[z][1] \/ Zones[z][2] < Zones[y][1]
  BY PageAllocAssumption DEF Separate
<1> QED
  BY <1>1, <1>2 DEF ZoneOf

\* The free blocks of a zone are those that its lists hold.
LEMMA FreeIs ==
    ASSUME PageTypeOK, Shelved
    PROVE  /\ \A b : b \in Free <=> \E z, k, q :
                z \in DOMAIN Zones /\ k \in Order /\ q \in ToSet(lists[z][k]) /\ b = <<q, k>>
           /\ \A b \in Free : b \in Page \X Order
           /\ \A z \in DOMAIN Zones : \A k \in Order : \A q :
                q \in ToSet(lists[z][k]) <=> q \in ZoneOf(z) /\ <<q, k>> \in Free
<1>1. \A b : b \in Free <=> \E z, k, q :
          z \in DOMAIN Zones /\ k \in Order /\ q \in ToSet(lists[z][k]) /\ b = <<q, k>>
  BY DEF Free, Listed
<1>2. \A z \in DOMAIN Zones : \A k \in Order : \A q \in ToSet(lists[z][k]) : q \in ZoneOf(z)
  BY DEF Shelved
<1>3. \A b \in Free : b \in Page \X Order
  BY <1>1, <1>2 DEF Page
<1>4. ASSUME NEW z \in DOMAIN Zones, NEW k \in Order, NEW q \in ZoneOf(z), <<q, k>> \in Free
      PROVE  q \in ToSet(lists[z][k])
  <2>1. PICK y, j, r :
          y \in DOMAIN Zones /\ j \in Order /\ r \in ToSet(lists[y][j]) /\ <<q, k>> = <<r, j>>
    BY <1>1, <1>4
  <2>2. q \in ToSet(lists[y][k])
    BY <2>1
  <2>3. q \in ZoneOf(y)
    BY <2>1, <1>2, <2>2
  <2>4. y = z
    BY <2>1, <2>3, ZoneIs
  <2> QED
    BY <2>2, <2>4
<1> QED
  BY <1>1, <1>2, <1>3, <1>4

\* f are lists of zone z from which the blocks of Out are missing and to which those
\* of In were added.
Refiled(z, f, Out, In) ==
    /\ f \in [Order -> Seq(Page)]
    /\ \A b \in Out \cup In : b[1] \in ZoneOf(z) /\ b[2] \in Order /\ b = <<b[1], b[2]>>
    /\ \A k \in Order :
         /\ IsInjective(f[k])
         /\ \A q : q \in ToSet(f[k]) <=>
              /\ q \in ZoneOf(z)
              /\ (<<q, k>> \in Free /\ <<q, k>> \notin Out) \/ <<q, k>> \in In

\* Such lists take the place of those of zone z.
Refile(z, f, Out, In) == Refiled(z, f, Out, In) /\ lists' = [lists EXCEPT ![z] = f]

\* When the lists of one zone change, so do the free blocks.
LEMMA ListsBecome ==
    ASSUME PageTypeOK, Shelved, NEW z \in DOMAIN Zones, NEW f, NEW Out, NEW In, Refile(z, f, Out, In)
    PROVE  /\ lists' \in [DOMAIN Zones -> [Order -> Seq(Page)]]
           /\ Shelved'
           /\ Free' = (Free \ Out) \cup In
<1>0. /\ f \in [Order -> Seq(Page)]
      /\ \A b \in Out \cup In : b[1] \in ZoneOf(z) /\ b[2] \in Order /\ b = <<b[1], b[2]>>
      /\ \A k \in Order :
           /\ IsInjective(f[k])
           /\ \A q : q \in ToSet(f[k]) <=>
                /\ q \in ZoneOf(z)
                /\ (<<q, k>> \in Free /\ <<q, k>> \notin Out) \/ <<q, k>> \in In
  BY DEF Refile, Refiled
<1>1. lists \in [DOMAIN Zones -> [Order -> Seq(Page)]]
  BY DEF PageTypeOK
<1>2. lists' \in [DOMAIN Zones -> [Order -> Seq(Page)]] /\ lists'[z] = f
  BY <1>0, <1>1 DEF Refile
<1>3. \A y \in DOMAIN Zones : y # z => lists'[y] = lists[y]
  BY <1>1 DEF Refile
<1>4. Shelved'
  <2> SUFFICES ASSUME NEW y \in DOMAIN Zones, NEW k \in Order
               PROVE  IsInjective(lists'[y][k]) /\ ToSet(lists'[y][k]) \subseteq ZoneOf(y)
    BY DEF Shelved
  <2>1. CASE y = z
    BY <1>0, <1>2, <2>1
  <2>2. CASE y # z
    BY <1>3, <2>2 DEF Shelved
  <2> QED
    BY <2>1, <2>2
<1>5. \A b : b \in Free' <=> \E y, k, q :
          y \in DOMAIN Zones /\ k \in Order /\ q \in ToSet(lists'[y][k]) /\ b = <<q, k>>
  BY DEF Free, Listed
<1>6. ASSUME NEW b \in Free'
      PROVE  b \in (Free \ Out) \cup In
  <2>1. PICK y, k, q :
          y \in DOMAIN Zones /\ k \in Order /\ q \in ToSet(lists'[y][k]) /\ b = <<q, k>>
    BY <1>5
  <2>2. CASE y = z
    BY <1>0, <1>2, <2>1, <2>2
  <2>3. CASE y # z
    <3>1. q \in ToSet(lists[y][k])
      BY <1>3, <2>1, <2>3
    <3>2. q \in ZoneOf(y) /\ <<q, k>> \in Free
      BY <2>1, <3>1, FreeIs
    <3>3. q \notin ZoneOf(z)
      BY <2>1, <2>3, <3>2, ZoneIs
    <3>4. <<q, k>> \notin Out
      BY <1>0, <3>3
    <3> QED
      BY <2>1, <3>2, <3>4
  <2> QED
    BY <2>2, <2>3
<1>7. ASSUME NEW b \in (Free \ Out) \cup In
      PROVE  b \in Free'
  <2>1. CASE b[1] \in ZoneOf(z) /\ b[2] \in Order /\ b = <<b[1], b[2]>>
    <3>1. PICK q \in ZoneOf(z), k \in Order : b = <<q, k>>
      BY <2>1
    <3>2. q \in ToSet(f[k])
      BY <1>0, <1>7, <3>1
    <3> QED
      BY <1>2, <1>5, <3>1, <3>2
  <2>2. CASE ~(b[1] \in ZoneOf(z) /\ b[2] \in Order /\ b = <<b[1], b[2]>>)
    <3>1. b \in Free
      BY <1>0, <1>7, <2>2
    <3>2. PICK y, k, q :
          y \in DOMAIN Zones /\ k \in Order /\ q \in ToSet(lists[y][k]) /\ b = <<q, k>>
      BY <3>1, FreeIs
    <3>3. y # z
      <4>1. q \in ZoneOf(y)
        BY <3>2 DEF Shelved
      <4> QED
        BY <2>2, <3>2, <4>1
    <3> QED
      BY <1>3, <1>5, <3>2, <3>3
  <2> QED
    BY <2>1, <2>2
<1> QED
  BY <1>2, <1>4, <1>6, <1>7

\* There is a largest block that fits at the beginning of what is left of a range.
LEMMA OrderAtIs ==
    ASSUME NEW p \in Nat, NEW end \in Nat, p < end
    PROVE  /\ OrderAt(p, end) \in Order
           /\ Aligned(p, OrderAt(p, end)) /\ p + Size[OrderAt(p, end)] <= end
           /\ \A j \in Order : Aligned(p, j) /\ p + Size[j] <= end => j <= OrderAt(p, end)
<1> DEFINE Fit == {j \in Order : Aligned(p, j) /\ p + Size[j] <= end}
           S == {MAX_ORDER - j : j \in Fit}
<1>1. 0 \in Fit
  <2>1. 0 \in Order /\ Size[0] = 1
    BY OrderIs, SizeIs
  <2>2. Aligned(p, 0)
    BY <2>1, AlignedIs
  <2> QED
    BY <2>1, <2>2
<1>2. PICK m \in S : \A i \in S : m <= i
  <2>1. S \in SUBSET Nat /\ S # {}
    BY <1>1, OrderIs
  <2> HIDE DEF S
  <2> QED
    BY <2>1, LeastElement
<1>3. PICK k \in Fit : m = MAX_ORDER - k
  BY <1>2
<1>4. \A j \in Fit : j <= k
  <2> SUFFICES ASSUME NEW j \in Fit
               PROVE  j <= k
    OBVIOUS
  <2>1. MAX_ORDER - k <= MAX_ORDER - j
    BY <1>2, <1>3
  <2> QED
    BY <2>1, OrderIs
<1> QED
  BY <1>4 DEF OrderAt

\* Merging stops, at the first order at which the buddy cannot be taken.
LEMMA GrownIs ==
    ASSUME NEW p, NEW k \in Order
    PROVE  /\ Grown(p, k) \in Order /\ k <= Grown(p, k)
           /\ ~Merges(p, Grown(p, k))
           /\ \A j \in k .. Grown(p, k) - 1 : Merges(p, j)
<1> DEFINE S == {g \in k .. MAX_ORDER : ~Merges(p, g)}
<1>1. PICK g \in S : \A i \in S : g <= i
  <2>1. S \in SUBSET Nat
    BY OrderIs
  <2>2. MAX_ORDER \in S
    BY OrderIs DEF Merges
  <2> HIDE DEF S
  <2> QED
    BY <2>1, <2>2, LeastElement
<1>2. ASSUME NEW j \in k .. g - 1
      PROVE  Merges(p, j)
  <2>1. j \in k .. MAX_ORDER /\ ~(g <= j)
    BY <1>1, OrderIs
  <2> QED
    BY <1>1, <2>1
<1>3. \A i \in k .. MAX_ORDER : i \in Order /\ k <= i
  BY OrderIs
<1>4. /\ Grown(p, k) \in k .. MAX_ORDER
      /\ ~Merges(p, Grown(p, k))
      /\ \A j \in k .. Grown(p, k) - 1 : Merges(p, j)
  BY <1>1, <1>2 DEF Grown
<1> QED
  BY <1>3, <1>4

\* In a set of blocks a page is in one block only, and that is the larger of any two
\* blocks that hold it.
LEMMA Holder ==
    ASSUME NEW B, Blocks(B), NEW x, x \in Cover(B)
    PROVE  \E c \in B :
             /\ x \in Pages(c) /\ \A e \in B : x \in Pages(e) => e = c
             /\ \A b : IsBlock(b) /\ x \in Pages(b) /\ b[2] <= c[2] => Pages(b) \subseteq Pages(c)
             /\ \A b : IsBlock(b) /\ x \in Pages(b) /\ c[2] <= b[2] => Pages(c) \subseteq Pages(b)
             /\ \A b : IsBlock(b) /\ x \in Pages(b) /\ c[2] = b[2] => b = c
<1>1. PICK c \in B : x \in Pages(c)
  BY DEF Cover
<1>2. IsBlock(c)
  BY DEF Blocks
<1>3. \A e \in B : x \in Pages(e) => e = c
  BY <1>1 DEF Blocks
<1>4. \A b : IsBlock(b) /\ x \in Pages(b) /\ b[2] <= c[2] => Pages(b) \subseteq Pages(c)
  BY <1>1, <1>2, NestedBlocks
<1>5. \A b : IsBlock(b) /\ x \in Pages(b) /\ c[2] <= b[2] => Pages(c) \subseteq Pages(b)
  BY <1>1, <1>2, NestedBlocks
<1>6. \A b : IsBlock(b) /\ x \in Pages(b) /\ c[2] = b[2] => b = c
  <2> SUFFICES ASSUME NEW b, IsBlock(b), x \in Pages(b), c[2] = b[2]
               PROVE  b = c
    OBVIOUS
  <2>1. c[2] <= b[2]
    BY <1>2, OrderIs, PagesIs
  <2> QED
    BY <1>1, <1>2, <2>1, NestedBlocks
<1> QED
  BY <1>1, <1>3, <1>4, <1>5, <1>6

-----------------------------------------------------------------------------
(***************************************************************************)
(* The setup.                                                              *)
(***************************************************************************)

\* The free ranges are not empty, are apart and lie in zones.
LEMMA RangeIs ==
    ASSUME NEW i \in DOMAIN FreeRanges
    PROVE  /\ Start(i) \in Nat /\ End(i) \in Nat /\ 0 < Start(i) /\ Start(i) <= End(i)
           /\ \E z \in DOMAIN Zones : Start(i) .. End(i) - 1 \subseteq ZoneOf(z)
           /\ \A j \in DOMAIN FreeRanges : i # j => End(i) < Start(j) \/ End(j) < Start(i)
<1>1. \A j \in DOMAIN FreeRanges :
        /\ FreeRanges[j][1] \in Nat /\ FreeRanges[j][2] \in Nat
        /\ FreeRanges[j][1] < FreeRanges[j][2]
  BY PageAllocAssumption
<1>2. \A j \in DOMAIN FreeRanges :
        Start(j) \in Nat /\ End(j) \in Nat /\ 0 < Start(j) /\ Start(j) <= End(j) /\ FreeRanges[j][1] <= Start(j)
  BY <1>1 DEF Start, End
<1>3. \E z \in DOMAIN Zones : Start(i) .. End(i) - 1 \subseteq ZoneOf(z)
  <2>1. PICK z \in DOMAIN Zones : Zones[z][1] <= FreeRanges[i][1] /\ FreeRanges[i][2] <= Zones[z][2]
    BY PageAllocAssumption
  <2>2. Zones[z][1] \in Nat /\ Zones[z][2] \in Nat
    BY PageAllocAssumption
  <2>3. ASSUME NEW p \in Start(i) .. End(i) - 1
        PROVE  p \in ZoneOf(z)
    <3>1. Start(i) \in Nat /\ End(i) \in Nat /\ FreeRanges[i][1] <= Start(i) /\ End(i) = FreeRanges[i][2]
      BY <1>2 DEF End
    <3>2. FreeRanges[i][1] \in Nat
      BY <1>1
    <3> QED
      BY <2>1, <2>2, <2>3, <3>1, <3>2 DEF ZoneOf
  <2> QED
    BY <2>3
<1>4. ASSUME NEW j \in DOMAIN FreeRanges, i # j
      PROVE  End(i) < Start(j) \/ End(j) < Start(i)
  <2>1. FreeRanges[i][2] < FreeRanges[j][1] \/ FreeRanges[j][2] < FreeRanges[i][1]
    BY <1>4, PageAllocAssumption DEF Separate
  <2> QED
    BY <1>1, <1>2, <2>1 DEF End
<1> QED
  BY <1>2, <1>3, <1>4

LEMMA InitInv ==
    ASSUME ReservedClean, PageInit
    PROVE  PageInv
<1>1. /\ lists = [z \in DOMAIN Zones |-> [k \in Order |-> <<>>]]
      /\ mark \in [Page -> {Busy} \cup Order] /\ live = {}
      /\ rest = [i \in DOMAIN FreeRanges |-> Start(i)]
      /\ \A p \in Page \ Given : mark[p] = Busy
  <2>1. PICK garbage \in [Stale -> {Busy} \cup Order] :
          mark = [p \in Page |-> IF p \in Stale THEN garbage[p] ELSE Busy]
    BY DEF PageInit
  <2>2. \A p \in Page \ Given : p \notin Stale
    BY DEF ReservedClean
  <2> QED
    BY <2>1, <2>2 DEF PageInit
<1>2. PageTypeOK
  <2>1. <<>> \in Seq(Page)
    BY EmptyQueue
  <2>2. lists \in [DOMAIN Zones -> [Order -> Seq(Page)]]
    BY <1>1, <2>1
  <2>3. rest \in [DOMAIN FreeRanges -> Nat] /\ \A i \in DOMAIN FreeRanges : rest[i] \in Start(i) .. End(i)
    BY <1>1, RangeIs
  <2> QED
    BY <1>1, <2>2, <2>3 DEF PageTypeOK
<1>3. Shelved
  BY <1>1, EmptyQueue DEF Shelved
<1>4. Free = {}
  <2>1. \A z \in DOMAIN Zones : \A k \in Order : ToSet(lists[z][k]) = {}
    BY <1>1, EmptyQueue
  <2> QED
    BY <2>1 DEF Free, Listed
<1>5. Carved = {}
  <2>1. \A i \in DOMAIN FreeRanges : Start(i) .. rest[i] - 1 = {}
    BY <1>1, RangeIs
  <2> QED
    BY <2>1 DEF Carved
<1>6. Blocks(Free \cup live) /\ Cover(Free \cup live) = Carved /\ InZones
  BY <1>1, <1>4, <1>5 DEF Blocks, Cover, InZones
<1>7. FlagsTrue /\ NoBuddies(Free) /\ CarvedLarge
  BY <1>1, <1>4 DEF FlagsTrue, NoBuddies, CarvedLarge
<1> QED
  BY <1>1, <1>2, <1>3, <1>4, <1>6, <1>7 DEF PageInv

\* Only what the allocator is given is carved, and when it is ready that is all of it.
LEMMA CarvedGiven ==
    ASSUME PageTypeOK
    PROVE  Carved \subseteq Given /\ (Ready => Carved = Given)
<1>1. ASSUME NEW i \in DOMAIN FreeRanges
      PROVE  Start(i) .. rest[i] - 1 \subseteq Start(i) .. End(i) - 1
  BY <1>1, RangeIs DEF PageTypeOK
<1>2. Carved \subseteq Given
  BY <1>1 DEF Carved, Given
<1>3. Ready => Carved = Given
  BY DEF Ready, Carved, Given
<1> QED
  BY <1>2, <1>3

\* What the invariant says of a block.
LEMMA BlockIs ==
    ASSUME PageInv, NEW b \in Free \cup live
    PROVE  /\ IsBlock(b) /\ b[1] \in Page /\ b[2] \in Order /\ b = <<b[1], b[2]>> /\ b[1] \in Pages(b)
           /\ Pages(b) \subseteq Carved /\ Pages(b) \subseteq ZoneOf(PageZone(b[1]))
<1>1. IsBlock(b)
  BY DEF PageInv, Blocks
<1>2. Pages(b) \subseteq Carved
  BY DEF PageInv, Cover
<1>3. Pages(b) \subseteq ZoneOf(PageZone(b[1]))
  BY DEF PageInv, InZones
<1>4. b[1] \in Page
  <2>1. b \in Page \X Order
    BY FreeIs DEF PageInv, PageTypeOK
  <2> QED
    BY <2>1
<1> QED
  BY <1>1, <1>2, <1>3, <1>4, PagesIs

\* Block p of order k is cut off what is left of range i.
LEMMA CutIs ==
    ASSUME PageInv, NEW i \in DOMAIN FreeRanges, rest[i] < End(i),
           NEW p, p = rest[i], NEW k, k = OrderAt(p, End(i))
    PROVE  /\ IsBlock(<<p, k>>) /\ k \in Order /\ p + Size[k] \in Nat /\ p + Size[k] <= End(i)
           /\ \A x : x \in Pages(<<p, k>>) => x \in Start(i) .. End(i) - 1
           /\ Pages(<<p, k>>) \cap Carved = {}
           /\ p \in Page /\ Pages(<<p, k>>) \subseteq ZoneOf(PageZone(p))
<1>1. /\ Start(i) \in Nat /\ End(i) \in Nat /\ 0 < Start(i) /\ p \in Nat /\ Start(i) <= p /\ p < End(i)
  BY RangeIs DEF PageInv, PageTypeOK
<1>2. k \in Order /\ Aligned(p, k) /\ p + Size[k] <= End(i)
  BY <1>1, OrderAtIs
<1>3. PICK s \in Nat \ {0} : s = Size[k]
  BY <1>2, SizeIs
<1>4. IsBlock(<<p, k>>)
  BY <1>1, <1>2 DEF IsBlock
<1>5. PICK b : b = <<p, k>>
  OBVIOUS
<1>6. \A x : x \in Pages(b) <=> x \in Nat /\ p <= x /\ x < p + s
  BY <1>3, <1>4, <1>5, PagesIs
<1>7. \A x : x \in Pages(b) => x \in Start(i) .. End(i) - 1
  BY <1>1, <1>2, <1>3, <1>6
<1>8. Pages(b) \cap Carved = {}
  <2> SUFFICES ASSUME NEW x \in Pages(b), NEW j \in DOMAIN FreeRanges, x \in Start(j) .. rest[j] - 1
               PROVE  FALSE
    BY DEF Carved
  <2>1. x \in Nat /\ p <= x
    BY <1>6
  <2>2. CASE j = i
    BY <1>1, <2>1, <2>2
  <2>3. CASE j # i
    <3>1. End(i) < Start(j) \/ End(j) < Start(i)
      BY <2>3, RangeIs
    <3>2. rest[j] \in Start(j) .. End(j) /\ Start(j) \in Nat /\ End(j) \in Nat
      BY RangeIs DEF PageInv, PageTypeOK
    <3>3. Start(i) <= x /\ x < End(i)
      BY <1>1, <1>7
    <3> QED
      BY <1>1, <2>1, <3>1, <3>2, <3>3
  <2> QED
    BY <2>2, <2>3
<1>9. p \in Page /\ Pages(b) \subseteq ZoneOf(PageZone(p))
  <2>1. PICK z \in DOMAIN Zones : Start(i) .. End(i) - 1 \subseteq ZoneOf(z)
    BY RangeIs
  <2>2. p \in ZoneOf(z)
    BY <1>1, <2>1
  <2>3. PageZone(p) = z /\ p \in Page
    BY <2>2, ZoneIs
  <2> QED
    BY <1>7, <2>1, <2>3
<1> QED
  BY <1>1, <1>2, <1>3, <1>4, <1>5, <1>7, <1>8, <1>9

\* A block that is cut off is not the buddy of a free one: that would be a block
\* before it in the range, and then it would have been cut larger.
LEMMA CutAlone ==
    ASSUME PageInv, NEW i \in DOMAIN FreeRanges, rest[i] < End(i),
           NEW p, p = rest[i], NEW k, k = OrderAt(p, End(i)), k < MAX_ORDER
    PROVE  <<BuddyOf(p, k), k>> \notin Free
<1> SUFFICES ASSUME <<BuddyOf(p, k), k>> \in Free
             PROVE  FALSE
  OBVIOUS
<1>1. /\ IsBlock(<<p, k>>) /\ k \in Order /\ p \in Nat /\ p + Size[k] <= End(i) /\ p < End(i)
      /\ Start(i) <= p /\ Start(i) \in Nat /\ End(i) \in Nat
  BY CutIs, RangeIs DEF PageInv, PageTypeOK
<1>2. k + 1 \in Order /\ Aligned(p, k)
  BY <1>1, OrderIs DEF IsBlock
<1>3. PICK s \in Nat \ {0} : s = Size[k] /\ Size[k + 1] = 2 * s
  BY <1>1, <1>2, SizeIs
<1>4. PICK q, b : q = BuddyOf(p, k) /\ b = <<q, k>>
  OBVIOUS
<1>5. /\ q \in Nat
      /\ (p = Base(p, k + 1) /\ q = p + s) \/ (q = Base(p, k + 1) /\ p = q + s)
  BY <1>1, <1>2, <1>3, <1>4, BuddyIs
<1>6. IsBlock(b) /\ Pages(b) \subseteq Carved /\ b \in Free /\ b[1] = q /\ b[2] = k
  BY <1>4, BlockIs
<1>7. \A x : x \in Pages(b) <=> x \in Nat /\ q <= x /\ x < q + s
  BY <1>3, <1>6, PagesIs
\* the pages of a range that are next to those of this range are its own
<1>8. ASSUME NEW x \in Carved, p - 1 <= x, x <= End(i)
      PROVE  x < p
  <2>1. PICK j \in DOMAIN FreeRanges : x \in Start(j) .. rest[j] - 1
    BY DEF Carved
  <2>2. rest[j] \in Start(j) .. End(j) /\ Start(j) \in Nat /\ End(j) \in Nat
    BY RangeIs DEF PageInv, PageTypeOK
  <2>3. CASE j = i
    BY <1>1, <2>1, <2>2, <2>3
  <2>4. CASE j # i
    <3>1. End(i) < Start(j) \/ End(j) < Start(i)
      BY <2>4, RangeIs
    <3> QED
      BY <1>1, <1>8, <2>1, <2>2, <3>1
  <2> QED
    BY <2>3, <2>4
<1>9. CASE q = p + s
  <2>1. q \in Carved
    BY <1>3, <1>5, <1>6, <1>7
  <2> QED
    BY <1>1, <1>3, <1>8, <1>9, <2>1
<1>10. CASE q = Base(p, k + 1) /\ p = q + s
  <2>1. p - 1 \in Carved
    <3>1. p - 1 \in Nat /\ q <= p - 1 /\ p - 1 < q + s
      BY <1>1, <1>3, <1>5, <1>10
    <3> QED
      BY <1>6, <1>7, <3>1
  <2>2. PICK j \in DOMAIN FreeRanges : p - 1 \in Start(j) .. rest[j] - 1
    BY <2>1 DEF Carved
  <2>3. rest[j] \in Start(j) .. End(j) /\ Start(j) \in Nat /\ End(j) \in Nat
    BY RangeIs DEF PageInv, PageTypeOK
  <2>4. j = i
    <3>1. j # i => End(i) < Start(j) \/ End(j) < Start(i)
      BY RangeIs
    <3> QED
      BY <1>1, <2>2, <2>3, <3>1
  <2>5. Start(i) < p
    BY <1>1, <2>2, <2>3, <2>4
  <2>6. Aligned(q, k + 1)
    BY <1>1, <1>2, <1>10, BaseIs
  <2>7. Start(i) < b[1] + Size[b[2]] /\ b[1] + Size[b[2]] <= End(i) /\ b[2] < MAX_ORDER /\ Aligned(b[1], b[2] + 1)
    BY <1>1, <1>3, <1>6, <1>10, <2>5, <2>6
  <2>8. End(i) < b[1] + Size[b[2] + 1]
    BY <1>6, <2>7 DEF PageInv, CarvedLarge
  <2>9. End(i) < q + 2 * s
    BY <1>3, <1>6, <2>8
  <2>10. p + s <= End(i)
    BY <1>1, <1>3
  <2> QED
    BY <1>1, <1>3, <1>5, <1>10, <2>9, <2>10
<1> QED
  BY <1>5, <1>9, <1>10

LEMMA CarveKeeps ==
    ASSUME PageInv, NEW i \in DOMAIN FreeRanges, Carve(i)
    PROVE  PageInv'
<1>1. PICK p, k, z, b : p = rest[i] /\ k = OrderAt(p, End(i)) /\ z = PageZone(p) /\ b = <<p, k>>
  OBVIOUS
<1>2. /\ p < End(i)
      /\ lists' = [lists EXCEPT ![z][k] = Append(@, p)]
      /\ mark' = [mark EXCEPT ![p] = k]
      /\ rest' = [rest EXCEPT ![i] = p + Size[k]]
      /\ live' = live
  BY <1>1 DEF Carve
<1>3. /\ IsBlock(b) /\ k \in Order /\ p + Size[k] \in Nat /\ p + Size[k] <= End(i)
      /\ \A x : x \in Pages(b) => x \in Start(i) .. End(i) - 1
      /\ Pages(b) \cap Carved = {}
      /\ p \in Page /\ Pages(b) \subseteq ZoneOf(z)
  BY <1>1, <1>2, CutIs
<1>4. z \in DOMAIN Zones /\ p \in ZoneOf(z) /\ p \in Nat /\ b[1] = p /\ b[2] = k
  BY <1>1, <1>3, PageIs
<1>5. p \in Pages(b) /\ \A x : x \in Pages(b) <=> x \in Nat /\ p <= x /\ x < p + Size[k]
  BY <1>3, <1>4, PagesIs
<1>6. live = {} /\ p \notin Carved
  <2>1. ~Ready
    BY <1>1, <1>2, <1>3, RangeIs DEF Ready
  <2> QED
    BY <1>3, <1>5, <2>1 DEF PageInv
<1>7. \A c \in Free : c[1] # p /\ c # b
  <2> SUFFICES ASSUME NEW c \in Free, c[1] = p
               PROVE  FALSE
    BY <1>4
  <2>1. c[1] \in Pages(c) /\ Pages(c) \subseteq Carved
    BY BlockIs
  <2> QED
    BY <1>6, <2>1
<1>8. /\ lists' \in [DOMAIN Zones -> [Order -> Seq(Page)]]
      /\ Shelved'
      /\ Free' = Free \cup {b}
  <2>1. lists \in [DOMAIN Zones -> [Order -> Seq(Page)]] /\ PageTypeOK /\ Shelved
    BY DEF PageInv, PageTypeOK
  <2>2. PICK f : f = [lists[z] EXCEPT ![k] = Append(@, p)]
    OBVIOUS
  <2>3. lists' = [lists EXCEPT ![z] = f]
    BY <1>2, <1>4, <2>1, <2>2
  <2>4. lists[z][k] \in Seq(Page)
    BY <1>3, <1>4, <2>1
  <2>5. p \notin ToSet(lists[z][k])
    <3>1. b \notin Free
      BY <1>7
    <3> QED
      BY <1>1, <1>3, <1>4, <2>1, <3>1, FreeIs
  <2>6. /\ Append(lists[z][k], p) \in Seq(Page)
        /\ ToSet(Append(lists[z][k], p)) = ToSet(lists[z][k]) \cup {p}
        /\ IsInjective(Append(lists[z][k], p))
    <3>1. IsInjective(lists[z][k])
      BY <1>3, <1>4, <2>1 DEF Shelved
    <3> QED
      BY <1>3, <2>4, <2>5, <3>1, AppendQueue
  <2>7. f \in [Order -> Seq(Page)] /\ f[k] = Append(lists[z][k], p) /\ \A j \in Order : j # k => f[j] = lists[z][j]
    BY <1>3, <1>4, <2>1, <2>2, <2>6
  <2>8. PICK Out, In : Out = {} /\ In = {b}
    OBVIOUS
  <2>9. ASSUME NEW j \in Order
        PROVE  /\ IsInjective(f[j])
               /\ \A q : q \in ToSet(f[j]) <=>
                    /\ q \in ZoneOf(z)
                    /\ (<<q, j>> \in Free /\ <<q, j>> \notin Out) \/ <<q, j>> \in In
    <3>1. \A q : q \in ToSet(lists[z][j]) <=> q \in ZoneOf(z) /\ <<q, j>> \in Free
      BY <1>4, <2>1, FreeIs
    <3>2. CASE j = k
      <4>1. IsInjective(f[j]) /\ \A q : q \in ToSet(f[j]) <=> q \in ToSet(lists[z][j]) \/ q = p
        BY <2>6, <2>7, <3>2
      <4>2. \A q : <<q, j>> \in In <=> q = p
        BY <1>1, <2>8, <3>2
      <4> QED
        BY <1>4, <2>8, <3>1, <4>1, <4>2
    <3>3. CASE j # k
      <4>1. \A q : <<q, j>> \notin In
        BY <1>1, <2>8, <3>3
      <4>2. IsInjective(f[j]) /\ f[j] = lists[z][j]
        BY <1>4, <2>1, <2>7, <3>3 DEF Shelved
      <4> QED
        BY <2>8, <3>1, <4>1, <4>2
    <3> QED
      BY <3>2, <3>3
  <2>10. \A c \in Out \cup In : c[1] \in ZoneOf(z) /\ c[2] \in Order /\ c = <<c[1], c[2]>>
    BY <1>1, <1>3, <1>4, <2>8
  <2>11. Refile(z, f, Out, In)
    BY <2>3, <2>7, <2>9, <2>10 DEF Refile, Refiled
  <2>12. Free' = (Free \ Out) \cup In /\ Shelved' /\ lists' \in [DOMAIN Zones -> [Order -> Seq(Page)]]
    BY <1>4, <2>1, <2>11, ListsBecome
  <2> QED
    BY <2>8, <2>12
<1>9. Carved' = Carved \cup Pages(b)
  <2>1. /\ p \in Start(i) .. End(i) /\ Start(i) \in Nat /\ End(i) \in Nat
        /\ rest'[i] = p + Size[k] /\ \A j \in DOMAIN FreeRanges : j # i => rest'[j] = rest[j]
    BY <1>1, <1>2, RangeIs DEF PageInv, PageTypeOK
  <2>2. PICK s \in Nat \ {0} : s = Size[k]
    BY <1>3, SizeIs
  <2>3. Start(i) .. rest'[i] - 1 = (Start(i) .. rest[i] - 1) \cup Pages(b)
    <3>1. ASSUME NEW x
          PROVE  x \in Start(i) .. rest'[i] - 1 <=> x \in Start(i) .. rest[i] - 1 \/ x \in Pages(b)
      BY <1>1, <1>4, <1>5, <2>1, <2>2
    <3> QED
      BY <3>1
  <2>4. ASSUME NEW x
        PROVE  x \in Carved' <=> x \in Carved \cup Pages(b)
    <3>1. x \in Carved' <=> \E j \in DOMAIN FreeRanges : x \in Start(j) .. rest'[j] - 1
      BY DEF Carved, Start
    <3>2. x \in Carved <=> \E j \in DOMAIN FreeRanges : x \in Start(j) .. rest[j] - 1
      BY DEF Carved
    <3> QED
      BY <2>1, <2>3, <3>1, <3>2
  <2> QED
    BY <2>4
<1>10. PageTypeOK'
  <2>1. mark' \in [Page -> {Busy} \cup Order] /\ live' \subseteq Page \X Order
    BY <1>2, <1>3, <1>6 DEF PageInv, PageTypeOK
  <2>2. rest' \in [DOMAIN FreeRanges -> Nat]
    BY <1>2, <1>3 DEF PageInv, PageTypeOK
  <2>3. ASSUME NEW j \in DOMAIN FreeRanges
        PROVE  rest'[j] \in Start(j) .. End(j)
    <3>1. rest[j] \in Start(j) .. End(j) /\ Start(j) \in Nat /\ End(j) \in Nat
      BY RangeIs DEF PageInv, PageTypeOK
    <3>2. j # i => rest'[j] = rest[j]
      BY <1>2 DEF PageInv, PageTypeOK
    <3>3. j = i => rest'[j] = p + Size[k] /\ rest[j] = p
      BY <1>1, <1>2 DEF PageInv, PageTypeOK
    <3>4. Size[k] \in Nat
      BY <1>3, SizeIs
    <3> QED
      BY <1>3, <1>4, <3>1, <3>2, <3>3, <3>4
  <2> QED
    BY <1>8, <2>1, <2>2, <2>3 DEF PageTypeOK, Start, End
<1>11. Free' \cup live' = Free \cup {b} /\ Free \cup live = Free
  BY <1>2, <1>6, <1>8
<1>12. Blocks(Free \cup {b}) /\ Cover(Free \cup {b}) = Carved \cup Pages(b)
  <2>1. Blocks(Free) /\ Cover(Free) = Carved
    BY <1>11 DEF PageInv
  <2> QED
    BY <1>3, <2>1 DEF Blocks, Cover
<1>13. InZones'
  <2>1. \A c \in Free \cup {b} : Pages(c) \subseteq ZoneOf(PageZone(c[1]))
    BY <1>1, <1>3, <1>4 DEF PageInv, InZones
  <2> QED
    BY <1>11, <2>1 DEF InZones
<1>14. FlagsTrue'
  <2>1. mark'[p] = k /\ \A q \in Page : q # p => mark'[q] = mark[q]
    BY <1>2, <1>3 DEF PageInv, PageTypeOK
  <2>2. ASSUME NEW c \in Free'
        PROVE  mark'[c[1]] = c[2]
    <3>1. CASE c = b
      BY <1>4, <2>1, <3>1
    <3>2. CASE c # b
      <4>1. c \in Free /\ c[1] \in Page /\ c[1] # p /\ mark[c[1]] = c[2]
        BY <1>7, <1>8, <3>2, BlockIs DEF PageInv, FlagsTrue
      <4> QED
        BY <2>1, <4>1
    <3> QED
      BY <3>1, <3>2
  <2>3. ASSUME NEW q \in Page, q \notin Given
        PROVE  mark'[q] = Busy
    <3>1. p \in Given
      <4>1. rest[i] \in Start(i) .. End(i) /\ End(i) \in Nat /\ Start(i) \in Nat
        BY RangeIs DEF PageInv, PageTypeOK
      <4>2. p \in Start(i) .. End(i) - 1
        BY <1>1, <1>2, <4>1
      <4> QED
        BY <4>2 DEF Given
    <3> QED
      BY <2>1, <2>3, <3>1 DEF PageInv, FlagsTrue
  <2> QED
    BY <1>2, <1>6, <2>2, <2>3 DEF FlagsTrue, Given, Start, End
<1>15. NoBuddies(Free')
  <2> SUFFICES ASSUME NEW c \in Free', c[2] < MAX_ORDER, <<BuddyOf(c[1], c[2]), c[2]>> \in Free'
               PROVE  FALSE
    BY DEF NoBuddies
  <2>1. k < MAX_ORDER => <<BuddyOf(p, k), k>> \notin Free
    BY <1>1, <1>2, CutAlone
  <2>2. CASE c = b
    <3>1. <<BuddyOf(p, k), k>> # b
      <4>1. k + 1 \in Order /\ Aligned(p, k) /\ Size[k] \in Nat \ {0}
        BY <1>3, <1>4, <2>2, OrderIs, SizeIs DEF IsBlock
      <4>2. BuddyOf(p, k) # p
        BY <1>3, <1>4, <4>1, BuddyIs
      <4> QED
        BY <1>1, <4>2
    <3> QED
      BY <1>4, <1>8, <2>1, <2>2, <3>1
  <2>3. CASE c # b
    <3>1. c \in Free /\ IsBlock(c) /\ c[1] \in Nat /\ c[2] \in Order /\ c = <<c[1], c[2]>>
      BY <1>8, <2>3, BlockIs, PagesIs
    <3>2. <<BuddyOf(c[1], c[2]), c[2]>> \notin Free
      BY <3>1 DEF PageInv, NoBuddies
    <3>3. BuddyOf(c[1], c[2]) = p /\ c[2] = k
      BY <1>1, <1>8, <3>2
    <3>4. PICK q : q = c[1]
      OBVIOUS
    <3>5. q \in Nat /\ Aligned(q, k) /\ k + 1 \in Order /\ BuddyOf(q, k) = p
      BY <1>3, <3>1, <3>3, <3>4, OrderIs DEF IsBlock
    <3>6. BuddyOf(p, k) = q
      BY <1>3, <3>5, BuddyIs
    <3> QED
      BY <2>1, <3>1, <3>3, <3>4, <3>6
  <2> QED
    BY <2>2, <2>3
<1>16. CarvedLarge'
  <2> SUFFICES ASSUME NEW j \in DOMAIN FreeRanges, rest'[j] < End(j), NEW c \in Free',
                      c[2] < MAX_ORDER, Aligned(c[1], c[2] + 1),
                      Start(j) < c[1] + Size[c[2]], c[1] + Size[c[2]] <= End(j)
               PROVE  End(j) < c[1] + Size[c[2] + 1]
    BY DEF CarvedLarge, Start, End
  <2>1. rest[j] < End(j)
    <3>1. rest[j] \in Nat /\ rest'[j] \in Nat /\ End(j) \in Nat /\ rest[i] < End(i)
      BY <1>1, <1>2, <1>10, RangeIs DEF PageInv, PageTypeOK
    <3>2. j # i => rest'[j] = rest[j]
      BY <1>2 DEF PageInv, PageTypeOK
    <3> QED
      BY <3>1, <3>2
  <2>2. CASE c # b
    BY <1>8, <2>1, <2>2 DEF PageInv, CarvedLarge
  <2>3. CASE c = b
    <3>1. k + 1 \in Order /\ Size[k] \in Nat \ {0} /\ Size[k + 1] \in Nat
      BY <1>3, <1>4, <2>3, OrderIs, SizeIs
    <3>2. j = i
      <4>1. j # i => End(i) < Start(j) \/ End(j) < Start(i)
        BY RangeIs
      <4>2. Start(i) <= p /\ Start(i) \in Nat /\ Start(j) \in Nat /\ End(j) \in Nat /\ End(i) \in Nat
        BY <1>1, RangeIs DEF PageInv, PageTypeOK
      <4>3. Start(j) < p + Size[k] /\ p + Size[k] <= End(j)
        BY <1>4, <2>3
      <4> QED
        BY <1>3, <1>4, <3>1, <4>1, <4>2, <4>3
    <3>3. Aligned(p, k + 1) /\ ~(k + 1 <= k)
      BY <1>3, <1>4, <2>3, OrderIs
    <3>4. End(i) \in Nat /\ p < End(i)
      BY <1>2, RangeIs
    <3>5. ~(p + Size[k + 1] <= End(i))
      BY <1>1, <1>4, <3>1, <3>3, <3>4, OrderAtIs
    <3> QED
      BY <1>4, <2>3, <3>1, <3>2, <3>4, <3>5
  <2> QED
    BY <2>2, <2>3
<1> QED
  BY <1>2, <1>6, <1>8, <1>9, <1>10, <1>11, <1>12, <1>13, <1>14, <1>15, <1>16 DEF PageInv

-----------------------------------------------------------------------------
(***************************************************************************)
(* Allocation.                                                             *)
(***************************************************************************)

\* Being buddies is mutual.
LEMMA BuddyBlock ==
    ASSUME NEW c, IsBlock(c), c[2] < MAX_ORDER, NEW d, d = <<BuddyOf(c[1], c[2]), c[2]>>
    PROVE  IsBlock(d) /\ d[2] = c[2] /\ d # c /\ c = <<BuddyOf(d[1], d[2]), d[2]>>
<1>1. PICK p, k : p = c[1] /\ k = c[2]
  OBVIOUS
<1>2. p \in Nat /\ k \in Order /\ c = <<p, k>> /\ Aligned(p, k) /\ k + 1 \in Order
  BY <1>1, PagesIs, OrderIs DEF IsBlock
<1>3. PICK h : h = BuddyOf(p, k)
  OBVIOUS
<1>4. h \in Nat /\ Aligned(h, k) /\ BuddyOf(h, k) = p
  BY <1>2, <1>3, BuddyIs
<1>5. d = <<h, k>> /\ d[1] = h /\ d[2] = k
  BY <1>1, <1>3
<1>6. h # p
  <2>1. Size[k] \in Nat \ {0}
    BY <1>2, SizeIs
  <2> QED
    BY <1>2, <1>3, <2>1 DEF BuddyOf
<1> QED
  BY <1>2, <1>4, <1>5, <1>6 DEF IsBlock

\* The halves that are split off block p of order from on the way down to order k.
Halves(p, k, from) == {<<BuddyOf(p, j), j>> : j \in k .. from - 1}

LEMMA HalvesAre ==
    ASSUME NEW p, NEW k \in Order, NEW from \in Order, k <= from, IsBlock(<<p, from>>)
    PROVE  /\ IsBlock(<<p, k>>) /\ p \in Pages(<<p, k>>) /\ p \in Nat
           /\ Chain(p, k, from) = {<<p, k>>} \cup Halves(p, k, from)
           /\ Blocks(Chain(p, k, from)) /\ Cover(Chain(p, k, from)) = Pages(<<p, from>>)
           /\ \A j \in k .. from - 1 :
                /\ j \in Order /\ j < MAX_ORDER /\ IsBlock(<<BuddyOf(p, j), j>>)
                /\ BuddyOf(p, j) \in Pages(<<p, from>>) /\ BuddyOf(p, j) # p
                /\ BuddyOf(BuddyOf(p, j), j) = p
                /\ \A l \in k .. from - 1 : BuddyOf(p, l) = BuddyOf(p, j) => l = j
<1>1. p \in Nat /\ Aligned(p, from)
  BY DEF IsBlock
<1>2. ASSUME NEW j \in k .. from
      PROVE  j \in Order /\ IsBlock(<<p, j>>) /\ Base(p, j) = p
  <2>1. j \in Order /\ j <= from
    BY OrderIs
  <2>2. Aligned(p, j)
    BY <1>1, <2>1, AlignedDown
  <2>3. IsBlock(<<p, j>>)
    BY <1>1, <2>1, <2>2 DEF IsBlock
  <2> QED
    BY <1>1, <2>1, <2>3, BaseBlock
<1>3. IsBlock(<<p, k>>) /\ p \in Pages(<<p, k>>)
  <2>1. k \in k .. from
    BY OrderIs
  <2>2. IsBlock(<<p, k>>) /\ Base(p, k) = p
    BY <1>2, <2>1
  <2> QED
    BY <1>1, <2>2, BaseBlock
<1>4. Chain(p, k, from) = {<<p, k>>} \cup Halves(p, k, from)
  <2>1. \A j \in k .. from - 1 : Base(p, j) = p
    <3>1. \A j \in k .. from - 1 : j \in k .. from
      BY OrderIs
    <3> QED
      BY <1>2, <3>1
  <2>2. {<<BuddyOf(Base(p, j), j), j>> : j \in k .. from - 1} = Halves(p, k, from)
    BY <2>1 DEF Halves
  <2> QED
    BY <2>2 DEF Chain
<1>5. Blocks(Chain(p, k, from)) /\ Cover(Chain(p, k, from)) = Pages(<<p, from>>)
  <2>1. Base(p, from) = p
    BY <1>2, OrderIs
  <2> QED
    BY <1>1, <1>3, <2>1, ChainIs
<1>6. ASSUME NEW j \in k .. from - 1
      PROVE  /\ j \in Order /\ j < MAX_ORDER /\ IsBlock(<<BuddyOf(p, j), j>>)
             /\ BuddyOf(p, j) \in Pages(<<p, from>>) /\ BuddyOf(p, j) # p
             /\ BuddyOf(BuddyOf(p, j), j) = p
             /\ <<BuddyOf(p, j), j>> \in Chain(p, k, from)
             /\ BuddyOf(p, j) \in Pages(<<BuddyOf(p, j), j>>)
  <2>1. j \in k .. from /\ j \in Order /\ j < MAX_ORDER
    BY OrderIs
  <2>2. PICK c, h, d : c = <<p, j>> /\ h = BuddyOf(p, j) /\ d = <<h, j>>
    OBVIOUS
  <2>3. c[1] = p /\ c[2] = j /\ d[1] = h /\ d[2] = j /\ d = <<BuddyOf(c[1], c[2]), c[2]>> /\ IsBlock(c)
    BY <1>2, <2>1, <2>2
  <2>4. IsBlock(d) /\ d # c /\ c = <<BuddyOf(d[1], d[2]), d[2]>>
    BY <2>1, <2>3, BuddyBlock
  <2>5. d \in Chain(p, k, from)
    BY <1>4, <2>2 DEF Halves
  <2>6. h \in Pages(d)
    BY <2>3, <2>4, PagesIs
  <2>7. h \in Pages(<<p, from>>)
    BY <1>5, <2>5, <2>6 DEF Cover
  <2> QED
    BY <2>1, <2>2, <2>3, <2>4, <2>5, <2>6, <2>7
<1>7. ASSUME NEW j \in k .. from - 1, NEW l \in k .. from - 1, BuddyOf(p, l) = BuddyOf(p, j)
      PROVE  l = j
  <2>1. <<BuddyOf(p, j), j>> = <<BuddyOf(p, l), l>>
    BY <1>5, <1>6, <1>7 DEF Blocks
  <2> QED
    BY <2>1
<1> QED
  BY <1>1, <1>3, <1>4, <1>5, <1>6, <1>7

\* What a request takes from the lists of its zone and what it puts there.
LEMMA SplitRefiles ==
    ASSUME PageInv, NEW z \in DOMAIN Zones, NEW k \in Order, NEW from \in Order, k <= from,
           lists[z][from] # <<>>, NEW p, p = Head(lists[z][from]),
           NEW f, f = [j \in Order |->
                         IF j = from THEN Tail(lists[z][j])
                         ELSE IF j \in k .. from - 1 THEN <<BuddyOf(p, j)>> \o lists[z][j]
                         ELSE lists[z][j]]
    PROVE  /\ <<p, from>> \in Free /\ p \in ZoneOf(z)
           /\ Refiled(z, f, {<<p, from>>}, Halves(p, k, from))
<1>1. /\ PageTypeOK /\ Shelved
      /\ \A j \in Order : lists[z][j] \in Seq(Page) /\ IsInjective(lists[z][j])
      /\ \A j \in Order : \A q : q \in ToSet(lists[z][j]) <=> q \in ZoneOf(z) /\ <<q, j>> \in Free
  BY FreeIs DEF PageInv, PageTypeOK, Shelved
<1>2. /\ p \in ToSet(lists[z][from])
      /\ Tail(lists[z][from]) \in Seq(Page) /\ IsInjective(Tail(lists[z][from]))
      /\ ToSet(Tail(lists[z][from])) = ToSet(lists[z][from]) \ {p}
  BY <1>1, PopQueue
<1>3. PICK a : a = <<p, from>>
  OBVIOUS
<1>4. a \in Free /\ p \in ZoneOf(z)
  BY <1>1, <1>2, <1>3
<1>5. IsBlock(a) /\ a[1] = p /\ a[2] = from /\ Pages(a) \subseteq ZoneOf(z)
  <2>1. PageZone(p) = z
    BY <1>4, ZoneIs
  <2> QED
    BY <1>3, <1>4, <2>1, BlockIs
<1>6. ASSUME NEW j \in k .. from - 1
      PROVE  /\ j \in Order /\ j # from /\ BuddyOf(p, j) \in ZoneOf(z) /\ BuddyOf(p, j) \in Page
             /\ <<BuddyOf(p, j), j>> \notin Free
  <2>1. j \in Order /\ j # from /\ BuddyOf(p, j) \in Pages(a)
    <3>1. IsBlock(<<p, from>>)
      BY <1>3, <1>5
    <3>2. \A i \in k .. from - 1 : i \in Order /\ BuddyOf(p, i) \in Pages(<<p, from>>)
      BY <3>1, HalvesAre
    <3>3. j # from
      BY OrderIs
    <3> QED
      BY <1>3, <3>2, <3>3
  <2>2. BuddyOf(p, j) \in ZoneOf(z) /\ BuddyOf(p, j) \in Page
    <3>1. BuddyOf(p, j) \in ZoneOf(z)
      BY <1>5, <2>1
    <3> QED
      BY <3>1 DEF Page
  <2>3. ASSUME <<BuddyOf(p, j), j>> \in Free
        PROVE  FALSE
    <3>1. PICK d : d = <<BuddyOf(p, j), j>>
      OBVIOUS
    <3>2. d \in Free /\ d[1] \in Pages(d) /\ d[1] = BuddyOf(p, j)
      BY <2>3, <3>1, BlockIs
    <3>3. d # a
      BY <1>3, <2>1, <3>1
    <3> QED
      BY <1>4, <2>1, <3>2, <3>3 DEF PageInv, Blocks
  <2> QED
    BY <2>1, <2>2, <2>3
<1>7. PICK Out, In : Out = {a} /\ In = Halves(p, k, from)
  OBVIOUS
<1>8. \A q : \A j : <<q, j>> \in In <=> j \in k .. from - 1 /\ q = BuddyOf(p, j)
  BY <1>7 DEF Halves
<1>9. \A q : \A j : <<q, j>> \in Out <=> j = from /\ q = p
  BY <1>3, <1>7
<1>10. ASSUME NEW j \in Order
       PROVE  /\ f[j] \in Seq(Page) /\ IsInjective(f[j])
              /\ \A q : q \in ToSet(f[j]) <=>
                   /\ q \in ZoneOf(z)
                   /\ (<<q, j>> \in Free /\ <<q, j>> \notin Out) \/ <<q, j>> \in In
  <2>1. CASE j = from
    <3>1. f[j] = Tail(lists[z][from])
      BY <2>1
    <3>2. \A q : <<q, j>> \notin In
      BY <1>8, <2>1, OrderIs
    <3> QED
      BY <1>1, <1>2, <1>9, <2>1, <3>1, <3>2
  <2>2. CASE j \in k .. from - 1
    <3>1. PICK h : h = BuddyOf(p, j)
      OBVIOUS
    <3>2. j # from /\ h \in ZoneOf(z) /\ h \in Page /\ <<h, j>> \notin Free
      BY <1>6, <2>2, <3>1
    <3>3. f[j] = <<h>> \o lists[z][j]
      BY <2>2, <3>1, <3>2
    <3>4. h \notin ToSet(lists[z][j])
      BY <1>1, <3>2
    <3>5. /\ <<h>> \o lists[z][j] \in Seq(Page)
          /\ ToSet(<<h>> \o lists[z][j]) = ToSet(lists[z][j]) \cup {h}
          /\ IsInjective(<<h>> \o lists[z][j])
      BY <1>1, <3>2, <3>4, PrependQueue
    <3>6. \A q : <<q, j>> \in In <=> q = h
      BY <1>8, <2>2, <3>1
    <3>7. \A q : <<q, j>> \notin Out
      BY <1>9, <3>2
    <3> QED
      BY <1>1, <3>2, <3>3, <3>5, <3>6, <3>7
  <2>3. CASE j # from /\ j \notin k .. from - 1
    <3>1. f[j] = lists[z][j]
      BY <2>3
    <3>2. \A q : <<q, j>> \notin In /\ <<q, j>> \notin Out
      BY <1>8, <1>9, <2>3
    <3> QED
      BY <1>1, <3>1, <3>2
  <2> QED
    BY <2>1, <2>2, <2>3
<1>11. f \in [Order -> Seq(Page)]
  <2>1. f = [j \in Order |-> f[j]]
    OBVIOUS
  <2> QED
    BY <1>10, <2>1
<1>12. \A b \in Out \cup In : b[1] \in ZoneOf(z) /\ b[2] \in Order /\ b = <<b[1], b[2]>>
  <2>1. \A b \in In : b[1] \in ZoneOf(z) /\ b[2] \in Order /\ b = <<b[1], b[2]>>
    BY <1>6, <1>7 DEF Halves
  <2> QED
    BY <1>3, <1>4, <1>7, <2>1
<1>13. Refiled(z, f, Out, In)
  BY <1>10, <1>11, <1>12 DEF Refiled
<1> QED
  BY <1>3, <1>4, <1>7, <1>13

LEMMA SplitKeeps ==
    ASSUME PageInv, Ready, NEW z \in DOMAIN Zones, NEW k \in Order, NEW from \in Order, k <= from,
           lists[z][from] # <<>>, NEW p, p = Head(lists[z][from]), Split(z, p, from, k),
           live' = live \cup {<<p, k>>}, rest' = rest
    PROVE  PageInv'
<1>1. PICK a, b, H, f :
        /\ a = <<p, from>> /\ b = <<p, k>> /\ H = Halves(p, k, from)
        /\ f = [j \in Order |-> IF j = from THEN Tail(lists[z][j])
                                ELSE IF j \in k .. from - 1 THEN <<BuddyOf(p, j)>> \o lists[z][j]
                                ELSE lists[z][j]]
  OBVIOUS
<1>2. a \in Free /\ p \in ZoneOf(z) /\ Refiled(z, f, {a}, H)
  BY <1>1, SplitRefiles
<1>3. /\ lists' = [lists EXCEPT ![z] = f]
      /\ mark' = [q \in Page |-> IF \E j \in k .. from - 1 : q = BuddyOf(p, j)
                                   THEN CHOOSE j \in k .. from - 1 : q = BuddyOf(p, j)
                                   ELSE IF q = p THEN Busy ELSE mark[q]]
  BY <1>1 DEF Split
<1>4. /\ lists' \in [DOMAIN Zones -> [Order -> Seq(Page)]]
      /\ Shelved'
      /\ Free' = (Free \ {a}) \cup H
  <2>1. PageTypeOK /\ Shelved
    BY DEF PageInv
  <2> QED
    <3>1. PICK Out : Out = {a}
      OBVIOUS
    <3>2. Refile(z, f, Out, H)
      BY <1>2, <1>3, <3>1 DEF Refile
    <3>3. lists' \in [DOMAIN Zones -> [Order -> Seq(Page)]] /\ Shelved' /\ Free' = (Free \ Out) \cup H
      BY <2>1, <3>2, ListsBecome
    <3> QED
      BY <3>1, <3>3
<1>5. IsBlock(a) /\ PageZone(p) = z /\ Pages(a) \subseteq ZoneOf(z) /\ p \in Page /\ p \in Pages(a)
  BY <1>1, <1>2, ZoneIs, BlockIs
<1>6. /\ IsBlock(b) /\ p \in Pages(b)
      /\ Blocks({b} \cup H) /\ Cover({b} \cup H) = Pages(a)
      /\ \A j \in k .. from - 1 :
           /\ j \in Order /\ j < MAX_ORDER /\ IsBlock(<<BuddyOf(p, j), j>>)
           /\ BuddyOf(p, j) \in Pages(a) /\ BuddyOf(p, j) # p
           /\ BuddyOf(BuddyOf(p, j), j) = p
           /\ \A l \in k .. from - 1 : BuddyOf(p, l) = BuddyOf(p, j) => l = j
  <2>1. IsBlock(<<p, from>>)
    BY <1>1, <1>5
  <2>2. /\ IsBlock(<<p, k>>) /\ p \in Pages(<<p, k>>)
        /\ Chain(p, k, from) = {<<p, k>>} \cup Halves(p, k, from)
        /\ Blocks(Chain(p, k, from)) /\ Cover(Chain(p, k, from)) = Pages(<<p, from>>)
        /\ \A j \in k .. from - 1 :
             /\ j \in Order /\ j < MAX_ORDER /\ IsBlock(<<BuddyOf(p, j), j>>)
             /\ BuddyOf(p, j) \in Pages(<<p, from>>) /\ BuddyOf(p, j) # p
             /\ BuddyOf(BuddyOf(p, j), j) = p
             /\ \A l \in k .. from - 1 : BuddyOf(p, l) = BuddyOf(p, j) => l = j
    BY <2>1, HalvesAre
  <2> QED
    BY <1>1, <2>2
<1>7. \A c \in H : \E j \in k .. from - 1 : c = <<BuddyOf(p, j), j>>
  BY <1>1 DEF Halves
<1>8. a \notin live /\ b \notin H /\ Blocks(Free \cup live) /\ Cover(Free \cup live) = Carved /\ Free \cap live = {}
  <2>1. b \notin H
    BY <1>1, <1>6, <1>7
  <2> QED
    BY <1>2, <2>1 DEF PageInv
<1>9. Free' \cup live' = ((Free \cup live) \ {a}) \cup ({b} \cup H)
  BY <1>1, <1>4, <1>8
<1>10. /\ Blocks(Free' \cup live') /\ Cover(Free' \cup live') = Carved
       /\ ({b} \cup H) \cap ((Free \cup live) \ {a}) = {}
  <2>1. PICK B, M, N : B = Free \cup live /\ M = {a} /\ N = {b} \cup H
    OBVIOUS
  <2>2. Cover(M) = Pages(a)
    BY <2>1 DEF Cover
  <2>3. Blocks(B) /\ M \subseteq B /\ Blocks(N) /\ Cover(N) = Cover(M)
    BY <1>2, <1>6, <1>8, <2>1, <2>2
  <2>4. Blocks((B \ M) \cup N) /\ Cover((B \ M) \cup N) = Cover(B) /\ N \cap (B \ M) = {}
    BY <2>3, Replaced
  <2> QED
    BY <1>8, <1>9, <2>1, <2>4
<1>11. Free' \cap live' = {}
  <2>1. b \notin Free' /\ live' = live \cup {b}
    BY <1>1, <1>4, <1>8, <1>10
  <2>2. \A c \in live : c \notin H /\ c \notin Free
    BY <1>8, <1>10
  <2> QED
    BY <1>4, <2>1, <2>2
<1>12. Carved' = Carved /\ Ready' /\ CarvedLarge'
  <2>1. \A i \in DOMAIN FreeRanges : rest'[i] = End(i) /\ End(i) \in Nat
    BY RangeIs DEF Ready
  <2>2. Ready' /\ Carved' = Carved
    BY <2>1 DEF Ready, Carved, Start, End
  <2>3. \A i \in DOMAIN FreeRanges : ~(rest'[i] < End(i))
    BY <2>1
  <2> QED
    BY <2>2, <2>3 DEF CarvedLarge, End
<1>13. /\ mark'[p] = Busy
       /\ \A j \in k .. from - 1 : mark'[BuddyOf(p, j)] = j
       /\ \A q \in Page : q \notin Pages(a) => mark'[q] = mark[q]
       /\ mark' \in [Page -> {Busy} \cup Order]
  <2>1. mark'[p] = Busy
    BY <1>3, <1>5, <1>6
  <2>2. ASSUME NEW j \in k .. from - 1
        PROVE  mark'[BuddyOf(p, j)] = j
    <3>1. BuddyOf(p, j) \in Page
      BY <1>5, <1>6, ZoneIs
    <3>2. mark'[BuddyOf(p, j)] = CHOOSE l \in k .. from - 1 : BuddyOf(p, j) = BuddyOf(p, l)
      BY <1>3, <3>1
    <3> QED
      BY <1>6, <3>2
  <2>3. \A q \in Page : q \notin Pages(a) => mark'[q] = mark[q]
    BY <1>3, <1>5, <1>6
  <2>4. ASSUME NEW q \in Page
        PROVE  mark'[q] \in {Busy} \cup Order
    <3>1. CASE \E j \in k .. from - 1 : q = BuddyOf(p, j)
      BY <1>6, <2>2, <3>1
    <3>2. CASE ~ \E j \in k .. from - 1 : q = BuddyOf(p, j)
      BY <1>3, <3>2 DEF PageInv, PageTypeOK
    <3> QED
      BY <3>1, <3>2
  <2>5. mark' \in [Page -> {Busy} \cup Order]
    <3>1. mark' = [q \in Page |-> mark'[q]]
      BY <1>3
    <3> QED
      BY <2>4, <3>1
  <2> QED
    BY <2>1, <2>2, <2>3, <2>5
<1>14. PageTypeOK'
  <2>1. live' \subseteq Page \X Order
    BY <1>5 DEF PageInv, PageTypeOK
  <2> QED
    BY <1>4, <1>13, <2>1 DEF PageInv, PageTypeOK, Start, End
<1>15. InZones'
  <2>1. ASSUME NEW c \in Free' \cup live'
        PROVE  Pages(c) \subseteq ZoneOf(PageZone(c[1]))
    <3>1. CASE c \in (Free \cup live) \ {a}
      BY <3>1, BlockIs
    <3>2. CASE c \in {b} \cup H
      <4>1. Pages(c) \subseteq Pages(a)
        BY <1>6, <3>2 DEF Cover
      <4>2. c[1] \in Pages(c)
        BY <1>6, <3>2, PagesIs DEF Blocks
      <4>3. PageZone(c[1]) = z
        BY <1>5, <4>1, <4>2, ZoneIs
      <4> QED
        BY <1>5, <4>1, <4>3
    <3> QED
      BY <1>9, <3>1, <3>2
  <2> QED
    BY <2>1 DEF InZones
<1>16. FlagsTrue'
  <2>1. ASSUME NEW c \in (Free \cup live) \ {a}
        PROVE  mark'[c[1]] = mark[c[1]]
    <3>1. c[1] \in Page /\ c[1] \in Pages(c)
      BY BlockIs
    <3>2. c[1] \notin Pages(a)
      BY <1>2, <1>8, <3>1 DEF Blocks
    <3> QED
      BY <1>13, <3>1, <3>2
  <2>2. ASSUME NEW c \in Free'
        PROVE  mark'[c[1]] = c[2]
    <3>1. CASE c \in H
      BY <1>7, <1>13, <3>1
    <3>2. CASE c \notin H
      BY <1>4, <2>1, <3>2 DEF PageInv, FlagsTrue
    <3> QED
      BY <3>1, <3>2
  <2>3. ASSUME NEW c \in live'
        PROVE  mark'[c[1]] = Busy
    <3>1. CASE c = b
      BY <1>1, <1>13, <3>1
    <3>2. CASE c # b
      BY <1>1, <1>8, <2>1, <3>2 DEF PageInv, FlagsTrue
    <3> QED
      BY <3>1, <3>2
  <2>4. ASSUME NEW q \in Page, q \notin Given
        PROVE  mark'[q] = Busy
    <3>1. q \notin Pages(a)
      BY <1>2, <2>4, BlockIs, CarvedGiven DEF PageInv
    <3> QED
      BY <1>13, <2>4, <3>1 DEF PageInv, FlagsTrue
  <2> QED
    BY <2>2, <2>3, <2>4 DEF FlagsTrue, Given, Start, End
<1>17. NoBuddies(Free')
  <2> SUFFICES ASSUME NEW c \in Free', c[2] < MAX_ORDER,
                      NEW d, d = <<BuddyOf(c[1], c[2]), c[2]>>, d \in Free'
               PROVE  FALSE
    BY DEF NoBuddies
  <2>1. IsBlock(c) /\ IsBlock(d) /\ c = <<BuddyOf(d[1], d[2]), d[2]>>
    BY <1>10, BuddyBlock DEF Blocks
  \* the buddy of a half is around the block that is given away
  <2>2. ASSUME NEW j \in k .. from - 1, <<p, j>> \in Free'
        PROVE  FALSE
    <3>1. PICK e : e = <<p, j>>
      OBVIOUS
    <3>2. e \in Free' /\ p \in Pages(e)
      <4>1. IsBlock(e) /\ e[1] = p
        BY <1>10, <2>2, <3>1 DEF Blocks
      <4> QED
        BY <2>2, <3>1, <4>1, PagesIs
    <3>3. b \in live'
      BY <1>1
    <3> QED
      BY <1>6, <1>10, <1>11, <3>2, <3>3 DEF Blocks
  <2>3. CASE c \in H
    <3>1. PICK j \in k .. from - 1 : c = <<BuddyOf(p, j), j>>
      BY <1>7, <2>3
    <3>2. d = <<p, j>>
      BY <1>6, <3>1
    <3> QED
      BY <2>2, <3>2
  <2>4. CASE d \in H
    <3>1. PICK j \in k .. from - 1 : d = <<BuddyOf(p, j), j>>
      BY <1>7, <2>4
    <3>2. c = <<p, j>>
      BY <1>6, <2>1, <3>1
    <3> QED
      BY <2>2, <3>2
  <2>5. CASE c \notin H /\ d \notin H
    BY <1>4, <2>5 DEF PageInv, NoBuddies
  <2> QED
    BY <2>3, <2>4, <2>5
<1> QED
  BY <1>4, <1>10, <1>11, <1>12, <1>14, <1>15, <1>16, <1>17 DEF PageInv, Cover, Blocks

LEMMA AllocKeeps ==
    ASSUME PageInv, Ready, NEW k \in Order, PageAlloc(k)
    PROVE  PageInv'
<1>1. PICK z \in DOMAIN Zones :
        /\ Fits(z, k) # {}
        /\ LET from == CHOOSE j \in Fits(z, k) : \A i \in Fits(z, k) : j <= i
               p == Head(lists[z][from])
           IN  Split(z, p, from, k) /\ live' = live \cup {<<p, k>>}
        /\ rest' = rest
  BY DEF PageAlloc
<1>2. PICK from, p :
        /\ from = CHOOSE j \in Fits(z, k) : \A i \in Fits(z, k) : j <= i
        /\ p = Head(lists[z][from])
  OBVIOUS
<1>3. \E j \in Fits(z, k) : \A i \in Fits(z, k) : j <= i
  <2>1. Fits(z, k) \in SUBSET Nat
    BY OrderIs DEF Fits
  <2> QED
    BY <1>1, <2>1, LeastElement
<1>4. from \in Fits(z, k)
  BY <1>2, <1>3
<1>5. from \in Order /\ k <= from /\ lists[z][from] # <<>>
  BY <1>4, OrderIs DEF Fits
<1>6. Split(z, p, from, k) /\ live' = live \cup {<<p, k>>} /\ rest' = rest
  BY <1>1, <1>2
<1> QED
  BY <1>2, <1>5, <1>6, SplitKeeps

-----------------------------------------------------------------------------
(***************************************************************************)
(* Freeing.                                                                *)
(***************************************************************************)

\* The buddies that freed block p of order k takes in on its way up to order n.
Joined(p, k, n) == {<<BuddyOf(Base(p, j), j), j>> : j \in k .. n - 1}

\* A flag in the zone that says what the loop looks for is that of a free block.  It is
\* not that of a page reserved at boot, which reads as busy; and were it a stale one,
\* inside a larger block, then that block would hold page p too.
LEMMA MergeTarget ==
    ASSUME PageInv, NEW p, NEW k, <<p, k>> \in live, NEW j \in Order, k <= j, Merges(p, j)
    PROVE  /\ j < MAX_ORDER /\ BuddyOf(Base(p, j), j) \in ZoneOf(PageZone(p))
           /\ <<BuddyOf(Base(p, j), j), j>> \in Free
<1>1. PICK h, b, d, y : /\ h = BuddyOf(Base(p, j), j) /\ b = <<p, k>>
                        /\ d = <<h, j>> /\ y = <<Base(p, j + 1), j + 1>>
  OBVIOUS
<1>2. j < MAX_ORDER /\ j + 1 \in Order /\ h \in ZoneOf(PageZone(p)) /\ mark[h] = j /\ j # Busy
  BY <1>1, OrderIs DEF Merges, Busy
<1>3. b \in Free \cup live /\ p \in Page /\ p \in Nat /\ k \in Order /\ p \in Pages(b)
  <2>1. b \in Free \cup live /\ b[1] = p /\ b[2] = k
    BY <1>1
  <2> QED
    BY <2>1, BlockIs, PageIs
<1>4. h \in Page /\ h \in Carved
  <2>1. h \in Page
    BY <1>2, <1>3, PageIs, ZoneIs
  <2>2. Ready /\ h \in Given
    BY <1>2, <2>1 DEF PageInv, FlagsTrue
  <2> QED
    BY <2>1, <2>2, CarvedGiven DEF PageInv
<1>5. PICK c \in Free \cup live :
        /\ h \in Pages(c)
        /\ \A e : IsBlock(e) /\ h \in Pages(e) /\ e[2] <= c[2] => Pages(e) \subseteq Pages(c)
        /\ \A e : IsBlock(e) /\ h \in Pages(e) /\ c[2] <= e[2] => Pages(c) \subseteq Pages(e)
        /\ \A e : IsBlock(e) /\ h \in Pages(e) /\ c[2] = e[2] => e = c
  <2>1. PICK B : B = Free \cup live
    OBVIOUS
  <2>2. Blocks(B) /\ h \in Cover(B)
    BY <1>4, <2>1 DEF PageInv
  <2> QED
    BY <2>1, <2>2, Holder
<1>6. IsBlock(c) /\ c[1] \in Nat /\ c[2] \in Order /\ c[1] \in Pages(c)
  BY BlockIs, PagesIs
<1>7. IsBlock(d) /\ h \in Pages(d) /\ d[1] = h /\ d[2] = j /\ IsBlock(y) /\ y[2] = j + 1
      /\ h \in Pages(y) /\ p \in Pages(y)
  <2>1. IsBlock(<<h, j>>) /\ Pages(<<Base(p, j + 1), j + 1>>) = Pages(<<Base(p, j), j>>) \cup Pages(<<h, j>>)
    BY <1>1, <1>2, <1>3, BaseUp
  <2>2. IsBlock(<<Base(p, j + 1), j + 1>>) /\ p \in Pages(<<Base(p, j + 1), j + 1>>)
    BY <1>2, <1>3, BaseBlock
  <2>3. IsBlock(d) /\ d[1] = h /\ d[2] = j
    BY <1>1, <2>1
  <2>4. h \in Pages(d)
    BY <2>3, PagesIs
  <2> QED
    BY <1>1, <2>1, <2>2, <2>3, <2>4
<1>8. CASE c[2] <= j
  <2>1. Pages(c) \subseteq Pages(d)
    BY <1>5, <1>7, <1>8
  <2>2. h <= c[1] /\ c[1] <= h
    BY <1>5, <1>6, <1>7, <2>1, PagesIs
  <2>3. c[1] = h
    BY <1>6, <1>7, <2>2, PagesIs
  <2>4. c \in Free /\ c[2] = j
    BY <1>2, <2>3 DEF PageInv, FlagsTrue
  <2>5. c = d
    BY <1>5, <1>7, <2>4
  <2> QED
    BY <1>1, <1>2, <2>4, <2>5
<1>9. CASE ~(c[2] <= j)
  <2>1. y[2] <= c[2]
    BY <1>6, <1>7, <1>9, OrderIs
  <2>2. p \in Pages(c)
    BY <1>5, <1>7, <2>1
  <2>3. c = b
    BY <1>3, <2>2 DEF PageInv, Blocks
  <2> QED
    BY <1>1, <1>9, <2>3
<1> QED
  BY <1>8, <1>9

\* What freeing takes from the lists of its zone and what it puts there.
LEMMA FreeRefiles ==
    ASSUME PageInv, NEW p, NEW k, <<p, k>> \in live,
           NEW z, z = PageZone(p), NEW g, g = Grown(p, k),
           NEW f, f = [j \in Order |->
                         IF j \in k .. g - 1 THEN Unlink(lists[z][j], BuddyOf(Base(p, j), j))
                         ELSE IF j = g THEN <<Base(p, g)>> \o lists[z][j]
                         ELSE lists[z][j]]
    PROVE  /\ z \in DOMAIN Zones /\ k \in Order /\ g \in Order /\ k <= g /\ p \in Nat /\ ~Merges(p, g)
           /\ IsBlock(<<p, k>>) /\ IsBlock(<<Base(p, g), g>>)
           /\ Pages(<<Base(p, g), g>>) \subseteq ZoneOf(z) /\ Base(p, g) \in ZoneOf(z)
           /\ Joined(p, k, g) \subseteq Free
           /\ Chain(p, k, g) = {<<p, k>>} \cup Joined(p, k, g)
           /\ Blocks(Chain(p, k, g)) /\ Cover(Chain(p, k, g)) = Pages(<<Base(p, g), g>>)
           /\ Refiled(z, f, Joined(p, k, g), {<<Base(p, g), g>>})
<1>1. /\ PageTypeOK /\ Shelved /\ <<p, k>> \in Free \cup live
      /\ \A q \in DOMAIN Zones : \A j \in Order : lists[q][j] \in Seq(Page) /\ IsInjective(lists[q][j])
      /\ \A q \in DOMAIN Zones : \A j \in Order : \A x :
            x \in ToSet(lists[q][j]) <=> x \in ZoneOf(q) /\ <<x, j>> \in Free
  BY FreeIs DEF PageInv, PageTypeOK, Shelved
<1>2. /\ IsBlock(<<p, k>>) /\ p \in Page /\ k \in Order /\ p \in Pages(<<p, k>>)
      /\ Pages(<<p, k>>) \subseteq ZoneOf(PageZone(p))
  <2>1. PICK b : b = <<p, k>>
    OBVIOUS
  <2>2. b \in Free \cup live /\ b[1] = p /\ b[2] = k
    BY <1>1, <2>1
  <2>3. IsBlock(b) /\ b[1] \in Page /\ b[2] \in Order /\ b[1] \in Pages(b) /\ Pages(b) \subseteq ZoneOf(PageZone(b[1]))
    BY <2>2, BlockIs
  <2> QED
    BY <2>1, <2>2, <2>3
<1>3. p \in Nat /\ z \in DOMAIN Zones /\ p \in ZoneOf(z)
  BY <1>2, PageIs
<1>4. g \in Order /\ k <= g /\ ~Merges(p, g) /\ \A j \in k .. g - 1 : Merges(p, j)
  BY <1>2, GrownIs
<1>5. PICK h, n, J, C : /\ h = Base(p, g) /\ n = <<h, g>> /\ J = Joined(p, k, g)
                        /\ C = Chain(p, k, g)
  OBVIOUS
<1>6. C = {<<p, k>>} \cup J
  BY <1>5 DEF Chain, Joined
<1>7. ASSUME NEW j \in k .. g - 1
      PROVE  /\ j \in Order /\ j # g
             /\ BuddyOf(Base(p, j), j) \in ZoneOf(z) /\ <<BuddyOf(Base(p, j), j), j>> \in Free
  <2>1. j \in Order /\ j # g /\ k <= j
    BY <1>2, <1>4, OrderIs
  <2>2. Merges(p, j)
    BY <1>4
  <2> QED
    BY <2>1, <2>2, MergeTarget
<1>8. J \subseteq Free
  BY <1>5, <1>7 DEF Joined
<1>9. Blocks(C) /\ Cover(C) = Pages(n)
  BY <1>2, <1>3, <1>4, <1>5, ChainIs
<1>10. IsBlock(n) /\ p \in Pages(n) /\ n[1] = h /\ n[2] = g /\ h \in Pages(n)
  <2>1. IsBlock(n) /\ p \in Pages(n) /\ n[1] = h /\ n[2] = g
    BY <1>3, <1>4, <1>5, BaseBlock
  <2> QED
    BY <2>1, PagesIs
<1>11. Pages(n) \subseteq ZoneOf(z)
  <2> SUFFICES ASSUME NEW x \in Pages(n)
               PROVE  x \in ZoneOf(z)
    OBVIOUS
  <2>1. PICK c \in C : x \in Pages(c)
    BY <1>9 DEF Cover
  <2>2. CASE c = <<p, k>>
    BY <1>2, <2>1, <2>2
  <2>3. CASE c \in J
    <3>1. PICK j \in k .. g - 1 : c = <<BuddyOf(Base(p, j), j), j>>
      BY <1>5, <2>3 DEF Joined
    <3>2. c \in Free /\ c[1] \in ZoneOf(z)
      BY <1>7, <3>1
    <3>3. PageZone(c[1]) = z
      BY <1>3, <3>2, ZoneIs
    <3> QED
      BY <2>1, <3>2, <3>3, BlockIs
  <2> QED
    BY <1>6, <2>1, <2>2, <2>3
<1>12. n \notin Free
  BY <1>1, <1>2, <1>10 DEF PageInv, Blocks
<1>13. h \in ZoneOf(z) /\ h \in Page
  BY <1>3, <1>10, <1>11, ZoneIs
<1>14. PICK In : In = {n}
  OBVIOUS
<1>15. \A q : \A j : <<q, j>> \in J <=> j \in k .. g - 1 /\ q = BuddyOf(Base(p, j), j)
  BY <1>5 DEF Joined
<1>16. \A q : \A j : <<q, j>> \in In <=> j = g /\ q = h
  BY <1>5, <1>14
<1>17. ASSUME NEW j \in Order
       PROVE  /\ f[j] \in Seq(Page) /\ IsInjective(f[j])
              /\ \A q : q \in ToSet(f[j]) <=>
                   /\ q \in ZoneOf(z)
                   /\ (<<q, j>> \in Free /\ <<q, j>> \notin J) \/ <<q, j>> \in In
  <2>0. lists[z][j] \in Seq(Page) /\ IsInjective(lists[z][j])
        /\ \A q : q \in ToSet(lists[z][j]) <=> q \in ZoneOf(z) /\ <<q, j>> \in Free
    BY <1>1, <1>3
  <2>1. CASE j \in k .. g - 1
    <3>1. PICK x, s : x = BuddyOf(Base(p, j), j) /\ s = lists[z][j]
      OBVIOUS
    <3>2. j # g /\ x \in ToSet(s)
      BY <1>7, <2>0, <2>1, <3>1
    <3>3. PICK i : i = CHOOSE l \in DOMAIN s : s[l] = x
      OBVIOUS
    <3>4. i \in DOMAIN s /\ s[i] = x
      BY <3>2, <3>3 DEF ToSet
    <3>5. f[j] = RemoveAt(s, i)
      <4>1. f[j] = Unlink(s, x)
        BY <2>1, <3>1
      <4> QED
        BY <3>2, <3>3, <4>1 DEF Unlink
    <3>6. RemoveAt(s, i) \in Seq(Page) /\ IsInjective(RemoveAt(s, i)) /\ ToSet(RemoveAt(s, i)) = ToSet(s) \ {x}
      BY <2>0, <3>1, <3>4, RemoveQueue
    <3>7. \A q : <<q, j>> \in J <=> q = x
      BY <1>15, <2>1, <3>1
    <3>8. \A q : <<q, j>> \notin In
      BY <1>16, <3>2
    <3> QED
      BY <2>0, <3>1, <3>5, <3>6, <3>7, <3>8
  <2>2. CASE j = g
    <3>1. f[j] = <<h>> \o lists[z][j]
      <4>1. j \notin k .. g - 1
        BY <2>2, OrderIs
      <4> QED
        BY <1>5, <2>2, <4>1
    <3>2. h \notin ToSet(lists[z][j])
      BY <1>5, <1>12, <2>0, <2>2
    <3>3. /\ <<h>> \o lists[z][j] \in Seq(Page)
          /\ ToSet(<<h>> \o lists[z][j]) = ToSet(lists[z][j]) \cup {h}
          /\ IsInjective(<<h>> \o lists[z][j])
      BY <1>13, <2>0, <3>2, PrependQueue
    <3>4. \A q : <<q, j>> \in In <=> q = h
      BY <1>16, <2>2
    <3>5. \A q : <<q, j>> \notin J
      BY <1>15, <2>2, OrderIs
    <3> QED
      BY <1>13, <2>0, <3>1, <3>3, <3>4, <3>5
  <2>3. CASE j # g /\ j \notin k .. g - 1
    <3>1. f[j] = lists[z][j]
      BY <2>3
    <3>2. \A q : <<q, j>> \notin J /\ <<q, j>> \notin In
      BY <1>15, <1>16, <2>3
    <3> QED
      BY <2>0, <3>1, <3>2
  <2> QED
    BY <2>1, <2>2, <2>3
<1>18. f \in [Order -> Seq(Page)]
  <2>1. f = [j \in Order |-> f[j]]
    OBVIOUS
  <2> QED
    BY <1>17, <2>1
<1>19. \A b \in J \cup In : b[1] \in ZoneOf(z) /\ b[2] \in Order /\ b = <<b[1], b[2]>>
  <2>1. \A b \in J : b[1] \in ZoneOf(z) /\ b[2] \in Order /\ b = <<b[1], b[2]>>
    BY <1>5, <1>7 DEF Joined
  <2> QED
    BY <1>4, <1>5, <1>13, <1>14, <2>1
<1>20. Refiled(z, f, J, In)
  BY <1>17, <1>18, <1>19 DEF Refiled
<1> QED
  BY <1>2, <1>3, <1>4, <1>5, <1>6, <1>8, <1>9, <1>10, <1>11, <1>13, <1>14, <1>20

\* Buddies are next to each other, so they are in one zone.
LEMMA BuddiesTogether ==
    ASSUME NEW z \in DOMAIN Zones, NEW y \in DOMAIN Zones, NEW n, IsBlock(n), n[2] < MAX_ORDER,
           NEW d, d = <<BuddyOf(n[1], n[2]), n[2]>>,
           Pages(n) \subseteq ZoneOf(z), Pages(d) \subseteq ZoneOf(y)
    PROVE  y = z
<1>1. PICK h, g, x : h = n[1] /\ g = n[2] /\ x = BuddyOf(h, g)
  OBVIOUS
<1>2. h \in Nat /\ g \in Order /\ g + 1 \in Order /\ Aligned(h, g)
  BY <1>1, PagesIs, OrderIs DEF IsBlock
<1>3. PICK s \in Nat \ {0} : s = Size[g]
  BY <1>2, SizeIs
<1>4. x \in Nat /\ (x = h + s \/ h = x + s)
  BY <1>1, <1>2, <1>3, BuddyIs
<1>5. IsBlock(d) /\ d[1] = x /\ d[2] = g
  BY <1>1, BuddyBlock
<1>6. /\ \A q : q \in Pages(n) <=> q \in Nat /\ h <= q /\ q < h + s
      /\ \A q : q \in Pages(d) <=> q \in Nat /\ x <= q /\ x + s > q
  BY <1>1, <1>3, <1>5, PagesIs
<1>7. CASE x = h + s
  <2>1. PICK q \in Nat : q = h + s - 1 /\ q + 1 = x
    BY <1>2, <1>3, <1>7
  <2>2. q \in ZoneOf(z) /\ q + 1 \in ZoneOf(y)
    BY <1>2, <1>3, <1>4, <1>6, <2>1
  <2> QED
    BY <2>2, ZonesApart
<1>8. CASE h = x + s
  <2>1. PICK q \in Nat : q = x + s - 1 /\ q + 1 = h
    BY <1>3, <1>4, <1>8
  <2>2. q \in ZoneOf(y) /\ q + 1 \in ZoneOf(z)
    BY <1>2, <1>3, <1>4, <1>6, <2>1
  <2> QED
    BY <2>2, ZonesApart
<1> QED
  BY <1>4, <1>7, <1>8

LEMMA FreeKeeps ==
    ASSUME PageInv, Ready, NEW p \in Page, NEW k \in Order, PageFree(p, k)
    PROVE  PageInv'
<1>1. PICK z, g, h, b, n, J, f :
        /\ z = PageZone(p) /\ g = Grown(p, k) /\ h = Base(p, g)
        /\ b = <<p, k>> /\ n = <<h, g>> /\ J = Joined(p, k, g)
        /\ f = [j \in Order |->
                  IF j \in k .. g - 1 THEN Unlink(lists[z][j], BuddyOf(Base(p, j), j))
                  ELSE IF j = g THEN <<Base(p, g)>> \o lists[z][j]
                  ELSE lists[z][j]]
  OBVIOUS
<1>2. /\ b \in live /\ live' = live \ {b} /\ rest' = rest
      /\ lists' = [lists EXCEPT ![z] = f]
      /\ mark' = [mark EXCEPT ![h] = g]
  BY <1>1 DEF PageFree
<1>3. /\ z \in DOMAIN Zones /\ g \in Order /\ ~Merges(p, g)
      /\ IsBlock(b) /\ IsBlock(n) /\ Pages(n) \subseteq ZoneOf(z) /\ h \in ZoneOf(z)
      /\ J \subseteq Free
      /\ Blocks({b} \cup J) /\ Cover({b} \cup J) = Pages(n)
      /\ Refiled(z, f, J, {n})
  <2>1. <<p, k>> \in live
    BY <1>1, <1>2
  <2>2. /\ z \in DOMAIN Zones /\ g \in Order /\ ~Merges(p, g)
        /\ IsBlock(<<p, k>>) /\ IsBlock(<<Base(p, g), g>>)
        /\ Pages(<<Base(p, g), g>>) \subseteq ZoneOf(z) /\ Base(p, g) \in ZoneOf(z)
        /\ Joined(p, k, g) \subseteq Free
        /\ Chain(p, k, g) = {<<p, k>>} \cup Joined(p, k, g)
        /\ Blocks(Chain(p, k, g)) /\ Cover(Chain(p, k, g)) = Pages(<<Base(p, g), g>>)
        /\ Refiled(z, f, Joined(p, k, g), {<<Base(p, g), g>>})
    BY <1>1, <2>1, FreeRefiles
  <2> QED
    BY <1>1, <2>2
<1>4. /\ lists' \in [DOMAIN Zones -> [Order -> Seq(Page)]]
      /\ Shelved'
      /\ Free' = (Free \ J) \cup {n}
  <2>1. PageTypeOK /\ Shelved
    BY DEF PageInv
  <2> QED
    <3>1. PICK In : In = {n}
      OBVIOUS
    <3>2. z \in DOMAIN Zones /\ Refile(z, f, J, In)
      BY <1>2, <1>3, <3>1 DEF Refile
    <3>3. lists' \in [DOMAIN Zones -> [Order -> Seq(Page)]] /\ Shelved' /\ Free' = (Free \ J) \cup In
      BY <2>1, <3>2, ListsBecome
    <3> QED
      BY <3>1, <3>3
<1>5. Blocks(Free \cup live) /\ Cover(Free \cup live) = Carved /\ Free \cap live = {} /\ b \notin Free
  BY <1>2 DEF PageInv
<1>6. Free' \cup live' = ((Free \cup live) \ ({b} \cup J)) \cup {n}
  BY <1>2, <1>3, <1>4, <1>5
<1>7. /\ Blocks(Free' \cup live') /\ Cover(Free' \cup live') = Carved
      /\ n \notin (Free \cup live) \ ({b} \cup J)
  <2>1. PICK B, M, N : B = Free \cup live /\ M = {b} \cup J /\ N = {n}
    OBVIOUS
  <2>2. Cover(N) = Pages(n) /\ Blocks(N)
    BY <1>3, <2>1 DEF Cover, Blocks
  <2>3. Blocks(B) /\ M \subseteq B /\ Blocks(N) /\ Cover(N) = Cover(M)
    BY <1>2, <1>3, <1>5, <2>1, <2>2
  <2>4. Blocks((B \ M) \cup N) /\ Cover((B \ M) \cup N) = Cover(B) /\ N \cap (B \ M) = {}
    BY <2>3, Replaced
  <2> QED
    BY <1>5, <1>6, <2>1, <2>4
<1>8. Free' \cap live' = {}
  <2>1. \A c \in live : c \notin Free /\ c \notin J
    BY <1>3, <1>5
  <2>2. n \notin live'
    BY <1>2, <1>7, <2>1
  <2> QED
    BY <1>2, <1>4, <2>1, <2>2
<1>9. Carved' = Carved /\ Ready' /\ CarvedLarge'
  <2>1. \A i \in DOMAIN FreeRanges : rest'[i] = End(i) /\ End(i) \in Nat
    BY <1>2, RangeIs DEF Ready
  <2>2. Ready' /\ Carved' = Carved
    BY <1>2, <2>1 DEF Ready, Carved, Start, End
  <2>3. \A i \in DOMAIN FreeRanges : ~(rest'[i] < End(i))
    BY <2>1
  <2> QED
    BY <2>2, <2>3 DEF CarvedLarge, End
<1>10. h \in Page /\ PageZone(h) = z /\ n[1] = h /\ n[2] = g /\ h \in Pages(n)
  <2>1. n[1] = h /\ n[2] = g
    BY <1>1
  <2> QED
    BY <1>3, <2>1, ZoneIs, PagesIs
<1>11. /\ mark'[h] = g /\ \A q \in Page : q # h => mark'[q] = mark[q]
       /\ mark' \in [Page -> {Busy} \cup Order]
  BY <1>2, <1>3, <1>10 DEF PageInv, PageTypeOK
<1>12. PageTypeOK'
  <2>1. live' \subseteq Page \X Order
    BY <1>2 DEF PageInv, PageTypeOK
  <2> QED
    BY <1>2, <1>4, <1>11, <2>1 DEF PageInv, PageTypeOK, Start, End
<1>13. InZones'
  <2>1. ASSUME NEW c \in Free' \cup live'
        PROVE  Pages(c) \subseteq ZoneOf(PageZone(c[1]))
    <3>1. CASE c = n
      BY <1>3, <1>10, <3>1
    <3>2. CASE c # n
      BY <1>6, <3>2, BlockIs
    <3> QED
      BY <3>1, <3>2
  <2> QED
    BY <2>1 DEF InZones
<1>14. FlagsTrue'
  <2>1. ASSUME NEW c \in Free' \cup live', c # n
        PROVE  mark'[c[1]] = mark[c[1]]
    <3>1. c[1] \in Page /\ c[1] \in Pages(c)
      BY <1>6, <2>1, BlockIs
    <3>2. c[1] # h
      BY <1>4, <1>7, <1>10, <2>1, <3>1 DEF Blocks
    <3> QED
      BY <1>11, <3>1, <3>2
  <2>2. ASSUME NEW c \in Free'
        PROVE  mark'[c[1]] = c[2]
    <3>1. CASE c = n
      BY <1>10, <1>11, <3>1
    <3>2. CASE c # n
      BY <1>4, <2>1, <3>2 DEF PageInv, FlagsTrue
    <3> QED
      BY <3>1, <3>2
  <2>3. ASSUME NEW c \in live'
        PROVE  mark'[c[1]] = Busy
    <3>1. c \in live /\ c # n
      BY <1>2, <1>4, <1>8
    <3> QED
      BY <2>1, <3>1 DEF PageInv, FlagsTrue
  <2>4. ASSUME NEW q \in Page, q \notin Given
        PROVE  mark'[q] = Busy
    <3>1. h \in Carved
      <4>1. n \in Free' \cup live'
        BY <1>4
      <4> QED
        BY <1>7, <1>10, <4>1 DEF Cover
    <3>2. q # h
      BY <2>4, <3>1, CarvedGiven DEF PageInv
    <3> QED
      BY <1>11, <2>4, <3>2 DEF PageInv, FlagsTrue
  <2> QED
    BY <2>2, <2>3, <2>4 DEF FlagsTrue, Given, Start, End
<1>15. NoBuddies(Free')
  <2> SUFFICES ASSUME NEW c \in Free', c[2] < MAX_ORDER,
                      NEW d, d = <<BuddyOf(c[1], c[2]), c[2]>>, d \in Free'
               PROVE  FALSE
    BY DEF NoBuddies
  <2>1. IsBlock(c) /\ IsBlock(d) /\ d[2] = c[2] /\ c # d /\ c = <<BuddyOf(d[1], d[2]), d[2]>>
    BY <1>7, BuddyBlock DEF Blocks
  \* merging stopped because the buddy could not be taken
  <2>2. ASSUME NEW e \in Free, g < MAX_ORDER, e = <<BuddyOf(n[1], n[2]), n[2]>>
        PROVE  FALSE
    <3>1. PICK x : x = BuddyOf(h, g)
      OBVIOUS
    <3>2. e[1] = x /\ e[2] = g
      BY <1>10, <2>2, <3>1
    <3>3. mark[x] = g
      BY <3>2 DEF PageInv, FlagsTrue
    <3>4. x \notin ZoneOf(z)
      BY <1>1, <1>3, <2>2, <3>1, <3>3 DEF Merges
    <3>5. PICK y : y = PageZone(x)
      OBVIOUS
    <3>6. y \in DOMAIN Zones /\ x \in ZoneOf(y) /\ Pages(e) \subseteq ZoneOf(y)
      BY <3>2, <3>5, BlockIs, PageIs
    <3>7. y = z
      BY <1>3, <1>10, <2>2, <3>6, BuddiesTogether
    <3> QED
      BY <3>4, <3>6, <3>7
  <2>3. CASE c = n
    BY <1>4, <1>10, <2>1, <2>2, <2>3
  <2>4. CASE d = n
    BY <1>4, <1>10, <2>1, <2>2, <2>4
  <2>5. CASE c # n /\ d # n
    BY <1>4, <2>5 DEF PageInv, NoBuddies
  <2> QED
    BY <2>3, <2>4, <2>5
<1> QED
  BY <1>4, <1>7, <1>8, <1>9, <1>12, <1>13, <1>14, <1>15 DEF PageInv, Cover, Blocks

-----------------------------------------------------------------------------
LEMMA NextKeeps == PageInv /\ [PageNext]_page_vars => PageInv'
<1> SUFFICES ASSUME PageInv, [PageNext]_page_vars
             PROVE  PageInv'
  OBVIOUS
<1>1. CASE UNCHANGED page_vars
  <2>1. lists' = lists /\ mark' = mark /\ live' = live /\ rest' = rest
    BY <1>1 DEF page_vars
  <2>2. Free' = Free /\ Carved' = Carved /\ Ready' = Ready
    BY <2>1 DEF Free, Listed, Carved, Ready, Start, End
  <2>3. PageTypeOK' /\ Shelved'
    BY <2>1 DEF PageInv, PageTypeOK, Shelved, Start, End
  <2>4. InZones' /\ FlagsTrue'
    BY <2>1, <2>2 DEF PageInv, InZones, FlagsTrue, Given, Start, End
  <2>5. CarvedLarge'
    BY <2>1, <2>2 DEF PageInv, CarvedLarge, Start, End
  <2>6. Blocks(Free' \cup live') /\ Cover(Free' \cup live') = Carved' /\ Free' \cap live' = {}
        /\ NoBuddies(Free') /\ (Ready' \/ live' = {})
    BY <2>1, <2>2 DEF PageInv
  <2> QED
    BY <2>3, <2>4, <2>5, <2>6 DEF PageInv, Cover, Blocks, NoBuddies
<1>2. CASE \E i \in DOMAIN FreeRanges : Carve(i)
  BY <1>2, CarveKeeps
<1>3. CASE Ready /\ \E k \in Order : PageAlloc(k)
  BY <1>3, AllocKeeps
<1>4. CASE Ready /\ \E k \in Order : \E p \in Page : PageFree(p, k)
  BY <1>4, FreeKeeps
<1> QED
  BY <1>1, <1>2, <1>3, <1>4 DEF PageNext

(***************************************************************************)
(* The theorems rest on ReservedClean: the descriptors of the pages that   *)
(* are reserved at boot read as busy, which is what memset at memory.c:78  *)
(* is there for and does not do.  Those of all pages that the allocator is *)
(* given may hold anything: it writes one before it reads it.              *)
(***************************************************************************)

\* When the descriptors of reserved pages read as busy, the lists, the flags, the zones
\* and what clients have agree at all times, whatever the other descriptors held at
\* boot (memory.c:153, 159-183, 225-263, 318-349).
THEOREM PageInvariant == ReservedClean /\ PageSpec => []PageInv
<1>1. ReservedClean /\ PageInit => PageInv
  BY InitInv
<1>2. PageInv /\ [PageNext]_page_vars => PageInv'
  BY NextKeeps
<1> QED
  BY <1>1, <1>2, PTL DEF PageSpec

\* When the descriptors of reserved pages read as busy, no page is lost, leaked or
\* handed out twice, and each block is aligned to its size
\* (memory.c:153, 166-182, 233-263, 315, 318-349).
THEOREM EveryPageAccounted == ReservedClean /\ PageSpec => []PagesAccounted
<1>1. ASSUME PageInv
      PROVE  PagesAccounted
  <2>1. ASSUME NEW b \in Free \cup live
        PROVE  Aligned(b[1], b[2]) /\ b[1] # 0
    <3>1. IsBlock(b) /\ b[1] \in Carved
      BY <1>1, BlockIs
    <3>2. PICK i \in DOMAIN FreeRanges : b[1] \in Start(i) .. rest[i] - 1
      BY <3>1 DEF Carved
    <3>3. Start(i) \in Nat /\ 0 < Start(i) /\ rest[i] \in Nat
      BY <1>1, RangeIs DEF PageInv, PageTypeOK
    <3> QED
      BY <3>1, <3>2, <3>3 DEF IsBlock
  <2>2. /\ PageTypeOK /\ Free \cap live = {} /\ Shelved
        /\ UNION {Pages(b) : b \in Free \cup live} = Carved
        /\ \A b, c \in Free \cup live : b # c => Pages(b) \cap Pages(c) = {}
    BY <1>1 DEF PageInv, Cover, Blocks
  <2> QED
    BY <2>1, <2>2 DEF PagesAccounted, Shelved
<1> QED
  BY <1>1, PageInvariant, PTL

\* When the descriptors of reserved pages read as busy, freeing merges a block with exactly those buddies that are free: what it takes off a
\* list is on it, and no two free blocks are buddies (memory.c:325-343).
THEOREM MergesAreExact == ReservedClean /\ PageSpec => []MergesExact
<1>1. ASSUME PageInv
      PROVE  MergesListed
  <2> SUFFICES ASSUME NEW b \in live, NEW j \in b[2] .. Grown(b[1], b[2]) - 1
               PROVE  <<BuddyOf(Base(b[1], j), j), j>> \in Listed(PageZone(b[1]))
    BY DEF MergesListed
  <2>1. PICK p, k, h : p = b[1] /\ k = b[2] /\ h = BuddyOf(Base(p, j), j)
    OBVIOUS
  <2>2. k \in Order /\ p \in Page /\ <<p, k>> \in live
    BY <1>1, <2>1, BlockIs
  <2>3. Grown(p, k) \in Order /\ \A i \in k .. Grown(p, k) - 1 : Merges(p, i)
    BY <2>2, GrownIs
  <2>4. j \in Order /\ k <= j /\ Merges(p, j)
    BY <2>1, <2>2, <2>3, OrderIs
  <2>5. h \in ZoneOf(PageZone(p)) /\ <<h, j>> \in Free
    BY <1>1, <2>1, <2>2, <2>4, MergeTarget
  <2>6. h \in ToSet(lists[PageZone(p)][j])
    <3>1. PageZone(p) \in DOMAIN Zones
      BY <2>2, PageIs
    <3> QED
      BY <1>1, <2>4, <2>5, <3>1, FreeIs DEF PageInv
  <2> QED
    BY <2>1, <2>4, <2>6 DEF Listed
<1>2. ASSUME PageInv
      PROVE  NoMissedMerge
  BY <1>2 DEF PageInv, NoBuddies, NoMissedMerge
<1>3. PageInv => MergesExact
  BY <1>1, <1>2 DEF MergesExact
<1> QED
  BY <1>3, PageInvariant, PTL

\* When the descriptors of reserved pages read as busy and no client has memory, the free
\* blocks are the largest of which the free ranges consist: however requests and releases were ordered, nothing stays in pieces
\* (memory.c:166-182, 325-349).
THEOREM FreeingRestores == ReservedClean /\ PageSpec => []AllFreeRestores
<1>1. ASSUME PageInv, Ready, live = {}
      PROVE  Free = Largest
  <2>1. Blocks(Free) /\ Cover(Free) = Carved /\ NoBuddies(Free)
    <3>1. Free \cup live = Free
      BY <1>1
    <3> QED
      BY <1>1, <3>1 DEF PageInv
  <2>2. Carved = Given
    BY <1>1 DEF Ready, Carved, Given
  <2>3. \A b \in Free : IsBlock(b) /\ b \in Page \X Order /\ b[1] \in Nat /\ b[2] \in Order /\ b[1] \in Pages(b)
    <3>1. \A b \in Free : IsBlock(b) /\ b[1] \in Page /\ b[2] \in Order /\ b = <<b[1], b[2]>> /\ b[1] \in Pages(b)
      BY <1>1, BlockIs
    <3>2. \A b \in Free : b[1] \in Nat
      BY <3>1, PageIs
    <3> QED
      BY <3>1, <3>2
  \* the block around b
  <2>4. ASSUME NEW b, IsBlock(b), b[2] < MAX_ORDER,
               NEW y, y = <<Base(b[1], b[2] + 1), b[2] + 1>>
        PROVE  IsBlock(y) /\ y[2] = b[2] + 1 /\ y # b /\ b[1] \in Pages(y) /\ b[1] \in Pages(b) /\ b[2] \in Order
               /\ b[2] + 1 \in Order
    <3>1. PICK p, k : p = b[1] /\ k = b[2]
      OBVIOUS
    <3>2. p \in Nat /\ k \in Order /\ k + 1 \in Order /\ k + 1 # k /\ b[1] \in Pages(b)
      BY <2>4, <3>1, PagesIs, OrderIs
    <3>3. IsBlock(<<Base(p, k + 1), k + 1>>) /\ p \in Pages(<<Base(p, k + 1), k + 1>>)
      BY <3>2, BaseBlock
    <3> QED
      BY <2>4, <3>1, <3>2, <3>3
  <2>5. ASSUME NEW b \in Free
        PROVE  b \in Largest
    <3>1. Aligned(b[1], b[2]) /\ Pages(b) \subseteq Given
      BY <2>1, <2>2, <2>3 DEF IsBlock, Cover
    <3>2. ASSUME b[2] < MAX_ORDER, NEW y, y = <<Base(b[1], b[2] + 1), b[2] + 1>>, Pages(y) \subseteq Given
          PROVE  FALSE
      <4>1. IsBlock(y) /\ y[2] = b[2] + 1 /\ y # b /\ b[1] \in Pages(y) /\ b[1] \in Pages(b) /\ b[2] \in Order
        BY <2>3, <2>4, <3>2
      <4>2. ASSUME NEW c \in Free, Pages(c) \cap Pages(y) # {}, ~(c[2] <= y[2])
            PROVE  FALSE
        <5>1. PICK x : x \in Pages(c) /\ x \in Pages(y)
          BY <4>2
        <5>2. y[2] <= c[2] /\ c[2] # b[2]
          BY <2>3, <4>1, <4>2, OrderIs
        <5>3. Pages(y) \subseteq Pages(c)
          BY <2>3, <4>1, <5>1, <5>2, NestedBlocks
        <5> QED
          BY <2>1, <4>1, <5>2, <5>3 DEF Blocks
      <4>3. y \in Free
        <5>1. PICK F : F = Free
          OBVIOUS
        <5>2. \A c \in F : Pages(c) \cap Pages(y) # {} => c[2] <= y[2]
          BY <4>2, <5>1
        <5> QED
          BY <2>1, <2>2, <3>2, <4>1, <5>1, <5>2, Fills
      <4> QED
        BY <2>1, <4>1, <4>3 DEF Blocks
    <3> QED
      BY <2>3, <3>1, <3>2 DEF Largest
  <2>6. ASSUME NEW b \in Largest
        PROVE  b \in Free
    <3>1. /\ b \in Page \X Order /\ Aligned(b[1], b[2]) /\ Pages(b) \subseteq Given
          /\ b[2] < MAX_ORDER => ~(Pages(<<Base(b[1], b[2] + 1), b[2] + 1>>) \subseteq Given)
      BY DEF Largest
    <3>2. IsBlock(b) /\ b[2] \in Order
      <4>1. b[1] \in Nat /\ b[2] \in Order
        BY <3>1, PageIs
      <4> QED
        BY <3>1, <4>1 DEF IsBlock
    <3>3. ASSUME NEW c \in Free, Pages(c) \cap Pages(b) # {}, ~(c[2] <= b[2])
          PROVE  FALSE
      <4>1. PICK x : x \in Pages(c) /\ x \in Pages(b)
        BY <3>3
      <4>2. b[2] <= c[2] /\ b[2] < MAX_ORDER /\ b[2] + 1 <= c[2]
        BY <2>3, <3>2, <3>3, OrderIs
      <4>3. PICK y : y = <<Base(b[1], b[2] + 1), b[2] + 1>>
        OBVIOUS
      <4>4. IsBlock(y) /\ y[2] = b[2] + 1 /\ b[1] \in Pages(y) /\ b[1] \in Pages(b)
        BY <2>4, <3>2, <4>2, <4>3
      <4>5. b[1] \in Pages(c)
        BY <2>3, <3>2, <4>1, <4>2, <4>4, NestedBlocks
      <4>6. Pages(y) \subseteq Pages(c)
        BY <2>3, <4>2, <4>4, <4>5, NestedBlocks
      <4>7. Pages(c) \subseteq Given
        BY <2>1, <2>2 DEF Cover
      <4> QED
        BY <3>1, <4>2, <4>3, <4>6, <4>7
    <3>4. PICK F : F = Free
      OBVIOUS
    <3>5. \A c \in F : Pages(c) \cap Pages(b) # {} => c[2] <= b[2]
      BY <3>3, <3>4
    <3> QED
      BY <2>1, <2>2, <3>1, <3>2, <3>4, <3>5, Fills
  <2> QED
    BY <2>5, <2>6
<1>2. PageInv => AllFreeRestores
  BY <1>1 DEF AllFreeRestores
<1> QED
  BY <1>2, PageInvariant, PTL
=============================================================================
