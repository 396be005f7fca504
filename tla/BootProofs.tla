------------------------------ MODULE BootProofs ------------------------------
(***************************************************************************)
(* Proofs about modules Balloc and Boot, for every map of the boot loader, *)
(* every kernel and initrd, and every number of nodes: what the boot       *)
(* allocator's trees cover, and what the page allocator is handed.         *)
(***************************************************************************)
EXTENDS Boot, QueueLemmas, FiniteSetTheorems

LEMMA Limits == UINTPTR_MAX \in Nat /\ BALLOC_MAX_RANGES \in Nat
BY BallocAssumption

USE Limits

Tree == {"memory_map", "free_ranges"}

\* x is an address in range r
In(x, r) == r[1] <= x /\ x < r[2]

\* some range of t has it
Hit(t, x) == \E r \in t : In(x, r)

Apart(r, q) == r[2] < q[1] \/ q[2] < r[1]

\* a tree of ranges that neither overlap nor touch
Sound(t) ==
    /\ t \in SUBSET (Nat \X Nat) /\ IsFiniteSet(t)
    /\ \A r \in t : r[1] <= r[2] /\ r[2] < UINTPTR_MAX
    /\ \A r, q \in t : r # q => Apart(r, q)

\* every node but h of them is that of a range or unused
Counted(m, h) ==
    /\ m.nodes = BALLOC_MAX_RANGES - h - Cardinality(m.memory_map) - Cardinality(m.free_ranges)
    /\ m.low \in -1 .. BALLOC_MAX_RANGES /\ m.low <= m.nodes

Shape(m) == m = [memory_map |-> m.memory_map, free_ranges |-> m.free_ranges,
                 nodes |-> m.nodes, low |-> m.low]

\* the trees while h nodes are neither in a tree nor unused
Holding(m, h) == Shape(m) /\ (\A tree \in Tree : Sound(m[tree])) /\ Counted(m, h)

\* The inductive invariant of the two trees, after any number of calls.
Trees(m) == Holding(m, 0)

-----------------------------------------------------------------------------
(***************************************************************************)
(* What the search of the tree finds.                                      *)
(***************************************************************************)

LEMMA CoveredIs ==
    ASSUME NEW t, \A r \in t : r[1] \in Nat /\ r[2] \in Nat
    PROVE  /\ Covered(t) \in SUBSET Int
           /\ \A x \in Int : x \in Covered(t) <=> Hit(t, x)
<1>1. \A r \in t : r[1] .. r[2] - 1 \in SUBSET Int
  OBVIOUS
<1>2. \A r \in t, x \in Int : x \in r[1] .. r[2] - 1 <=> In(x, r)
  BY DEF In
<1> QED
  BY <1>1, <1>2 DEF Covered, Hit

\* There is at most one last range that begins before an address, and at most one
\* first that does not.
LEMMA SearchFinds ==
    ASSUME NEW t, Sound(t), NEW a \in Int
    PROVE  /\ Before(t, a) \in SUBSET t /\ From(t, a) \in SUBSET t
           /\ \A r, q \in Before(t, a) : r = q
           /\ \A r, q \in From(t, a) : r = q
           /\ \A r \in t : r[1] < a => \E q \in Before(t, a) : r[1] <= q[1] /\ q[1] < a
           /\ \A r \in t : r[1] >= a => \E q \in From(t, a) : q[1] <= r[1] /\ q[1] >= a
<1>1. \A r \in t : r[1] \in Nat /\ r[2] \in Nat /\ r[1] <= r[2] /\ r[2] < UINTPTR_MAX
  BY DEF Sound
<1>2. \A r, q \in t : r[1] = q[1] => r = q
  BY <1>1 DEF Sound, Apart
<1>3. ASSUME NEW r \in t, r[1] < a
      PROVE  \E q \in Before(t, a) : r[1] <= q[1] /\ q[1] < a
  <2> DEFINE Gaps == {a - q[1] : q \in {p \in t : p[1] < a}}
  <2>1. Gaps \in SUBSET Nat /\ Gaps # {}
    <3>1. a - r[1] \in Gaps
      BY <1>3
    <3>2. \A q \in t : q[1] < a => a - q[1] \in Nat
      BY <1>1
    <3> QED
      BY <3>1, <3>2
  <2>2. PICK d \in Gaps : \A e \in Gaps : d <= e
    <3> HIDE DEF Gaps
    <3> QED
      BY <2>1, LeastElement
  <2>3. PICK q \in t : q[1] < a /\ d = a - q[1]
    BY <2>2
  <2>4. \A p \in t : p[1] < a => p[1] <= q[1]
    <3> TAKE p \in t
    <3>1. p[1] < a => a - p[1] \in Gaps
      OBVIOUS
    <3> HIDE DEF Gaps
    <3> QED
      BY <1>1, <2>2, <2>3, <3>1
  <2> QED
    BY <1>3, <2>3, <2>4 DEF Before
<1>4. ASSUME NEW r \in t, r[1] >= a
      PROVE  \E q \in From(t, a) : q[1] <= r[1] /\ q[1] >= a
  <2> DEFINE Starts == {q[1] : q \in {p \in t : p[1] >= a}}
  <2>1. Starts \in SUBSET Nat /\ Starts # {}
    BY <1>1, <1>4
  <2>2. PICK d \in Starts : \A e \in Starts : d <= e
    <3> HIDE DEF Starts
    <3> QED
      BY <2>1, LeastElement
  <2>3. PICK q \in t : q[1] >= a /\ d = q[1]
    BY <2>2
  <2>4. \A p \in t : p[1] >= a => q[1] <= p[1]
    <3> TAKE p \in t
    <3>1. p[1] >= a => p[1] \in Starts
      OBVIOUS
    <3> HIDE DEF Starts
    <3> QED
      BY <1>1, <2>2, <2>3, <3>1
  <2> QED
    BY <1>4, <2>3, <2>4 DEF From
<1>5. \A r, q \in Before(t, a) : r = q
  <2> TAKE r, q \in Before(t, a)
  <2>1. r \in t /\ q \in t /\ r[1] <= q[1] /\ q[1] <= r[1]
    BY DEF Before
  <2> QED
    BY <1>1, <1>2, <2>1
<1>6. \A r, q \in From(t, a) : r = q
  <2> TAKE r, q \in From(t, a)
  <2>1. r \in t /\ q \in t /\ r[1] <= q[1] /\ q[1] <= r[1]
    BY DEF From
  <2> QED
    BY <1>1, <1>2, <2>1
<1> QED
  BY <1>3, <1>4, <1>5, <1>6 DEF Before, From

\* A set with at most one element has none, or is what CHOOSE takes from it.
LEMMA AtMostOne ==
    ASSUME NEW S, \A r, q \in S : r = q
    PROVE  /\ IsFiniteSet(S)
           /\ \/ S = {} /\ Cardinality(S) = 0
              \/ /\ S = {CHOOSE r \in S : TRUE} /\ Cardinality(S) = 1
                 /\ (CHOOSE r \in S : TRUE) \in S
<1>1. CASE S = {}
  BY <1>1, FS_EmptySet
<1>2. CASE S # {}
  <2>1. (CHOOSE r \in S : TRUE) \in S
    BY <1>2
  <2>2. S = {CHOOSE r \in S : TRUE}
    BY <2>1
  <2>3. \A x : IsFiniteSet({x}) /\ Cardinality({x}) = 1
    BY FS_Singleton
  <2>4. IsFiniteSet(S) /\ Cardinality(S) = 1
    BY <2>2, <2>3
  <2> QED
    BY <2>1, <2>2, <2>4
<1> QED
  BY <1>1, <1>2

-----------------------------------------------------------------------------
(***************************************************************************)
(* Adding a range to a tree.                                               *)
(***************************************************************************)

\* from .. to and the ranges gone of t become r
Joins(t, from, to, gone, r) ==
    /\ gone \in SUBSET t
    /\ r \in Nat \X Nat /\ r[1] <= from /\ r[1] <= r[2] /\ r[2] < UINTPTR_MAX
    /\ \A q \in t \ gone : Apart(q, r)
    /\ \A q \in gone : r[1] <= q[1] /\ q[2] <= r[2]
    /\ \A x \in Int : In(x, r) => (from <= x /\ x < to) \/ \E q \in gone : In(x, q)
    /\ (\A q \in t : q[1] < q[2] /\ (q[2] <= from \/ to <= q[1])) => to <= r[2]
    /\ (\A q \in t : q[2] < from \/ to < q[1]) => gone = {}
    /\ gone = {} => r = <<from, to>>

\* the trees and nodes after r has taken the place of gone
Merged(m, tree, gone, r) ==
    UseNode([m EXCEPT ![tree] = (@ \ gone) \cup {r}], Cardinality(gone))

\* The tree after __balloc_add_range, with the number of nodes it took.
LEMMA AddRangeIs ==
    ASSUME NEW m, NEW tree \in Tree, Sound(m[tree]), m.low \in Nat,
           NEW from \in Nat, NEW to \in Nat, from <= to, to < UINTPTR_MAX
    PROVE  \E gone, r :
              /\ Joins(m[tree], from, to, gone, r)
              /\ AddRange(m, tree, from, to) = Merged(m, tree, gone, r)
<1> DEFINE t == m[tree]
           prev == {r \in Before(t, from) : ReachesBefore(r, from)}
           begin == IF prev = {} THEN from ELSE (CHOOSE r \in prev : TRUE)[1]
           end == IF prev = {} THEN to ELSE Max2(to, (CHOOSE r \in prev : TRUE)[2])
           next == {r \in From(t, from) : r[1] <= end}
           last == IF next = {} THEN end ELSE EndWith(end, CHOOSE r \in next : TRUE)
           gone == prev \cup next
           r == <<begin, last>>
<1>1. AddRange(m, tree, from, to) =
        UseNode([m EXCEPT ![tree] = (@ \ gone) \cup {r}], Cardinality(prev) + Cardinality(next))
  <2>1. ~(m.low < 0)
    OBVIOUS
  <2> QED
    BY <2>1 DEF AddRange
<1>2. /\ Sound(t)
      /\ \A q \in t : /\ q[1] \in Nat /\ q[2] \in Nat /\ q[1] <= q[2] /\ q[2] < UINTPTR_MAX
                      /\ \A p \in t : p # q => Apart(p, q)
  BY DEF Sound
<1>3. /\ prev \in SUBSET t /\ next \in SUBSET t
      /\ \A p, q \in prev : p = q
      /\ \A p, q \in next : p = q
      /\ \A q \in t : q[1] < from => \E p \in Before(t, from) : q[1] <= p[1] /\ p[1] < from
      /\ \A q \in t : q[1] >= from => \E p \in From(t, from) : p[1] <= q[1] /\ p[1] >= from
      /\ \A p, q \in Before(t, from) : p = q
      /\ \A p, q \in From(t, from) : p = q
      /\ Before(t, from) \in SUBSET t /\ From(t, from) \in SUBSET t
  <2> HIDE DEF t
  <2> QED
    BY <1>2, SearchFinds
<1>4. /\ IsFiniteSet(prev) /\ IsFiniteSet(next)
      /\ \/ prev = {}
         \/ (CHOOSE p \in prev : TRUE) \in prev /\ prev = {CHOOSE p \in prev : TRUE}
      /\ \/ next = {}
         \/ (CHOOSE p \in next : TRUE) \in next /\ next = {CHOOSE p \in next : TRUE}
  <2> HIDE DEF prev, next
  <2> QED
    BY <1>3, AtMostOne
<1>5. \A q \in prev : q[1] < from /\ q[2] >= from
  BY DEF Before, ReachesBefore
<1>6. \A q \in next : q[1] >= from /\ q[1] <= end
  BY DEF From
<1>7. /\ prev \cap next = {}
      /\ Cardinality(prev) + Cardinality(next) = Cardinality(gone)
  <2>1. prev \cap next = {}
    <3> HIDE DEF prev, next
    <3> QED
      BY <1>2, <1>3, <1>5, <1>6
  <2> HIDE DEF prev, next
  <2>2. Cardinality(prev \cap next) = 0
    BY <2>1, FS_EmptySet
  <2>3. Cardinality(prev) \in Nat /\ Cardinality(next) \in Nat
    BY <1>4, FS_CardinalityType
  <2>4. Cardinality(prev \cup next)
          = Cardinality(prev) + Cardinality(next) - Cardinality(prev \cap next)
    BY <1>4, FS_Union
  <2> QED
    BY <2>1, <2>2, <2>3, <2>4
<1>8. /\ begin \in Nat /\ end \in Nat
      /\ begin <= from /\ to <= end /\ end < UINTPTR_MAX
      /\ \/ prev = {} /\ begin = from /\ end = to
         \/ \E p \in prev : prev = {p} /\ begin = p[1] /\ end = Max2(to, p[2])
  <2> HIDE DEF prev
  <2> QED
    BY <1>2, <1>3, <1>4, <1>5 DEF Max2
<1>9. /\ \/ next = {} /\ last = end
         \/ \E n \in next : next = {n} /\ last = n[2]
  <2> HIDE DEF next, end
  <2> QED
    BY <1>4 DEF EndWith
<1>10. ASSUME NEW q \in t, q \notin prev, q[1] < from
       PROVE  q[2] < begin
  <2>1. PICK p \in Before(t, from) : q[1] <= p[1] /\ p[1] < from
    BY <1>3, <1>10
  <2>2. CASE p \in prev
    <3>1. p # q /\ begin = p[1]
      BY <1>8, <1>10, <2>2
    <3> QED
      BY <1>2, <1>3, <2>1, <3>1 DEF Apart
  <2>3. CASE p \notin prev
    <3>1. p[2] < from /\ p \in t
      BY <1>2, <1>3, <2>3 DEF ReachesBefore
    <3>2. prev = {}
      BY <1>3, <2>3
    <3> QED
      BY <1>2, <1>8, <2>1, <3>1, <3>2 DEF Apart
  <2> QED
    BY <2>2, <2>3
<1>11. ASSUME NEW q \in t, q \notin next, q[1] >= from
       PROVE  last < q[1]
  <2>1. PICK p \in From(t, from) : p[1] <= q[1] /\ p[1] >= from
    BY <1>3, <1>11
  <2>2. CASE p \in next
    <3>1. p # q /\ last = p[2]
      BY <1>9, <1>11, <2>2
    <3> QED
      BY <1>2, <1>3, <2>1, <3>1 DEF Apart
  <2>3. CASE p \notin next
    <3>1. end < p[1] /\ p \in t
      BY <1>2, <1>3, <1>8, <2>3
    <3>2. next = {}
      BY <1>3, <2>3
    <3> QED
      BY <1>2, <1>8, <1>9, <2>1, <3>1, <3>2
  <2> QED
    BY <2>2, <2>3
<1> HIDE DEF prev, next, begin, end, last, t
<1>12. \A q \in gone : begin <= q[1] /\ q[2] <= last
  <2>1. ASSUME NEW q \in prev
        PROVE  begin <= q[1] /\ q[2] <= last
    <3>1. begin = q[1] /\ q[2] <= end
      BY <1>2, <1>3, <1>8 DEF Max2
    <3>2. ASSUME NEW n \in next
          PROVE  q[2] < n[1] /\ n[1] <= n[2]
      BY <1>2, <1>3, <1>5, <1>6 DEF Apart
    <3> QED
      BY <1>2, <1>3, <1>8, <1>9, <3>1, <3>2
  <2>2. ASSUME NEW q \in next
        PROVE  begin <= q[1] /\ q[2] <= last
    BY <1>2, <1>3, <1>6, <1>8, <1>9
  <2> QED
    BY <2>1, <2>2
<1>13. last \in Nat /\ begin <= last /\ last < UINTPTR_MAX
  BY <1>2, <1>3, <1>6, <1>8, <1>9
<1>14. \A q \in t \ gone : q[2] < begin \/ last < q[1]
  BY <1>2, <1>10, <1>11
<1>15. ASSUME NEW x \in Int, begin <= x, x < last, ~(from <= x /\ x < to)
       PROVE  \E q \in gone : In(x, q)
  <2>1. CASE x < from
    BY <1>2, <1>3, <1>5, <1>8, <1>15, <2>1 DEF In
  <2>2. CASE x >= to /\ x < end
    BY <1>2, <1>3, <1>5, <1>8, <1>15, <2>2 DEF In, Max2
  <2>3. CASE x >= end
    BY <1>2, <1>3, <1>6, <1>8, <1>9, <1>15, <2>3 DEF In
  <2> QED
    BY <1>8, <1>15, <2>1, <2>2, <2>3
<1>16. ASSUME \A q \in t : q[1] < q[2] /\ (q[2] <= from \/ to <= q[1])
       PROVE  to <= last
  BY <1>2, <1>3, <1>6, <1>8, <1>9, <1>16
<1>17. /\ (\A q \in t : q[2] < from \/ to < q[1]) => gone = {}
       /\ gone = {} => r = <<from, to>>
  <2>1. ASSUME \A q \in t : q[2] < from \/ to < q[1]
        PROVE  gone = {}
    <3>1. prev = {}
      BY <1>2, <1>3, <1>5, <2>1
    <3>2. next = {}
      BY <1>2, <1>3, <1>6, <1>8, <2>1, <3>1
    <3> QED
      BY <3>1, <3>2
  <2>2. ASSUME gone = {}
        PROVE  r = <<from, to>>
    BY <1>8, <1>9, <2>2
  <2> QED
    BY <2>1, <2>2

<1>18. Joins(t, from, to, gone, r)
  <2>1. r \in Nat \X Nat /\ r[1] = begin /\ r[2] = last
    BY <1>8, <1>13
  <2>2. gone \in SUBSET t
    BY <1>3
  <2> HIDE DEF gone, r
  <2> QED
    BY <1>8, <1>12, <1>13, <1>14, <1>15, <1>16, <1>17, <2>1, <2>2 DEF Joins, Apart, In
<1>19. AddRange(m, tree, from, to) = Merged(m, tree, gone, r)
  BY <1>1, <1>7 DEF Merged
<1> HIDE DEF gone, r
<1> QED
  BY <1>18, <1>19 DEF t

\* A tree is what it was but for ranges that became one.
LEMMA JoinsKeepsSound ==
    ASSUME NEW t, Sound(t), NEW from \in Nat, NEW to \in Nat, NEW gone, NEW r,
           Joins(t, from, to, gone, r)
    PROVE  /\ Sound((t \ gone) \cup {r})
           /\ IsFiniteSet(gone)
           /\ Cardinality((t \ gone) \cup {r}) = Cardinality(t) - Cardinality(gone) + 1
<1>1. /\ t \in SUBSET (Nat \X Nat) /\ IsFiniteSet(t)
      /\ \A q \in t : q[1] <= q[2] /\ q[2] < UINTPTR_MAX
      /\ \A p, q \in t : p # q => Apart(p, q)
  BY DEF Sound
<1>2. /\ gone \in SUBSET t
      /\ r \in Nat \X Nat /\ r[1] <= r[2] /\ r[2] < UINTPTR_MAX
      /\ \A q \in t \ gone : Apart(q, r)
  BY DEF Joins
<1>3. r \notin t \ gone
  BY <1>2 DEF Apart
<1>4. IsFiniteSet(gone) /\ IsFiniteSet(t \ gone)
  BY <1>1, <1>2, FS_Subset
<1>5. /\ IsFiniteSet((t \ gone) \cup {r})
      /\ Cardinality((t \ gone) \cup {r}) = Cardinality(t \ gone) + 1
  BY <1>3, <1>4, FS_AddElement
<1>6. Cardinality(t \ gone) = Cardinality(t) - Cardinality(gone)
  <2>1. t \cap gone = gone /\ IsFiniteSet(t)
    BY <1>1, <1>2
  <2>2. Cardinality(t \ gone) = Cardinality(t) - Cardinality(t \cap gone)
    BY <2>1, FS_Difference
  <2> QED
    BY <2>1, <2>2
<1>7. Sound((t \ gone) \cup {r})
  <2>1. \A q \in t \ gone : Apart(q, r) /\ Apart(r, q)
    <3>1. \A p, q : Apart(p, q) <=> Apart(q, p)
      BY DEF Apart
    <3> QED
      BY <1>2, <3>1
  <2>2. \A p, q \in (t \ gone) \cup {r} : p # q => Apart(p, q)
    BY <1>1, <2>1
  <2> QED
    BY <1>1, <1>2, <1>5, <2>2 DEF Sound
<1> QED
  BY <1>4, <1>5, <1>6, <1>7

\* the record with another tree, and the nodes counted anew
Put(m, tree, t, k, l) == [m EXCEPT ![tree] = t, !.nodes = k, !.low = l]

LEMMA PutIs ==
    ASSUME NEW m, Shape(m), NEW tree \in Tree, NEW t, NEW k, NEW l,
           NEW n, n = Put(m, tree, t, k, l)
    PROVE  /\ Shape(n) /\ n.nodes = k /\ n.low = l /\ n[tree] = t
           /\ \A other \in Tree : other # tree => n[other] = m[other]
<1>1. PICK a, b, c, d : m = [memory_map |-> a, free_ranges |-> b, nodes |-> c, low |-> d]
  BY DEF Shape
<1>2. CASE tree = "memory_map"
  <2>1. n = [memory_map |-> t, free_ranges |-> b, nodes |-> k, low |-> l]
    <3>1. n = [m EXCEPT !["memory_map"] = t, !.nodes = k, !.low = l]
      BY <1>2 DEF Put
    <3> QED
      BY <1>1, <3>1
  <2>2. n.memory_map = t /\ n.free_ranges = m.free_ranges /\ n.nodes = k /\ n.low = l
    BY <1>1, <2>1
  <2> QED
    BY <1>2, <2>1, <2>2 DEF Shape, Tree
<1>3. CASE tree = "free_ranges"
  <2>1. n = [memory_map |-> a, free_ranges |-> t, nodes |-> k, low |-> l]
    <3>1. n = [m EXCEPT !["free_ranges"] = t, !.nodes = k, !.low = l]
      BY <1>3 DEF Put
    <3> QED
      BY <1>1, <3>1
  <2>2. n.memory_map = m.memory_map /\ n.free_ranges = t /\ n.nodes = k /\ n.low = l
    BY <1>1, <2>1
  <2> QED
    BY <1>3, <2>1, <2>2 DEF Shape, Tree
<1> QED
  BY <1>2, <1>3 DEF Tree

LEMMA HoldingIs ==
    ASSUME NEW m, NEW h \in Nat
    PROVE  Holding(m, h) <=>
             /\ Shape(m)
             /\ \A tree \in Tree : Sound(m[tree])
             /\ \A tree, other \in Tree : tree # other =>
                  m.nodes = BALLOC_MAX_RANGES - h - Cardinality(m[tree]) - Cardinality(m[other])
             /\ m.low \in -1 .. BALLOC_MAX_RANGES /\ m.low <= m.nodes
<1>1. \A tree, other \in Tree : tree # other <=>
        \/ tree = "memory_map" /\ other = "free_ranges"
        \/ tree = "free_ranges" /\ other = "memory_map"
  BY DEF Tree
<1>2. ASSUME \A tree \in Tree : Sound(m[tree])
      PROVE  (\A tree, other \in Tree : tree # other =>
                m.nodes = BALLOC_MAX_RANGES - h - Cardinality(m[tree]) - Cardinality(m[other]))
             <=> m.nodes = BALLOC_MAX_RANGES - h - Cardinality(m.memory_map) - Cardinality(m.free_ranges)
  <2>1. \A tree \in Tree : Cardinality(m[tree]) \in Nat
    BY <1>2, FS_CardinalityType DEF Sound
  <2>2. Cardinality(m.memory_map) \in Nat /\ Cardinality(m.free_ranges) \in Nat
    BY <2>1 DEF Tree
  <2>3. BALLOC_MAX_RANGES - h - Cardinality(m.memory_map) - Cardinality(m.free_ranges)
          = BALLOC_MAX_RANGES - h - Cardinality(m.free_ranges) - Cardinality(m.memory_map)
    BY <2>2
  <2> QED
    BY <1>1, <2>3 DEF Tree
<1> QED
  BY <1>2 DEF Holding, Counted

\* The trees are kept when one of them changes and the nodes are counted.
LEMMA OneTree ==
    ASSUME NEW m, NEW h \in Nat, NEW g \in Nat, Holding(m, h),
           NEW tree \in Tree, NEW t, Sound(t), NEW k, NEW l,
           k = m.nodes + h - g + Cardinality(m[tree]) - Cardinality(t),
           l \in -1 .. BALLOC_MAX_RANGES, l <= k
    PROVE  Holding(Put(m, tree, t, k, l), g)
<1> DEFINE n == Put(m, tree, t, k, l)
<1>1. /\ Shape(m) /\ \A tr \in Tree : Sound(m[tr])
      /\ \A other \in Tree : tree # other =>
           m.nodes = BALLOC_MAX_RANGES - h - Cardinality(m[tree]) - Cardinality(m[other])
  BY HoldingIs
<1>2. /\ Shape(n) /\ n.nodes = k /\ n.low = l /\ n[tree] = t
      /\ \A other \in Tree : other # tree => n[other] = m[other]
  BY <1>1, PutIs
<1> HIDE DEF n
<1>3. ASSUME NEW other \in Tree, other # tree
      PROVE  k = BALLOC_MAX_RANGES - g - Cardinality(n[tree]) - Cardinality(n[other])
  <2>1. /\ Cardinality(m[tree]) \in Nat /\ Cardinality(m[other]) \in Nat /\ Cardinality(t) \in Nat
    BY <1>1, FS_CardinalityType DEF Sound
  <2>2. m.nodes = BALLOC_MAX_RANGES - h - Cardinality(m[tree]) - Cardinality(m[other])
    BY <1>1, <1>3
  <2> QED
    BY <1>2, <1>3, <2>1, <2>2
<1>4. ASSUME NEW other \in Tree, other # tree
      PROVE  k = BALLOC_MAX_RANGES - g - Cardinality(n[other]) - Cardinality(n[tree])
  <2>1. Cardinality(n[tree]) \in Nat /\ Cardinality(n[other]) \in Nat
    BY <1>1, <1>2, <1>4, FS_CardinalityType DEF Sound
  <2> QED
    BY <1>3, <1>4, <2>1
<1>5. \A tr \in Tree : Sound(n[tr])
  BY <1>1, <1>2
<1>6. \A tr, other \in Tree : tr # other =>
        n.nodes = BALLOC_MAX_RANGES - g - Cardinality(n[tr]) - Cardinality(n[other])
  BY <1>2, <1>3, <1>4 DEF Tree
<1> QED
  BY <1>2, <1>5, <1>6, HoldingIs DEF n

LEMMA MergedIs ==
    ASSUME NEW m, Shape(m), NEW tree \in Tree, NEW gone, NEW r
    PROVE  Merged(m, tree, gone, r)
             = Put(m, tree, (m[tree] \ gone) \cup {r},
                   m.nodes - 1 + Cardinality(gone), Min2(m.low, m.nodes - 1))
<1>1. CASE tree = "memory_map"
  BY <1>1 DEF Merged, UseNode, Put, Shape
<1>2. CASE tree = "free_ranges"
  BY <1>2 DEF Merged, UseNode, Put, Shape
<1> QED
  BY <1>1, <1>2 DEF Tree

\* __balloc_add_range keeps the trees as they should be, whatever is added; if it does
\* not run out of nodes, ranges that overlap or touch become one (balloc.c:32-73).
LEMMA AddKeeps ==
    ASSUME NEW m, NEW h \in Nat, Holding(m, h), NEW tree \in Tree,
           NEW from \in Nat, NEW to \in Nat, from <= to, to < UINTPTR_MAX,
           NEW n, n = AddRange(m, tree, from, to)
    PROVE  /\ Holding(n, h) /\ n.low <= m.low
           /\ \A other \in Tree : other # tree => n[other] = m[other]
           /\ m.low < 0 => n = m
           /\ m.low >= 0 => \E gone, r : /\ Joins(m[tree], from, to, gone, r)
                                         /\ n[tree] = (m[tree] \ gone) \cup {r}
<1>1. /\ m.low \in Int /\ m.low >= -1 /\ m.low <= m.nodes /\ m.nodes \in Int
      /\ m.low <= BALLOC_MAX_RANGES
      /\ Sound(m[tree]) /\ Cardinality(m[tree]) \in Nat
  <2>1. /\ \A tr \in Tree : Sound(m[tr]) /\ Cardinality(m[tr]) \in Nat
    BY FS_CardinalityType DEF Holding, Sound
  <2>2. "memory_map" \in Tree /\ "free_ranges" \in Tree
    BY DEF Tree
  <2>3. Cardinality(m.memory_map) \in Nat /\ Cardinality(m.free_ranges) \in Nat
    BY <2>1, <2>2
  <2>4. Counted(m, h)
    BY DEF Holding
  <2> QED
    BY <2>1, <2>3, <2>4 DEF Counted
<1>2. CASE m.low < 0
  <2>1. n = m
    BY <1>2 DEF AddRange
  <2> QED
    BY <1>1, <1>2, <2>1
<1>3. CASE m.low >= 0
  <2>1. PICK gone, r :
           /\ Joins(m[tree], from, to, gone, r)
           /\ n = Merged(m, tree, gone, r)
    BY <1>1, <1>3, AddRangeIs
  <2>2. PICK t : t = (m[tree] \ gone) \cup {r}
    OBVIOUS
  <2>3. /\ Sound(t) /\ Cardinality(gone) \in Nat
        /\ Cardinality(t) = Cardinality(m[tree]) - Cardinality(gone) + 1
    BY <1>1, <2>1, <2>2, JoinsKeepsSound, FS_CardinalityType
  <2>4. Shape(m)
    BY DEF Holding
  <2> DEFINE k == m.nodes - 1 + Cardinality(gone)
             l == Min2(m.low, m.nodes - 1)
  <2>5. n = Put(m, tree, t, k, l)
    BY <2>1, <2>2, <2>4, MergedIs
  <2>6. /\ k = m.nodes + h - h + Cardinality(m[tree]) - Cardinality(t)
        /\ l \in -1 .. BALLOC_MAX_RANGES /\ l <= k /\ l <= m.low
    BY <1>1, <1>3, <2>3 DEF Min2
  <2> HIDE DEF k, l
  <2>7. Holding(n, h)
    BY <2>3, <2>5, <2>6, OneTree
  <2>8. /\ n.low = l /\ n[tree] = t
         /\ \A other \in Tree : other # tree => n[other] = m[other]
    BY <2>4, <2>5, PutIs
  <2>9. n.low <= m.low /\ ~(m.low < 0)
    BY <1>1, <1>3, <2>6, <2>8
  <2>10. \E g, q : Joins(m[tree], from, to, g, q) /\ n[tree] = (m[tree] \ g) \cup {q}
    BY <2>1, <2>2, <2>8
  <2> QED
    BY <2>7, <2>8, <2>9, <2>10
<1> QED
  BY <1>1, <1>2, <1>3

\* A range that touches no other is added as it is.
LEMMA AddApart ==
    ASSUME NEW m, NEW h \in Nat, Holding(m, h), NEW tree \in Tree,
           NEW from \in Nat, NEW to \in Nat, from <= to, to < UINTPTR_MAX,
           \A q \in m[tree] : q[2] < from \/ to < q[1],
           NEW n, n = AddRange(m, tree, from, to)
    PROVE  /\ Holding(n, h) /\ n.low <= m.low
           /\ \A other \in Tree : other # tree => n[other] = m[other]
           /\ n[tree] \in {m[tree], m[tree] \cup {<<from, to>>}}
           /\ m.low >= 0 => n[tree] = m[tree] \cup {<<from, to>>}
<1>1. /\ Holding(n, h) /\ n.low <= m.low
      /\ \A other \in Tree : other # tree => n[other] = m[other]
      /\ m.low < 0 => n = m
      /\ m.low >= 0 => \E gone, r : /\ Joins(m[tree], from, to, gone, r)
                                    /\ n[tree] = (m[tree] \ gone) \cup {r}
  BY AddKeeps, SMTT(30)
<1>2. ASSUME m.low >= 0
      PROVE  n[tree] = m[tree] \cup {<<from, to>>}
  <2>1. PICK gone, r : /\ Joins(m[tree], from, to, gone, r)
                       /\ n[tree] = (m[tree] \ gone) \cup {r}
    BY <1>1, <1>2
  <2>2. gone = {} /\ r = <<from, to>>
    BY <2>1 DEF Joins
  <2> QED
    BY <2>1, <2>2
<1>3. m.low \in Int
  BY HoldingIs
<1>4. CASE m.low >= 0
  BY <1>1, <1>2, <1>4
<1>5. CASE m.low < 0
  BY <1>1, <1>2, <1>5
<1> QED
  BY <1>3, <1>4, <1>5

\* What ranges cover that became one: all they did, and nothing that is neither in
\* the new one nor in an old one; all that the new one has, if it overlaps none and
\* none is empty (the end of a range that it overlaps could come to be its own).
LEMMA JoinsCover ==
    ASSUME NEW t, Sound(t), NEW from \in Nat, NEW to \in Nat, from <= to,
           NEW gone, NEW r, Joins(t, from, to, gone, r),
           NEW s, s = (t \ gone) \cup {r}
    PROVE  /\ s # {}
           /\ \A x \in Int : Hit(t, x) => Hit(s, x)
           /\ \A x \in Int : Hit(s, x) => Hit(t, x) \/ (from <= x /\ x < to)
           /\ from < to /\ (\A q \in t : q[1] < q[2]) => \A q \in s : q[1] < q[2]
           /\ (\A q \in t : q[1] < q[2] /\ (q[2] <= from \/ to <= q[1])) =>
                \A x \in Int : from <= x /\ x < to => Hit(s, x)
<1>1. \A q \in t : q[1] \in Nat /\ q[2] \in Nat /\ q[1] <= q[2]
  BY DEF Sound
<1>2. /\ gone \in SUBSET t
      /\ r[1] \in Nat /\ r[2] \in Nat /\ r[1] <= from
      /\ \A q \in gone : r[1] <= q[1] /\ q[2] <= r[2]
      /\ \A x \in Int : In(x, r) => (from <= x /\ x < to) \/ \E q \in gone : In(x, q)
      /\ (\A q \in t : q[1] < q[2] /\ (q[2] <= from \/ to <= q[1])) => to <= r[2]
      /\ gone = {} => r = <<from, to>>
  BY DEF Joins
<1>3. ASSUME NEW x \in Int, NEW q \in t, In(x, q)
      PROVE  Hit(s, x)
  <2>1. CASE q \in gone
    <3>1. In(x, r)
      BY <1>1, <1>2, <1>3, <2>1 DEF In
    <3> QED
      BY <3>1 DEF Hit
  <2>2. CASE q \notin gone
    BY <1>3, <2>2 DEF Hit
  <2> QED
    BY <2>1, <2>2
<1>4. ASSUME NEW x \in Int, NEW q \in s, In(x, q)
      PROVE  Hit(t, x) \/ (from <= x /\ x < to)
  <2>1. CASE q \in t
    BY <1>4, <2>1 DEF Hit
  <2>2. CASE q = r
    BY <1>2, <1>4, <2>2 DEF Hit
  <2> QED
    BY <2>1, <2>2
<1>5. ASSUME from < to, \A q \in t : q[1] < q[2], NEW q \in s
      PROVE  q[1] < q[2]
  <2>1. r[1] < r[2]
    <3>1. CASE gone = {}
      BY <1>2, <1>5, <3>1
    <3>2. CASE gone # {}
      <4>1. PICK p \in gone : TRUE
        BY <3>2
      <4> QED
        BY <1>1, <1>2, <1>5, <4>1
    <3> QED
      BY <3>1, <3>2
  <2> QED
    BY <1>5, <2>1
<1>6. ASSUME \A q \in t : q[1] < q[2] /\ (q[2] <= from \/ to <= q[1]),
             NEW x \in Int, from <= x, x < to
      PROVE  Hit(s, x)
  <2>1. In(x, r)
    BY <1>2, <1>6 DEF In
  <2> QED
    BY <2>1 DEF Hit
<1> QED
  BY <1>3, <1>4, <1>5, <1>6 DEF Hit

\* Two trees that are the same stay the same.
LEMMA SameAdd ==
    ASSUME NEW m, NEW n, NEW tree \in Tree, NEW other \in Tree, Shape(m), Shape(n),
           m[tree] = n[other], m.low \in Nat, n.low \in Nat, NEW from, NEW to
    PROVE  AddRange(m, tree, from, to)[tree] = AddRange(n, other, from, to)[other]
<1> DEFINE t == m[tree]
           prev == {r \in Before(t, from) : ReachesBefore(r, from)}
           begin == IF prev = {} THEN from ELSE (CHOOSE r \in prev : TRUE)[1]
           end == IF prev = {} THEN to ELSE Max2(to, (CHOOSE r \in prev : TRUE)[2])
           next == {r \in From(t, from) : r[1] <= end}
           last == IF next = {} THEN end ELSE EndWith(end, CHOOSE r \in next : TRUE)
           k == Cardinality(prev) + Cardinality(next)
           s == (t \ (prev \cup next)) \cup {<<begin, last>>}
<1>1. /\ AddRange(m, tree, from, to)
            = UseNode([m EXCEPT ![tree] = (@ \ (prev \cup next)) \cup {<<begin, last>>}], k)
      /\ AddRange(n, other, from, to)
            = UseNode([n EXCEPT ![other] = (@ \ (prev \cup next)) \cup {<<begin, last>>}], k)
  <2>1. ~(m.low < 0) /\ ~(n.low < 0)
    OBVIOUS
  <2> QED
    BY <2>1, ZenonT(60) DEF AddRange
<1> HIDE DEF prev, next, begin, last, k
<1>2. /\ UseNode([m EXCEPT ![tree] = (@ \ (prev \cup next)) \cup {<<begin, last>>}], k)
           = Put(m, tree, s, m.nodes - 1 + k, Min2(m.low, m.nodes - 1))
      /\ UseNode([n EXCEPT ![other] = (@ \ (prev \cup next)) \cup {<<begin, last>>}], k)
           = Put(n, other, s, n.nodes - 1 + k, Min2(n.low, n.nodes - 1))
  <2> QED
    BY DEF UseNode, Put, Shape, Tree
<1> HIDE DEF s
<1> QED
  BY <1>1, <1>2, PutIs

\* what is left of range r around a hole
Pieces(r, from, to) == {p \in {<<r[1], from>>, <<to, r[2]>>} : p[1] < p[2]}

\* Range r of a tree is replaced by what is left of it (balloc.c:97-102, 131-138).
LEMMA PunchIs ==
    ASSUME NEW m, Trees(m), NEW tree \in Tree, NEW r \in m[tree],
           NEW from \in Nat, NEW to \in Nat, from < to, Meets(r, from, to),
           NEW n, n = Punch(m, tree, r, from, to)
    PROVE  /\ Trees(n) /\ n.low <= m.low
           /\ \A other \in Tree : other # tree => n[other] = m[other]
           /\ m[tree] \ {r} \subseteq n[tree]
           /\ n[tree] \subseteq (m[tree] \ {r}) \cup Pieces(r, from, to)
           /\ n.low >= 0 => n[tree] = (m[tree] \ {r}) \cup Pieces(r, from, to)
<1> DEFINE t == m[tree] \ {r}
           gone == [m EXCEPT ![tree] = @ \ {r}]
           left == IF r[1] < from THEN AddRange(gone, tree, r[1], from) ELSE gone
           rest == IF r[2] > to THEN AddRange(left, tree, to, r[2]) ELSE left
<1>1. n = [rest EXCEPT !.nodes = @ + 1]
  BY DEF Punch
<1>2. /\ Shape(m) /\ Sound(m[tree]) /\ m.nodes \in Int /\ m.low \in -1 .. BALLOC_MAX_RANGES
      /\ m.low <= m.nodes /\ m.low \in Int
  <2>1. /\ Shape(m) /\ (\A tr \in Tree : Sound(m[tr])) /\ m.low \in -1 .. BALLOC_MAX_RANGES
        /\ \A tr, other \in Tree : tr # other =>
             m.nodes = BALLOC_MAX_RANGES - 0 - Cardinality(m[tr]) - Cardinality(m[other])
        /\ m.low <= m.nodes
    BY HoldingIs DEF Trees
  <2>2. \A tr \in Tree : Cardinality(m[tr]) \in Nat
    BY <2>1, FS_CardinalityType DEF Sound
  <2>3. "memory_map" \in Tree /\ "free_ranges" \in Tree /\ "memory_map" # "free_ranges"
    BY DEF Tree
  <2>4. m.nodes \in Int
    BY <2>1, <2>2, <2>3
  <2> QED
    BY <2>1, <2>4
<1>3. /\ r[1] \in Nat /\ r[2] \in Nat /\ r[1] < to /\ from < r[2] /\ r[2] < UINTPTR_MAX
      /\ \A q \in t : q[1] \in Nat /\ q[2] \in Nat /\ q[1] <= q[2] /\ Apart(q, r)
  BY <1>2 DEF Sound, Meets
<1>4. gone = Put(m, tree, t, m.nodes, m.low)
  <2>1. CASE tree = "memory_map"
    BY <1>2, <2>1 DEF Put, Shape
  <2>2. CASE tree = "free_ranges"
    BY <1>2, <2>2 DEF Put, Shape
  <2> QED
    BY <2>1, <2>2 DEF Tree
<1>5. /\ Holding(gone, 1) /\ gone.low = m.low /\ gone[tree] = t
      /\ \A other \in Tree : other # tree => gone[other] = m[other]
  <2>1. Sound(t) /\ Cardinality(t) = Cardinality(m[tree]) - 1 /\ Cardinality(m[tree]) \in Nat
    <3>1. IsFiniteSet(t) /\ Cardinality(t) = Cardinality(m[tree]) - 1
      BY <1>2, FS_RemoveElement DEF Sound
    <3> QED
      BY <1>2, <3>1, FS_CardinalityType DEF Sound
  <2>2. m.nodes = m.nodes + 0 - 1 + Cardinality(m[tree]) - Cardinality(t)
    BY <1>2, <2>1
  <2>3. Holding(m, 0) /\ Shape(m)
    BY <1>2 DEF Trees
  <2>4. Holding(gone, 1)
    <3> HIDE DEF gone, t
    <3> QED
      BY <1>2, <1>4, <2>1, <2>2, <2>3, OneTree
  <2>5. /\ gone.low = m.low /\ gone[tree] = t
        /\ \A other \in Tree : other # tree => gone[other] = m[other]
    <3> HIDE DEF gone, t
    <3> QED
      BY <1>4, <2>3, PutIs
  <2> QED
    BY <2>4, <2>5
<1> HIDE DEF gone, t
<1>6. /\ Holding(left, 1) /\ left.low <= m.low
      /\ \A other \in Tree : other # tree => left[other] = m[other]
      /\ left[tree] \in {t, t \cup {<<r[1], from>>}}
      /\ left[tree] = t \/ r[1] < from
      /\ m.low >= 0 /\ r[1] < from => left[tree] = t \cup {<<r[1], from>>}
  <2>1. CASE r[1] < from
    <3>1. left = AddRange(gone, tree, r[1], from)
      BY <2>1
    <3> HIDE DEF left
    <3>2. from < UINTPTR_MAX /\ \A q \in gone[tree] : q[2] < r[1] \/ from < q[1]
      BY <1>3, <1>5 DEF Apart
    <3>3. /\ Holding(left, 1) /\ left.low <= gone.low
          /\ \A other \in Tree : other # tree => left[other] = gone[other]
          /\ left[tree] \in {gone[tree], gone[tree] \cup {<<r[1], from>>}}
          /\ gone.low >= 0 => left[tree] = gone[tree] \cup {<<r[1], from>>}
      <4>1. r[1] \in Nat /\ r[1] <= from
        BY <1>3, <2>1
      <4>2. Holding(gone, 1)
        BY <1>5
      <4> QED
        BY <3>1, <3>2, <4>1, <4>2, AddApart, SMTT(30)
    <3> QED
      BY <1>5, <2>1, <3>3
  <2>2. CASE ~(r[1] < from)
    <3>1. left = gone
      BY <2>2
    <3> HIDE DEF left
    <3>2. left.low <= m.low
      BY <1>2, <1>5, <3>1
    <3> QED
      BY <1>5, <2>2, <3>1, <3>2
  <2> QED
    BY <2>1, <2>2
<1> HIDE DEF left
<1>7. /\ Holding(rest, 1) /\ rest.low <= left.low
      /\ \A other \in Tree : other # tree => rest[other] = m[other]
      /\ rest[tree] \in {left[tree], left[tree] \cup {<<to, r[2]>>}}
      /\ rest[tree] = left[tree] \/ to < r[2]
      /\ left.low >= 0 /\ to < r[2] => rest[tree] = left[tree] \cup {<<to, r[2]>>}
  <2>1. CASE r[2] > to
    <3>1. rest = AddRange(left, tree, to, r[2])
      BY <2>1
    <3> HIDE DEF rest
    <3>2. to <= r[2] /\ \A q \in left[tree] : q[2] < to \/ r[2] < q[1]
      BY <1>3, <1>6, <2>1 DEF Apart
    <3>3. /\ Holding(rest, 1) /\ rest.low <= left.low
          /\ \A other \in Tree : other # tree => rest[other] = left[other]
          /\ rest[tree] \in {left[tree], left[tree] \cup {<<to, r[2]>>}}
          /\ left.low >= 0 => rest[tree] = left[tree] \cup {<<to, r[2]>>}
      <4>1. r[2] \in Nat /\ r[2] < UINTPTR_MAX
        BY <1>3
      <4>2. Holding(left, 1)
        BY <1>6
      <4> QED
        BY <3>1, <3>2, <4>1, <4>2, AddApart, SMTT(30)
    <3> QED
      BY <1>3, <1>6, <2>1, <3>3
  <2>2. CASE ~(r[2] > to)
    <3>1. rest = left
      BY <2>2
    <3> HIDE DEF rest
    <3>2. left.low \in Int
      BY <1>6, HoldingIs
    <3>3. rest.low <= left.low
      BY <3>1, <3>2
    <3>4. ~(to < r[2])
      BY <1>3, <2>2
    <3> QED
      BY <1>6, <3>1, <3>3, <3>4
  <2> QED
    BY <2>1, <2>2
<1> HIDE DEF rest
<1>8. /\ Trees(n) /\ n.low = rest.low /\ n[tree] = rest[tree]
      /\ \A other \in Tree : other # tree => n[other] = m[other]
  <2>1. /\ Shape(rest) /\ Sound(rest[tree]) /\ rest.low \in -1 .. BALLOC_MAX_RANGES
        /\ rest.low <= rest.nodes
        /\ \A tr, other \in Tree : tr # other =>
             rest.nodes = BALLOC_MAX_RANGES - 1 - Cardinality(rest[tr]) - Cardinality(rest[other])
        /\ \A tr \in Tree : Sound(rest[tr])
    BY <1>7, HoldingIs
  <2>2. \A tr \in Tree : Cardinality(rest[tr]) \in Nat
    BY <2>1, FS_CardinalityType DEF Sound
  <2>3. "memory_map" \in Tree /\ "free_ranges" \in Tree /\ "memory_map" # "free_ranges"
    BY DEF Tree
  <2>4. rest.nodes \in Int
    BY <2>1, <2>2, <2>3
  <2>5. n = Put(rest, tree, rest[tree], rest.nodes + 1, rest.low)
    <3>1. CASE tree = "memory_map"
      BY <1>1, <2>1, <3>1 DEF Put, Shape
    <3>2. CASE tree = "free_ranges"
      BY <1>1, <2>1, <3>2 DEF Put, Shape
    <3> QED
      BY <3>1, <3>2 DEF Tree
  <2>6. /\ rest.nodes + 1 = rest.nodes + 1 - 0 + Cardinality(rest[tree]) - Cardinality(rest[tree])
        /\ rest.low <= rest.nodes + 1
    BY <2>1, <2>2, <2>4
  <2>7. Holding(n, 0)
    BY <1>7, <2>1, <2>5, <2>6, OneTree
  <2> QED
    BY <1>7, <2>1, <2>5, <2>7, PutIs DEF Trees
<1>9. rest.low \in Int /\ left.low \in Int
  BY <1>6, <1>7, HoldingIs
<1>10. n.low >= 0 => left.low >= 0 /\ m.low >= 0
  BY <1>2, <1>6, <1>7, <1>8, <1>9
<1>11. /\ <<r[1], from>> \in Pieces(r, from, to) <=> r[1] < from
       /\ <<to, r[2]>> \in Pieces(r, from, to) <=> to < r[2]
       /\ \A p \in Pieces(r, from, to) : p = <<r[1], from>> \/ p = <<to, r[2]>>
  BY <1>3 DEF Pieces
<1>12. n[tree] \subseteq t \cup Pieces(r, from, to) /\ t \subseteq n[tree]
  BY <1>6, <1>7, <1>8, <1>11
<1>13. n.low >= 0 => n[tree] = t \cup Pieces(r, from, to)
  BY <1>6, <1>7, <1>8, <1>10, <1>11
<1>14. n.low <= m.low
  BY <1>2, <1>6, <1>7, <1>8, <1>9
<1> QED
  BY <1>8, <1>12, <1>13, <1>14 DEF t

-----------------------------------------------------------------------------
(***************************************************************************)
(* Walking a tree.                                                         *)
(***************************************************************************)

\* how many ranges begin before r
Rank(t, r) == Cardinality({q \in t : q[1] < r[1]})

LEMMA RankIs ==
    ASSUME NEW t, Sound(t)
    PROVE  /\ Cardinality(t) \in Nat
           /\ \A r \in t : Rank(t, r) \in 0 .. Cardinality(t) - 1
           /\ \A r, s \in t : r[1] < s[1] => Rank(t, r) < Rank(t, s)
           /\ \A r, s \in t : r # s => Rank(t, r) # Rank(t, s)
           /\ \A i \in 0 .. Cardinality(t) - 1 : \E r \in t : Rank(t, r) = i
<1>1. /\ IsFiniteSet(t) /\ Cardinality(t) \in Nat
      /\ \A r \in t : r[1] \in Nat /\ r[2] \in Nat /\ r[1] <= r[2]
      /\ \A r, s \in t : r[1] = s[1] => r = s
  BY FS_CardinalityType DEF Sound, Apart
<1> DEFINE B(r) == {q \in t : q[1] < r[1]}
<1>2. \A r \in t : IsFiniteSet(B(r)) /\ Cardinality(B(r)) \in Nat
  <2> TAKE r \in t
  <2>1. B(r) \in SUBSET t
    OBVIOUS
  <2> HIDE DEF B
  <2> QED
    BY <1>1, <2>1, FS_Subset, FS_CardinalityType
<1>3. ASSUME NEW r \in t, NEW S \in SUBSET t, r \in S, B(r) \subseteq S
      PROVE  Cardinality(B(r)) < Cardinality(S) /\ Cardinality(S) <= Cardinality(t)
  <2>1. r \notin B(r)
    BY <1>1
  <2>2. B(r) \in SUBSET (S \ {r})
    BY <1>3, <2>1
  <2>3. /\ IsFiniteSet(S) /\ Cardinality(S) \in Nat /\ Cardinality(S) <= Cardinality(t)
    BY <1>1, FS_Subset, FS_CardinalityType
  <2>4. IsFiniteSet(S \ {r}) /\ Cardinality(S \ {r}) = Cardinality(S) - 1
    BY <1>3, <2>3, FS_RemoveElement
  <2> HIDE DEF B
  <2>5. Cardinality(B(r)) <= Cardinality(S \ {r})
    BY <2>2, <2>4, FS_Subset
  <2> QED
    BY <1>2, <2>3, <2>4, <2>5
<1>4. \A r \in t : Rank(t, r) = Cardinality(B(r))
  BY DEF Rank
<1>5. \A r \in t : Rank(t, r) \in 0 .. Cardinality(t) - 1
  <2> TAKE r \in t
  <2>1. B(r) \subseteq t
    OBVIOUS
  <2> HIDE DEF B
  <2> QED
    BY <1>1, <1>2, <1>3, <1>4, <2>1
<1>6. \A r, s \in t : r[1] < s[1] => Rank(t, r) < Rank(t, s)
  <2> SUFFICES ASSUME NEW r \in t, NEW s \in t, r[1] < s[1]
               PROVE  Rank(t, r) < Rank(t, s)
    OBVIOUS
  <2>1. B(s) \in SUBSET t /\ r \in B(s) /\ B(r) \subseteq B(s)
    BY <1>1
  <2> HIDE DEF B
  <2> QED
    BY <1>3, <1>4, <2>1
<1>7. \A r, s \in t : r # s => Rank(t, r) # Rank(t, s)
  <2> SUFFICES ASSUME NEW r \in t, NEW s \in t, r # s
               PROVE  Rank(t, r) # Rank(t, s)
    OBVIOUS
  <2>1. r[1] < s[1] \/ s[1] < r[1]
    BY <1>1
  <2>2. Rank(t, r) \in Int /\ Rank(t, s) \in Int
    BY <1>5
  <2> QED
    BY <1>6, <2>1, <2>2
<1>8. \A i \in 0 .. Cardinality(t) - 1 : \E r \in t : Rank(t, r) = i
  <2> DEFINE f == [r \in t |-> Rank(t, r)]
             n == Cardinality(t)
  <2>1. f \in Injection(t, 0 .. n - 1)
    BY <1>5, <1>7 DEF Injection, IsInjective
  <2>2. IsFiniteSet(0 .. n - 1) /\ Cardinality(0 .. n - 1) = n
    <3>1. n \in Nat /\ 0 \in Int /\ n - 1 \in Int
      BY <1>1
    <3> HIDE DEF n
    <3>2. /\ IsFiniteSet(0 .. n - 1)
          /\ Cardinality(0 .. n - 1) = IF 0 > n - 1 THEN 0 ELSE n - 1 - 0 + 1
      BY <3>1, FS_Interval
    <3> QED
      BY <3>1, <3>2
  <2> HIDE DEF f
  <2>3. f \in Surjection(t, 0 .. n - 1)
    BY <2>1, <2>2, FS_Injection
  <2> QED
    BY <2>3 DEF Surjection, f
<1> QED
  BY <1>1, <1>5, <1>6, <1>7, <1>8

\* rb_next goes through all ranges, each one behind the last.
LEMMA WalkIs ==
    ASSUME NEW t, Sound(t), NEW f, f = InOrder(t)
    PROVE  /\ f \in Seq(t) /\ Len(f) = Cardinality(t) /\ Cardinality(t) \in Nat
           /\ f \in [1 .. Cardinality(t) -> t]
           /\ \A r \in t : \E i \in 1 .. Cardinality(t) : f[i] = r
           /\ \A i, j \in 1 .. Cardinality(t) : i < j => f[i][1] < f[j][1]
<1> DEFINE n == Cardinality(t)
<1>1. /\ n \in Nat
      /\ \A r \in t : Rank(t, r) \in 0 .. n - 1
      /\ \A r, s \in t : r[1] < s[1] => Rank(t, r) < Rank(t, s)
      /\ \A r, s \in t : r # s => Rank(t, r) # Rank(t, s)
      /\ \A i \in 0 .. n - 1 : \E r \in t : Rank(t, r) = i
  BY RankIs
<1>2. \A i \in 1 .. n : f[i] \in t /\ Rank(t, f[i]) = i - 1
  <2> TAKE i \in 1 .. n
  <2>1. f[i] = CHOOSE r \in t : Rank(t, r) = i - 1
    BY DEF InOrder, Rank
  <2>2. i - 1 \in 0 .. n - 1
    BY <1>1
  <2>3. \E r \in t : Rank(t, r) = i - 1
    BY <1>1, <2>2
  <2> QED
    BY <2>1, <2>3
<1> DEFINE F(i) == CHOOSE r \in t : Rank(t, r) = i - 1
<1>3. f = [i \in 1 .. n |-> F(i)]
  BY Zenon DEF InOrder, Rank
<1> HIDE DEF n, F
<1>4. f \in [1 .. n -> t]
  BY <1>2, <1>3
<1>5. f \in Seq(t) /\ Len(f) = n
  BY <1>1, <1>4
<1>6. \A r \in t : \E i \in 1 .. n : f[i] = r
  <2> TAKE r \in t
  <2>1. Rank(t, r) + 1 \in 1 .. n /\ Rank(t, r) + 1 - 1 = Rank(t, r)
    BY <1>1
  <2> QED
    BY <1>1, <1>2, <2>1
<1>7. ASSUME NEW i \in 1 .. n, NEW j \in 1 .. n, i < j
      PROVE  f[i][1] < f[j][1]
  <2>1. f[i] \in t /\ f[j] \in t /\ Rank(t, f[i]) = i - 1 /\ Rank(t, f[j]) = j - 1
    BY <1>2
  <2>2. f[i][1] \in Nat /\ f[j][1] \in Nat
    BY <2>1 DEF Sound
  <2>3. ~(f[j][1] < f[i][1])
    BY <1>1, <1>7, <2>1
  <2>4. f[j][1] # f[i][1]
    <3>1. f[i] # f[j]
      BY <1>7, <2>1
    <3> QED
      BY <2>1, <3>1 DEF Sound, Apart
  <2> QED
    BY <2>2, <2>3, <2>4
<1> QED
  BY <1>1, <1>4, <1>5, <1>6, <1>7 DEF n

\* The last range of a walk ends last.
LEMMA LastIs ==
    ASSUME NEW t, Sound(t), t # {}
    PROVE  LET last == InOrder(t)[Cardinality(t)]
           IN  last \in t /\ \A r \in t : r[2] <= last[2]
<1> DEFINE n == Cardinality(t)
<1>1. PICK f : f = InOrder(t)
  OBVIOUS
<1>2. /\ n \in Nat
      /\ f \in [1 .. n -> t]
      /\ \A r \in t : \E i \in 1 .. n : f[i] = r
      /\ \A i, j \in 1 .. n : i < j => f[i][1] < f[j][1]
  BY <1>1, WalkIs, SMTT(30)
<1> HIDE DEF n
<1>3. n \in 1 .. n
  <2>1. PICK i \in 1 .. n : TRUE
    BY <1>2
  <2> QED
    BY <1>2, <2>1
<1>4. f[n] \in t
  BY <1>2, <1>3
<1>5. ASSUME NEW r \in t
      PROVE  r[2] <= f[n][2]
  <2>1. PICK i \in 1 .. n : f[i] = r
    BY <1>2
  <2>2. CASE i = n
    BY <2>1, <2>2 DEF Sound
  <2>3. CASE i # n
    <3>1. r[1] < f[n][1]
      BY <1>2, <1>3, <2>1, <2>3
    <3> QED
      BY <1>4, <3>1 DEF Sound, Apart
  <2> QED
    BY <2>2, <2>3
<1> QED
  BY <1>1, <1>4, <1>5 DEF n

\* What is left of the ranges when one is punched.
LEMMA PiecesCover ==
    ASSUME NEW t, Sound(t), NEW r \in t, NEW from \in Nat, NEW to \in Nat,
           from < to, Meets(r, from, to), NEW x \in Int
    PROVE  (\E q \in (t \ {r}) \cup Pieces(r, from, to) : In(x, q))
             <=> (\E q \in t : In(x, q)) /\ ~(from <= x /\ x < to /\ In(x, r))
<1>1. /\ r[1] \in Nat /\ r[2] \in Nat /\ r[1] < to /\ from < r[2]
      /\ \A q \in t : q[1] \in Nat /\ q[2] \in Nat /\ q[1] <= q[2] /\ (q # r => Apart(q, r))
  BY DEF Sound, Meets
<1>2. /\ In(x, <<r[1], from>>) <=> r[1] <= x /\ x < from
      /\ In(x, <<to, r[2]>>) <=> to <= x /\ x < r[2]
  BY DEF In
<1>3. /\ <<r[1], from>> \in Pieces(r, from, to) <=> r[1] < from
      /\ <<to, r[2]>> \in Pieces(r, from, to) <=> to < r[2]
      /\ \A p \in Pieces(r, from, to) : p = <<r[1], from>> \/ p = <<to, r[2]>>
  BY <1>1 DEF Pieces
<1>4. (\E q \in Pieces(r, from, to) : In(x, q))
        <=> In(x, r) /\ ~(from <= x /\ x < to)
  <2>1. ASSUME NEW q \in Pieces(r, from, to), In(x, q)
        PROVE  In(x, r) /\ ~(from <= x /\ x < to)
    BY <1>1, <1>2, <1>3, <2>1 DEF In
  <2>2. ASSUME In(x, r), ~(from <= x /\ x < to)
        PROVE  \E q \in Pieces(r, from, to) : In(x, q)
    <3>1. CASE x < from
      BY <1>1, <1>2, <1>3, <2>2, <3>1 DEF In
    <3>2. CASE to <= x
      BY <1>1, <1>2, <1>3, <2>2, <3>2 DEF In
    <3> QED
      BY <2>2, <3>1, <3>2
  <2> QED
    BY <2>1, <2>2
<1>5. \A q \in t \ {r} : In(x, q) => ~In(x, r)
  BY <1>1 DEF In, Apart
<1> QED
  BY <1>4, <1>5

\* the turns of the loop of __balloc_remove_range
Turns(m, tree, from, to, met, n, f) ==
    f = [i \in 0 .. n |-> IF i = 0 THEN m ELSE Punch(f[i - 1], tree, met[i], from, to)]

\* There is one course that the loop takes.
LEMMA TurnsDefined ==
    ASSUME NEW m, NEW tree, NEW from, NEW to, NEW met, NEW n \in Nat
    PROVE  \E f : Turns(m, tree, from, to, met, n, f)
<1> DEFINE T(k, f) == Turns(m, tree, from, to, met, k, f)
           Bad == {k \in Nat : ~ \E f : T(k, f)}
<1>1. SUFFICES ASSUME Bad # {}
               PROVE  FALSE
  OBVIOUS
<1>2. PICK k \in Bad : \A j \in Bad : k <= j
  <2> HIDE DEF Bad
  <2>1. Bad \in SUBSET Nat
    BY DEF Bad
  <2> QED
    BY <1>1, <2>1, LeastElement
<1>3. k \in Nat /\ ~ \E f : T(k, f)
  BY <1>2
<1>4. CASE k = 0
  <2>1. T(0, [i \in 0 .. 0 |-> m])
    BY DEF Turns
  <2> HIDE DEF T
  <2> QED
    BY <1>3, <1>4, <2>1
<1>5. CASE k > 0
  <2>1. PICK f : T(k - 1, f)
    <3>1. k - 1 \in Nat /\ ~(k <= k - 1)
      BY <1>3, <1>5
    <3> HIDE DEF T
    <3> QED
      BY <1>2, <3>1
  <2>2. PICK g : g = [i \in 0 .. k |-> IF i = k THEN Punch(f[k - 1], tree, met[k], from, to) ELSE f[i]]
    OBVIOUS
  <2>3. \A i \in 0 .. k - 1 : f[i] = IF i = 0 THEN m ELSE Punch(f[i - 1], tree, met[i], from, to)
    BY <2>1 DEF Turns
  <2>4. ASSUME NEW i \in 0 .. k
        PROVE  g[i] = IF i = 0 THEN m ELSE Punch(g[i - 1], tree, met[i], from, to)
    <3>1. CASE i = k
      <4>1. g[k] = Punch(f[k - 1], tree, met[k], from, to) /\ g[k - 1] = f[k - 1] /\ k # 0
        BY <1>3, <1>5, <2>2
      <4> QED
        BY <3>1, <4>1
    <3>2. CASE i # k
      <4>1. i \in 0 .. k - 1 /\ g[i] = f[i]
        BY <1>3, <2>2, <3>2
      <4>2. i # 0 => i - 1 \in 0 .. k /\ i - 1 # k
        BY <1>3, <4>1
      <4>3. i # 0 => g[i - 1] = f[i - 1]
        BY <2>2, <4>2
      <4> QED
        BY <2>3, <4>1, <4>3
    <3> QED
      BY <3>1, <3>2
  <2>5. T(k, g)
    <3>1. g = [i \in 0 .. k |-> IF i = 0 THEN m ELSE Punch(g[i - 1], tree, met[i], from, to)]
      BY <2>2, <2>4
    <3> QED
      BY <3>1 DEF Turns
  <2> HIDE DEF T
  <2> QED
    BY <1>3, <2>5
<1> QED
  BY <1>3, <1>4, <1>5

\* Range from .. to is taken out of a tree, and nothing else is; what comes back of the
\* ranges that it cuts neither meets the ranges the loop still goes through
\* nor touches others (balloc.c:75-104).
LEMMA RemoveIs ==
    ASSUME NEW m, Trees(m), NEW tree \in Tree,
           NEW from \in Nat, NEW to \in Nat, from < to,
           NEW n, n = RemoveRange(m, tree, from, to)
    PROVE  /\ Trees(n) /\ n.low <= m.low
           /\ \A other \in Tree : other # tree => n[other] = m[other]
           /\ n.low >= 0 => \A x \in Int : (\E q \in n[tree] : In(x, q))
                 <=> (\E q \in m[tree] : In(x, q)) /\ ~(from <= x /\ x < to)
<1> DEFINE cut == {r \in m[tree] : Meets(r, from, to)}
<1>1. /\ \A tr \in Tree : Sound(m[tr])
      /\ m.low \in Int /\ m.low <= m.low
  BY HoldingIs DEF Trees
<1>2. Sound(cut)
  <2>1. cut \in SUBSET m[tree] /\ IsFiniteSet(m[tree])
    BY <1>1 DEF Sound
  <2>2. IsFiniteSet(cut)
    <3> HIDE DEF cut
    <3> QED
      BY <2>1, FS_Subset
  <2> HIDE DEF cut
  <2> QED
    BY <1>1, <2>1, <2>2 DEF Sound
<1>3. PICK met : met = InOrder(cut)
  OBVIOUS
<1>4. PICK k : k = Cardinality(cut)
  OBVIOUS
<1>5. /\ Len(met) = k /\ k \in Nat
      /\ met \in [1 .. k -> cut]
      /\ \A r \in cut : \E i \in 1 .. k : met[i] = r
      /\ \A i, j \in 1 .. k : i < j => met[i][1] < met[j][1]
  <2> HIDE DEF cut
  <2> QED
    BY <1>2, <1>3, <1>4, WalkIs
<1>6. \A i \in 1 .. k : met[i] \in m[tree] /\ Meets(met[i], from, to)
  BY <1>5
<1>7. \A i, j \in 1 .. k : i # j => met[i] # met[j]
  <2> SUFFICES ASSUME NEW i \in 1 .. k, NEW j \in 1 .. k, i # j
               PROVE  met[i] # met[j]
    OBVIOUS
  <2>1. met[i][1] < met[j][1] \/ met[j][1] < met[i][1]
    BY <1>5
  <2>2. met[i][1] \in Nat
    BY <1>1, <1>6 DEF Sound
  <2> QED
    BY <2>1, <2>2
<1>8. PICK a : /\ Turns(m, tree, from, to, met, k, a)
               /\ n = a[k]
  <2>1. \E f : Turns(m, tree, from, to, met, k, f)
    BY <1>5, TurnsDefined
  <2>2. RemoveRange(m, tree, from, to) =
          (CHOOSE f : f = [i \in 0 .. Len(met) |->
              IF i = 0 THEN m ELSE Punch(f[i - 1], tree, met[i], from, to)])[Len(met)]
    BY <1>3 DEF RemoveRange
  <2>3. RemoveRange(m, tree, from, to) = (CHOOSE f : Turns(m, tree, from, to, met, k, f))[k]
    BY <1>5, <2>2 DEF Turns
  <2> QED
    BY <2>1, <2>3
<1>9. /\ a[0] = m
      /\ \A i \in 1 .. k : a[i] = Punch(a[i - 1], tree, met[i], from, to)
  BY <1>5, <1>8 DEF Turns
<1> HIDE DEF cut
<1> DEFINE
      Gone(x, i) == from <= x /\ x < to /\ \E j \in 1 .. i : In(x, met[j])
      Done(i) ==
        /\ Trees(a[i]) /\ a[i].low <= m.low
        /\ \A other \in Tree : other # tree => a[i][other] = m[other]
        /\ \A j \in i + 1 .. k : met[j] \in a[i][tree]
        /\ a[i].low >= 0 => \A x \in Int : (\E q \in a[i][tree] : In(x, q))
              <=> (\E q \in m[tree] : In(x, q)) /\ ~Gone(x, i)
      Bad == {i \in 0 .. k : ~Done(i)}
<1>10. Done(0)
  <2>1. \A x \in Int : ~Gone(x, 0)
    OBVIOUS
  <2> HIDE DEF Gone
  <2> QED
    BY <1>1, <1>6, <1>9, <2>1
<1>11. ASSUME NEW i \in 1 .. k, Done(i - 1)
       PROVE  Done(i)
  <2>1. PICK b : b = a[i - 1]
    OBVIOUS
  <2>2. /\ Trees(b) /\ b.low <= m.low
        /\ \A other \in Tree : other # tree => b[other] = m[other]
        /\ \A j \in i .. k : met[j] \in b[tree]
        /\ b.low >= 0 => \A x \in Int : (\E q \in b[tree] : In(x, q))
              <=> (\E q \in m[tree] : In(x, q)) /\ ~Gone(x, i - 1)
    <3>1. i - 1 + 1 = i
      OBVIOUS
    <3> HIDE DEF Gone
    <3> QED
      BY <1>11, <2>1, <3>1
  <2>3. /\ a[i] = Punch(b, tree, met[i], from, to)
        /\ met[i] \in b[tree] /\ Meets(met[i], from, to)
    BY <1>6, <1>9, <2>1, <2>2
  <2>4. /\ Trees(a[i]) /\ a[i].low <= b.low
        /\ \A other \in Tree : other # tree => a[i][other] = b[other]
        /\ b[tree] \ {met[i]} \subseteq a[i][tree]
        /\ a[i].low >= 0 => a[i][tree] = (b[tree] \ {met[i]}) \cup Pieces(met[i], from, to)
    BY <2>2, <2>3, PunchIs
  <2>5. a[i].low \in Int /\ b.low \in Int /\ Sound(b[tree])
    BY <2>2, <2>4, HoldingIs DEF Trees
  <2>6. \A j \in i + 1 .. k : met[j] \in a[i][tree]
    <3> TAKE j \in i + 1 .. k
    <3>1. j \in i .. k /\ j \in 1 .. k /\ j # i
      BY <1>5
    <3> QED
      BY <1>7, <2>2, <2>4, <3>1
  <2>7. ASSUME a[i].low >= 0, NEW x \in Int
        PROVE  (\E q \in a[i][tree] : In(x, q))
                 <=> (\E q \in m[tree] : In(x, q)) /\ ~Gone(x, i)
    <3>1. (\E q \in a[i][tree] : In(x, q))
            <=> (\E q \in b[tree] : In(x, q)) /\ ~(from <= x /\ x < to /\ In(x, met[i]))
      BY <2>3, <2>4, <2>5, <2>7, PiecesCover
    <3>2. (\E q \in b[tree] : In(x, q)) <=> (\E q \in m[tree] : In(x, q)) /\ ~Gone(x, i - 1)
      <4>1. b.low >= 0
        BY <2>4, <2>5, <2>7
      <4> HIDE DEF Gone
      <4> QED
        BY <2>2, <4>1
    <3>3. Gone(x, i) <=> Gone(x, i - 1) \/ (from <= x /\ x < to /\ In(x, met[i]))
      <4>1. \A j : j \in 1 .. i <=> j \in 1 .. i - 1 \/ j = i
        OBVIOUS
      <4> QED
        BY <4>1
    <3> HIDE DEF Gone
    <3> QED
      BY <3>1, <3>2, <3>3
  <2> HIDE DEF Gone
  <2>8. a[i].low <= m.low
    BY <1>1, <2>2, <2>4, <2>5
  <2> QED
    BY <2>2, <2>4, <2>6, <2>7, <2>8
<1>12. Bad = {}
  <2> SUFFICES ASSUME Bad # {}
               PROVE  FALSE
    OBVIOUS
  <2>1. PICK i \in Bad : \A j \in Bad : i <= j
    <3>1. Bad \in SUBSET Nat
      BY <1>5
    <3> HIDE DEF Bad
    <3> QED
      BY <3>1, LeastElement
  <2> HIDE DEF Done
  <2>2. i \in 0 .. k /\ ~Done(i) /\ i # 0
    BY <1>10, <2>1
  <2>3. i \in 1 .. k /\ i - 1 \in 0 .. k /\ ~(i <= i - 1)
    BY <1>5, <2>2
  <2>4. Done(i - 1)
    BY <2>1, <2>3
  <2> QED
    BY <1>11, <2>2, <2>3, <2>4
<1>13. Done(k)
  <2>1. k \in 0 .. k
    BY <1>5
  <2> HIDE DEF Done
  <2> QED
    BY <1>12, <2>1
<1>14. ASSUME NEW x \in Int
       PROVE  (\E q \in m[tree] : In(x, q)) /\ ~Gone(x, k)
                <=> (\E q \in m[tree] : In(x, q)) /\ ~(from <= x /\ x < to)
  <2>1. ASSUME NEW q \in m[tree], In(x, q), from <= x, x < to
        PROVE  \E j \in 1 .. k : In(x, met[j])
    <3>1. q[1] \in Nat /\ q[2] \in Nat
      BY <1>1 DEF Sound
    <3>2. Meets(q, from, to)
      BY <2>1, <3>1 DEF Meets, In
    <3>3. q \in cut
      BY <3>2 DEF cut
    <3> QED
      BY <1>5, <2>1, <3>3
  <2> QED
    BY <2>1
<1> HIDE DEF Gone
<1> QED
  BY <1>8, <1>13, <1>14

-----------------------------------------------------------------------------
(***************************************************************************)
(* Allocating.                                                             *)
(***************************************************************************)

LEMMA DivIs ==
    ASSUME NEW a \in Nat, NEW n \in Nat \ {0}
    PROVE  /\ a \div n \in Nat
           /\ (a \div n) * n <= a /\ a < (a \div n) * n + n
OBVIOUS

LEMMA DivLess ==
    ASSUME NEW a \in Nat, NEW n \in Nat \ {0}, NEW b \in Nat
    PROVE  /\ a \div n < b <=> a < b * n
           /\ b <= a \div n <=> b * n <= a
<1>1. PICK d \in Nat : d = a \div n /\ d * n <= a /\ a < d * n + n
  BY DivIs
<1>2. ASSUME d < b
      PROVE  a < b * n
  <2>1. b >= d + 1
    BY <1>2
  <2>2. b * n >= (d + 1) * n
    BY <2>1
  <2>3. (d + 1) * n = d * n + n /\ d * n \in Nat /\ b * n \in Nat
    OBVIOUS
  <2> QED
    BY <1>1, <2>2, <2>3
<1>3. ASSUME b <= d
      PROVE  b * n <= a
  <2>1. b * n <= d * n /\ d * n \in Nat /\ b * n \in Nat
    BY <1>3
  <2> QED
    BY <1>1, <2>1
<1>4. b * n \in Nat
  OBVIOUS
<1> QED
  BY <1>1, <1>2, <1>3, <1>4

LEMMA RoundUpIs ==
    ASSUME NEW a \in Nat, NEW n \in Nat \ {0}
    PROVE  /\ RoundUp(a, n) \in Nat
           /\ a <= RoundUp(a, n)
           /\ RoundUp(a, n) \div n \in Nat
           /\ \A b \in Nat : RoundUp(a, n) \div n <= b <=> a <= b * n
<1>1. PICK d \in Nat : d = (a + n - 1) \div n /\ d * n <= a + n - 1 /\ a + n - 1 < d * n + n
  <2>1. a + n - 1 \in Nat
    OBVIOUS
  <2> QED
    BY <2>1, DivIs
<1>2. RoundUp(a, n) = d * n /\ d * n \in Nat
  BY <1>1 DEF RoundUp
<1>3. (d * n) \div n = d
  <2>1. PICK e \in Nat : e = (d * n) \div n /\ e * n <= d * n /\ d * n < e * n + n
    BY <1>2, DivIs
  <2>2. d <= e
    BY <1>2, <2>1, DivLess
  <2>3. ~(d < e)
    <3>1. d < e => (d + 1) * n <= e * n
      OBVIOUS
    <3>2. (d + 1) * n = d * n + n
      OBVIOUS
    <3> QED
      BY <1>2, <2>1, <3>1, <3>2
  <2> QED
    BY <2>1, <2>2, <2>3
<1>4. ASSUME NEW b \in Nat
      PROVE  d <= b <=> a <= b * n
  <2>1. (a + n - 1) \div n < b + 1 <=> a + n - 1 < (b + 1) * n
    BY DivLess
  <2>2. (b + 1) * n = b * n + n /\ b * n \in Nat
    OBVIOUS
  <2> QED
    BY <1>1, <2>1, <2>2
<1> QED
  BY <1>1, <1>2, <1>3, <1>4

\* A block that is allocated was free, in full, and nothing else is taken
\* (balloc.c:120-142); without a block nothing changes.
LEMMA AllocIs ==
    ASSUME NEW m, Trees(m), NEW size \in Nat \ {0}, NEW align \in Nat \ {0}, NEW to \in Nat,
           NEW p, p = AllocAddr(m, size, align, 0, to),
           NEW n, n = Alloc(m, size, align, 0, to)
    PROVE  \/ p = to /\ n = m
           \/ /\ p \in Nat /\ p + size <= to /\ p + size < UINTPTR_MAX
              /\ Trees(n) /\ n.low <= m.low
              /\ n.memory_map = m.memory_map
              /\ \A x \in Int : p <= x /\ x < p + size => Hit(m.free_ranges, x)
              /\ n.low >= 0 => \A x \in Int : Hit(n.free_ranges, x)
                    <=> Hit(m.free_ranges, x) /\ ~(p <= x /\ x < p + size)
<1> DEFINE t == m.free_ranges
           fit == {r \in t : /\ Meets(r, 0, to)
                             /\ Base(r, align, 0) + size <= Min2(r[2], to)}
           room == Room(m, size, align, 0, to)
           r == CHOOSE q \in room : TRUE
<1>1. CASE room = {}
  BY <1>1 DEF AllocAddr, Alloc
<1>2. CASE room # {}
  <2>1. Sound(t)
    BY HoldingIs DEF Trees, Tree
  <2>2. r \in fit
    <3>1. room \in SUBSET fit
      BY DEF Room, From
    <3>2. r \in room
      BY <1>2
    <3> HIDE DEF room, r, fit
    <3> QED
      BY <3>1, <3>2
  <2>3. p = Base(r, align, 0) /\ n = Punch(m, "free_ranges", r, p, p + size)
    BY <1>2 DEF AllocAddr, Alloc
  <2>4. r \in t /\ p + size <= Min2(r[2], to)
    BY <2>2, <2>3
  <2> HIDE DEF room, r, fit
  <2>5. r[1] \in Nat /\ r[2] \in Nat /\ r[2] < UINTPTR_MAX
    BY <2>1, <2>4 DEF Sound
  <2>6. p \in Nat /\ r[1] <= p
    <3>1. Max2(r[1], 0) \in Nat /\ r[1] <= Max2(r[1], 0)
      BY <2>5 DEF Max2
    <3> HIDE DEF r
    <3>2. RoundUp(Max2(r[1], 0), align) \in Nat /\ Max2(r[1], 0) <= RoundUp(Max2(r[1], 0), align)
      BY <3>1, RoundUpIs
    <3> QED
      BY <2>3, <2>5, <3>1, <3>2 DEF Base
  <2>7. p + size <= r[2] /\ p + size <= to /\ p + size \in Nat /\ p < p + size
    BY <2>4, <2>5, <2>6 DEF Min2
  <2>8. Meets(r, p, p + size)
    BY <2>5, <2>6, <2>7 DEF Meets
  <2>9. /\ Trees(n) /\ n.low <= m.low
        /\ \A other \in Tree : other # "free_ranges" => n[other] = m[other]
        /\ n.low >= 0 => n.free_ranges = (t \ {r}) \cup Pieces(r, p, p + size)
    <3>1. "free_ranges" \in Tree /\ r \in m["free_ranges"]
      BY <2>4 DEF Tree
    <3> QED
      BY <2>3, <2>6, <2>7, <2>8, <3>1, PunchIs
  <2>10. n.memory_map = m.memory_map
    BY <2>9 DEF Tree
  <2>11. ASSUME NEW x \in Int, p <= x, x < p + size
         PROVE  In(x, r)
    BY <2>5, <2>6, <2>7, <2>11 DEF In
  <2>12. ASSUME n.low >= 0, NEW x \in Int
         PROVE  Hit(n.free_ranges, x) <=> Hit(t, x) /\ ~(p <= x /\ x < p + size)
    <3>1. (\E q \in (t \ {r}) \cup Pieces(r, p, p + size) : In(x, q))
             <=> (\E q \in t : In(x, q)) /\ ~(p <= x /\ x < p + size /\ In(x, r))
      BY <2>1, <2>4, <2>6, <2>7, <2>8, PiecesCover
    <3> QED
      BY <2>9, <2>11, <2>12, <3>1 DEF Hit
  <2> QED
    BY <2>4, <2>5, <2>6, <2>7, <2>9, <2>10, <2>11, <2>12 DEF Hit
<1> QED
  BY <1>1, <1>2

\* All that is between from and to is in one range if each address is in some.
LEMMA OneRange ==
    ASSUME NEW t, Sound(t), NEW from \in Nat, NEW to \in Nat, from < to,
           \A x \in Int : from <= x /\ x < to => Hit(t, x)
    PROVE  \E r \in t : r[1] <= from /\ to <= r[2]
<1>1. \A r \in t : r[1] \in Nat /\ r[2] \in Nat
  BY DEF Sound
<1>2. PICK r \in t : In(from, r)
  BY DEF Hit
<1>3. to <= r[2]
  <2> SUFFICES ASSUME r[2] < to
               PROVE  FALSE
    BY <1>1
  <2>1. PICK q \in t : In(r[2], q)
    BY <1>1, <1>2 DEF Hit, In
  <2> QED
    BY <1>1, <1>2, <2>1 DEF Sound, Apart, In
<1> QED
  BY <1>1, <1>2, <1>3 DEF In

\* The whole pages of a range are those that it contains.
LEMMA PagesIs ==
    ASSUME NEW r, r[1] \in Nat, r[2] \in Nat
    PROVE  /\ Pages(r) \in Nat \X Nat
           /\ FreePages(r) \in Nat \X Nat
           /\ \A p \in Nat : /\ Pages(r)[1] <= p <=> r[1] <= p * PAGE_SIZE
                             /\ p < Pages(r)[2] <=> (p + 1) * PAGE_SIZE <= r[2]
                             /\ p <= Pages(r)[2] <=> p * PAGE_SIZE <= r[2]
           /\ FreePages(r)[2] = Pages(r)[2]
           /\ \A p \in Nat : FreePages(r)[1] <= p <=> Pages(r)[1] <= p /\ p # 0
<1> PAGE_SIZE \in Nat \ {0}
  BY BootAssumption
<1>1. PICK a : a = RoundUp(r[1], PAGE_SIZE) \div PAGE_SIZE
  OBVIOUS
<1>2. PICK b : b = r[2] \div PAGE_SIZE
  OBVIOUS
<1>3. a \in Nat /\ \A p \in Nat : a <= p <=> r[1] <= p * PAGE_SIZE
  BY <1>1, RoundUpIs
<1>4. b \in Nat /\ \A p \in Nat : p <= b <=> p * PAGE_SIZE <= r[2]
  BY <1>2, DivIs, DivLess
<1>5. Pages(r) = <<a, b>>
  BY <1>1, <1>2 DEF Pages
<1>6. \A p \in Nat : p < b <=> (p + 1) * PAGE_SIZE <= r[2]
  <2> TAKE p \in Nat
  <2>1. p + 1 \in Nat /\ (p < b <=> p + 1 <= b)
    BY <1>4
  <2> QED
    BY <1>4, <2>1
<1>7. FreePages(r) = IF a = 0 THEN <<1, b>> ELSE <<a, b>>
  BY <1>5 DEF FreePages
<1>8. PICK c \in Nat : c = (IF a = 0 THEN 1 ELSE a) /\ FreePages(r) = <<c, b>>
  BY <1>3, <1>7
<1>9. \A p \in Nat : c <= p <=> a <= p /\ p # 0
  BY <1>3, <1>8
<1>10. Pages(r) \in Nat \X Nat /\ Pages(r)[1] = a /\ Pages(r)[2] = b
  BY <1>3, <1>4, <1>5
<1>11. FreePages(r) \in Nat \X Nat /\ FreePages(r)[1] = c /\ FreePages(r)[2] = b
  BY <1>4, <1>8
<1> HIDE DEF Pages, FreePages
<1> QED
  BY <1>3, <1>4, <1>6, <1>9, <1>10, <1>11

-----------------------------------------------------------------------------
(***************************************************************************)
(* The inductive invariant of the boot, a conjunct for each thing that a   *)
(* loop leaves to the next one.                                            *)
(***************************************************************************)

Indices == 1 .. Len(listed)

\* the loops that are over
Listing == pc = "list"
Reserved == pc \notin {"list", "reserve"}
ZonesRun == pc \in {"zones", "pages", "done"}
PagesRun == pc \in {"pages", "done"}

\* paging_setup can map all the memory there is
Mappable ==
    /\ \A r \in Ranges \cup {Kernel} : r[2] <= MAX_PMEM_SIZE
    /\ \A m \in Modules : m[1] + m[2] <= MAX_PMEM_SIZE

\* What balloc_parse_mmap goes through: the map's entries, the kernel, and the initrd,
\* which alone may be empty.
ListIs ==
    /\ Len(listed) \in Nat /\ Len(listed) >= 2
    /\ listed \in Seq(Nat \X Nat \X {"available", "reserved", "kernel", "initrd"})
    /\ \A i \in Indices :
         /\ listed[i][1] <= listed[i][2] /\ listed[i][2] < UINTPTR_MAX
         /\ i < Len(listed) => listed[i][1] < listed[i][2]
         /\ listed[i][3] \in {"available", "reserved"} <=> i <= Len(listed) - 2
         /\ Mappable => listed[i][2] <= MAX_PMEM_SIZE
    /\ listed[Len(listed)][1] = listed[Len(listed)][2] => listed[Len(listed)][2] = 0

\* Where the boot stands.
TurnIs ==
    /\ pc \in {"list", "reserve", "paging", "zones", "pages", "done", "no_page", "no_memory"}
    /\ at \in Nat \ {0} /\ mapped \in Nat
    /\ ~Reserved => at <= Len(listed)
    /\ pc = "zones" => at <= Cardinality(mem.memory_map)
    /\ pc = "done" => ~OutOfNodes
    /\ ~Listing => mem.memory_map # {}
    /\ ZonesRun => mapped = Min2((balloc_memory \div PAGE_SIZE) * PAGE_SIZE, MAX_PMEM_SIZE)

\* While the map is read the two trees are the same.
ListedSoFar ==
    Listing /\ ~OutOfNodes =>
        /\ mem.memory_map = mem.free_ranges
        /\ \A q \in mem.memory_map : q[1] < q[2]

\* no two entries of the map overlap
Separate ==
    \A i, j \in 1 .. Len(listed) - 2 :
        i # j => listed[i][2] <= listed[j][1] \/ listed[j][2] <= listed[i][1]

\* Nothing is known that has not been read, and what has been read is known.
KnownSoFar ==
    ~OutOfNodes =>
        /\ \A x \in Int : Hit(mem.memory_map, x) =>
             \E i \in Indices : (Listing => i < at) /\ In(x, listed[i])
        /\ Separate =>
             \A i \in 1 .. Len(listed) - 2 : (Listing => i < at) =>
                 \A x \in Int : In(x, listed[i]) => Hit(mem.memory_map, x)

\* an entry that has been reserved has address x
ReservedAt(x) ==
    \E i \in Indices : (~Reserved => i < at) /\ Taken(listed[i]) /\ In(x, listed[i])

\* What is free, after each turn of the loop that reserves and each allocation.
FreeSoFar ==
    ~Listing /\ ~OutOfNodes =>
        \A x \in Int : Hit(mem.free_ranges, x) <=>
            Hit(mem.memory_map, x) /\ ~Hit(blocks, x) /\ ~ReservedAt(x)

\* No two blocks overlap.
BlocksApart ==
    /\ blocks \in SUBSET (Nat \X Nat)
    /\ ~Reserved => blocks = {}
    /\ \A b, c \in blocks, x \in Int : In(x, b) /\ In(x, c) => b = c

\* range i of the map, or of what is free
Ith(t, i) == InOrder(t)[i]

\* Every range that the loop has passed and that has a whole page is a zone, and no
\* zone is anything else.
ZonesSoFar ==
    /\ zones \in Seq(Nat \X Nat)
    /\ ~ZonesRun /\ pc # "no_memory" => zones = <<>>
    /\ \A i \in 1 .. Len(zones) : zones[i][1] < zones[i][2] /\
         \E r \in mem.memory_map : zones[i] = Pages(r)
    /\ ZonesRun => \A i \in 1 .. Cardinality(mem.memory_map) :
         /\ pc = "zones" => i < at
         /\ Pages(Ith(mem.memory_map, i))[1] < Pages(Ith(mem.memory_map, i))[2]
         => \E j \in 1 .. Len(zones) : zones[j] = Pages(Ith(mem.memory_map, i))

\* The same for the pages given to the zones, each in one of them.
GivenSoFar ==
    /\ given \in Seq(Nat \X Nat)
    /\ ~PagesRun => given = <<>>
    /\ \A i \in 1 .. Len(given) : given[i][1] < given[i][2] /\
         /\ \E r \in mem.free_ranges : given[i] = FreePages(r)
         /\ \E z \in 1 .. Len(zones) : zones[z][1] <= given[i][1] /\ given[i][2] <= zones[z][2]
    /\ PagesRun => \A i \in 1 .. Cardinality(mem.free_ranges) :
         /\ pc = "pages" => i < at
         /\ FreePages(Ith(mem.free_ranges, i))[1] < FreePages(Ith(mem.free_ranges, i))[2]
         => \E j \in 1 .. Len(given) : given[j] = FreePages(Ith(mem.free_ranges, i))

BootInv ==
    /\ Trees(mem) /\ ListIs /\ TurnIs /\ ListedSoFar /\ KnownSoFar
    /\ FreeSoFar /\ BlocksApart /\ ZonesSoFar /\ GivenSoFar

-----------------------------------------------------------------------------
(***************************************************************************)
(* The invariant holds at the start.                                       *)
(***************************************************************************)

LEMMA InitList ==
    ASSUME BallocInit
    PROVE  ListIs
<1>1. PICK n \in 0 .. MaxEntries, mods \in {{}} \cup {{x} : x \in Modules} :
        \E entries \in [1 .. n -> Entry] :
            listed = entries \o << <<Kernel[1], Kernel[2], "kernel">>,
                                   <<Initrd(mods)[1], Initrd(mods)[2], "initrd">> >>
  BY DEF BallocInit
<1>2. PICK e \in [1 .. n -> Entry] :
            listed = e \o << <<Kernel[1], Kernel[2], "kernel">>,
                             <<Initrd(mods)[1], Initrd(mods)[2], "initrd">> >>
  BY <1>1
<1>3. n \in Nat
  BY BallocAssumption
<1>4. PICK b, c : Initrd(mods) = <<b, c>> /\ b \in Nat /\ c \in Nat /\ b <= c
                    /\ c < UINTPTR_MAX /\ (b = c => c = 0) /\ (Mappable => c <= MAX_PMEM_SIZE)
  <2>1. CASE mods = {}
    <3>1. 0 < UINTPTR_MAX /\ 0 <= MAX_PMEM_SIZE
      <4>1. Kernel[1] \in Nat /\ Kernel[2] \in Nat /\ 2 * Kernel[2] < UINTPTR_MAX
        BY BallocAssumption
      <4>2. MAX_PMEM_SIZE \in Nat
        BY BootAssumption
      <4> QED
        BY <4>1, <4>2
    <3> QED
      BY <2>1, <3>1 DEF Initrd
  <2>2. CASE mods # {}
    <3>1. PICK x \in Modules : mods = {x}
      BY <2>2
    <3>2. x[1] \in Nat /\ x[2] \in Nat /\ x[1] < x[2] /\ 2 * x[2] < UINTPTR_MAX
      BY BallocAssumption
    <3>3. (CHOOSE y \in mods : TRUE) = x
      BY <3>1
    <3>4. Initrd(mods) = <<x[1], x[1] + x[2]>>
      BY <2>2, <3>3 DEF Initrd
    <3>5. Mappable => x[1] + x[2] <= MAX_PMEM_SIZE
      BY DEF Mappable
    <3> QED
      BY <3>2, <3>4, <3>5
  <2> QED
    BY <2>1, <2>2
<1>5. PICK kernel : kernel = <<Kernel[1], Kernel[2], "kernel">>
  OBVIOUS
<1>6. PICK initrd : initrd = <<b, c, "initrd">>
  OBVIOUS
<1> DEFINE Item == Nat \X Nat \X {"available", "reserved", "kernel", "initrd"}
<1>7. /\ kernel \in Item /\ kernel[1] < kernel[2] /\ kernel[2] < UINTPTR_MAX
      /\ kernel[3] = "kernel" /\ (Mappable => kernel[2] <= MAX_PMEM_SIZE)
  BY <1>5, BallocAssumption DEF Mappable
<1>8. /\ initrd \in Item /\ initrd[1] <= initrd[2] /\ initrd[2] < UINTPTR_MAX
      /\ initrd[3] = "initrd" /\ (initrd[1] = initrd[2] => initrd[2] = 0)
      /\ Mappable => initrd[2] <= MAX_PMEM_SIZE
  BY <1>4, <1>6
<1>9. ASSUME NEW i \in 1 .. n
      PROVE  /\ e[i] \in Item /\ e[i][1] < e[i][2] /\ e[i][2] < UINTPTR_MAX
             /\ e[i][3] \in {"available", "reserved"}
             /\ Mappable => e[i][2] <= MAX_PMEM_SIZE
  <2>1. PICK r \in Ranges, type \in {"available", "reserved"} : e[i] = <<r[1], r[2], type>>
    BY DEF Entry
  <2>2. r[1] \in Nat /\ r[2] \in Nat /\ r[1] < r[2] /\ 2 * r[2] < UINTPTR_MAX
    BY BallocAssumption
  <2>3. Mappable => r[2] <= MAX_PMEM_SIZE
    BY DEF Mappable
  <2> QED
    BY <2>1, <2>2, <2>3
<1>10. e \in Seq(Item) /\ Len(e) = n
  BY <1>3, <1>9
<1>11. listed = e \o <<kernel, initrd>>
  BY <1>2, <1>4, <1>5, <1>6
<1> HIDE DEF Item
<1>12. /\ Len(listed) = n + 2 /\ listed \in Seq(Item)
       /\ \A i \in 1 .. n : listed[i] = e[i]
       /\ listed[n + 1] = kernel /\ listed[n + 2] = initrd
  <2>1. <<kernel, initrd>> \in Seq(Item) /\ Len(<<kernel, initrd>>) = 2
    BY <1>7, <1>8
  <2>2. PICK f : f = <<kernel, initrd>>
    OBVIOUS
  <2>3. f \in Seq(Item) /\ Len(f) = 2 /\ f[1] = kernel /\ f[2] = initrd
    BY <2>1, <2>2
  <2>4. listed = e \o f /\ listed \in Seq(Item) /\ Len(listed) = n + 2
    BY <1>10, <1>11, <2>2, <2>3
  <2>5. \A i \in 1 .. n + 2 : listed[i] = IF i <= n THEN e[i] ELSE f[i - n]
    BY <1>3, <1>10, <2>3, <2>4
  <2>6. listed[n + 1] = f[1] /\ listed[n + 2] = f[2]
    <3>1. n + 1 \in 1 .. n + 2 /\ n + 2 \in 1 .. n + 2 /\ n + 1 - n = 1 /\ n + 2 - n = 2
      BY <1>3
    <3>2. ~(n + 1 <= n) /\ ~(n + 2 <= n)
      BY <1>3
    <3> QED
      BY <2>5, <3>1, <3>2
  <2>7. \A i \in 1 .. n : listed[i] = e[i]
    BY <1>3, <2>5
  <2> QED
    BY <2>3, <2>4, <2>6, <2>7
<1>13. \A i \in Indices : i \in 1 .. n \/ i = n + 1 \/ i = n + 2
  BY <1>3, <1>12 DEF Indices
<1>14. ASSUME NEW i \in Indices
       PROVE  /\ listed[i][1] <= listed[i][2] /\ listed[i][2] < UINTPTR_MAX
              /\ i < Len(listed) => listed[i][1] < listed[i][2]
              /\ listed[i][3] \in {"available", "reserved"} <=> i <= Len(listed) - 2
              /\ Mappable => listed[i][2] <= MAX_PMEM_SIZE
  <2>1. CASE i \in 1 .. n
    <3>1. /\ e[i][1] \in Nat /\ e[i][2] \in Nat /\ e[i][1] < e[i][2] /\ e[i][2] < UINTPTR_MAX
          /\ e[i][3] \in {"available", "reserved"}
          /\ Mappable => e[i][2] <= MAX_PMEM_SIZE
      BY <1>9, <2>1 DEF Item
    <3> QED
      BY <1>12, <2>1, <3>1
  <2>2. CASE i = n + 1
    <3>1. kernel[1] \in Nat /\ kernel[2] \in Nat
      BY <1>7 DEF Item
    <3> QED
      BY <1>3, <1>7, <1>12, <2>2, <3>1
  <2>3. CASE i = n + 2
    BY <1>3, <1>8, <1>12, <2>3
  <2> QED
    BY <1>13, <2>1, <2>2, <2>3
<1> QED
  BY <1>3, <1>8, <1>12, <1>14 DEF ListIs, Item

LEMMA InitInv ==
    ASSUME BootInit
    PROVE  BootInv
<1>1. /\ mem = [memory_map |-> {}, free_ranges |-> {},
                nodes |-> BALLOC_MAX_RANGES, low |-> BALLOC_MAX_RANGES]
      /\ pc = "list" /\ at = 1 /\ blocks = {} /\ mapped = 0 /\ zones = <<>> /\ given = <<>>
  BY DEF BootInit, BallocInit
<1>2. ListIs
  BY InitList DEF BootInit
<1>3. Trees(mem)
  <2>1. Sound({}) /\ Cardinality({}) = 0
    BY FS_EmptySet DEF Sound
  <2>2. Shape(mem)
    BY <1>1 DEF Shape
  <2>3. Counted(mem, 0)
    BY <1>1, <2>1 DEF Counted
  <2> QED
    BY <1>1, <2>1, <2>2, <2>3 DEF Trees, Holding, Tree
<1>4. mem.memory_map = {} /\ mem.free_ranges = {}
  BY <1>1
<1>5. TurnIs
  BY <1>1, <1>2 DEF TurnIs, ListIs, Listing, Reserved, ZonesRun
<1>6. ListedSoFar /\ KnownSoFar /\ FreeSoFar /\ BlocksApart
  BY <1>1, <1>4 DEF ListedSoFar, KnownSoFar, FreeSoFar, BlocksApart, Listing, Hit
<1>7. ZonesSoFar /\ GivenSoFar
  BY <1>1 DEF ZonesSoFar, GivenSoFar, ZonesRun, PagesRun
<1> QED
  BY <1>2, <1>3, <1>5, <1>6, <1>7 DEF BootInv

-----------------------------------------------------------------------------
(***************************************************************************)
(* Each loop keeps it.                                                     *)
(***************************************************************************)

LEMMA EntryIs ==
    ASSUME ListIs, NEW i \in Indices
    PROVE  /\ listed[i][1] \in Nat /\ listed[i][2] \in Nat
           /\ listed[i][1] <= listed[i][2] /\ listed[i][2] < UINTPTR_MAX
           /\ i < Len(listed) => listed[i][1] < listed[i][2]
           /\ listed[i][1] = listed[i][2] => listed[i][2] = 0
           /\ Mappable => listed[i][2] <= MAX_PMEM_SIZE
<1>1. /\ listed[i] \in Nat \X Nat \X {"available", "reserved", "kernel", "initrd"}
      /\ Len(listed) \in Nat /\ i \in 1 .. Len(listed)
  BY DEF ListIs, Indices
<1>2. PICK b, c : b = listed[i][1] /\ c = listed[i][2]
  OBVIOUS
<1>3. b \in Nat /\ c \in Nat
  BY <1>1, <1>2
<1>4. /\ b <= c /\ c < UINTPTR_MAX /\ (i < Len(listed) => b < c)
      /\ Mappable => c <= MAX_PMEM_SIZE
  BY <1>2 DEF ListIs
<1>5. ASSUME b = c
      PROVE  c = 0
  <2>1. i = Len(listed)
    BY <1>1, <1>3, <1>4, <1>5
  <2> QED
    BY <1>2, <1>5, <2>1 DEF ListIs
<1> QED
  BY <1>2, <1>3, <1>4, <1>5

LEMMA TreesSound ==
    ASSUME NEW m, Trees(m)
    PROVE  /\ Sound(m.memory_map) /\ Sound(m.free_ranges) /\ m.low \in Int
           /\ \A q \in m.memory_map : q[1] \in Nat /\ q[2] \in Nat /\ q[1] <= q[2]
                                      /\ q[2] < UINTPTR_MAX
           /\ \A q \in m.free_ranges : q[1] \in Nat /\ q[2] \in Nat /\ q[1] <= q[2]
                                      /\ q[2] < UINTPTR_MAX
<1>1. Sound(m.memory_map) /\ Sound(m.free_ranges) /\ m.low \in Int
  BY HoldingIs DEF Trees, Tree
<1> QED
  BY <1>1 DEF Sound

LEMMA ListRangeKeeps ==
    ASSUME BootInv, ListRange, UNCHANGED <<blocks, mapped, zones, given>>
    PROVE  BootInv'
<1>1. /\ Trees(mem) /\ ListIs /\ TurnIs /\ ListedSoFar /\ KnownSoFar
      /\ BlocksApart /\ ZonesSoFar /\ GivenSoFar
  BY DEF BootInv
<1>2. /\ pc = "list" /\ at \in 1 .. Len(listed) /\ at \in Indices /\ Len(listed) \in Nat
      /\ Len(listed) >= 2 /\ mem.low >= 0 /\ listed' = listed
      /\ \/ at < Len(listed) /\ at' = at + 1 /\ pc' = "list"
         \/ at = Len(listed) /\ at' = 1 /\ pc' = "reserve"
  <2>1. /\ pc = "list" /\ ~(mem.low < 0) /\ listed' = listed
        /\ \/ at < Len(listed) /\ at' = at + 1 /\ pc' = pc
           \/ ~(at < Len(listed)) /\ at' = 1 /\ pc' = "reserve"
    BY DEF ListRange, OutOfNodes, Turn
  <2>2. at \in Nat \ {0} /\ (pc = "list" => at <= Len(listed))
    BY <1>1 DEF TurnIs, Reserved
  <2>3. Len(listed) \in Nat /\ Len(listed) >= 2
    BY <1>1 DEF ListIs
  <2>4. mem.low \in Int
    BY <1>1, TreesSound
  <2> QED
    BY <2>1, <2>2, <2>3, <2>4 DEF Indices
<1>3. PICK from, to : from = listed[at][1] /\ to = listed[at][2]
  OBVIOUS
<1>4. /\ from \in Nat /\ to \in Nat /\ from <= to /\ to < UINTPTR_MAX
      /\ at < Len(listed) => from < to
      /\ \A x : In(x, listed[at]) <=> from <= x /\ x < to
  BY <1>1, <1>2, <1>3, EntryIs DEF In
<1>5. PICK m : m = AddRange(mem, "memory_map", from, to)
  OBVIOUS
<1>6. mem' = AddRange(m, "free_ranges", from, to)
  BY <1>3, <1>5 DEF ListRange
<1>7. Holding(mem, 0) /\ "memory_map" \in Tree /\ "free_ranges" \in Tree
  BY <1>1 DEF Trees, Tree
<1>8. /\ Holding(m, 0) /\ m.low <= mem.low
      /\ m.free_ranges = mem.free_ranges
      /\ \E gone, r : /\ Joins(mem.memory_map, from, to, gone, r)
                      /\ m.memory_map = (mem.memory_map \ gone) \cup {r}
  <2>1. PICK tree \in Tree : tree = "memory_map"
    BY <1>7
  <2>2. m = AddRange(mem, tree, from, to)
    BY <1>5, <2>1
  <2>3. /\ Holding(m, 0) /\ m.low <= mem.low
        /\ \A other \in Tree : other # tree => m[other] = mem[other]
        /\ mem.low >= 0 => \E gone, r : /\ Joins(mem[tree], from, to, gone, r)
                                        /\ m[tree] = (mem[tree] \ gone) \cup {r}
    <3>1. from \in Nat /\ to \in Nat /\ from <= to /\ to < UINTPTR_MAX /\ 0 \in Nat
      BY <1>4
    <3>2. Holding(mem, 0)
      BY <1>7
    <3>3. /\ Holding(m, 0) /\ m.low <= mem.low
          /\ \A other \in Tree : other # tree => m[other] = mem[other]
      BY <2>2, <3>1, <3>2, AddKeeps
    <3>4. mem.low >= 0 => \E gone, r : /\ Joins(mem[tree], from, to, gone, r)
                                      /\ m[tree] = (mem[tree] \ gone) \cup {r}
      BY <2>2, <3>1, <3>2, AddKeeps
    <3> QED
      BY <3>3, <3>4
  <2> QED
    BY <1>2, <1>7, <2>1, <2>3
<1>9. /\ Holding(mem', 0) /\ mem'.low <= m.low
      /\ mem'.memory_map = m.memory_map
  <2>1. PICK tree \in Tree : tree = "free_ranges"
    BY <1>7
  <2>2. PICK n : n = mem'
    OBVIOUS
  <2>3. n = AddRange(m, tree, from, to)
    BY <1>6, <2>1, <2>2
  <2>4. /\ Holding(n, 0) /\ n.low <= m.low
        /\ \A other \in Tree : other # tree => n[other] = m[other]
    <3>1. from \in Nat /\ to \in Nat /\ from <= to /\ to < UINTPTR_MAX /\ 0 \in Nat
      BY <1>4
    <3>2. Holding(m, 0)
      BY <1>8
    <3> QED
      BY <2>3, <3>1, <3>2, AddKeeps
  <2> QED
    BY <1>7, <2>1, <2>2, <2>4
<1>10. mem.low \in Nat /\ m.low \in Int /\ mem'.low \in Int
  BY <1>2, <1>7, <1>8, <1>9, HoldingIs
<1>11. ASSUME ~OutOfNodes'
       PROVE  mem'.memory_map = mem'.free_ranges
  <2>1. m.low \in Nat
    BY <1>9, <1>10, <1>11 DEF OutOfNodes
  <2>2. mem.memory_map = m.free_ranges
    BY <1>1, <1>2, <1>8, <1>10 DEF ListedSoFar, Listing, OutOfNodes
  <2>3. Shape(mem) /\ Shape(m)
    BY <1>7, <1>8 DEF Holding
  <2>4. AddRange(mem, "memory_map", from, to)["memory_map"]
          = AddRange(m, "free_ranges", from, to)["free_ranges"]
    BY <1>7, <1>10, <2>1, <2>2, <2>3, SameAdd
  <2> QED
    BY <1>5, <1>6, <1>9, <2>4
<1>12. PICK t : t = mem.memory_map
  OBVIOUS
<1>13. PICK s : s = mem'.memory_map
  OBVIOUS
<1>14. PICK gone, r : Joins(t, from, to, gone, r) /\ s = (t \ gone) \cup {r}
  BY <1>8, <1>9, <1>12, <1>13
<1>15. Sound(t) /\ \A q \in t : q[1] \in Nat /\ q[2] \in Nat
  BY <1>1, <1>12, TreesSound
<1>16. /\ s # {}
       /\ \A x \in Int : Hit(t, x) => Hit(s, x)
       /\ \A x \in Int : Hit(s, x) => Hit(t, x) \/ (from <= x /\ x < to)
       /\ from < to /\ (\A q \in t : q[1] < q[2]) => \A q \in s : q[1] < q[2]
       /\ (\A q \in t : q[1] < q[2] /\ (q[2] <= from \/ to <= q[1])) =>
            \A x \in Int : from <= x /\ x < to => Hit(s, x)
  <2>1. from \in Nat /\ to \in Nat /\ from <= to
    BY <1>4
  <2> QED
    BY <1>14, <1>15, <2>1, JoinsCover, SMTT(30)
<1>17. /\ \A q \in t : q[1] < q[2]
       /\ \A x \in Int : Hit(t, x) => \E i \in 1 .. at - 1 : In(x, listed[i])
  <2>1. ~OutOfNodes /\ Listing
    BY <1>2, <1>10 DEF OutOfNodes, Listing
  <2>2. \A i \in Indices : i < at => i \in 1 .. at - 1
    BY <1>2 DEF Indices
  <2> QED
    BY <1>1, <1>12, <2>1, <2>2 DEF ListedSoFar, KnownSoFar
<1>18. Trees(mem)'
  BY <1>9 DEF Trees
<1>19. ListIs'
  BY <1>1, <1>2 DEF ListIs, Indices
<1>20. TurnIs'
  <2>1. /\ pc' \in {"list", "reserve"} /\ at' \in Nat \ {0} /\ at' <= Len(listed)
        /\ mapped' \in Nat
    BY <1>1, <1>2 DEF TurnIs, ListRange
  <2> QED
    BY <1>2, <1>13, <1>16, <2>1 DEF TurnIs, Reserved, ZonesRun, Listing
<1>21. ListedSoFar'
  <2> SUFFICES ASSUME Listing', ~OutOfNodes'
               PROVE  /\ mem'.memory_map = mem'.free_ranges
                      /\ \A q \in s : q[1] < q[2]
    BY <1>13 DEF ListedSoFar
  <2>1. at < Len(listed)
    BY <1>2 DEF Listing
  <2> QED
    BY <1>4, <1>11, <1>16, <1>17, <2>1
<1>22. KnownSoFar'
  <2> SUFFICES ASSUME ~OutOfNodes'
               PROVE  /\ \A x \in Int : Hit(s, x) =>
                           \E i \in Indices : (Listing' => i < at') /\ In(x, listed[i])
                      /\ Separate =>
                           \A i \in 1 .. Len(listed) - 2 : (Listing' => i < at') =>
                               \A x \in Int : In(x, listed[i]) => Hit(s, x)
    BY <1>2, <1>13 DEF KnownSoFar, Separate, Indices
  <2>1. ASSUME NEW x \in Int, Hit(s, x)
        PROVE  \E i \in Indices : (Listing' => i < at') /\ In(x, listed[i])
    <3>1. \A i : i \in 1 .. at - 1 \/ i = at => i \in Indices /\ (Listing' => i < at')
      BY <1>2 DEF Indices, Listing
    <3> QED
      BY <1>4, <1>16, <1>17, <2>1, <3>1
  <2>2. ASSUME Separate, NEW i \in 1 .. Len(listed) - 2, Listing' => i < at',
               NEW x \in Int, In(x, listed[i])
        PROVE  Hit(s, x)
    <3>1. i <= at
      BY <1>2, <2>2 DEF Listing
    <3>2. CASE i < at
      <4>1. Hit(t, x)
        BY <1>1, <1>2, <1>10, <1>12, <2>2, <3>2 DEF KnownSoFar, OutOfNodes
      <4> QED
        BY <1>16, <4>1
    <3>3. CASE i = at
      <4>1. ASSUME NEW q \in t, q[2] > from, q[1] < to
            PROVE  FALSE
        <5>1. PICK y : y = Max2(q[1], from)
          OBVIOUS
        <5>2. y \in Int /\ In(y, q) /\ from <= y /\ y < to
          BY <1>2, <1>4, <1>15, <1>17, <3>3, <4>1, <5>1 DEF In, Max2
        <5>3. PICK j \in 1 .. at - 1 : In(y, listed[j])
          BY <1>17, <5>2 DEF Hit
        <5>4. j \in 1 .. Len(listed) - 2 /\ j # at /\ j \in Indices
          BY <1>2, <3>3 DEF Indices
        <5>5. listed[j][2] <= from \/ to <= listed[j][1]
          BY <1>3, <2>2, <3>3, <5>4 DEF Separate
        <5>6. listed[j][1] \in Nat /\ listed[j][2] \in Nat
          BY <1>1, <5>4, EntryIs
        <5> QED
          BY <1>4, <5>2, <5>3, <5>5, <5>6 DEF In
      <4>2. \A q \in t : q[1] < q[2] /\ (q[2] <= from \/ to <= q[1])
        BY <1>4, <1>15, <1>17, <4>1
      <4> QED
        BY <1>4, <1>16, <2>2, <3>3, <4>2
    <3> QED
      BY <1>2, <3>1, <3>2, <3>3
  <2> QED
    BY <2>1, <2>2
<1>23. FreeSoFar'
  <2> SUFFICES ASSUME ~Listing', ~OutOfNodes', NEW x \in Int
               PROVE  Hit(mem'.free_ranges, x) <=>
                        Hit(mem'.memory_map, x) /\ ~Hit(blocks', x) /\ ~ReservedAt(x)'
    BY DEF FreeSoFar
  <2>1. at' = 1 /\ pc' = "reserve"
    BY <1>2 DEF Listing
  <2>2. ~ReservedAt(x)'
    BY <1>2, <2>1 DEF ReservedAt, Reserved, Indices
  <2>3. blocks' = {}
    BY <1>1, <1>2 DEF BlocksApart, Reserved
  <2> QED
    BY <1>11, <2>2, <2>3 DEF Hit
<1>24. BlocksApart'
  <2>1. blocks' = {}
    BY <1>1, <1>2 DEF BlocksApart, Reserved
  <2> QED
    BY <2>1 DEF BlocksApart
<1>25. ZonesSoFar' /\ GivenSoFar'
  <2>1. zones' = <<>> /\ given' = <<>>
    BY <1>1, <1>2 DEF ZonesSoFar, GivenSoFar, ZonesRun, PagesRun
  <2> QED
    BY <1>2, <2>1 DEF ZonesSoFar, GivenSoFar, ZonesRun, PagesRun
<1> QED
  BY <1>18, <1>19, <1>20, <1>21, <1>22, <1>23, <1>24, <1>25 DEF BootInv

\* What is known stays known once the map is read.
LEMMA LaterKeeps ==
    ASSUME ListIs, KnownSoFar, ~Listing, ~Listing', listed' = listed,
           mem'.memory_map = mem.memory_map, mem.low \in Int, mem'.low \in Int,
           mem'.low <= mem.low
    PROVE  ListIs' /\ KnownSoFar' /\ ListedSoFar'
<1>1. ListIs' /\ ListedSoFar'
  BY DEF ListIs, Indices, ListedSoFar
<1>2. KnownSoFar'
  <2> SUFFICES ASSUME ~OutOfNodes'
               PROVE  KnownSoFar'
    BY DEF KnownSoFar
  <2>1. ~OutOfNodes
    BY DEF OutOfNodes
  <2> QED
    BY <2>1 DEF KnownSoFar, Separate, Indices
<1> QED
  BY <1>1, <1>2

\* To take out nothing is to do nothing.
LEMMA RemoveNothing ==
    ASSUME NEW m, NEW tree, \A r \in m[tree] : r[1] \in Nat
    PROVE  RemoveRange(m, tree, 0, 0) = m
<1>1. {r \in m[tree] : Meets(r, 0, 0)} = {}
  BY DEF Meets
<1>2. PICK met : met = InOrder({})
  OBVIOUS
<1>3. Len(met) = 0
  <2>1. Sound({}) /\ Cardinality({}) = 0
    BY FS_EmptySet DEF Sound
  <2> QED
    BY <1>2, <2>1, WalkIs
<1>4. RemoveRange(m, tree, 0, 0) =
        (CHOOSE f : f = [i \in 0 .. Len(met) |->
            IF i = 0 THEN m ELSE Punch(f[i - 1], tree, met[i], 0, 0)])[Len(met)]
  BY <1>1, <1>2 DEF RemoveRange
<1>5. RemoveRange(m, tree, 0, 0) = (CHOOSE f : Turns(m, tree, 0, 0, met, 0, f))[0]
  BY <1>3, <1>4 DEF Turns
<1>6. \E f : Turns(m, tree, 0, 0, met, 0, f)
  BY TurnsDefined
<1>7. \A f : Turns(m, tree, 0, 0, met, 0, f) => f[0] = m
  BY DEF Turns
<1> QED
  BY <1>5, <1>6, <1>7

LEMMA ReserveRangeKeeps ==
    ASSUME BootInv, ReserveRange, UNCHANGED <<blocks, mapped, zones, given>>
    PROVE  BootInv'
<1>1. /\ Trees(mem) /\ ListIs /\ TurnIs /\ KnownSoFar
      /\ FreeSoFar /\ BlocksApart /\ ZonesSoFar /\ GivenSoFar
  BY DEF BootInv
<1>2. mem.low \in Int /\ Sound(mem.free_ranges) /\ Sound(mem.memory_map)
      /\ \A q \in mem.free_ranges : q[1] \in Nat /\ q[2] \in Nat
  BY <1>1, TreesSound
<1>3. /\ pc = "reserve" /\ at \in 1 .. Len(listed) /\ at \in Indices /\ Len(listed) \in Nat
      /\ Len(listed) >= 2 /\ mem.low >= 0 /\ listed' = listed
      /\ \/ at < Len(listed) /\ at' = at + 1 /\ pc' = "reserve"
         \/ at = Len(listed) /\ at' = 1 /\ pc' = "paging"
  <2>1. /\ pc = "reserve" /\ ~(mem.low < 0) /\ listed' = listed
        /\ \/ at < Len(listed) /\ at' = at + 1 /\ pc' = pc
           \/ ~(at < Len(listed)) /\ at' = 1 /\ pc' = "paging"
    BY DEF ReserveRange, OutOfNodes, Turn
  <2>2. at \in Nat \ {0} /\ (pc = "reserve" => at <= Len(listed))
    BY <1>1 DEF TurnIs, Reserved
  <2>3. Len(listed) \in Nat /\ Len(listed) >= 2
    BY <1>1 DEF ListIs
  <2> QED
    BY <1>2, <2>1, <2>2, <2>3 DEF Indices
<1>4. PICK from, to : from = listed[at][1] /\ to = listed[at][2]
  OBVIOUS
<1>5. /\ from \in Nat /\ to \in Nat /\ (from < to \/ (from = 0 /\ to = 0))
      /\ \A x : In(x, listed[at]) <=> from <= x /\ x < to
  BY <1>1, <1>3, <1>4, EntryIs DEF In
<1>6. mem' = IF Taken(listed[at]) THEN RemoveRange(mem, "free_ranges", from, to) ELSE mem
  BY <1>4 DEF ReserveRange
<1>7. /\ Trees(mem') /\ mem'.low <= mem.low
      /\ mem'.memory_map = mem.memory_map
      /\ mem'.low >= 0 => \A x \in Int : Hit(mem'.free_ranges, x)
            <=> Hit(mem.free_ranges, x) /\ ~(Taken(listed[at]) /\ In(x, listed[at]))
  <2>1. CASE ~Taken(listed[at])
    BY <1>1, <1>2, <1>6, <2>1
  <2>2. CASE Taken(listed[at]) /\ from < to
    <3>1. PICK tree \in Tree : tree = "free_ranges"
      BY DEF Tree
    <3>2. PICK n : n = mem'
      OBVIOUS
    <3>3. n = RemoveRange(mem, tree, from, to)
      BY <1>6, <2>2, <3>1, <3>2
    <3>4. /\ Trees(n) /\ n.low <= mem.low
          /\ \A other \in Tree : other # tree => n[other] = mem[other]
          /\ n.low >= 0 => \A x \in Int : (\E q \in n[tree] : In(x, q))
                <=> (\E q \in mem[tree] : In(x, q)) /\ ~(from <= x /\ x < to)
      BY <1>1, <1>5, <2>2, <3>3, RemoveIs
    <3>5. n.memory_map = mem.memory_map
      BY <3>1, <3>4 DEF Tree
    <3> QED
      BY <1>5, <2>2, <3>1, <3>2, <3>4, <3>5 DEF Hit
  <2>3. CASE Taken(listed[at]) /\ ~(from < to)
    <3>1. from = 0 /\ to = 0 /\ mem["free_ranges"] = mem.free_ranges
      BY <1>5, <2>3
    <3>2. mem' = mem
      BY <1>2, <1>6, <2>3, <3>1, RemoveNothing
    <3>3. \A x \in Int : ~In(x, listed[at])
      BY <1>5, <3>1
    <3> QED
      BY <1>1, <1>2, <3>2, <3>3
  <2> QED
    BY <2>1, <2>2, <2>3
<1>8. mem'.low \in Int
  BY <1>7, TreesSound
<1>9. ListIs' /\ KnownSoFar' /\ ListedSoFar'
  <2>1. ~Listing /\ ~Listing'
    BY <1>3 DEF Listing
  <2> QED
    BY <1>1, <1>2, <1>3, <1>7, <1>8, <2>1, LaterKeeps
<1>10. TurnIs'
  <2>1. /\ pc' \in {"reserve", "paging"} /\ at' \in Nat \ {0} /\ at' <= Len(listed)
        /\ mapped' \in Nat /\ mem.memory_map # {}
    BY <1>1, <1>3 DEF TurnIs, ReserveRange, Listing
  <2> QED
    BY <1>3, <1>7, <2>1 DEF TurnIs, ZonesRun, Reserved
<1>11. FreeSoFar'
  <2> SUFFICES ASSUME ~OutOfNodes', NEW x \in Int
               PROVE  Hit(mem'.free_ranges, x) <=>
                        Hit(mem'.memory_map, x) /\ ~Hit(blocks', x) /\ ~ReservedAt(x)'
    BY DEF FreeSoFar
  <2>1. ReservedAt(x)' <=> ReservedAt(x) \/ (Taken(listed[at]) /\ In(x, listed[at]))
    <3>1. ReservedAt(x) <=> \E i \in Indices : i < at /\ Taken(listed[i]) /\ In(x, listed[i])
      BY <1>3 DEF ReservedAt, Reserved
    <3>2. ReservedAt(x)' <=> \E i \in Indices : i <= at /\ Taken(listed[i]) /\ In(x, listed[i])
      BY <1>3 DEF ReservedAt, Reserved, Indices
    <3>3. \A i \in Indices : i <= at <=> i < at \/ i = at
      BY <1>3 DEF Indices
    <3> QED
      BY <1>3, <3>1, <3>2, <3>3
  <2>2. mem'.low >= 0 /\ ~OutOfNodes /\ ~Listing
    BY <1>2, <1>3, <1>8 DEF OutOfNodes, Listing
  <2>3. Hit(mem.free_ranges, x) <=>
          Hit(mem.memory_map, x) /\ ~Hit(blocks, x) /\ ~ReservedAt(x)
    BY <1>1, <2>2 DEF FreeSoFar
  <2> QED
    BY <1>7, <2>1, <2>2, <2>3
<1>12. BlocksApart'
  <2>1. blocks' = {}
    BY <1>1, <1>3 DEF BlocksApart, Reserved
  <2> QED
    BY <2>1 DEF BlocksApart
<1>13. ZonesSoFar' /\ GivenSoFar'
  <2>1. zones' = <<>> /\ given' = <<>>
    BY <1>1, <1>3 DEF ZonesSoFar, GivenSoFar, ZonesRun, PagesRun
  <2> QED
    BY <1>3, <2>1 DEF ZonesSoFar, GivenSoFar, ZonesRun, PagesRun
<1>14. Trees(mem)'
  BY <1>7
<1> QED
  BY <1>9, <1>10, <1>11, <1>12, <1>13, <1>14 DEF BootInv

\* What an allocation leaves: the block is no longer free and overlaps no other.
LEMMA BlockKeeps ==
    ASSUME Trees(mem), ListIs, KnownSoFar, FreeSoFar, BlocksApart, ~OutOfNodes,
           Reserved, Reserved', listed' = listed,
           NEW size \in Nat \ {0}, NEW align \in Nat \ {0}, NEW to \in Nat,
           NEW p, p = AllocAddr(mem, size, align, 0, to),
           mem' = Alloc(mem, size, align, 0, to),
           blocks' = blocks \cup {<<q, q + size>> : q \in {p} \ {to}}
    PROVE  /\ Trees(mem') /\ mem'.memory_map = mem.memory_map
           /\ ListIs' /\ KnownSoFar' /\ ListedSoFar' /\ FreeSoFar' /\ BlocksApart'
<1>1. PICK n : n = mem'
  OBVIOUS
<1>2. n = Alloc(mem, size, align, 0, to)
  BY <1>1
<1>3. mem.low \in Int
  BY TreesSound
<1>4. ~Listing /\ ~Listing' /\ mem.low >= 0
  BY <1>3 DEF Listing, Reserved, OutOfNodes
<1>5. \A x \in Int : Hit(mem.free_ranges, x) <=>
            Hit(mem.memory_map, x) /\ ~Hit(blocks, x) /\ ~ReservedAt(x)
  BY <1>4 DEF FreeSoFar
<1>6. \A x : ReservedAt(x)' <=> ReservedAt(x)
  BY DEF ReservedAt, Indices
<1>7. CASE p = to /\ n = mem
  <2>1. mem' = mem /\ blocks' = blocks
    BY <1>1, <1>7
  <2>2. ListIs' /\ KnownSoFar' /\ ListedSoFar'
    BY <1>3, <1>4, <2>1, LaterKeeps
  <2>3. FreeSoFar' /\ BlocksApart'
    BY <1>5, <1>6, <2>1 DEF FreeSoFar, BlocksApart
  <2> QED
    BY <2>1, <2>2, <2>3
<1>8. CASE /\ p \in Nat /\ p + size <= to /\ p + size < UINTPTR_MAX
           /\ Trees(n) /\ n.low <= mem.low
           /\ n.memory_map = mem.memory_map
           /\ \A x \in Int : p <= x /\ x < p + size => Hit(mem.free_ranges, x)
           /\ n.low >= 0 => \A x \in Int : Hit(n.free_ranges, x)
                 <=> Hit(mem.free_ranges, x) /\ ~(p <= x /\ x < p + size)
  <2>1. PICK b : b = <<p, p + size>>
    OBVIOUS
  <2>2. /\ blocks' = blocks \cup {b} /\ b \in Nat \X Nat
        /\ \A x : In(x, b) <=> p <= x /\ x < p + size
    BY <1>8, <2>1 DEF In
  <2>3. n.low \in Int
    BY <1>8, TreesSound
  <2>4. ListIs' /\ KnownSoFar' /\ ListedSoFar'
    BY <1>1, <1>3, <1>4, <1>8, <2>3, LaterKeeps
  <2>5. \A x : Hit(blocks', x) <=> Hit(blocks, x) \/ In(x, b)
    BY <2>2 DEF Hit
  <2>6. FreeSoFar'
    <3> SUFFICES ASSUME ~OutOfNodes', NEW x \in Int
                 PROVE  Hit(n.free_ranges, x) <=>
                          Hit(n.memory_map, x) /\ ~Hit(blocks', x) /\ ~ReservedAt(x)'
      BY <1>1 DEF FreeSoFar
    <3>1. n.low >= 0
      BY <1>1, <2>3 DEF OutOfNodes
    <3> QED
      BY <1>5, <1>6, <1>8, <2>2, <2>5, <3>1
  <2>7. BlocksApart'
    <3>1. \A x \in Int, c \in blocks : ~(In(x, b) /\ In(x, c))
      BY <1>5, <1>8, <2>2 DEF Hit
    <3> QED
      BY <2>2, <3>1 DEF BlocksApart
  <2> QED
    BY <1>1, <1>8, <2>4, <2>6, <2>7
<1>9. \/ p = to /\ n = mem
      \/ /\ p \in Nat /\ p + size <= to /\ p + size < UINTPTR_MAX
         /\ Trees(n) /\ n.low <= mem.low
         /\ n.memory_map = mem.memory_map
         /\ \A x \in Int : p <= x /\ x < p + size => Hit(mem.free_ranges, x)
         /\ n.low >= 0 => \A x \in Int : Hit(n.free_ranges, x)
               <=> Hit(mem.free_ranges, x) /\ ~(p <= x /\ x < p + size)
  <2>1. PICK m : m = mem
    OBVIOUS
  <2>2. Trees(m) /\ p = AllocAddr(m, size, align, 0, to) /\ n = Alloc(m, size, align, 0, to)
    BY <1>2, <2>1
  <2> QED
    BY <2>1, <2>2, AllocIs, SMTT(30)
<1> QED
  BY <1>7, <1>8, <1>9

\* The memory ends where the last known range does.
LEMMA MemoryIs ==
    ASSUME Trees(mem), mem.memory_map # {}
    PROVE  /\ Cardinality(mem.memory_map) \in Nat \ {0}
           /\ balloc_memory \in Nat /\ balloc_memory < UINTPTR_MAX
           /\ \A q \in mem.memory_map : q[2] <= balloc_memory
<1>1. PICK t : t = mem.memory_map
  OBVIOUS
<1>2. Sound(t) /\ \A q \in t : q[1] \in Nat /\ q[2] \in Nat /\ q[2] < UINTPTR_MAX
  BY <1>1, TreesSound
<1>3. Cardinality(t) \in Nat \ {0}
  BY <1>1, <1>2, FS_CardinalityType, FS_EmptySet DEF Sound
<1>4. PICK last : last = InOrder(t)[Cardinality(t)]
  OBVIOUS
<1>5. last \in t /\ \A q \in t : q[2] <= last[2]
  BY <1>1, <1>2, <1>4, LastIs
<1>6. balloc_memory = last[2]
  BY <1>1, <1>4 DEF balloc_memory
<1> QED
  BY <1>1, <1>2, <1>3, <1>5, <1>6

LEMMA MappedIs ==
    ASSUME Trees(mem), mem.memory_map # {}
    PROVE  Min2((balloc_memory \div PAGE_SIZE) * PAGE_SIZE, MAX_PMEM_SIZE) \in Nat
<1>1. PICK d : d = balloc_memory \div PAGE_SIZE
  OBVIOUS
<1>2. PAGE_SIZE \in Nat \ {0} /\ MAX_PMEM_SIZE \in Nat
  BY BootAssumption
<1>3. d \in Nat
  BY <1>1, <1>2, MemoryIs, DivIs
<1>4. d * PAGE_SIZE \in Nat
  BY <1>2, <1>3
<1> QED
  BY <1>1, <1>2, <1>4 DEF Min2

LEMMA PageTableKeeps ==
    ASSUME BootInv, PageTable
    PROVE  BootInv'
<1>1. /\ Trees(mem) /\ ListIs /\ TurnIs /\ KnownSoFar
      /\ FreeSoFar /\ BlocksApart /\ ZonesSoFar /\ GivenSoFar
  BY DEF BootInv
<1>2. PICK page : page = AllocAddr(mem, PAGE_SIZE, PAGE_SIZE, 0, BOOTSTRAP_MEM)
  OBVIOUS
<1>3. /\ pc = "paging" /\ ~OutOfNodes
      /\ mem' = Alloc(mem, PAGE_SIZE, PAGE_SIZE, 0, BOOTSTRAP_MEM)
      /\ blocks' = blocks \cup {<<q, q + PAGE_SIZE>> : q \in {page} \ {BOOTSTRAP_MEM}}
      /\ mapped' = Min2((balloc_memory \div PAGE_SIZE) * PAGE_SIZE, MAX_PMEM_SIZE)
      /\ listed' = listed /\ zones' = zones /\ given' = given
      /\ \/ pc' = "no_page" /\ at' = at
         \/ at < Tables /\ at' = at + 1 /\ pc' = "paging"
         \/ at' = 1 /\ pc' = "zones"
  BY <1>2 DEF PageTable, Stop, Turn
<1>4. /\ PAGE_SIZE \in Nat \ {0} /\ BOOTSTRAP_MEM \in Nat /\ at \in Nat \ {0}
      /\ mem.memory_map # {} /\ Reserved /\ Reserved'
  BY <1>1, <1>3, BootAssumption DEF TurnIs, Listing, Reserved
<1>5. /\ ~OutOfNodes /\ listed' = listed /\ zones' = zones /\ given' = given
      /\ pc = "paging" /\ at' \in Nat \ {0}
      /\ pc' \in {"paging", "no_page"} \/ (pc' = "zones" /\ at' = 1)
  <2>1. /\ ~OutOfNodes /\ listed' = listed /\ zones' = zones /\ given' = given
        /\ pc = "paging"
        /\ \/ pc' = "no_page" /\ at' = at
           \/ at' = at + 1 /\ pc' = "paging"
           \/ at' = 1 /\ pc' = "zones"
    BY <1>3, Zenon
  <2> QED
    BY <1>4, <2>1
<1>6. /\ Trees(mem') /\ mem'.memory_map = mem.memory_map
      /\ ListIs' /\ KnownSoFar' /\ ListedSoFar' /\ FreeSoFar' /\ BlocksApart'
  BY <1>1, <1>2, <1>3, <1>4, BlockKeeps
<1>7. TurnIs'
  <2>1. Cardinality(mem.memory_map) \in Nat \ {0} /\ balloc_memory' = balloc_memory
    BY <1>1, <1>4, <1>6, MemoryIs DEF balloc_memory
  <2>2. mapped' \in Nat
    BY <1>1, <1>3, <1>4, MappedIs
  <2> HIDE DEF balloc_memory
  <2>3. mapped' = Min2((balloc_memory' \div PAGE_SIZE) * PAGE_SIZE, MAX_PMEM_SIZE)
    BY <1>3, <2>1
  <2> QED
    BY <1>4, <1>5, <1>6, <2>1, <2>2, <2>3 DEF TurnIs, Reserved, Listing
<1>8. ZonesSoFar' /\ GivenSoFar'
  <2>1. zones' = <<>> /\ given' = <<>>
    BY <1>1, <1>5 DEF ZonesSoFar, GivenSoFar, ZonesRun, PagesRun
  <2> QED
    BY <1>5, <2>1 DEF ZonesSoFar, GivenSoFar, ZonesRun, PagesRun
<1> QED
  BY <1>6, <1>7, <1>8 DEF BootInv

\* A range of the walk, and its whole pages.
LEMMA IthIs ==
    ASSUME NEW t, Sound(t), NEW i \in 1 .. Cardinality(t)
    PROVE  /\ Ith(t, i) \in t
           /\ Pages(Ith(t, i)) \in Nat \X Nat /\ FreePages(Ith(t, i)) \in Nat \X Nat
<1>1. PICK f : f = InOrder(t)
  OBVIOUS
<1>2. f[i] \in t
  BY <1>1, WalkIs
<1>3. f[i][1] \in Nat /\ f[i][2] \in Nat
  BY <1>2 DEF Sound
<1> QED
  BY <1>1, <1>2, <1>3, PagesIs DEF Ith

LEMMA EveryIs ==
    ASSUME NEW t, Sound(t), NEW r \in t
    PROVE  \E i \in 1 .. Cardinality(t) : Ith(t, i) = r
<1>1. PICK f : f = InOrder(t)
  OBVIOUS
<1>2. \E i \in 1 .. Cardinality(t) : f[i] = r
  BY <1>1, WalkIs
<1> QED
  BY <1>1, <1>2 DEF Ith

LEMMA ZoneSizeIs ==
    ASSUME NEW n \in Nat \ {0}
    PROVE  ZoneSize(n) \in Nat \ {0}
<1>1. Header \in Nat /\ PerUnit \in Nat \ {0}
  BY BootAssumption
<1>2. PICK d : d = (n + PerUnit - 1) \div PerUnit
  OBVIOUS
<1>3. n + PerUnit - 1 \in Nat /\ 1 * PerUnit <= n + PerUnit - 1
  BY <1>1
<1>4. d \in Nat /\ 1 <= d
  BY <1>1, <1>2, <1>3, DivIs, DivLess
<1> QED
  BY <1>1, <1>2, <1>4 DEF ZoneSize

\* Nothing of the allocator changes.
LEMMA StillKeeps ==
    ASSUME Trees(mem), ListIs, KnownSoFar, FreeSoFar, BlocksApart, Reserved, Reserved',
           mem' = mem, listed' = listed, blocks' = blocks
    PROVE  /\ Trees(mem') /\ ListIs' /\ KnownSoFar' /\ ListedSoFar' /\ FreeSoFar'
           /\ BlocksApart'
<1>1. ~Listing /\ ~Listing' /\ mem.low \in Int
  BY TreesSound DEF Listing, Reserved
<1>2. ListIs' /\ KnownSoFar' /\ ListedSoFar'
  BY <1>1, LaterKeeps
<1>3. \A x : ReservedAt(x)' <=> ReservedAt(x)
  BY DEF ReservedAt, Indices
<1>4. FreeSoFar' /\ BlocksApart'
  BY <1>1, <1>3 DEF FreeSoFar, BlocksApart, OutOfNodes
<1> QED
  BY <1>2, <1>4

LEMMA ZoneKeeps ==
    ASSUME BootInv, Zone
    PROVE  BootInv'
<1>1. /\ Trees(mem) /\ ListIs /\ TurnIs /\ KnownSoFar
      /\ FreeSoFar /\ BlocksApart /\ ZonesSoFar /\ GivenSoFar
  BY DEF BootInv
<1>2. PICK t : t = mem.memory_map
  OBVIOUS
<1>3. PICK z : z = Pages(Ith(t, at))
  OBVIOUS
<1>4. PICK size : size = ZoneSize(z[2] - z[1])
  OBVIOUS
<1>5. PICK addr : addr = AllocAddr(mem, size, Align, 0, UINTPTR_MAX)
  OBVIOUS
<1>6. PICK n : n = Cardinality(t)
  OBVIOUS
<1>7. /\ pc = "zones" /\ ~OutOfNodes
      /\ listed' = listed /\ mapped' = mapped /\ given' = given
      /\ \/ /\ z[1] >= z[2] /\ Turn(n, "pages")
            /\ mem' = mem /\ blocks' = blocks /\ zones' = zones
         \/ /\ ~(z[1] >= z[2]) /\ addr = UINTPTR_MAX /\ Stop("no_memory")
            /\ mem' = Alloc(mem, size, Align, 0, UINTPTR_MAX)
            /\ blocks' = blocks /\ zones' = zones
         \/ /\ ~(z[1] >= z[2]) /\ addr # UINTPTR_MAX /\ Turn(n, "pages")
            /\ mem' = Alloc(mem, size, Align, 0, UINTPTR_MAX)
            /\ blocks' = blocks \cup {<<addr, addr + size>>} /\ zones' = Append(zones, z)
  BY <1>2, <1>3, <1>4, <1>5, <1>6 DEF Zone, Ith
<1>8. /\ pc = "zones" /\ listed' = listed /\ mapped' = mapped /\ given' = given
      /\ \/ zones' = zones /\ (z[1] >= z[2] \/ pc' = "no_memory")
         \/ zones' = Append(zones, z) /\ ~(z[1] >= z[2])
      /\ \/ pc' = "no_memory" /\ at' = at
         \/ at < n /\ at' = at + 1 /\ pc' = "zones"
         \/ ~(at < n) /\ at' = 1 /\ pc' = "pages"
  BY <1>7, Zenon DEF Stop, Turn
<1>9. /\ Sound(t) /\ n \in Nat /\ at \in 1 .. n /\ at \in Nat \ {0} /\ t # {}
      /\ mapped \in Nat /\ mapped = Min2((balloc_memory \div PAGE_SIZE) * PAGE_SIZE, MAX_PMEM_SIZE)
      /\ Reserved /\ Reserved'
  <2>1. /\ at \in Nat \ {0} /\ at <= n /\ t # {} /\ mapped \in Nat
        /\ mapped = Min2((balloc_memory \div PAGE_SIZE) * PAGE_SIZE, MAX_PMEM_SIZE)
    BY <1>1, <1>2, <1>6, <1>8 DEF TurnIs, Listing, ZonesRun
  <2>2. Sound(t)
    BY <1>1, <1>2, TreesSound
  <2>3. n \in Nat
    BY <1>6, <2>2, FS_CardinalityType DEF Sound
  <2> QED
    BY <1>8, <2>1, <2>2, <2>3 DEF Reserved
<1>10. Ith(t, at) \in t /\ z \in Nat \X Nat
  BY <1>3, <1>6, <1>9, IthIs
<1>11. z[1] \in Nat /\ z[2] \in Nat
  BY <1>10
<1>12. /\ Trees(mem') /\ mem'.memory_map = t
       /\ ListIs' /\ KnownSoFar' /\ ListedSoFar' /\ FreeSoFar' /\ BlocksApart'
  <2>1. CASE mem' = mem /\ blocks' = blocks
    BY <1>1, <1>2, <1>8, <1>9, <2>1, StillKeeps
  <2>2. CASE /\ ~(z[1] >= z[2])
             /\ mem' = Alloc(mem, size, Align, 0, UINTPTR_MAX)
             /\ blocks' = blocks \cup {<<q, q + size>> : q \in {addr} \ {UINTPTR_MAX}}
    <3>1. size \in Nat \ {0}
      <4>1. z[2] - z[1] \in Nat \ {0}
        BY <1>11, <2>2
      <4> QED
        BY <1>4, <4>1, ZoneSizeIs
    <3>2. Align \in Nat \ {0} /\ UINTPTR_MAX \in Nat
      BY BootAssumption
    <3> QED
      BY <1>1, <1>2, <1>5, <1>7, <1>8, <1>9, <2>2, <3>1, <3>2, BlockKeeps
  <2>3. /\ addr = UINTPTR_MAX =>
             {<<q, q + size>> : q \in {addr} \ {UINTPTR_MAX}} = {}
        /\ addr # UINTPTR_MAX =>
             {<<q, q + size>> : q \in {addr} \ {UINTPTR_MAX}} = {<<addr, addr + size>>}
    OBVIOUS
  <2> QED
    BY <1>7, <2>1, <2>2, <2>3
<1>13. TurnIs'
  <2>1. balloc_memory' = balloc_memory /\ n \in Nat \ {0} /\ Cardinality(t) = n
    BY <1>1, <1>2, <1>6, <1>9, <1>12, MemoryIs DEF balloc_memory
  <2> HIDE DEF balloc_memory
  <2>2. /\ at' \in Nat \ {0} /\ (pc' = "zones" => at' <= n)
        /\ pc' \in {"zones", "pages", "no_memory"}
    BY <1>8, <1>9
  <2>3. mapped' = Min2((balloc_memory' \div PAGE_SIZE) * PAGE_SIZE, MAX_PMEM_SIZE)
    BY <1>8, <1>9, <2>1
  <2> QED
    BY <1>8, <1>9, <1>12, <2>1, <2>2, <2>3 DEF TurnIs, Listing, Reserved
<1>14. ZonesSoFar'
  <2>1. /\ zones \in Seq(Nat \X Nat)
        /\ \A i \in 1 .. Len(zones) : zones[i][1] < zones[i][2] /\
             \E r \in t : zones[i] = Pages(r)
        /\ \A i \in 1 .. n : i < at /\ Pages(Ith(t, i))[1] < Pages(Ith(t, i))[2]
             => \E j \in 1 .. Len(zones) : zones[j] = Pages(Ith(t, i))
    BY <1>1, <1>2, <1>6, <1>8 DEF ZonesSoFar, ZonesRun
  <2>2. /\ zones' \in Seq(Nat \X Nat)
        /\ \A i \in 1 .. Len(zones') : zones'[i][1] < zones'[i][2] /\
             \E r \in t : zones'[i] = Pages(r)
        /\ \A j \in 1 .. Len(zones) : j \in 1 .. Len(zones') /\ zones'[j] = zones[j]
        /\ z[1] < z[2] /\ pc' # "no_memory" => \E j \in 1 .. Len(zones') : zones'[j] = z
    <3>1. CASE zones' = zones
      BY <1>8, <1>11, <2>1, <3>1
    <3>2. CASE zones' = Append(zones, z) /\ ~(z[1] >= z[2])
      <4>1. /\ zones' \in Seq(Nat \X Nat) /\ Len(zones') = Len(zones) + 1
            /\ Len(zones) \in Nat /\ zones'[Len(zones) + 1] = z
            /\ \A j \in 1 .. Len(zones) : zones'[j] = zones[j]
        BY <1>10, <2>1, <3>2
      <4>2. z[1] < z[2] /\ \E r \in t : z = Pages(r)
        BY <1>3, <1>10, <1>11, <3>2
      <4>3. \A j \in 1 .. Len(zones') : j \in 1 .. Len(zones) \/ j = Len(zones) + 1
        BY <4>1
      <4>4. /\ Len(zones) + 1 \in 1 .. Len(zones')
            /\ \A j \in 1 .. Len(zones) : j \in 1 .. Len(zones')
        BY <4>1
      <4>5. ASSUME NEW i \in 1 .. Len(zones')
            PROVE  zones'[i][1] < zones'[i][2] /\ \E r \in t : zones'[i] = Pages(r)
        <5>1. CASE i \in 1 .. Len(zones)
          <6>1. zones'[i] = zones[i]
            BY <4>1, <5>1
          <6> QED
            BY <2>1, <5>1, <6>1
        <5>2. CASE i = Len(zones) + 1
          <6>1. zones'[i] = z
            BY <4>1, <5>2
          <6> QED
            BY <4>2, <6>1
        <5> QED
          BY <4>3, <5>1, <5>2
      <4> QED
        BY <4>1, <4>4, <4>5
    <3> QED
      BY <1>8, <3>1, <3>2
  <2>3. ASSUME pc' # "no_memory", NEW i \in 1 .. n, pc' = "zones" => i < at',
               Pages(Ith(t, i))[1] < Pages(Ith(t, i))[2]
        PROVE  \E j \in 1 .. Len(zones') : zones'[j] = Pages(Ith(t, i))
    <3>1. CASE i < at
      BY <2>1, <2>2, <2>3, <3>1
    <3>2. CASE i = at
      BY <1>3, <2>2, <2>3, <3>2
    <3> QED
      BY <1>8, <1>9, <2>3, <3>1, <3>2
  <2>4. pc' \in {"zones", "pages", "no_memory"}
    BY <1>8
  <2> QED
    BY <1>6, <1>12, <2>2, <2>3, <2>4 DEF ZonesSoFar, ZonesRun
<1>15. GivenSoFar'
  <2>1. given' = <<>> /\ (pc' = "pages" => at' = 1) /\ pc' # "done"
    BY <1>1, <1>8 DEF GivenSoFar, PagesRun
  <2>2. \A i \in 1 .. Cardinality(mem'.free_ranges) : ~(i < 1)
    BY <1>12, TreesSound, FS_CardinalityType DEF Sound
  <2> QED
    BY <2>1, <2>2 DEF GivenSoFar, PagesRun
<1> QED
  BY <1>12, <1>13, <1>14, <1>15 DEF BootInv

\* What is free lies in one known range.
LEMMA FreeInOne ==
    ASSUME Trees(mem), FreeSoFar, ~Listing, ~OutOfNodes,
           NEW q \in mem.free_ranges, q[1] < q[2]
    PROVE  \E r \in mem.memory_map : r[1] <= q[1] /\ q[2] <= r[2]
<1>1. q[1] \in Nat /\ q[2] \in Nat
  BY TreesSound
<1>2. \A x \in Int : q[1] <= x /\ x < q[2] => Hit(mem.memory_map, x)
  BY DEF FreeSoFar, Hit, In
<1>3. PICK t : t = mem.memory_map
  OBVIOUS
<1>4. Sound(t)
  BY <1>3, TreesSound
<1>5. \E r \in t : r[1] <= q[1] /\ q[2] <= r[2]
  BY <1>1, <1>2, <1>3, <1>4, OneRange
<1> QED
  BY <1>3, <1>5

\* The pages of a free range lie in a zone: __page_alloc_zone_free finds it.
LEMMA ZoneFound ==
    ASSUME BootInv, pc = "pages", ~OutOfNodes,
           NEW q \in mem.free_ranges, NEW f, f = FreePages(q), f[1] < f[2]
    PROVE  \E z \in ZoneFind(f[1]) : f[2] <= zones[z][2]
<1>1. Trees(mem) /\ FreeSoFar /\ ZonesSoFar
  BY DEF BootInv
<1>2. q[1] \in Nat /\ q[2] \in Nat
  BY <1>1, TreesSound
<1>3. PICK a, b : Pages(q) = <<a, b>> /\ a \in Nat /\ b \in Nat
  BY <1>2, PagesIs
<1>4. /\ f[1] \in Nat /\ f[2] = b
      /\ \A p \in Nat : a <= p <=> q[1] <= p * PAGE_SIZE
      /\ \A p \in Nat : p <= b <=> p * PAGE_SIZE <= q[2]
      /\ \A p \in Nat : f[1] <= p <=> a <= p /\ p # 0
  <2>1. f \in Nat \X Nat
    BY <1>2, PagesIs
  <2> QED
    BY <1>2, <1>3, <2>1, PagesIs
<1>5. a <= f[1] /\ f[1] < b
  BY <1>3, <1>4
<1>6. q[1] <= a * PAGE_SIZE /\ b * PAGE_SIZE <= q[2] /\ a * PAGE_SIZE < b * PAGE_SIZE
  <2>1. PAGE_SIZE \in Nat \ {0}
    BY BootAssumption
  <2>2. a < b
    BY <1>3, <1>4, <1>5
  <2>3. a * PAGE_SIZE < b * PAGE_SIZE
    BY <1>3, <2>1, <2>2
  <2> QED
    BY <1>3, <1>4, <2>3
<1>7. q[1] < q[2]
  <2>1. PICK c, d : c = a * PAGE_SIZE /\ d = b * PAGE_SIZE
    OBVIOUS
  <2>2. c \in Nat /\ d \in Nat
    BY <1>3, <2>1, BootAssumption
  <2> QED
    BY <1>2, <1>6, <2>1, <2>2
<1>8. PICK r \in mem.memory_map : r[1] <= q[1] /\ q[2] <= r[2]
  BY <1>1, <1>7, FreeInOne DEF Listing
<1>9. r[1] \in Nat /\ r[2] \in Nat
  BY <1>1, TreesSound
<1>10. PICK c, d : Pages(r) = <<c, d>> /\ c \in Nat /\ d \in Nat
  BY <1>9, PagesIs
<1>11. c <= a /\ b <= d
  <2>1. /\ c <= a <=> r[1] <= a * PAGE_SIZE
        /\ b <= d <=> b * PAGE_SIZE <= r[2]
    BY <1>3, <1>9, <1>10, PagesIs
  <2>2. a * PAGE_SIZE \in Nat /\ b * PAGE_SIZE \in Nat
    BY <1>3, BootAssumption
  <2> QED
    BY <1>2, <1>6, <1>8, <1>9, <2>1, <2>2
<1>12. PICK j \in 1 .. Len(zones) : zones[j] = <<c, d>>
  <2>1. PICK t : t = mem.memory_map
    OBVIOUS
  <2>2. Sound(t)
    BY <1>1, <2>1, TreesSound
  <2>3. PICK i \in 1 .. Cardinality(t) : Ith(t, i) = r
    BY <1>8, <2>1, <2>2, EveryIs
  <2>4. Pages(Ith(t, i)) = <<c, d>> /\ c < d
    BY <1>3, <1>4, <1>5, <1>10, <1>11, <2>3
  <2>5. Pages(Ith(t, i))[1] < Pages(Ith(t, i))[2]
    BY <2>4
  <2> QED
    BY <1>1, <2>1, <2>4, <2>5 DEF ZonesSoFar, ZonesRun
<1>13. DOMAIN zones = 1 .. Len(zones)
  BY <1>1 DEF ZonesSoFar
<1> QED
  BY <1>3, <1>4, <1>5, <1>10, <1>11, <1>12, <1>13 DEF ZoneFind

LEMMA FreeRangeKeeps ==
    ASSUME BootInv, FreeRange
    PROVE  BootInv'
<1>1. /\ Trees(mem) /\ ListIs /\ TurnIs /\ KnownSoFar
      /\ FreeSoFar /\ BlocksApart /\ ZonesSoFar /\ GivenSoFar
  BY DEF BootInv
<1>2. PICK t : t = mem.free_ranges
  OBVIOUS
<1>3. PICK f : f = FreePages(Ith(t, at))
  OBVIOUS
<1>4. PICK n : n = Cardinality(t)
  OBVIOUS
<1>5. /\ pc = "pages" /\ ~OutOfNodes /\ at <= n
      /\ mem' = mem /\ listed' = listed /\ blocks' = blocks /\ mapped' = mapped
      /\ zones' = zones
      /\ \/ f[1] >= f[2] /\ Turn(n, "done") /\ given' = given
         \/ /\ ~(f[1] >= f[2]) /\ (\E z \in ZoneFind(f[1]) : f[2] <= zones[z][2])
            /\ Turn(n, "done") /\ given' = Append(given, f)
         \/ /\ ~(f[1] >= f[2]) /\ ~(\E z \in ZoneFind(f[1]) : f[2] <= zones[z][2])
  BY <1>2, <1>3, <1>4 DEF FreeRange, Ith
<1>6. /\ Sound(t) /\ n \in Nat /\ at \in 1 .. n /\ at \in Nat \ {0}
      /\ mem.memory_map # {} /\ Reserved
      /\ mapped \in Nat /\ mapped = Min2((balloc_memory \div PAGE_SIZE) * PAGE_SIZE, MAX_PMEM_SIZE)
  <2>1. /\ at \in Nat \ {0} /\ mem.memory_map # {} /\ mapped \in Nat
        /\ mapped = Min2((balloc_memory \div PAGE_SIZE) * PAGE_SIZE, MAX_PMEM_SIZE)
    BY <1>1, <1>5 DEF TurnIs, Listing, ZonesRun
  <2>2. Sound(t)
    BY <1>1, <1>2, TreesSound
  <2>3. n \in Nat
    BY <1>4, <2>2, FS_CardinalityType DEF Sound
  <2> QED
    BY <1>5, <2>1, <2>2, <2>3 DEF Reserved
<1>7. Ith(t, at) \in t /\ f \in Nat \X Nat
  BY <1>3, <1>4, <1>6, IthIs
<1>8. f[1] \in Nat /\ f[2] \in Nat
  BY <1>7
<1>9. ~(f[1] >= f[2]) => \E z \in ZoneFind(f[1]) : f[2] <= zones[z][2]
  BY <1>2, <1>3, <1>5, <1>7, <1>8, ZoneFound
<1>10. /\ pc = "pages" /\ Turn(n, "done")
       /\ \/ given' = given /\ f[1] >= f[2]
          \/ given' = Append(given, f) /\ ~(f[1] >= f[2])
  BY <1>5, <1>9
<1>11. \/ at < n /\ at' = at + 1 /\ pc' = "pages"
       \/ ~(at < n) /\ at' = 1 /\ pc' = "done"
  BY <1>10, Zenon DEF Turn
<1>12. Reserved'
  BY <1>11 DEF Reserved
<1>13. /\ Trees(mem') /\ ListIs' /\ KnownSoFar' /\ ListedSoFar' /\ FreeSoFar'
       /\ BlocksApart'
  BY <1>1, <1>5, <1>6, <1>12, StillKeeps
<1>14. TurnIs'
  <2>1. balloc_memory' = balloc_memory
    BY <1>5 DEF balloc_memory
  <2> HIDE DEF balloc_memory
  <2>2. at' \in Nat \ {0} /\ pc' \in {"pages", "done"} /\ ~OutOfNodes'
    BY <1>5, <1>6, <1>11 DEF OutOfNodes
  <2>3. mapped' = Min2((balloc_memory' \div PAGE_SIZE) * PAGE_SIZE, MAX_PMEM_SIZE)
    BY <1>5, <1>6, <2>1
  <2> QED
    BY <1>5, <1>6, <2>1, <2>2, <2>3 DEF TurnIs, Listing, Reserved
<1>15. ZonesSoFar'
  <2>1. pc \in {"pages", "done"} /\ pc' \in {"pages", "done"}
    BY <1>5, <1>11
  <2>2. zones' = zones /\ mem' = mem
    BY <1>5
  <2> QED
    BY <1>1, <2>1, <2>2 DEF ZonesSoFar, ZonesRun
<1> DEFINE Good(g) == /\ g[1] < g[2] /\ \E r \in t : g = FreePages(r)
                      /\ \E z \in 1 .. Len(zones) : zones[z][1] <= g[1] /\ g[2] <= zones[z][2]
<1>16. /\ given \in Seq(Nat \X Nat)
       /\ \A i \in 1 .. Len(given) : Good(given[i])
       /\ \A i \in 1 .. n : i < at /\ FreePages(Ith(t, i))[1] < FreePages(Ith(t, i))[2]
            => \E j \in 1 .. Len(given) : given[j] = FreePages(Ith(t, i))
  <2>1. /\ given \in Seq(Nat \X Nat)
        /\ \A i \in 1 .. Len(given) : Good(given[i])
    BY <1>1, <1>2 DEF GivenSoFar
  <2> HIDE DEF Good
  <2>2. \A i \in 1 .. n : i < at /\ FreePages(Ith(t, i))[1] < FreePages(Ith(t, i))[2]
            => \E j \in 1 .. Len(given) : given[j] = FreePages(Ith(t, i))
    BY <1>1, <1>2, <1>4, <1>5 DEF GivenSoFar, PagesRun
  <2> QED
    BY <2>1, <2>2
<1>17. ~(f[1] >= f[2]) => Good(f)
  <2> SUFFICES ASSUME ~(f[1] >= f[2])
               PROVE  Good(f)
    BY Zenon
  <2>1. PICK z \in ZoneFind(f[1]) : f[2] <= zones[z][2]
    BY <1>9
  <2>2. z \in DOMAIN zones /\ zones[z][1] <= f[1]
    BY <2>1 DEF ZoneFind
  <2>3. z \in 1 .. Len(zones)
    BY <1>1, <2>2 DEF ZonesSoFar
  <2> QED
    BY <1>3, <1>7, <1>8, <2>1, <2>2, <2>3
<1> HIDE DEF Good
<1>18. /\ given' \in Seq(Nat \X Nat)
       /\ \A i \in 1 .. Len(given') : Good(given'[i])
       /\ \A j \in 1 .. Len(given) : j \in 1 .. Len(given') /\ given'[j] = given[j]
       /\ f[1] < f[2] => \E j \in 1 .. Len(given') : given'[j] = f
  <2>1. CASE given' = given /\ f[1] >= f[2]
    BY <1>8, <1>16, <2>1
  <2>2. CASE given' = Append(given, f) /\ ~(f[1] >= f[2])
    <3>1. /\ given' \in Seq(Nat \X Nat) /\ Len(given') = Len(given) + 1
          /\ Len(given) \in Nat /\ given'[Len(given) + 1] = f
          /\ \A j \in 1 .. Len(given) : given'[j] = given[j]
      BY <1>7, <1>16, <2>2
    <3>2. /\ \A j \in 1 .. Len(given') : j \in 1 .. Len(given) \/ j = Len(given) + 1
          /\ Len(given) + 1 \in 1 .. Len(given')
          /\ \A j \in 1 .. Len(given) : j \in 1 .. Len(given')
      BY <3>1
    <3>3. Good(f)
      BY <1>17, <2>2
    <3> QED
      BY <1>16, <3>1, <3>2, <3>3
  <2> QED
    BY <1>10, <2>1, <2>2
<1>19. GivenSoFar'
  <2>1. ASSUME NEW i \in 1 .. n, pc' = "pages" => i < at',
               FreePages(Ith(t, i))[1] < FreePages(Ith(t, i))[2]
        PROVE  \E j \in 1 .. Len(given') : given'[j] = FreePages(Ith(t, i))
    <3>1. CASE i < at
      BY <1>16, <1>18, <2>1, <3>1
    <3>2. CASE i = at
      BY <1>3, <1>18, <2>1, <3>2
    <3> QED
      BY <1>6, <1>11, <2>1, <3>1, <3>2
  <2>2. pc' \in {"pages", "done"} /\ zones' = zones /\ mem'.free_ranges = t
    BY <1>2, <1>5, <1>11
  <2>3. \A i \in 1 .. Len(given') :
            /\ given'[i][1] < given'[i][2] /\ \E r \in t : given'[i] = FreePages(r)
            /\ \E z \in 1 .. Len(zones) : zones[z][1] <= given'[i][1] /\ given'[i][2] <= zones[z][2]
    BY <1>18 DEF Good
  <2> QED
    BY <1>4, <1>18, <2>1, <2>2, <2>3 DEF GivenSoFar, PagesRun
<1> QED
  BY <1>13, <1>14, <1>15, <1>19 DEF BootInv

LEMMA NothingFreeKeeps ==
    ASSUME BootInv, NothingFree
    PROVE  BootInv'
<1>1. /\ Trees(mem) /\ ListIs /\ TurnIs /\ KnownSoFar
      /\ FreeSoFar /\ BlocksApart /\ ZonesSoFar /\ GivenSoFar
  BY DEF BootInv
<1>2. /\ pc = "pages" /\ pc' = "done" /\ ~OutOfNodes /\ mem.free_ranges = {}
      /\ mem' = mem /\ listed' = listed /\ at' = at /\ blocks' = blocks
      /\ mapped' = mapped /\ zones' = zones /\ given' = given
  BY DEF NothingFree
<1>3. /\ Trees(mem') /\ ListIs' /\ KnownSoFar' /\ ListedSoFar' /\ FreeSoFar'
      /\ BlocksApart'
  BY <1>1, <1>2, StillKeeps DEF Reserved
<1>4. TurnIs'
  <2>1. balloc_memory' = balloc_memory /\ ~OutOfNodes'
    BY <1>2 DEF balloc_memory, OutOfNodes
  <2> HIDE DEF balloc_memory
  <2> QED
    BY <1>1, <1>2, <2>1 DEF TurnIs, Listing, Reserved, ZonesRun
<1>5. ZonesSoFar'
  BY <1>1, <1>2 DEF ZonesSoFar, ZonesRun
<1>6. GivenSoFar'
  <2>1. \A i \in 1 .. Cardinality(mem'.free_ranges) : FALSE
    <3>1. Cardinality(mem'.free_ranges) = 0
      BY <1>2, FS_EmptySet
    <3> QED
      BY <3>1
  <2> QED
    BY <1>1, <1>2, <2>1 DEF GivenSoFar, PagesRun
<1> QED
  BY <1>3, <1>4, <1>5, <1>6 DEF BootInv

LEMMA NextKeeps ==
    ASSUME BootInv, [BootNext]_boot_vars
    PROVE  BootInv'
<1>1. CASE BallocNext /\ UNCHANGED <<blocks, mapped, zones, given>>
  <2>1. ListRange \/ ReserveRange
    BY <1>1 DEF BallocNext
  <2> QED
    BY <1>1, <2>1, ListRangeKeeps, ReserveRangeKeeps
<1>2. CASE UNCHANGED boot_vars
  <2>1. /\ mem' = mem /\ listed' = listed /\ pc' = pc /\ at' = at /\ blocks' = blocks
        /\ mapped' = mapped /\ zones' = zones /\ given' = given
    BY <1>2 DEF boot_vars, balloc_vars
  <2>2. Trees(mem') /\ ListIs' /\ BlocksApart' /\ ZonesSoFar' /\ GivenSoFar'
    <3>1. Trees(mem') /\ ListIs' /\ BlocksApart'
      BY <2>1 DEF BootInv, ListIs, Indices, BlocksApart, Reserved
    <3>2. ZonesSoFar'
      BY <2>1 DEF BootInv, ZonesSoFar, ZonesRun
    <3>3. GivenSoFar'
      BY <2>1 DEF BootInv, GivenSoFar, PagesRun
    <3> QED
      BY <3>1, <3>2, <3>3
  <2>3. balloc_memory' = balloc_memory
    BY <2>1 DEF balloc_memory
  <2>4. TurnIs'
    BY <2>1, <2>3 DEF BootInv, TurnIs, Reserved, Listing, ZonesRun, OutOfNodes
  <2>5. ListedSoFar' /\ KnownSoFar'
    BY <2>1 DEF BootInv, ListedSoFar, KnownSoFar, Separate, Listing, OutOfNodes, Indices
  <2>6. FreeSoFar'
    <3>1. \A x : ReservedAt(x)' <=> ReservedAt(x)
      BY <2>1 DEF ReservedAt, Indices, Reserved
    <3> QED
      BY <2>1, <3>1 DEF BootInv, FreeSoFar, Listing, OutOfNodes
  <2> QED
    BY <2>2, <2>4, <2>5, <2>6 DEF BootInv
<1> QED
  BY <1>1, <1>2, PageTableKeeps, ZoneKeeps, FreeRangeKeeps, NothingFreeKeeps DEF BootNext

\* The invariant of the boot, at all times.
THEOREM BootInvariant == BootSpec => []BootInv
<1>1. BootInit => BootInv
  BY InitInv
<1>2. BootInv /\ [BootNext]_boot_vars => BootInv'
  BY NextKeeps
<1> QED
  BY <1>1, <1>2, PTL DEF BootSpec

-----------------------------------------------------------------------------
(***************************************************************************)
(* What follows from it.                                                   *)
(***************************************************************************)

\* However ranges are added, merged, split and taken out, those of a tree neither
\* overlap nor touch, and every node is a range's or unused: a boot that stops for lack
\* of nodes really has that many ranges (balloc.c:32-104, 120-142).
THEOREM TreesStaySound == BootSpec => []RangesApart
<1>1. ASSUME BootInv
      PROVE  RangesApart
  <2>1. Trees(mem) /\ TurnIs /\ ZonesSoFar /\ GivenSoFar
    BY <1>1 DEF BootInv
  <2>2. PICK s, t : s = mem.memory_map /\ t = mem.free_ranges
    OBVIOUS
  <2>3. /\ Sound(s) /\ Sound(t)
        /\ mem.nodes = BALLOC_MAX_RANGES - 0 - Cardinality(s) - Cardinality(t)
        /\ mem.low \in -1 .. BALLOC_MAX_RANGES /\ mem.low <= mem.nodes
    BY <2>1, <2>2, TreesSound DEF Trees, Holding, Counted
  <2>4. Cardinality(s) \in Nat /\ Cardinality(t) \in Nat
    BY <2>3, FS_CardinalityType DEF Sound
  <2>5. /\ mem.nodes = BALLOC_MAX_RANGES - Cardinality(s) - Cardinality(t)
        /\ mem.nodes \in -1 .. BALLOC_MAX_RANGES /\ mem.low \in -1 .. BALLOC_MAX_RANGES
    BY <2>3, <2>4
  <2>6. BootTypeOK
    <3>1. s \in SUBSET (Nat \X Nat) /\ t \in SUBSET (Nat \X Nat)
      BY <2>3 DEF Sound
    <3>2. /\ pc \in {"list", "reserve", "paging", "zones", "pages", "done",
                     "no_page", "no_memory", "no_zone"}
          /\ at \in Nat \ {0} /\ mapped \in Nat
      BY <2>1 DEF TurnIs
    <3>3. zones \in Seq(Nat \X Nat) /\ given \in Seq(Nat \X Nat)
      BY <2>1 DEF ZonesSoFar, GivenSoFar
    <3> QED
      BY <2>2, <2>5, <3>1, <3>2, <3>3 DEF BootTypeOK
  <2>7. ASSUME NEW u \in {s, t}, NEW r \in u, NEW q \in u
        PROVE  r[1] <= r[2] /\ (r = q \/ r[2] < q[1] \/ q[2] < r[1])
    BY <2>3, <2>7 DEF Sound, Apart
  <2> QED
    BY <2>2, <2>5, <2>6, <2>7 DEF RangesApart
<1> QED
  BY <1>1, BootInvariant, PTL

\* What the boot allocator believes free is free to the byte, in every order of entries,
\* kernel, initrd and allocations, overlaps included, and nothing is given away twice
\* (balloc.c:120-142, 175-182, 203-229).
THEOREM FreeIsExact == BootSpec => []FreeExactly
<1>1. ASSUME BootInv
      PROVE  FreeExactly
  <2> SUFFICES ASSUME pc \notin {"list", "reserve"}, ~OutOfNodes
               PROVE  /\ Covered(mem.free_ranges) =
                           Covered(mem.memory_map)
                             \ (Covered(blocks) \cup Covered({r \in ListedRanges : Taken(r)}))
                      /\ Disjoint(blocks)
    BY DEF FreeExactly
  <2>1. Trees(mem) /\ ListIs /\ FreeSoFar /\ BlocksApart
    BY <1>1 DEF BootInv
  <2>2. PICK taken : taken = {r \in ListedRanges : Taken(r)}
    OBVIOUS
  <2>3. \A r : r \in taken <=> \E i \in Indices : r = listed[i] /\ Taken(listed[i])
    <3>1. DOMAIN listed = Indices
      BY <2>1 DEF ListIs, Indices
    <3> QED
      BY <2>2, <3>1 DEF ListedRanges, Range
  <2>4. \A x : ReservedAt(x) <=> Hit(taken, x)
    BY <2>3 DEF ReservedAt, Reserved, Hit
  <2>5. /\ \A r \in taken : r[1] \in Nat /\ r[2] \in Nat
        /\ \A r \in blocks : r[1] \in Nat /\ r[2] \in Nat
        /\ \A r \in mem.free_ranges : r[1] \in Nat /\ r[2] \in Nat
        /\ \A r \in mem.memory_map : r[1] \in Nat /\ r[2] \in Nat
    BY <2>1, <2>3, EntryIs, TreesSound DEF BlocksApart
  <2>6. \A x \in Int : Hit(mem.free_ranges, x) <=>
            Hit(mem.memory_map, x) /\ ~(Hit(blocks, x) \/ Hit(taken, x))
    BY <2>1, <2>4 DEF FreeSoFar, Listing
  <2>7. Covered(mem.free_ranges)
          = Covered(mem.memory_map) \ (Covered(blocks) \cup Covered(taken))
    <3>1. /\ Covered(mem.free_ranges) \in SUBSET Int
          /\ \A x \in Int : x \in Covered(mem.free_ranges) <=> Hit(mem.free_ranges, x)
      BY <2>5, CoveredIs
    <3>2. /\ Covered(mem.memory_map) \in SUBSET Int
          /\ \A x \in Int : x \in Covered(mem.memory_map) <=> Hit(mem.memory_map, x)
      BY <2>5, CoveredIs
    <3>3. \A x \in Int : x \in Covered(blocks) <=> Hit(blocks, x)
      BY <2>5, CoveredIs
    <3>4. \A x \in Int : x \in Covered(taken) <=> Hit(taken, x)
      BY <2>5, CoveredIs
    <3> QED
      BY <2>6, <3>1, <3>2, <3>3, <3>4
  <2>8. Disjoint(blocks)
    <3> SUFFICES ASSUME NEW b \in blocks, NEW c \in blocks, b # c,
                        NEW x \in Covered({b}) \cap Covered({c})
                 PROVE  FALSE
      BY DEF Disjoint
    <3>1. /\ Covered({b}) \in SUBSET Int
          /\ \A y \in Int : y \in Covered({b}) <=> Hit({b}, y)
      BY <2>5, CoveredIs
    <3>2. \A y \in Int : y \in Covered({c}) <=> Hit({c}, y)
      BY <2>5, CoveredIs
    <3>3. x \in Int /\ In(x, b) /\ In(x, c)
      BY <3>1, <3>2 DEF Hit
    <3> QED
      BY <2>1, <3>3 DEF BlocksApart
  <2> QED
    BY <2>2, <2>7, <2>8
<1> QED
  BY <1>1, BootInvariant, PTL

\* Entries that do not overlap are known in full whatever is added after them, though
\* a range that is merged can lose the end of what is merged with it
\* (balloc.c:57-72, initramfs.c:73).
THEOREM ListedStaysKnown == BootSpec => []ListedKnown
<1>1. ASSUME BootInv
      PROVE  ListedKnown
  <2>1. Trees(mem) /\ ListIs /\ KnownSoFar
    BY <1>1 DEF BootInv
  <2>2. PICK entries : entries = {r \in ListedRanges : r[3] \in {"available", "reserved"}}
    OBVIOUS
  <2> SUFFICES ASSUME pc # "list", ~OutOfNodes, Cardinality(entries) = Len(listed) - 2,
                      \A r, q \in entries : r = q \/ r[2] <= q[1] \/ q[2] <= r[1]
               PROVE  Covered(entries) \subseteq Covered(mem.memory_map)
    BY <2>2 DEF ListedKnown
  <2>3. PICK n \in Nat : n = Len(listed) - 2
    <3>1. Len(listed) \in Nat /\ Len(listed) >= 2
      BY <2>1 DEF ListIs
    <3>2. Len(listed) - 2 \in Nat
      BY <3>1
    <3> QED
      BY <3>2
  <2>4. \A r : r \in entries <=> \E i \in 1 .. n : r = listed[i]
    <3>1. DOMAIN listed = Indices /\ Len(listed) \in Nat
      BY <2>1 DEF ListIs, Indices
    <3>2. \A i \in Indices : listed[i][3] \in {"available", "reserved"} <=> i \in 1 .. n
      BY <2>1, <2>3, <3>1 DEF ListIs, Indices
    <3>3. \A i \in 1 .. n : i \in Indices
      BY <2>3, <3>1 DEF Indices
    <3> QED
      BY <2>2, <3>1, <3>2, <3>3 DEF ListedRanges, Range
  <2>5. ASSUME NEW i \in 1 .. n, NEW j \in 1 .. n, listed[i] = listed[j]
        PROVE  i = j
    <3>1. PICK f : f = [k \in 1 .. n |-> listed[k]]
      OBVIOUS
    <3>2. f \in [1 .. n -> entries] /\ \A r \in entries : \E k \in 1 .. n : f[k] = r
      BY <2>4, <3>1
    <3>3. f \in Surjection(1 .. n, entries)
      BY <3>2 DEF Surjection
    <3>4. IsFiniteSet(1 .. n) /\ Cardinality(1 .. n) = n
      BY FS_Interval
    <3>5. f \in Injection(1 .. n, entries)
      BY <2>3, <3>3, <3>4, FS_Surjection
    <3>6. \A a, b \in 1 .. n : f[a] = f[b] => a = b
      BY <3>2, <3>5 DEF Injection, IsInjective
    <3> QED
      BY <2>5, <3>1, <3>6
  <2>6. Separate
    BY <2>3, <2>4, <2>5 DEF Separate
  <2>7. \A r \in entries : r[1] \in Nat /\ r[2] \in Nat
    <3>1. \A i \in 1 .. n : i \in Indices
      BY <2>1, <2>3 DEF ListIs, Indices
    <3> QED
      BY <2>1, <2>4, <3>1, EntryIs
  <2>8. \A x \in Int : Hit(entries, x) => Hit(mem.memory_map, x)
    BY <2>1, <2>3, <2>4, <2>6 DEF KnownSoFar, Listing, Hit
  <2>9. /\ Covered(entries) \in SUBSET Int
        /\ \A x \in Int : x \in Covered(entries) <=> Hit(entries, x)
    BY <2>7, CoveredIs
  <2>10. \A x \in Int : x \in Covered(mem.memory_map) <=> Hit(mem.memory_map, x)
    BY <2>1, TreesSound, CoveredIs
  <2> QED
    BY <2>8, <2>9, <2>10
<1> QED
  BY <1>1, BootInvariant, PTL

\* The page allocator is given page p if it is not the first one and one range has it.
LEMMA GivenIs ==
    ASSUME BootInv, pc = "done"
    PROVE  /\ Covered(Range(given)) \in SUBSET Nat
           /\ \A p \in Nat : p \in Covered(Range(given)) <=>
                p # 0 /\ \E r \in mem.free_ranges :
                           r[1] <= p * PAGE_SIZE /\ (p + 1) * PAGE_SIZE <= r[2]
<1>1. Trees(mem) /\ GivenSoFar
  BY DEF BootInv
<1>2. PICK t : t = mem.free_ranges
  OBVIOUS
<1>3. Sound(t) /\ \A r \in t : r[1] \in Nat /\ r[2] \in Nat
  BY <1>1, <1>2, TreesSound
<1>4. /\ given \in Seq(Nat \X Nat)
      /\ \A i \in 1 .. Len(given) : \E r \in t : given[i] = FreePages(r)
      /\ \A i \in 1 .. Cardinality(t) : FreePages(Ith(t, i))[1] < FreePages(Ith(t, i))[2]
           => \E j \in 1 .. Len(given) : given[j] = FreePages(Ith(t, i))
  BY <1>1, <1>2 DEF GivenSoFar, PagesRun
<1>5. /\ \A g : g \in Range(given) <=> \E i \in 1 .. Len(given) : g = given[i]
      /\ \A g \in Range(given) : g[1] \in Nat /\ g[2] \in Nat
  BY <1>4 DEF Range
<1>6. /\ Covered(Range(given)) \in SUBSET Int
      /\ \A x \in Int : x \in Covered(Range(given)) <=> Hit(Range(given), x)
  BY <1>5, CoveredIs
<1>7. ASSUME NEW x \in Covered(Range(given))
      PROVE  x \in Nat
  BY <1>5, <1>6 DEF Hit, In
<1>8. ASSUME NEW r \in t, NEW p \in Nat
      PROVE  In(p, FreePages(r)) <=>
               p # 0 /\ r[1] <= p * PAGE_SIZE /\ (p + 1) * PAGE_SIZE <= r[2]
  <2>1. r[1] \in Nat /\ r[2] \in Nat
    BY <1>3
  <2> QED
    BY <2>1, PagesIs DEF In
<1>9. ASSUME NEW p \in Nat
      PROVE  Hit(Range(given), p) <=> \E r \in t : In(p, FreePages(r))
  <2>1. ASSUME NEW r \in t, In(p, FreePages(r))
        PROVE  Hit(Range(given), p)
    <3>1. PICK i \in 1 .. Cardinality(t) : Ith(t, i) = r
      BY <1>3, EveryIs
    <3>2. FreePages(r)[1] < FreePages(r)[2]
      <4>1. FreePages(r)[1] \in Nat /\ FreePages(r)[2] \in Nat
        <5>1. FreePages(r) \in Nat \X Nat
          BY <1>3, PagesIs
        <5> QED
          BY <5>1
      <4> QED
        BY <2>1, <4>1 DEF In
    <3>3. PICK j \in 1 .. Len(given) : given[j] = FreePages(r)
      BY <1>4, <3>1, <3>2
    <3> QED
      BY <1>5, <2>1, <3>3 DEF Hit
  <2>2. ASSUME Hit(Range(given), p)
        PROVE  \E r \in t : In(p, FreePages(r))
    <3>1. PICK g \in Range(given) : In(p, g)
      BY <2>2 DEF Hit
    <3>2. PICK i \in 1 .. Len(given) : g = given[i]
      BY <1>5
    <3>3. PICK r \in t : given[i] = FreePages(r)
      BY <1>4
    <3> QED
      BY <3>1, <3>2, <3>3
  <2> QED
    BY <2>1, <2>2
<1> QED
  BY <1>2, <1>6, <1>7, <1>8, <1>9

\* The zones do not overlap, every range of pages that is given lies in one of them, so
\* that no BUG_ON fires, and the page allocator gets all the pages that are free to the
\* last byte but page 0, each of them mapped if none of the memory lies beyond
\* MAX_PMEM_SIZE: paging_setup maps no more, and nothing else looks at that limit
\* (memory.c:56-85, 148-183, paging.c:197-206).
THEOREM PagesHandedOver == Mappable /\ BootSpec => []HandsOver
<1> SUFFICES ASSUME Mappable
             PROVE  BootSpec => []HandsOver
  OBVIOUS
<1>1. ASSUME BootInv
      PROVE  HandsOver
  <2>1. Trees(mem) /\ ListIs /\ KnownSoFar /\ TurnIs /\ FreeSoFar /\ ZonesSoFar /\ GivenSoFar
    BY <1>1 DEF BootInv
  <2>2. PAGE_SIZE \in Nat \ {0}
    BY BootAssumption
  <2>3. DOMAIN zones = 1 .. Len(zones) /\ DOMAIN given = 1 .. Len(given)
    BY <2>1 DEF ZonesSoFar, GivenSoFar
  <2>4. Disjoint(Range(zones))
    <3> SUFFICES ASSUME NEW y \in Range(zones), NEW z \in Range(zones), y # z,
                        NEW x \in Covered({y}) \cap Covered({z})
                 PROVE  FALSE
      BY DEF Disjoint
    <3>1. PICK i \in 1 .. Len(zones), j \in 1 .. Len(zones) : y = zones[i] /\ z = zones[j]
      BY <2>3 DEF Range
    <3>2. PICK a \in mem.memory_map, b \in mem.memory_map : y = Pages(a) /\ z = Pages(b)
      BY <2>1, <3>1 DEF ZonesSoFar
    <3>3. /\ a[1] \in Nat /\ a[2] \in Nat /\ a[1] <= a[2]
          /\ b[1] \in Nat /\ b[2] \in Nat /\ b[1] <= b[2]
          /\ a # b /\ Apart(a, b)
      BY <2>1, <3>2, TreesSound DEF Sound
    <3>4. y \in Nat \X Nat /\ z \in Nat \X Nat
      BY <3>2, <3>3, PagesIs
    <3>5. x \in Int /\ In(x, y) /\ In(x, z)
      <4>1. y[1] \in Nat /\ y[2] \in Nat /\ z[1] \in Nat /\ z[2] \in Nat
        BY <3>4
      <4>2. /\ Covered({y}) \in SUBSET Int
            /\ \A x_1 \in Int : x_1 \in Covered({y}) <=> Hit({y}, x_1)
        BY <4>1, CoveredIs
      <4>3. \A x_1 \in Int : x_1 \in Covered({z}) <=> Hit({z}, x_1)
        BY <4>1, CoveredIs
      <4> QED
        BY <4>2, <4>3 DEF Hit
    <3>6. x \in Nat
      BY <3>4, <3>5 DEF In
    <3>7. a[1] <= x * PAGE_SIZE /\ (x + 1) * PAGE_SIZE <= a[2]
      BY <3>2, <3>3, <3>5, <3>6, PagesIs DEF In
    <3>8. b[1] <= x * PAGE_SIZE /\ (x + 1) * PAGE_SIZE <= b[2]
      BY <3>2, <3>3, <3>5, <3>6, PagesIs DEF In
    <3>9. PICK c, d : c = x * PAGE_SIZE /\ d = (x + 1) * PAGE_SIZE
      OBVIOUS
    <3>10. c \in Nat /\ d \in Nat /\ c < d
      <4>1. (x + 1) * PAGE_SIZE = x * PAGE_SIZE + PAGE_SIZE
        BY <2>2, <3>6
      <4> QED
        BY <2>2, <3>6, <3>9, <4>1
    <3> QED
      BY <3>3, <3>7, <3>8, <3>9, <3>10 DEF Apart
  <2>5. \A i \in DOMAIN given : \E z \in DOMAIN zones :
          zones[z][1] <= given[i][1] /\ given[i][1] < given[i][2] /\ given[i][2] <= zones[z][2]
    BY <2>1, <2>3 DEF GivenSoFar
  <2>6. pc # "no_zone"
    BY <2>1 DEF TurnIs
  <2>7. ASSUME pc = "done"
        PROVE  /\ Covered(Range(given)) =
                    {p \in 1 .. UINTPTR_MAX \div PAGE_SIZE :
                       p * PAGE_SIZE .. (p + 1) * PAGE_SIZE - 1 \subseteq Covered(mem.free_ranges)}
               /\ \A p \in Covered(Range(given)) : (p + 1) * PAGE_SIZE <= mapped
    <3>1. PICK t : t = mem.free_ranges
      OBVIOUS
    <3>2. /\ Sound(t)
          /\ \A r \in t : r[1] \in Nat /\ r[2] \in Nat /\ r[2] < UINTPTR_MAX
      BY <2>1, <3>1, TreesSound
    <3>3. PICK G : G = Covered(Range(given))
      OBVIOUS
    <3>4. /\ G \in SUBSET Nat
          /\ \A p \in Nat : p \in G <=> p # 0 /\ \E r \in t :
                r[1] <= p * PAGE_SIZE /\ (p + 1) * PAGE_SIZE <= r[2]
      BY <1>1, <2>7, <3>1, <3>3, GivenIs
    <3>5. \A p \in Nat : /\ p * PAGE_SIZE \in Nat /\ (p + 1) * PAGE_SIZE \in Nat
                         /\ p * PAGE_SIZE < (p + 1) * PAGE_SIZE
      <4> TAKE p \in Nat
      <4>1. (p + 1) * PAGE_SIZE = p * PAGE_SIZE + PAGE_SIZE
        BY <2>2
      <4> QED
        BY <2>2, <4>1
    <3>6. \A x \in Int : x \in Covered(t) <=> Hit(t, x)
      BY <3>2, CoveredIs
    <3>7. ASSUME NEW p \in Nat
          PROVE  (\E r \in t : r[1] <= p * PAGE_SIZE /\ (p + 1) * PAGE_SIZE <= r[2])
                   <=> p * PAGE_SIZE .. (p + 1) * PAGE_SIZE - 1 \subseteq Covered(t)
      <4>1. PICK c \in Nat, d \in Nat : c = p * PAGE_SIZE /\ d = (p + 1) * PAGE_SIZE /\ c < d
        BY <3>5
      <4>2. ASSUME NEW r \in t, r[1] <= c, d <= r[2], NEW x \in c .. d - 1
            PROVE  x \in Covered(t)
        <5>1. x \in Int /\ In(x, r)
          BY <3>2, <4>2 DEF In
        <5> QED
          BY <3>6, <5>1 DEF Hit
      <4>3. ASSUME c .. d - 1 \subseteq Covered(t)
            PROVE  \E r \in t : r[1] <= c /\ d <= r[2]
        <5>1. \A x \in Int : c <= x /\ x < d => Hit(t, x)
          BY <3>6, <4>3
        <5> QED
          BY <3>2, <4>1, <5>1, OneRange
      <4> QED
        BY <4>1, <4>2, <4>3
    <3>8. ASSUME NEW p \in G
          PROVE  p \in 1 .. UINTPTR_MAX \div PAGE_SIZE /\ (p + 1) * PAGE_SIZE <= mapped
      <4>1. p \in Nat /\ p # 0
        BY <3>4
      <4>2. PICK r \in t : r[1] <= p * PAGE_SIZE /\ (p + 1) * PAGE_SIZE <= r[2]
        BY <3>4, <4>1
      <4>3. PICK c \in Nat, d \in Nat : c = p * PAGE_SIZE /\ d = (p + 1) * PAGE_SIZE /\ c < d
        BY <3>5, <4>1
      <4>4. r[1] < r[2] /\ c <= UINTPTR_MAX /\ r[2] < UINTPTR_MAX /\ r[2] \in Nat
        BY <3>2, <4>2, <4>3
      <4>5. p <= UINTPTR_MAX \div PAGE_SIZE /\ UINTPTR_MAX \div PAGE_SIZE \in Nat
        BY <2>2, <4>1, <4>3, <4>4, DivIs, DivLess
      <4>6. ~OutOfNodes /\ mem.memory_map # {} /\ ~Listing
            /\ mapped = Min2((balloc_memory \div PAGE_SIZE) * PAGE_SIZE, MAX_PMEM_SIZE)
        BY <2>1, <2>7 DEF TurnIs, Listing, ZonesRun
      <4>7. balloc_memory \in Nat /\ d <= balloc_memory /\ balloc_memory < UINTPTR_MAX
        <5>1. PICK q \in mem.memory_map : q[1] <= r[1] /\ r[2] <= q[2]
          BY <2>1, <3>1, <4>4, <4>6, FreeInOne
        <5>2. q[2] \in Nat /\ q[2] <= balloc_memory
          BY <2>1, <4>6, MemoryIs, TreesSound
        <5>3. balloc_memory \in Nat /\ balloc_memory < UINTPTR_MAX
          BY <2>1, <4>6, MemoryIs
        <5> HIDE DEF balloc_memory
        <5> QED
          BY <4>2, <4>3, <4>4, <5>1, <5>2, <5>3
      <4>8. d <= (balloc_memory \div PAGE_SIZE) * PAGE_SIZE
        <5>1. PICK b \in Nat : b = balloc_memory
          BY <4>7
        <5>2. p + 1 <= b \div PAGE_SIZE /\ b \div PAGE_SIZE \in Nat
          <6>1. (p + 1) * PAGE_SIZE <= b /\ p + 1 \in Nat
            BY <4>1, <4>3, <4>7, <5>1
          <6> QED
            BY <2>2, <6>1, DivIs, DivLess
        <5>3. \A e \in Nat : p + 1 <= e => (p + 1) * PAGE_SIZE <= e * PAGE_SIZE
          BY <2>2, <4>1
        <5> QED
          BY <4>3, <5>1, <5>2, <5>3
      <4>9. d <= MAX_PMEM_SIZE
        <5>1. d - 1 \in Int /\ In(d - 1, r)
          BY <3>2, <4>2, <4>3 DEF In
        <5>2. Hit(mem.memory_map, d - 1)
          BY <2>1, <3>1, <4>6, <5>1 DEF FreeSoFar, Hit
        <5>3. PICK i \in Indices : In(d - 1, listed[i])
          BY <2>1, <4>6, <5>1, <5>2 DEF KnownSoFar
        <5>4. listed[i][2] \in Nat /\ listed[i][2] <= MAX_PMEM_SIZE
          BY <2>1, EntryIs
        <5> QED
          BY <4>3, <5>3, <5>4, BootAssumption DEF In
      <4>10. d <= mapped
        BY <4>6, <4>8, <4>9 DEF Min2
      <4> QED
        BY <4>1, <4>3, <4>5, <4>10
    <3> QED
      BY <3>1, <3>3, <3>4, <3>7, <3>8
  <2> QED
    BY <2>4, <2>5, <2>6, <2>7 DEF HandsOver
<1> QED
  BY <1>1, BootInvariant, PTL
===============================================================================
