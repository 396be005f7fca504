---------------------------- MODULE QueueLemmas ----------------------------
(***************************************************************************)
(* What the list operations of list.c do to the set of elements of a list. *)
(* The proofs about queues use these facts and never look inside a         *)
(* sequence.  And that a search for a least number finds it.               *)
(***************************************************************************)
EXTENDS Integers, SequencesExt, SequenceTheorems, WellFoundedInduction, TLAPS

\* A set of numbers that is not empty has a least one.
THEOREM LeastElement ==
    ASSUME NEW S \in SUBSET Nat, S # {}
    PROVE  \E i \in S : \A j \in S : i <= j
<1>1. PICK i \in S : \A j \in S : ~(<<j, i>> \in OpToRel(<, Nat))
  BY NatLessThanWellFounded, WFMin
<1>2. \A j \in S : ~(j < i)
  BY <1>1 DEF OpToRel
<1> QED
  BY <1>2

\* list_add_tail of an element that is not on the list: it joins the set of
\* elements, and the list still holds nothing twice (list.c:18).
THEOREM AppendQueue ==
    ASSUME NEW S, NEW q \in Seq(S), NEW x \in S
    PROVE  /\ Append(q, x) \in Seq(S)
           /\ Append(q, x) # <<>>
           /\ ToSet(Append(q, x)) = ToSet(q) \cup {x}
           /\ IsInjective(q) /\ x \notin ToSet(q) => IsInjective(Append(q, x))
<1>1. /\ Append(q, x) \in Seq(S)
      /\ Len(Append(q, x)) = Len(q) + 1
      /\ \A i \in 1 .. Len(q) : Append(q, x)[i] = q[i]
      /\ Append(q, x)[Len(q) + 1] = x
  BY AppendProperties
<1>2. DOMAIN q = 1 .. Len(q) /\ DOMAIN Append(q, x) = 1 .. Len(q) + 1 /\ Len(q) \in Nat
  BY <1>1, LenProperties
<1>3. ToSet(Append(q, x)) = ToSet(q) \cup {x}
  BY <1>1, <1>2 DEF ToSet
<1>4. IsInjective(q) /\ x \notin ToSet(q) => IsInjective(Append(q, x))
  BY <1>1, <1>2 DEF ToSet, IsInjective
<1> QED
  BY <1>1, <1>3, <1>4

\* list_del of the first element: it leaves the set of elements, and the list
\* that remains still holds nothing twice (list.c:27, 57).
THEOREM PopQueue ==
    ASSUME NEW S, NEW q \in Seq(S), q # <<>>
    PROVE  /\ Head(q) \in S
           /\ Tail(q) \in Seq(S)
           /\ Head(q) \in ToSet(q)
           /\ ToSet(q) = {Head(q)} \cup ToSet(Tail(q))
           /\ IsInjective(q) => /\ IsInjective(Tail(q))
                                /\ ToSet(Tail(q)) = ToSet(q) \ {Head(q)}
<1>1. /\ Head(q) \in S
      /\ Tail(q) \in Seq(S)
      /\ Head(q) = q[1]
      /\ Len(Tail(q)) = Len(q) - 1
      /\ \A i \in 1 .. Len(q) - 1 : Tail(q)[i] = q[i + 1]
      /\ Len(q) \in Nat \ {0}
  BY HeadTailProperties, EmptySeq, LenProperties
<1>2. DOMAIN q = 1 .. Len(q) /\ DOMAIN Tail(q) = 1 .. Len(q) - 1
  BY <1>1, LenProperties
<1>3. \A i \in 1 .. Len(q) - 1 : i + 1 \in 1 .. Len(q) /\ Tail(q)[i] = q[i + 1]
  BY <1>1
<1>4. \A i \in 2 .. Len(q) : i - 1 \in 1 .. Len(q) - 1 /\ q[i] = Tail(q)[i - 1]
  BY <1>1, Z3
<1>5. 1 \in DOMAIN q
  BY <1>1, <1>2
<1>6. ToSet(q) = {Head(q)} \cup ToSet(Tail(q))
  <2>1. ASSUME NEW x \in ToSet(q)
        PROVE  x \in {Head(q)} \cup ToSet(Tail(q))
    <3>1. PICK i \in 1 .. Len(q) : x = q[i]
      BY <1>2, <2>1 DEF ToSet
    <3>2. CASE i = 1
      BY <1>1, <3>1, <3>2
    <3>3. CASE i # 1
      <4>1. i - 1 \in 1 .. Len(q) - 1 /\ x = Tail(q)[i - 1]
        BY <1>1, <1>4, <3>1, <3>3
      <4> QED
        BY <1>2, <4>1 DEF ToSet
    <3> QED
      BY <3>2, <3>3
  <2>2. ASSUME NEW x \in ToSet(Tail(q))
        PROVE  x \in ToSet(q)
    <3>1. PICK i \in 1 .. Len(q) - 1 : x = Tail(q)[i]
      BY <1>2, <2>2 DEF ToSet
    <3> QED
      BY <1>2, <1>3, <3>1 DEF ToSet
  <2>3. Head(q) \in ToSet(q)
    BY <1>1, <1>5 DEF ToSet
  <2> QED
    BY <2>1, <2>2, <2>3
<1>7. ASSUME IsInjective(q)
      PROVE  IsInjective(Tail(q)) /\ Head(q) \notin ToSet(Tail(q))
  <2>1. IsInjective(Tail(q))
    BY <1>1, <1>2, <1>3, <1>7 DEF IsInjective
  <2>2. \A i \in 1 .. Len(q) - 1 : Tail(q)[i] # Head(q)
    BY <1>1, <1>2, <1>3, <1>5, <1>7 DEF IsInjective
  <2> QED
    BY <1>2, <2>1, <2>2 DEF ToSet
<1> QED
  BY <1>1, <1>2, <1>5, <1>6, <1>7 DEF ToSet

\* The empty list.
THEOREM EmptyQueue ==
    ASSUME NEW S
    PROVE  <<>> \in Seq(S) /\ ToSet(<<>>) = {} /\ IsInjective(<<>>)
  BY DEF ToSet, IsInjective

\* list_add of an element that is not on the list (list.c:15).
THEOREM PrependQueue ==
    ASSUME NEW S, NEW q \in Seq(S), NEW x \in S
    PROVE  /\ <<x>> \o q \in Seq(S)
           /\ ToSet(<<x>> \o q) = ToSet(q) \cup {x}
           /\ IsInjective(q) /\ x \notin ToSet(q) => IsInjective(<<x>> \o q)
<1> DEFINE r == <<x>> \o q
<1>1. <<x>> \in Seq(S) /\ Len(<<x>>) = 1 /\ <<x>>[1] = x
  OBVIOUS
<1>2. r \in Seq(S) /\ Len(r) = 1 + Len(q) /\ Len(q) \in Nat
  BY <1>1, ConcatProperties, LenProperties
<1>3. DOMAIN r = 1 .. Len(q) + 1 /\ DOMAIN q = 1 .. Len(q)
  BY <1>2, LenProperties
<1>4. \A i \in 1 .. Len(q) + 1 : r[i] = IF i = 1 THEN x ELSE q[i - 1]
  BY <1>1, <1>2, ConcatProperties
<1> HIDE DEF r
<1>5. ToSet(r) = ToSet(q) \cup {x}
  <2>1. ASSUME NEW i \in 1 .. Len(q)
        PROVE  i + 1 \in 1 .. Len(q) + 1 /\ r[i + 1] = q[i]
    <3>1. i + 1 \in 1 .. Len(q) + 1 /\ i + 1 # 1 /\ (i + 1) - 1 = i
      BY <1>2
    <3>2. r[i + 1] = q[(i + 1) - 1]
      BY <1>4, <3>1
    <3> QED
      BY <3>1, <3>2
  <2>2. \A i \in 1 .. Len(q) + 1 : i = 1 \/ (i - 1 \in 1 .. Len(q) /\ r[i] = q[i - 1])
    BY <1>2, <1>4
  <2>3. 1 \in 1 .. Len(q) + 1 /\ r[1] = x
    BY <1>2, <1>4
  <2> QED
    BY <1>3, <2>1, <2>2, <2>3 DEF ToSet
<1>6. IsInjective(q) /\ x \notin ToSet(q) => IsInjective(r)
  BY <1>2, <1>3, <1>4 DEF ToSet, IsInjective
<1> QED
  BY <1>2, <1>5, <1>6 DEF r

\* list_del of any element: it leaves the set of elements (list.c:27).
THEOREM RemoveQueue ==
    ASSUME NEW S, NEW q \in Seq(S), IsInjective(q), NEW i \in DOMAIN q
    PROVE  /\ RemoveAt(q, i) \in Seq(S)
           /\ ToSet(RemoveAt(q, i)) = ToSet(q) \ {q[i]}
           /\ IsInjective(RemoveAt(q, i))
<1> DEFINE n == Len(q)
           a == SubSeq(q, 1, i - 1)
           b == SubSeq(q, i + 1, n)
           r == a \o b
<1>1. n \in Nat /\ DOMAIN q = 1 .. n /\ i \in 1 .. n
  BY LenProperties
<1>2. /\ a \in Seq(S) /\ Len(a) = i - 1
      /\ \A j \in 1 .. i - 1 : a[j] = q[j]
  BY <1>1, SubSeqProperties
<1>3. /\ b \in Seq(S) /\ Len(b) = n - i
      /\ \A j \in 1 .. n - i : b[j] = q[i + j]
  BY SMTT(20), <1>1, SubSeqProperties
<1> HIDE DEF a, b
<1>4. r \in Seq(S) /\ DOMAIN r = 1 .. n - 1
  <2>1. r \in Seq(S) /\ Len(r) = (i - 1) + (n - i)
    BY <1>2, <1>3, ConcatProperties
  <2>2. DOMAIN r = 1 .. Len(r)
    BY <2>1, LenProperties
  <2> QED
    BY <1>1, <2>1, <2>2
<1>5. \A j \in 1 .. n - 1 : r[j] = IF j < i THEN q[j] ELSE q[j + 1]
  <2>1. \A j \in 1 .. Len(a) + Len(b) : r[j] = IF j <= Len(a) THEN a[j] ELSE b[j - Len(a)]
    BY <1>2, <1>3, ConcatProperties
  <2> HIDE DEF n, r
  <2> SUFFICES ASSUME NEW j \in 1 .. n - 1
               PROVE  r[j] = IF j < i THEN q[j] ELSE q[j + 1]
    OBVIOUS
  <2>2. j \in 1 .. Len(a) + Len(b) /\ (j < i <=> j <= Len(a))
    BY <1>1, <1>2, <1>3
  <2>3. CASE j < i
    <3>1. r[j] = a[j] /\ j \in 1 .. i - 1
      BY <1>1, <2>1, <2>2, <2>3
    <3> QED
      BY <1>2, <2>3, <3>1
  <2>4. CASE ~(j < i)
    <3>1. r[j] = b[j - Len(a)]
      BY <2>1, <2>2, <2>4
    <3>2. j - Len(a) \in 1 .. n - i /\ i + (j - Len(a)) = j + 1
      BY <1>1, <1>2, <2>4
    <3>3. b[j - Len(a)] = q[i + (j - Len(a))]
      BY <1>3, <3>2
    <3> QED
      BY <2>4, <3>1, <3>2, <3>3
  <2> QED
    BY <2>3, <2>4
<1>6. r = RemoveAt(q, i)
  BY DEF RemoveAt, a, b
<1> HIDE DEF r
<1>7. ToSet(r) = ToSet(q) \ {q[i]}
  <2>1. \A j \in 1 .. n - 1 : \E k \in 1 .. n : k # i /\ r[j] = q[k]
    BY <1>1, <1>5
  <2>2. \A k \in 1 .. n : k < i => k \in 1 .. n - 1 /\ r[k] = q[k]
    BY <1>1, <1>5
  <2>3. \A k \in 1 .. n : k > i => k - 1 \in 1 .. n - 1 /\ r[k - 1] = q[k]
    BY <1>1, <1>5
  <2>4. \A k \in 1 .. n : k # i => q[k] # q[i]
    BY <1>1 DEF IsInjective
  <2>5. \A k \in 1 .. n : k = i \/ k < i \/ k > i
    BY <1>1
  <2>6. ToSet(r) = {r[j] : j \in 1 .. n - 1} /\ ToSet(q) = {q[j] : j \in 1 .. n}
    BY <1>1, <1>4 DEF ToSet
  <2> HIDE DEF n
  <2> QED
    BY <2>1, <2>2, <2>3, <2>4, <2>5, <2>6
<1>8. IsInjective(r)
  <2> DEFINE At(j) == IF j < i THEN j ELSE j + 1
  <2>1. \A j \in 1 .. n - 1 : At(j) \in 1 .. n /\ r[j] = q[At(j)]
    BY <1>1, <1>5
  <2>2. \A j, k \in 1 .. n - 1 : At(j) = At(k) => j = k
    BY <1>1
  <2>3. \A j, k \in 1 .. n : q[j] = q[k] => j = k
    BY <1>1 DEF IsInjective
  <2> HIDE DEF At, n
  <2>4. \A j, k \in 1 .. n - 1 : r[j] = r[k] => j = k
    BY <2>1, <2>2, <2>3
  <2> QED
    BY <1>4, <2>4 DEF IsInjective
<1> QED
  BY <1>4, <1>6, <1>7, <1>8
=============================================================================
