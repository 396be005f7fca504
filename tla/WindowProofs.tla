----------------------------- MODULE WindowProofs -----------------------------
(***************************************************************************)
(* Proofs about module Window, for every size of the window and every      *)
(* number of orders.                                                       *)
(***************************************************************************)
EXTENDS Window, QueueLemmas

USE WindowAssumption

-----------------------------------------------------------------------------
(***************************************************************************)
(* Orders.                                                                 *)
(***************************************************************************)

LEMMA LeastOf ==
    ASSUME NEW S \in SUBSET Nat, S # {}
    PROVE  Min(S) \in S /\ \A j \in S : Min(S) <= j
<1>1. \E i \in S : \A j \in S : i <= j
  BY LeastElement
<1> QED
  BY <1>1 DEF Min

\* The loop of kmap_order() (paging.c:247-254).
LEMMA OrderIs ==
    ASSUME NEW n \in Nat
    PROVE  /\ kmap_order(n) \in 0 .. KMAP_ORDERS
           /\ kmap_order(n) = KMAP_ORDERS \/ 2^kmap_order(n) >= n
           /\ \A j \in 0 .. kmap_order(n) - 1 : 2^j < n
<1> DEFINE Large == {k \in 0 .. KMAP_ORDERS : k = KMAP_ORDERS \/ 2^k >= n}
<1>1. Large \in SUBSET Nat /\ KMAP_ORDERS \in Large
  OBVIOUS
<1>2. PICK k \in Large : \A j \in Large : k <= j
  <2> HIDE DEF Large
  <2> QED
    BY <1>1, LeastElement
<1>3. \A j \in 0 .. k - 1 : 2^j < n
  <2> TAKE j \in 0 .. k - 1
  <2>1. j \in 0 .. KMAP_ORDERS /\ j # KMAP_ORDERS /\ j \notin Large
    BY <1>2
  <2> QED
    BY <2>1
<1>4. \E i \in 0 .. KMAP_ORDERS : /\ i = KMAP_ORDERS \/ 2^i >= n
                                  /\ \A j \in 0 .. i - 1 : 2^j < n
  BY <1>2, <1>3
<1> QED
  BY <1>4 DEF kmap_order

\* A free range is on a list that there is, and its length is right for it (paging.c:293).
LEMMA ListOfIs ==
    ASSUME NEW n \in Nat \ {0}
    PROVE  /\ ListOf(n) \in Order /\ ListOf(n) + 1 = kmap_order(n + 1)
           /\ n >= 2^ListOf(n)
           /\ ListOf(n) < KMAP_ORDERS - 1 => n < 2^(ListOf(n) + 1)
<1> DEFINE k == kmap_order(n + 1)
<1>1. /\ k \in 0 .. KMAP_ORDERS
      /\ k = KMAP_ORDERS \/ 2^k >= n + 1
      /\ \A j \in 0 .. k - 1 : 2^j < n + 1
  BY OrderIs
<1> HIDE DEF k
<1>2. k # 0
  <2> SUFFICES ASSUME k = 0
               PROVE  FALSE
    OBVIOUS
  <2>1. 2^k = 1
    OBVIOUS
  <2> QED
    BY <1>1, <2>1
<1>3. ListOf(n) = k - 1 /\ k - 1 \in 0 .. k - 1 /\ k - 1 \in Order
  BY <1>1, <1>2 DEF ListOf, k, Order
<1>4. 2^(k - 1) < n + 1
  BY <1>1, <1>3
<1>5. ListOf(n) < KMAP_ORDERS - 1 => n < 2^(ListOf(n) + 1)
  <2>1. ListOf(n) + 1 = k
    BY <1>1, <1>3
  <2> QED
    BY <1>1, <1>3, <2>1
<1> QED
  BY <1>1, <1>3, <1>4, <1>5 DEF k

-----------------------------------------------------------------------------
(***************************************************************************)
(* The inductive invariant, with a range in hand: while kmap_alloc_range   *)
(* and kmap_free_range work, the range at X, of n pages, is neither free   *)
(* nor a client's, and its tags say nothing.  F are the first pages of the *)
(* free ranges and A those of what clients have, T are the tags.           *)
(***************************************************************************)
Length(T, X, n, h) == IF h \in X THEN n ELSE T[h]

\* a range of l pages at h ends where the next one begins, and no range begins in it
RangeAt(H, h, l) ==
    /\ l \in 1 .. KMAP_PAGES - h
    /\ h + l \in H \cup {KMAP_PAGES}
    /\ \A i \in H : ~(h < i /\ i < h + l)

Tiled(T, F, A, X, n) ==
    /\ T \in [Page -> Nat] /\ F \in SUBSET Page /\ A \in SUBSET Page /\ X \in SUBSET Page
    /\ F \cap A = {} /\ F \cap X = {} /\ A \cap X = {}
    /\ 0 \in F \cup A \cup X
    /\ \A h \in F \cup A \cup X : RangeAt(F \cup A \cup X, h, Length(T, X, n, h))
    /\ \A h \in F \cup A : T[h + T[h] - 1] = T[h]
    /\ \A h \in F : h + T[h] \notin F

Filed(L, T, F) ==
    /\ L \in [Order -> Seq(Page)]
    /\ \A k \in Order : IsInjective(L[k])
    /\ \A k \in Order : \A r : r \in ToSet(L[k]) <=> r \in F /\ k = ListOf(T[r])

State == [tag : [Page -> Nat], empty : SUBSET Page, lists : [Order -> Seq(Page)]]

Sound(s, F, A, X, n) ==
    /\ s \in State
    /\ Tiled(s.tag, F, A, X, n)
    /\ Filed(s.lists, s.tag, F)
    /\ F \cap s.empty = {} /\ A \subseteq s.empty

\* a free range ends where page r begins
FreeEndsAt(s, F, r) == \E h \in F : h + s.tag[h] = r

\* s has become t, nothing is in hand any more, and what clients have is untouched
Put(s, A, t) ==
    /\ \E G : Sound(t, G, A, {}, 0)
    /\ \A h \in A : t.tag[h] = s.tag[h]

\* s has become t, in which a client has n pages at r, and the others are untouched
Lent(s, A, t, r, n) ==
    /\ \E G : Sound(t, G, A \cup {r}, {}, 0)
    /\ \A h \in A : t.tag[h] = s.tag[h]
    /\ t.tag[r] = n

\* What clients have, going by the tags, is what they asked for.
WindowInv ==
    /\ Sound(Ranges, FreeHeads, MappedHeads, {}, 0)
    /\ mapped \subseteq Page \X (1 .. KMAP_PAGES) \X Buffer
    /\ \A m \in mapped : tag[m[1]] = m[2]
    /\ \A m, w \in mapped : m[1] = w[1] => m = w

\* The lists hold exactly the free ranges.
LEMMA FreeIs ==
    ASSUME NEW s, NEW F, NEW A, NEW X, NEW n, Sound(s, F, A, X, n)
    PROVE  F = UNION {ToSet(s.lists[k]) : k \in Order}
<1>1. F \subseteq Page /\ s.tag \in [Page -> Nat]
  BY DEF Sound, Tiled
<1>2. ASSUME NEW h \in F
      PROVE  ListOf(s.tag[h]) \in Order
  <2>1. s.tag[h] \in Nat \ {0}
    BY <1>1 DEF Sound, Tiled, RangeAt, Length
  <2> QED
    BY <2>1, ListOfIs
<1>3. \A k \in Order : \A r : r \in ToSet(s.lists[k]) <=> r \in F /\ k = ListOf(s.tag[r])
  BY DEF Sound, Filed
<1> QED
  BY <1>2, <1>3

-----------------------------------------------------------------------------
(***************************************************************************)
(* Tiles.                                                                  *)
(***************************************************************************)

\* A range that is not the first one is where another ends (paging.c:274).
LEMMA PrevIs ==
    ASSUME NEW T, NEW F, NEW A, NEW r, NEW n, Tiled(T, F, A, {r}, n), r # 0
    PROVE  \E p \in F \cup A : p \in Page /\ T[p] \in Nat /\ p + T[p] = r /\ T[r - 1] = T[p]
<1> DEFINE H == F \cup A \cup {r}
           Gaps == {r - h : h \in {i \in H : i < r}}
<1>1. /\ T \in [Page -> Nat] /\ H \subseteq Page /\ r \in Page /\ 0 \in H
      /\ \A h \in H : RangeAt(H, h, Length(T, {r}, n, h))
  BY DEF Tiled
<1>2. Gaps \in SUBSET Nat /\ Gaps # {}
  <2>1. \A h \in H : h \in Nat /\ r \in Nat
    BY <1>1 DEF Page
  <2>2. r - 0 \in Gaps
    BY <1>1, <2>1
  <2> QED
    BY <2>1, <2>2
<1>3. PICK g \in Gaps : \A j \in Gaps : g <= j
  BY <1>2, LeastElement
<1>4. PICK p \in H : p < r /\ g = r - p
  BY <1>3
<1>5. \A h \in H : h < r => h <= p
  <2> SUFFICES ASSUME NEW h \in H, h < r
               PROVE  h <= p
    OBVIOUS
  <2>1. g <= r - h
    BY <1>3
  <2>2. h \in Nat /\ p \in Nat /\ r \in Nat
    BY <1>1 DEF Page
  <2> QED
    BY <1>4, <2>1, <2>2
<1>6. p # r /\ p \in F \cup A
  BY <1>1, <1>4 DEF Page
<1> HIDE DEF H, Gaps
<1>7. RangeAt(H, p, T[p])
  BY <1>1, <1>4, <1>6 DEF Length
<1>8. p + T[p] = r
  <2>1. p \in 0 .. KMAP_PAGES - 1 /\ r \in 0 .. KMAP_PAGES - 1 /\ r \in H
    BY <1>1, <1>4 DEF Page, H
  <2> QED
    BY <1>4, <1>5, <1>7, <2>1 DEF RangeAt
<1>9. T[r - 1] = T[p] /\ T[p] \in Nat /\ p \in Page
  <2>1. p \in Page /\ T[p] \in Nat
    BY <1>1, <1>4
  <2>2. p + T[p] - 1 = r - 1
    BY <1>8, <2>1 DEF Page
  <2>3. T[p + T[p] - 1] = T[p]
    BY <1>6 DEF Tiled
  <2> QED
    BY <2>1, <2>2, <2>3
<1> QED
  BY <1>6, <1>8, <1>9

\* Two ranges have no page in common.
LEMMA RangesApart ==
    ASSUME NEW H \in SUBSET Page, NEW g \in H, NEW h \in H, NEW l, NEW m,
           RangeAt(H, g, l), RangeAt(H, h, m), g # h
    PROVE  g + l - 1 # h + m - 1 /\ g + l # h + m /\ ~(h <= g + l - 1 /\ g + l - 1 < h + m)
<1>1. /\ g \in Nat /\ h \in Nat /\ l \in Nat \ {0} /\ m \in Nat \ {0}
      /\ ~(g < h /\ h < g + l) /\ ~(h < g /\ g < h + m)
  BY DEF RangeAt, Page
<1> QED
  BY <1>1

\* The range in hand becomes free when no neighbour is (paging.c:292-293).
LEMMA TileInsert ==
    ASSUME NEW T, NEW F, NEW A, NEW r, NEW n, Tiled(T, F, A, {r}, n),
           \A h \in F : h + T[h] # r, r + n \notin F
    PROVE  Tiled([T EXCEPT ![r] = n, ![r + n - 1] = n], F \cup {r}, A, {}, 0)
<1> DEFINE H == F \cup A \cup {r}
           U == [T EXCEPT ![r] = n, ![r + n - 1] = n]
<1>1. /\ T \in [Page -> Nat] /\ F \in SUBSET Page /\ A \in SUBSET Page /\ r \in Page
      /\ r \notin F /\ r \notin A /\ F \cap A = {} /\ 0 \in H
      /\ \A h \in F \cup A : RangeAt(H, h, T[h]) /\ T[h + T[h] - 1] = T[h]
      /\ RangeAt(H, r, n)
      /\ \A h \in F : h + T[h] \notin F
  <2>1. \A h \in H : RangeAt(H, h, Length(T, {r}, n, h))
    BY DEF Tiled
  <2>2. /\ Length(T, {r}, n, r) = n
        /\ \A h \in F \cup A : Length(T, {r}, n, h) = T[h]
    BY DEF Tiled, Length
  <2> QED
    BY <2>1, <2>2 DEF Tiled
<1>2. /\ n \in 1 .. KMAP_PAGES - r /\ r + n - 1 \in Page /\ n \in Nat
      /\ H \in SUBSET Page
  BY <1>1 DEF RangeAt, Page
<1> HIDE DEF H
<1>3. U \in [Page -> Nat] /\ U[r] = n /\ U[r + n - 1] = n
  BY <1>1, <1>2
<1>4. ASSUME NEW h \in F \cup A
      PROVE  U[h] = T[h] /\ U[h + T[h] - 1] = T[h] /\ RangeAt(H, h, T[h])
  <2>1. h \in H /\ r \in H /\ h # r /\ h \in Page /\ RangeAt(H, h, T[h]) /\ T[h] \in Nat
    BY <1>1 DEF H
  <2>2. h # r + n - 1 /\ h + T[h] - 1 # r + n - 1 /\ h + T[h] - 1 # r
    BY SMTT(20), <1>1, <1>2, <2>1, RangesApart DEF RangeAt, Page
  <2>3. h + T[h] - 1 \in Page
    BY <2>1 DEF RangeAt, Page
  <2>4. T[h + T[h] - 1] = T[h]
    BY <1>1
  <2> QED
    BY <1>1, <2>1, <2>2, <2>3, <2>4
<1>5. \A h \in H : RangeAt(H, h, U[h]) /\ U[h + U[h] - 1] = U[h]
  BY <1>1, <1>3, <1>4 DEF H
<1>6. \A h \in F \cup {r} : h + U[h] \notin F \cup {r}
  <2>1. \A h \in F : h + U[h] \notin F \cup {r}
    BY <1>1, <1>4
  <2>2. r + U[r] \notin F \cup {r}
    BY <1>1, <1>2, <1>3 DEF Page
  <2> QED
    BY <2>1, <2>2
<1>7. H = (F \cup {r}) \cup A \cup {} /\ H = (F \cup {r}) \cup A
  BY DEF H
<1>8. /\ \A h \in H : Length(U, {}, 0, h) = U[h]
      /\ (F \cup {r}) \cap A = {} /\ F \cup {r} \in SUBSET Page
  BY <1>1 DEF Length
<1> HIDE DEF U
<1>9. /\ 0 \in (F \cup {r}) \cup A \cup {}
      /\ \A h \in (F \cup {r}) \cup A \cup {} :
            RangeAt((F \cup {r}) \cup A \cup {}, h, Length(U, {}, 0, h))
      /\ \A h \in (F \cup {r}) \cup A : U[h + U[h] - 1] = U[h]
  <2>1. PICK K : K = (F \cup {r}) \cup A \cup {}
    OBVIOUS
  <2>2. K = H
    BY <1>7, <2>1
  <2>3. \A h \in K : RangeAt(K, h, Length(U, {}, 0, h))
    BY <1>5, <1>8, <2>2
  <2> QED
    BY <1>1, <1>5, <1>7, <2>1, <2>2, <2>3
<1>10. Tiled(U, F \cup {r}, A, {}, 0)
  BY <1>1, <1>3, <1>6, <1>8, <1>9 DEF Tiled
<1> QED
  BY <1>10 DEF U

\* The range in hand is joined with the free range before it (paging.c:276-280).
LEMMA TileJoinPrev ==
    ASSUME NEW T, NEW F, NEW A, NEW r, NEW n, Tiled(T, F, A, {r}, n),
           NEW p \in F, p + T[p] = r
    PROVE  /\ Tiled(T, F \ {p}, A, {p}, n + T[p])
           /\ \A h \in F \ {p} : h + T[h] # p
<1> DEFINE H == F \cup A \cup {r}
           G == (F \ {p}) \cup A \cup {p}
           m == n + T[p]
<1>1. /\ T \in [Page -> Nat] /\ F \in SUBSET Page /\ A \in SUBSET Page /\ r \in Page
      /\ r \notin F /\ r \notin A /\ F \cap A = {} /\ 0 \in H
      /\ \A h \in F \cup A : RangeAt(H, h, T[h]) /\ T[h + T[h] - 1] = T[h]
      /\ RangeAt(H, r, n)
      /\ \A h \in F : h + T[h] \notin F
  <2>1. \A h \in H : RangeAt(H, h, Length(T, {r}, n, h))
    BY DEF Tiled
  <2>2. /\ Length(T, {r}, n, r) = n
        /\ \A h \in F \cup A : Length(T, {r}, n, h) = T[h]
    BY DEF Tiled, Length
  <2> QED
    BY <2>1, <2>2 DEF Tiled
<1>2. /\ n \in 1 .. KMAP_PAGES - r /\ T[p] \in 1 .. KMAP_PAGES - p
      /\ p \in 0 .. KMAP_PAGES - 1 /\ r \in 0 .. KMAP_PAGES - 1
      /\ H \in SUBSET Page /\ r # 0 /\ r # p /\ p \in H /\ r \in H
      /\ G = H \ {r}
  BY SMTT(20), <1>1 DEF RangeAt, Page
<1>3. \A h \in F \ {p} : h + T[h] # p
  BY <1>1
<1> HIDE DEF H, G
<1>4. ASSUME NEW h \in (F \ {p}) \cup A
      PROVE  RangeAt(G, h, T[h])
  <2>1. h \in H /\ h # r /\ h # p /\ RangeAt(H, h, T[h]) /\ RangeAt(H, p, T[p])
    BY <1>1 DEF H
  <2>2. h + T[h] # p + T[p]
    BY <1>2, <2>1, RangesApart
  <2> QED
    BY <1>2, <2>1, <2>2 DEF RangeAt
<1>5. RangeAt(G, p, m)
  <2>1. RangeAt(H, p, T[p]) /\ RangeAt(H, r, n)
    BY <1>1
  <2>2. m \in 1 .. KMAP_PAGES - p /\ p + m = r + n
    BY <1>2
  <2>3. r + n \in G \cup {KMAP_PAGES}
    BY <1>2, <2>1 DEF RangeAt
  <2>4. ASSUME NEW i \in G
        PROVE  ~(p < i /\ i < p + m)
    <3>1. i \in H /\ i # r /\ i \in Nat
      BY <1>2 DEF Page
    <3>2. ~(p < i /\ i < r) /\ ~(r < i /\ i < r + n)
      BY <2>1, <3>1 DEF RangeAt
    <3> QED
      BY <1>2, <2>2, <3>1, <3>2
  <2> QED
    BY <2>2, <2>3, <2>4 DEF RangeAt
<1>6. /\ Length(T, {p}, m, p) = m
      /\ \A h \in (F \ {p}) \cup A : Length(T, {p}, m, h) = T[h]
  BY <1>1 DEF Length
<1>7. \A h \in G : RangeAt(G, h, Length(T, {p}, m, h))
  BY <1>4, <1>5, <1>6 DEF G
<1>8. 0 \in G
  BY <1>1, <1>2
<1> HIDE DEF m
<1>9. Tiled(T, F \ {p}, A, {p}, m)
  BY <1>1, <1>7, <1>8 DEF Tiled, G
<1> QED
  BY <1>3, <1>9 DEF m

\* ... and with the one behind it (paging.c:286-289).
LEMMA TileJoinNext ==
    ASSUME NEW T, NEW F, NEW A, NEW r, NEW n, Tiled(T, F, A, {r}, n),
           NEW q \in F, q = r + n, \A h \in F : h + T[h] # r
    PROVE  /\ Tiled(T, F \ {q}, A, {r}, n + T[q])
           /\ r + (n + T[q]) \notin F \ {q}
           /\ \A h \in F \ {q} : h + T[h] # r
<1> DEFINE H == F \cup A \cup {r}
           G == (F \ {q}) \cup A \cup {r}
           m == n + T[q]
<1>1. /\ T \in [Page -> Nat] /\ F \in SUBSET Page /\ A \in SUBSET Page /\ r \in Page
      /\ r \notin F /\ r \notin A /\ F \cap A = {} /\ 0 \in H
      /\ \A h \in F \cup A : RangeAt(H, h, T[h]) /\ T[h + T[h] - 1] = T[h]
      /\ RangeAt(H, r, n)
      /\ \A h \in F : h + T[h] \notin F
  <2>1. \A h \in H : RangeAt(H, h, Length(T, {r}, n, h))
    BY DEF Tiled
  <2>2. /\ Length(T, {r}, n, r) = n
        /\ \A h \in F \cup A : Length(T, {r}, n, h) = T[h]
    BY DEF Tiled, Length
  <2> QED
    BY <2>1, <2>2 DEF Tiled
<1>2. /\ n \in 1 .. KMAP_PAGES - r /\ T[q] \in 1 .. KMAP_PAGES - q
      /\ q \in 0 .. KMAP_PAGES - 1 /\ r \in 0 .. KMAP_PAGES - 1
      /\ H \in SUBSET Page /\ q # 0 /\ r # q /\ q \in H /\ r \in H
      /\ G = H \ {q}
  BY <1>1 DEF RangeAt, Page
<1>3. r + m = q + T[q] /\ r + m \notin F
  BY <1>1, <1>2
<1> HIDE DEF H, G
<1>4. ASSUME NEW h \in (F \ {q}) \cup A
      PROVE  RangeAt(G, h, T[h])
  <2>1. h \in H /\ h # r /\ h # q /\ RangeAt(H, h, T[h]) /\ RangeAt(H, r, n)
    BY <1>1 DEF H
  <2>2. h + T[h] # r + n
    BY <1>2, <2>1, RangesApart
  <2> QED
    BY <1>2, <2>1, <2>2 DEF RangeAt
<1>5. RangeAt(G, r, m)
  <2>1. RangeAt(H, q, T[q]) /\ RangeAt(H, r, n)
    BY <1>1
  <2>2. m \in 1 .. KMAP_PAGES - r /\ r + m = q + T[q]
    BY <1>2
  <2>3. q + T[q] \in G \cup {KMAP_PAGES}
    BY <1>2, <2>1 DEF RangeAt
  <2>4. ASSUME NEW i \in G
        PROVE  ~(r < i /\ i < r + m)
    <3>1. i \in H /\ i # q /\ i \in Nat
      BY <1>2 DEF Page
    <3>2. ~(r < i /\ i < q) /\ ~(q < i /\ i < q + T[q])
      BY <2>1, <3>1 DEF RangeAt
    <3> QED
      BY <1>2, <2>2, <3>1, <3>2
  <2> QED
    BY <2>2, <2>3, <2>4 DEF RangeAt
<1>6. /\ Length(T, {r}, m, r) = m
      /\ \A h \in (F \ {q}) \cup A : Length(T, {r}, m, h) = T[h]
  BY <1>1 DEF Length
<1>7. \A h \in G : RangeAt(G, h, Length(T, {r}, m, h))
  BY <1>4, <1>5, <1>6 DEF G
<1>8. 0 \in G
  BY <1>1, <1>2
<1>9. r + m \notin F \ {q}
  BY <1>3
<1> HIDE DEF m
<1>10. Tiled(T, F \ {q}, A, {r}, m)
  BY <1>1, <1>7, <1>8 DEF Tiled, G
<1> QED
  BY <1>9, <1>10 DEF m

\* A free range, or what a client has, is taken in hand.
LEMMA TileTake ==
    ASSUME NEW T, NEW F, NEW A, Tiled(T, F, A, {}, 0), NEW r \in F \cup A
    PROVE  Tiled(T, F \ {r}, A \ {r}, {r}, T[r])
<1>1. (F \ {r}) \cup (A \ {r}) \cup {r} = F \cup A \cup {}
  OBVIOUS
<1>2. \A h \in F \cup A : Length(T, {}, 0, h) = T[h] /\ Length(T, {r}, T[r], h) = T[h]
  BY DEF Length
<1>3. PICK H : H = (F \ {r}) \cup (A \ {r}) \cup {r}
  OBVIOUS
<1>4. H = F \cup A \cup {} /\ H = F \cup A
  BY <1>1, <1>3
<1>5. \A h \in H : RangeAt(H, h, Length(T, {}, 0, h))
  BY <1>4 DEF Tiled
<1>6. \A h \in H : RangeAt(H, h, Length(T, {r}, T[r], h))
  BY <1>2, <1>4, <1>5
<1> QED
  BY <1>3, <1>4, <1>6 DEF Tiled

Tagged(T, r, n) == [T EXCEPT ![r] = n, ![r + n - 1] = n]

Given(T, U, F, A, r, l, n) ==
    /\ n = l => Tiled(U, F, A \cup {r}, {}, 0)
    /\ n < l => Tiled(U, F, A \cup {r}, {r + n}, l - n)
    /\ \A h \in F \cup A : U[h] = T[h]
    /\ U[r] = n

\* The front of the range in hand goes to a client, or all of it (paging.c:320-323).
LEMMA TileGive ==
    ASSUME NEW T, NEW F, NEW A, NEW r, NEW l, Tiled(T, F, A, {r}, l),
           NEW n \in 1 .. l
    PROVE  Given(T, Tagged(T, r, n), F, A, r, l, n)
<1> DEFINE H == F \cup A \cup {r}
           U == [T EXCEPT ![r] = n, ![r + n - 1] = n]
           q == r + n
<1>1. /\ T \in [Page -> Nat] /\ F \in SUBSET Page /\ A \in SUBSET Page /\ r \in Page
      /\ r \notin F /\ r \notin A /\ F \cap A = {} /\ 0 \in H
      /\ \A h \in F \cup A : RangeAt(H, h, T[h]) /\ T[h + T[h] - 1] = T[h]
      /\ RangeAt(H, r, l)
      /\ \A h \in F : h + T[h] \notin F
  <2>1. \A h \in H : RangeAt(H, h, Length(T, {r}, l, h))
    BY DEF Tiled
  <2>2. /\ Length(T, {r}, l, r) = l
        /\ \A h \in F \cup A : Length(T, {r}, l, h) = T[h]
    BY DEF Tiled, Length
  <2> QED
    BY <2>1, <2>2 DEF Tiled
<1>2. /\ l \in 1 .. KMAP_PAGES - r /\ n \in Nat \ {0} /\ n <= l
      /\ r \in 0 .. KMAP_PAGES - 1 /\ r + n - 1 \in Page
      /\ H \in SUBSET Page /\ r \in H
  BY <1>1 DEF RangeAt, Page
<1>3. U \in [Page -> Nat] /\ U[r] = n /\ U[r + n - 1] = n
  BY <1>1, <1>2
<1> HIDE DEF H
<1>4. ASSUME NEW h \in F \cup A
      PROVE  /\ U[h] = T[h] /\ U[h + T[h] - 1] = T[h] /\ RangeAt(H, h, T[h])
             /\ ~(h < q /\ q < h + T[h]) /\ (n < l => h # q)
  <2>1. h \in H /\ h # r /\ h \in Page /\ RangeAt(H, h, T[h]) /\ RangeAt(H, r, l) /\ T[h] \in Nat \ {0}
    BY <1>1 DEF H, RangeAt
  <2>2. ~(r <= h + T[h] - 1 /\ h + T[h] - 1 < r + l)
    BY <1>2, <2>1, RangesApart
  <2>3. h + T[h] - 1 \in Page
    BY <2>1 DEF RangeAt, Page
  <2>4. T[h + T[h] - 1] = T[h]
    BY <1>1
  <2>5. ~(r < h /\ h < r + l) /\ ~(h < r /\ r < h + T[h])
    BY <1>2, <2>1 DEF RangeAt
  <2>6. h \in Nat /\ h # r + n - 1 /\ h + T[h] - 1 # r + n - 1 /\ h + T[h] - 1 # r
    BY <1>2, <2>1, <2>2, <2>5 DEF Page
  <2>7. U[h] = T[h] /\ U[h + T[h] - 1] = T[h]
    BY <1>1, <2>1, <2>3, <2>4, <2>6
  <2>8. ~(h < q /\ q < h + T[h]) /\ (n < l => h # q)
    BY <1>2, <2>1, <2>5, <2>6
  <2> QED
    BY <2>1, <2>7, <2>8
<1>5. \A h \in F : h + U[h] \notin F
  BY <1>1, <1>4
<1>6. \A h \in F \cup (A \cup {r}) : U[h + U[h] - 1] = U[h]
  BY <1>3, <1>4
<1> HIDE DEF U
<1>7. ASSUME n = l
      PROVE  Tiled(U, F, A \cup {r}, {}, 0)
  <2>1. PICK K : K = F \cup (A \cup {r}) \cup {}
    OBVIOUS
  <2>2. K = H
    BY <2>1 DEF H
  <2>3. \A h \in K : RangeAt(K, h, Length(U, {}, 0, h))
    BY <1>1, <1>3, <1>4, <1>7, <2>2 DEF Length, H
  <2> QED
    BY SMTT(60), <1>1, <1>3, <1>5, <1>6, <2>1, <2>2, <2>3 DEF Tiled
<1>8. ASSUME n < l
      PROVE  Tiled(U, F, A \cup {r}, {q}, l - n)
  <2>1. PICK K : K = F \cup (A \cup {r}) \cup {q}
    OBVIOUS
  <2>2. K = H \cup {q} /\ q \in Page /\ q \notin F /\ q \notin A /\ q # r
    BY <1>2, <1>4, <1>8, <2>1 DEF H, Page
  <2>3. ASSUME NEW h \in F \cup A
        PROVE  RangeAt(K, h, T[h]) /\ h # q
    BY <1>2, <1>4, <1>8, <2>2 DEF RangeAt
  <2>4. RangeAt(K, r, n)
    BY <1>1, <1>2, <1>8, <2>2 DEF RangeAt, Page
  <2>5. RangeAt(K, q, l - n)
    <3>1. l - n \in 1 .. KMAP_PAGES - q /\ q + (l - n) = r + l
      BY <1>2, <1>8
    <3>2. r + l \in K \cup {KMAP_PAGES}
      BY <1>1, <2>2 DEF RangeAt
    <3>3. ASSUME NEW i \in K
          PROVE  ~(q < i /\ i < r + l)
      <4>1. i \in H => ~(r < i /\ i < r + l) /\ i \in Nat
        BY <1>1, <1>2 DEF RangeAt, Page
      <4> QED
        BY <1>2, <2>2, <4>1
    <3> QED
      BY <3>1, <3>2, <3>3 DEF RangeAt
  <2>6. /\ Length(U, {q}, l - n, q) = l - n /\ Length(U, {q}, l - n, r) = n
        /\ \A h \in F \cup A : Length(U, {q}, l - n, h) = T[h]
    BY <1>3, <1>4, <2>2, <2>3 DEF Length
  <2>7. \A h \in K : RangeAt(K, h, Length(U, {q}, l - n, h))
    BY <2>1, <2>3, <2>4, <2>5, <2>6
  <2>8. 0 \in K
    BY <1>1, <2>2
  <2> HIDE DEF q
  <2>9. /\ 0 \in F \cup (A \cup {r}) \cup {q}
        /\ \A h \in F \cup (A \cup {r}) \cup {q} :
              RangeAt(F \cup (A \cup {r}) \cup {q}, h, Length(U, {q}, l - n, h))
    BY <2>1, <2>7, <2>8
  <2>10. /\ A \cup {r} \in SUBSET Page /\ {q} \in SUBSET Page
         /\ F \cap (A \cup {r}) = {} /\ F \cap {q} = {} /\ (A \cup {r}) \cap {q} = {}
    BY <1>1, <2>2
  <2> QED
    BY <1>1, <1>3, <1>5, <1>6, <2>9, <2>10 DEF Tiled
<1> QED
  BY <1>3, <1>4, <1>7, <1>8 DEF U, Tagged, Given

-----------------------------------------------------------------------------
(***************************************************************************)
(* Lists.                                                                  *)
(***************************************************************************)

LEMMA WithoutIs ==
    ASSUME NEW list \in Seq(Page), IsInjective(list), NEW r
    PROVE  /\ Without(list, r) \in Seq(Page) /\ IsInjective(Without(list, r))
           /\ ToSet(Without(list, r)) = ToSet(list) \ {r}
<1>1. CASE r \in ToSet(list)
  <2> DEFINE i == CHOOSE j \in DOMAIN list : list[j] = r
  <2>1. i \in DOMAIN list /\ list[i] = r
    BY <1>1 DEF ToSet
  <2> HIDE DEF i
  <2>2. /\ RemoveAt(list, i) \in Seq(Page)
        /\ ToSet(RemoveAt(list, i)) = ToSet(list) \ {r}
        /\ IsInjective(RemoveAt(list, i))
    BY <2>1, RemoveQueue
  <2> QED
    BY <1>1, <2>2 DEF Without, i
<1>2. CASE r \notin ToSet(list)
  BY <1>2 DEF Without
<1> QED
  BY <1>1, <1>2

\* list_del of a range, whether it is on a list or not (paging.c:272, 279, 288, 314).
LEMMA UnlinkKeeps ==
    ASSUME NEW s \in State, NEW F, NEW r, Filed(s.lists, s.tag, F)
    PROVE  /\ Unlink(s, r) \in State
           /\ Unlink(s, r).tag = s.tag /\ Unlink(s, r).empty = s.empty \ {r}
           /\ Filed(Unlink(s, r).lists, s.tag, F \ {r})
<1> DEFINE L == [k \in Order |-> Without(s.lists[k], r)]
<1>1. \A k \in Order : /\ s.lists[k] \in Seq(Page) /\ IsInjective(s.lists[k])
                       /\ \A h : h \in ToSet(s.lists[k]) <=> h \in F /\ k = ListOf(s.tag[h])
  BY DEF Filed
<1>2. \A k \in Order : /\ Without(s.lists[k], r) \in Seq(Page)
                       /\ IsInjective(Without(s.lists[k], r))
                       /\ ToSet(Without(s.lists[k], r)) = ToSet(s.lists[k]) \ {r}
  BY <1>1, WithoutIs
<1>3. L \in [Order -> Seq(Page)] /\ \A k \in Order : L[k] = Without(s.lists[k], r)
  BY <1>2
<1> HIDE DEF L
<1>4. /\ Unlink(s, r) \in State /\ Unlink(s, r).tag = s.tag
      /\ Unlink(s, r).empty = s.empty \ {r} /\ Unlink(s, r).lists = L
  <2>1. [s EXCEPT !.lists = L] \in State
    BY <1>3 DEF State
  <2>2. Unlink(s, r) = [[s EXCEPT !.lists = L] EXCEPT !.empty = @ \ {r}]
    BY DEF Unlink, L
  <2> QED
    BY <2>1, <2>2 DEF State
<1>5. Filed(L, s.tag, F \ {r})
  <2>1. \A k \in Order : IsInjective(L[k])
    BY <1>2, <1>3
  <2>2. \A k \in Order : ToSet(L[k]) = ToSet(s.lists[k]) \ {r}
    BY <1>2, <1>3
  <2>3. \A k \in Order : \A h : h \in ToSet(L[k]) <=> h \in F \ {r} /\ k = ListOf(s.tag[h])
    BY <1>1, <2>2
  <2> QED
    BY <1>3, <2>1, <2>3 DEF Filed
<1> QED
  BY <1>4, <1>5

\* Both tags are written, and the list is the one for the length (paging.c:292-294).
LEMMA InsertKeeps ==
    ASSUME NEW s, NEW F, NEW A, NEW r, NEW n, Sound(s, F, A, {r}, n),
           ~FreeEndsAt(s, F, r), r + n \notin F
    PROVE  Put(s, A, Insert(s, r, n))
<1> DEFINE T == [s.tag EXCEPT ![r] = n, ![r + n - 1] = n]
           l == ListOf(n)
           L == [s.lists EXCEPT ![l] = <<r>> \o @]
<1>1. /\ s \in State /\ Tiled(s.tag, F, A, {r}, n) /\ Filed(s.lists, s.tag, F)
      /\ F \cap s.empty = {} /\ A \subseteq s.empty
  BY DEF Sound
<1>2. Tiled(T, F \cup {r}, A, {}, 0)
  <2>1. \A h \in F : h + s.tag[h] # r
    BY DEF FreeEndsAt
  <2> QED
    BY <1>1, <2>1, TileInsert
<1>3. /\ r \in Page /\ r \notin F /\ r \notin A
      /\ n \in 1 .. KMAP_PAGES - r /\ n \in Nat \ {0}
  <2>1. RangeAt(F \cup A \cup {r}, r, n)
    BY <1>1 DEF Tiled, Length
  <2>2. r \in Page /\ r \notin F /\ r \notin A
    BY <1>1 DEF Tiled
  <2> QED
    BY <2>1, <2>2 DEF RangeAt, Page
<1>4. ASSUME NEW h \in F \cup A
      PROVE  T[h] = s.tag[h]
  <2>1. r + n - 1 # h /\ r # h
    <3>1. RangeAt(F \cup A \cup {r}, r, n)
      BY <1>1 DEF Tiled, Length
    <3>2. ~(r < h /\ h < r + n) /\ h \in Page
      BY <1>1, <3>1 DEF RangeAt, Tiled
    <3> QED
      BY <1>3, <3>2 DEF Page
  <2>2. s.tag \in [Page -> Nat] /\ h \in Page /\ r + n - 1 \in Page
    BY <1>1, <1>3 DEF Tiled, Page
  <2> QED
    BY <2>1, <2>2
<1>5. [s EXCEPT !.tag = T] \in State /\ SetTags(s, r, n) = [s EXCEPT !.tag = T]
  BY <1>1, <1>2 DEF SetTags, State, Tiled
<1>6. /\ l \in Order /\ s.lists \in [Order -> Seq(Page)]
      /\ \A k \in Order : IsInjective(s.lists[k])
      /\ \A k \in Order : \A h : h \in ToSet(s.lists[k]) <=> h \in F /\ k = ListOf(s.tag[h])
  BY <1>1, <1>3, ListOfIs DEF Filed
<1>7. T[r] = n
  <2>1. s.tag \in [Page -> Nat] /\ r + n - 1 \in Page /\ r \in Page
    BY <1>1, <1>3 DEF Tiled, Page
  <2> QED
    BY <2>1
<1> HIDE DEF T
<1>8. /\ <<r>> \o s.lists[l] \in Seq(Page)
      /\ ToSet(<<r>> \o s.lists[l]) = ToSet(s.lists[l]) \cup {r}
      /\ IsInjective(<<r>> \o s.lists[l])
  <2>1. PICK q \in Seq(Page) : q = s.lists[l] /\ IsInjective(q) /\ r \notin ToSet(q)
    BY <1>3, <1>6
  <2>2. /\ <<r>> \o q \in Seq(Page)
        /\ ToSet(<<r>> \o q) = ToSet(q) \cup {r}
        /\ IsInjective(<<r>> \o q)
    BY <1>3, <2>1, PrependQueue
  <2> QED
    BY <2>1, <2>2
<1>9. /\ L \in [Order -> Seq(Page)] /\ L[l] = <<r>> \o s.lists[l]
      /\ \A k \in Order : k # l => L[k] = s.lists[k]
  BY <1>6, <1>8
<1>10. /\ Insert(s, r, n) \in State /\ Insert(s, r, n).tag = T
      /\ Insert(s, r, n).empty = s.empty \ {r} /\ Insert(s, r, n).lists = L
  <2>1. PICK t \in State : t = SetTags(s, r, n) /\ t.tag = T /\ t.lists = s.lists /\ t.empty = s.empty
    BY <1>1, <1>5 DEF State
  <2> DEFINE v == [t EXCEPT !.empty = @ \ {r}]
  <2>2. v \in State /\ v.tag = t.tag /\ v.lists = t.lists /\ v.empty = t.empty \ {r}
    BY DEF State
  <2>3. Insert(s, r, n) = [v EXCEPT !.lists[l] = <<r>> \o @]
    BY <2>1 DEF Insert, l
  <2> HIDE DEF v
  <2>4. [v EXCEPT !.lists[l] = <<r>> \o @] = [v EXCEPT !.lists = L]
    BY <2>1, <2>2 DEF L
  <2>5. Insert(s, r, n) = [v EXCEPT !.lists = L] /\ L \in [Order -> Seq(Page)]
    BY <1>9, <2>3, <2>4
  <2> HIDE DEF L, T
  <2>6. /\ [v EXCEPT !.lists = L] \in State
        /\ [v EXCEPT !.lists = L].tag = v.tag
        /\ [v EXCEPT !.lists = L].empty = v.empty
        /\ [v EXCEPT !.lists = L].lists = L
    BY <2>2, <2>5 DEF State
  <2> QED
    BY <2>1, <2>2, <2>5, <2>6
<1>11. l = ListOf(T[r]) /\ \A h \in F : ListOf(T[h]) = ListOf(s.tag[h])
  BY <1>4, <1>7
<1> HIDE DEF L, l
<1>12. Filed(L, T, F \cup {r})
  <2>1. \A k \in Order : IsInjective(L[k])
    BY <1>6, <1>8, <1>9
  <2>2. /\ ToSet(L[l]) = ToSet(s.lists[l]) \cup {r}
        /\ \A k \in Order : k # l => ToSet(L[k]) = ToSet(s.lists[k])
    BY <1>8, <1>9
  <2>3. ASSUME NEW k \in Order, NEW h
        PROVE  h \in ToSet(L[k]) <=> h \in F \cup {r} /\ k = ListOf(T[h])
    <3>1. h \in ToSet(s.lists[k]) <=> h \in F /\ k = ListOf(T[h])
      BY <1>6, <1>11
    <3>2. h \in ToSet(L[k]) <=> h \in ToSet(s.lists[k]) \/ (h = r /\ k = l)
      BY <1>6, <2>2
    <3> QED
      BY <1>3, <1>11, <3>1, <3>2
  <2> QED
    BY <1>9, <2>1, <2>3 DEF Filed
<1> QED
  <2>1. Sound(Insert(s, r, n), F \cup {r}, A, {}, 0)
    BY <1>1, <1>2, <1>3, <1>10, <1>12 DEF Sound
  <2>2. \A h \in A : Insert(s, r, n).tag[h] = s.tag[h]
    BY <1>4, <1>10
  <2> QED
    BY <2>1, <2>2 DEF Put

\* kmap_free_range from its second test on (paging.c:285-294).
LEMMA JoinNextKeeps ==
    ASSUME NEW s, NEW F, NEW A, NEW r, NEW n, Sound(s, F, A, {r}, n),
           ~FreeEndsAt(s, F, r)
    PROVE  Put(s, A, JoinNext(s, r, n))
<1> DEFINE q == r + n
<1>1. /\ s \in State /\ Tiled(s.tag, F, A, {r}, n) /\ Filed(s.lists, s.tag, F)
      /\ F \cap s.empty = {} /\ A \subseteq s.empty
  BY DEF Sound
<1>2. q # r /\ q \in F \cup A \cup {KMAP_PAGES} /\ KMAP_PAGES \notin F
  <2>1. RangeAt(F \cup A \cup {r}, r, n)
    BY <1>1 DEF Tiled, Length
  <2>2. r \in Page /\ F \subseteq Page
    BY <1>1 DEF Tiled
  <2> QED
    BY <2>1, <2>2 DEF RangeAt, Page
<1>3. CASE q < KMAP_PAGES /\ q \notin s.empty
  <2> HIDE DEF q
  <2>1. q \in F
    BY <1>1, <1>2, <1>3
  <2>2. PICK u, m : u = Unlink(s, q) /\ m = n + s.tag[q]
    OBVIOUS
  <2>3. /\ u \in State /\ u.tag = s.tag /\ u.empty = s.empty \ {q}
        /\ Filed(u.lists, u.tag, F \ {q})
    BY <1>1, <2>2, UnlinkKeeps
  <2>4. /\ Tiled(u.tag, F \ {q}, A, {r}, m) /\ r + m \notin F \ {q}
        /\ \A h \in F \ {q} : h + u.tag[h] # r
    <3>1. q = r + n /\ \A h \in F : h + s.tag[h] # r
      BY DEF FreeEndsAt, q
    <3> QED
      BY <1>1, <2>1, <2>2, <2>3, <3>1, TileJoinNext
  <2>5. (F \ {q}) \cap u.empty = {} /\ A \subseteq u.empty
    BY <1>1, <2>1, <2>3 DEF Tiled
  <2>6. PICK G : G = F \ {q}
    OBVIOUS
  <2>7. Sound(u, G, A, {r}, m) /\ r + m \notin G /\ ~FreeEndsAt(u, G, r)
    BY <2>3, <2>4, <2>5, <2>6 DEF Sound, FreeEndsAt
  <2>8. Put(u, A, Insert(u, r, m))
    BY <2>7, InsertKeeps
  <2>9. JoinNext(s, r, n) = Insert(u, r, m)
    BY <1>3, <2>2 DEF JoinNext, q
  <2> QED
    BY <2>3, <2>8, <2>9 DEF Put
<1>4. CASE ~(q < KMAP_PAGES /\ q \notin s.empty)
  <2>1. q \notin F
    <3> HIDE DEF q
    <3>1. q \in F => q < KMAP_PAGES /\ q \notin s.empty
      <4>1. F \subseteq Page /\ F \cap s.empty = {}
        BY <1>1 DEF Tiled
      <4> QED
        BY <4>1 DEF Page
    <3> QED
      BY <1>4, <3>1
  <2>2. JoinNext(s, r, n) = Insert(s, r, n)
    BY <1>4 DEF JoinNext
  <2>3. Put(s, A, Insert(s, r, n))
    BY <2>1, InsertKeeps
  <2> QED
    BY <2>2, <2>3
<1> QED
  BY <1>3, <1>4

\* kmap_free_range of the range in hand: the entries it reads, among which are the
\* links and tags of older ranges, tell what is free and what a client has.
LEMMA FreeRangeKeeps ==
    ASSUME NEW s, NEW F, NEW A, NEW r, NEW n, Sound(s, F, A, {r}, n)
    PROVE  Put(s, A, FreeRange(s, r, n))
<1>1. /\ s \in State /\ Tiled(s.tag, F, A, {r}, n) /\ Filed(s.lists, s.tag, F)
      /\ F \cap s.empty = {} /\ A \subseteq s.empty
  BY DEF Sound
<1>2. /\ r \in Page /\ F \subseteq Page /\ A \subseteq Page
      /\ \A h \in F \cup A : /\ h \in Page /\ RangeAt(F \cup A \cup {r}, h, s.tag[h])
                             /\ s.tag[h] \in Nat \ {0}
  <2>1. r \in Page /\ F \subseteq Page /\ A \subseteq Page /\ F \cap {r} = {} /\ A \cap {r} = {}
    BY <1>1 DEF Tiled
  <2>2. \A h \in F \cup A : Length(s.tag, {r}, n, h) = s.tag[h]
    BY <2>1 DEF Length
  <2>3. \A h \in F \cup A : RangeAt(F \cup A \cup {r}, h, s.tag[h])
    BY <1>1, <2>2 DEF Tiled
  <2> QED
    BY <2>1, <2>3 DEF RangeAt
<1>3. CASE r = 0
  <2>1. ~FreeEndsAt(s, F, r)
    BY <1>2, <1>3 DEF Page, FreeEndsAt
  <2>2. FreeRange(s, r, n) = JoinNext(s, r, n)
    BY <1>3 DEF FreeRange
  <2> QED
    BY <2>1, <2>2, JoinNextKeeps
<1>4. CASE r # 0
  <2>1. PICK p \in F \cup A : p \in Page /\ s.tag[p] \in Nat /\ p + s.tag[p] = r /\ s.tag[r - 1] = s.tag[p]
    BY <1>1, <1>4, PrevIs
  <2>2. r > 0 /\ r - s.tag[r - 1] = p
    BY <1>2, <1>4, <2>1 DEF Page
  <2>3. CASE p \notin s.empty
    <3>1. p \in F
      BY <1>1, <2>1, <2>3
    <3>2. PICK u, m : u = Unlink(s, p) /\ m = n + s.tag[p]
      OBVIOUS
    <3>3. /\ u \in State /\ u.tag = s.tag /\ u.empty = s.empty \ {p}
          /\ Filed(u.lists, u.tag, F \ {p})
      BY <1>1, <3>2, UnlinkKeeps
    <3>4. Tiled(u.tag, F \ {p}, A, {p}, m) /\ \A h \in F \ {p} : h + u.tag[h] # p
      <4>1. PICK T : T = s.tag
        OBVIOUS
      <4>2. Tiled(T, F, A, {r}, n) /\ p + T[p] = r
        BY <1>1, <2>1, <4>1
      <4>3. Tiled(T, F \ {p}, A, {p}, n + T[p]) /\ \A h \in F \ {p} : h + T[h] # p
        BY <3>1, <4>2, TileJoinPrev
      <4> QED
        BY <3>2, <3>3, <4>1, <4>3
    <3>5. (F \ {p}) \cap u.empty = {} /\ A \subseteq u.empty
      BY <1>1, <3>1, <3>3 DEF Tiled
    <3>6. PICK G : G = F \ {p}
      OBVIOUS
    <3>7. Sound(u, G, A, {p}, m) /\ ~FreeEndsAt(u, G, p)
      BY <3>3, <3>4, <3>5, <3>6 DEF Sound, FreeEndsAt
    <3>8. Put(u, A, JoinNext(u, p, m))
      BY <3>7, JoinNextKeeps
    <3>9. FreeRange(s, r, n) = JoinNext(u, p, m)
      BY <2>2, <2>3, <3>2 DEF FreeRange
    <3> QED
      BY <3>3, <3>8, <3>9 DEF Put
  <2>4. CASE p \in s.empty
    <3>1. p \notin F
      BY <1>1, <2>4
    <3>2. ~FreeEndsAt(s, F, r)
      <4>1. F \cup A \cup {r} \in SUBSET Page
        BY <1>2
      <4> QED
        BY <1>2, <2>1, <3>1, <4>1, RangesApart DEF FreeEndsAt
    <3>3. FreeRange(s, r, n) = JoinNext(s, r, n)
      BY <2>2, <2>4 DEF FreeRange
    <3> QED
      BY <3>2, <3>3, JoinNextKeeps
  <2> QED
    BY <2>3, <2>4
<1> QED
  BY <1>3, <1>4

\* What is filed depends on the tags of free ranges alone.
LEMMA StillFiled ==
    ASSUME NEW L, NEW T, NEW U, NEW F, Filed(L, T, F), \A h \in F : U[h] = T[h]
    PROVE  Filed(L, U, F)
<1>1. \A k \in Order : \A h : h \in ToSet(L[k]) <=> h \in F /\ k = ListOf(U[h])
  BY DEF Filed
<1> QED
  BY <1>1 DEF Filed

\* kmap_alloc_range of the front of a free range (paging.c:314-327).
LEMMA AllocKeeps ==
    ASSUME NEW F, NEW A, Sound(Ranges, F, A, {}, 0), NEW r \in F, NEW n \in 1 .. tag[r]
    PROVE  Lent(Ranges, A, AllocRange(r, n), r, n)
<1>1. PICK s, T, l : s = Ranges /\ T = tag /\ l = tag[r]
  OBVIOUS
<1>2. /\ s \in State /\ Tiled(T, F, A, {}, 0) /\ Filed(s.lists, T, F)
      /\ F \cap s.empty = {} /\ A \subseteq s.empty /\ s.tag = T
  BY <1>1 DEF Sound, Ranges
<1>3. PICK u : u = Unlink(s, r)
  OBVIOUS
<1>4. u \in State /\ u.tag = T /\ u.empty = s.empty \ {r} /\ Filed(u.lists, T, F \ {r})
  BY <1>2, <1>3, UnlinkKeeps
<1>5. r \in Page /\ r \notin A /\ A \ {r} = A /\ l \in 1 .. KMAP_PAGES - r /\ n \in 1 .. l
      /\ T \in [Page -> Nat] /\ F \subseteq Page /\ A \subseteq Page
  <2>1. RangeAt(F \cup A \cup {}, r, T[r])
    BY <1>2 DEF Tiled, Length
  <2>2. r \in Page /\ r \notin A /\ F \subseteq Page /\ A \subseteq Page /\ T \in [Page -> Nat]
    BY <1>2 DEF Tiled
  <2> QED
    BY <1>1, <2>1, <2>2 DEF RangeAt
<1>6. Tiled(T, F \ {r}, A, {r}, l)
  <2>1. r \in F \cup A /\ T[r] = l
    BY <1>1
  <2>2. Tiled(T, F \ {r}, A \ {r}, {r}, T[r])
    BY <1>2, <2>1, TileTake
  <2> QED
    BY <1>5, <2>1, <2>2
<1> DEFINE U == Tagged(T, r, n)
<1>7. Given(T, U, F \ {r}, A, r, l, n)
  <2>1. PICK D : D = F \ {r}
    OBVIOUS
  <2>2. Tiled(T, D, A, {r}, l) /\ n \in 1 .. l
    BY <1>5, <1>6, <2>1
  <2>3. Given(T, U, D, A, r, l, n)
    BY <2>2, TileGive
  <2> QED
    BY <2>1, <2>3
<1>8. Filed(u.lists, U, F \ {r})
  BY <1>4, <1>7, StillFiled DEF Given
<1> DEFINE v == [u EXCEPT !.empty = @ \cup {r}]
           t == SetTags(v, r, n)
<1>9. v \in State /\ v.tag = T /\ v.empty = s.empty \cup {r} /\ v.lists = u.lists
  BY <1>4, <1>5 DEF State
<1>10. U \in [Page -> Nat]
  BY <1>5 DEF Page, Tagged
<1>11. t \in State /\ t.tag = U /\ t.empty = s.empty \cup {r} /\ t.lists = u.lists
  <2> HIDE DEF v
  <2>1. t = [v EXCEPT !.tag = U]
    BY <1>9 DEF SetTags, Tagged
  <2> HIDE DEF t, U
  <2> QED
    BY <1>9, <1>10, <2>1 DEF State
<1>12. AllocRange(r, n) = IF l > n THEN FreeRange(t, r + n, l - n) ELSE t
  BY <1>1, <1>3 DEF AllocRange
<1> HIDE DEF t, U
<1>13. /\ (F \ {r}) \cap t.empty = {} /\ A \cup {r} \subseteq t.empty
       /\ Filed(t.lists, t.tag, F \ {r})
       /\ \A h \in A : t.tag[h] = tag[h] /\ t.tag[r] = n
  BY <1>1, <1>2, <1>7, <1>8, <1>11 DEF Given
<1>14. CASE n = l
  <2>1. Sound(t, F \ {r}, A \cup {r}, {}, 0)
    BY <1>7, <1>11, <1>13, <1>14 DEF Sound, Given
  <2>2. AllocRange(r, n) = t
    BY <1>5, <1>12, <1>14
  <2> QED
    BY <1>1, <1>2, <1>7, <1>11, <1>13, <2>1, <2>2 DEF Given, Lent
<1>15. CASE n < l
  <2>1. PICK q, m, D, B : q = r + n /\ m = l - n /\ D = F \ {r} /\ B = A \cup {r}
    OBVIOUS
  <2>2. Sound(t, D, B, {q}, m)
    BY <1>7, <1>11, <1>13, <1>15, <2>1 DEF Sound, Given
  <2>3. Put(t, B, FreeRange(t, q, m))
    BY <2>2, FreeRangeKeeps
  <2>4. AllocRange(r, n) = FreeRange(t, q, m)
    BY <1>5, <1>12, <1>15, <2>1
  <2> QED
    BY <1>1, <1>2, <1>7, <1>11, <1>13, <2>1, <2>3, <2>4 DEF Put, Given, Lent
<1> QED
  <2>1. n = l \/ n < l
    BY <1>5
  <2> QED
    BY <1>14, <1>15, <2>1

\* What a client gives back is freed (paging.c:359).
LEMMA GiveBackKeeps ==
    ASSUME NEW F, NEW A, Sound(Ranges, F, A, {}, 0), NEW r \in A
    PROVE  Put(Ranges, A \ {r}, FreeRange(Ranges, r, tag[r]))
<1>1. PICK s, T, l, B : s = Ranges /\ T = tag /\ l = tag[r] /\ B = A \ {r}
  OBVIOUS
<1>2. /\ s \in State /\ Tiled(T, F, A, {}, 0) /\ Filed(s.lists, T, F)
      /\ F \cap s.empty = {} /\ A \subseteq s.empty /\ s.tag = T
  BY <1>1 DEF Sound, Ranges
<1>3. F \ {r} = F
  BY <1>2 DEF Tiled
<1>4. Tiled(T, F \ {r}, A \ {r}, {r}, T[r])
  <2>1. r \in F \cup A
    OBVIOUS
  <2> QED
    BY <1>2, <2>1, TileTake
<1>5. Sound(s, F, B, {r}, l)
  BY <1>1, <1>2, <1>3, <1>4 DEF Sound
<1>6. Put(s, B, FreeRange(s, r, l))
  BY <1>5, FreeRangeKeeps
<1> QED
  BY <1>1, <1>6

-----------------------------------------------------------------------------
(***************************************************************************)
(* The search.                                                             *)
(***************************************************************************)

\* The lists that are tried (paging.c:300-311).
LEMMA TriedAre ==
    ASSUME NEW n \in Nat, n > 1
    PROVE  /\ DOMAIN OrdersTried(n) \in SUBSET (Nat \ {0})
           /\ \A i \in DOMAIN OrdersTried(n) : OrdersTried(n)[i] \in Order
           /\ \A k \in Order :
                k >= kmap_order(n) \/ (k = kmap_order(n) - 1 /\ 2^kmap_order(n) > n)
                  => \E i \in DOMAIN OrdersTried(n) : OrdersTried(n)[i] = k
<1> DEFINE start == kmap_order(n)
           up == [i \in 1 .. KMAP_ORDERS - start |-> start + i - 1]
           more == IF 2^start > n THEN <<start - 1>> ELSE <<>>
<1>1. /\ start \in 0 .. KMAP_ORDERS
      /\ start = KMAP_ORDERS \/ 2^start >= n
  BY OrderIs
<1>2. OrdersTried(n) = up \o more
  BY DEF OrdersTried
<1> HIDE DEF start
<1>3. start # 0
  <2> SUFFICES ASSUME start = 0
               PROVE  FALSE
    OBVIOUS
  <2>1. 2^start = 1
    OBVIOUS
  <2> QED
    BY <1>1, <2>1
<1>4. start \in 1 .. KMAP_ORDERS
  BY <1>1, <1>3
<1>5. /\ up \in Seq(Int) /\ Len(up) = KMAP_ORDERS - start
      /\ \A i \in 1 .. KMAP_ORDERS - start : up[i] = start + i - 1
  BY <1>4
<1>6. /\ more \in Seq(Int)
      /\ 2^start > n => Len(more) = 1 /\ more[1] = start - 1
      /\ ~(2^start > n) => Len(more) = 0
  BY <1>4
<1> HIDE DEF up, more
<1> DEFINE s == up \o more
<1>7. PICK a \in Nat, e \in {0, 1} :
        /\ a = KMAP_ORDERS - start /\ Len(up) = a /\ Len(more) = e
        /\ e = 1 <=> 2^start > n
  BY <1>4, <1>5, <1>6
<1>8. /\ DOMAIN s = 1 .. a + e
      /\ \A i \in 1 .. a : s[i] = start + i - 1
      /\ e = 1 => s[a + 1] = start - 1
  <2>1. /\ s \in Seq(Int) /\ Len(s) = a + e
        /\ \A i \in 1 .. a + e : s[i] = IF i <= a THEN up[i] ELSE more[i - a]
    <3>1. up \in Seq(Int) /\ more \in Seq(Int)
      BY <1>5, <1>6
    <3>2. /\ s \in Seq(Int) /\ Len(s) = Len(up) + Len(more)
          /\ \A i \in 1 .. Len(up) + Len(more) :
               s[i] = IF i <= Len(up) THEN up[i] ELSE more[i - Len(up)]
      BY <3>1, ConcatProperties
    <3> QED
      BY <1>7, <3>2
  <2>2. DOMAIN s = 1 .. a + e
    BY <2>1, LenProperties
  <2> HIDE DEF s
  <2>3. \A i \in 1 .. a : s[i] = start + i - 1
    BY <1>5, <1>7, <2>1
  <2>4. ASSUME e = 1
        PROVE  s[a + 1] = start - 1
    <3>1. a + 1 \in 1 .. a + e /\ ~(a + 1 <= a) /\ (a + 1) - a = 1
      BY <2>4
    <3>2. s[a + 1] = more[(a + 1) - a]
      BY <2>1, <3>1
    <3> QED
      BY <1>6, <1>7, <2>4, <3>1, <3>2
  <2> QED
    BY <2>2, <2>3, <2>4
<1> HIDE DEF s
<1>9. DOMAIN s \in SUBSET (Nat \ {0})
  BY <1>8
<1>10. ASSUME NEW i \in DOMAIN s
       PROVE  s[i] \in Order
  <2>1. CASE i \in 1 .. a
    BY <1>4, <1>7, <1>8, <2>1 DEF Order
  <2>2. CASE i \notin 1 .. a
    <3>1. e = 1 /\ i = a + 1
      BY <1>8, <2>2
    <3> QED
      BY <1>4, <1>8, <3>1 DEF Order
  <2> QED
    BY <2>1, <2>2
<1>11. ASSUME NEW k \in Order, k >= start
       PROVE  \E i \in DOMAIN s : s[i] = k
  <2>1. PICK i : i = k - start + 1
    OBVIOUS
  <2>2. i \in 1 .. a /\ start + i - 1 = k
    BY <1>4, <1>7, <1>11, <2>1 DEF Order
  <2>3. i \in 1 .. a + e
    BY <2>2
  <2> QED
    BY <1>8, <2>2, <2>3
<1>12. ASSUME NEW k \in Order, k = start - 1, 2^start > n
       PROVE  \E i \in DOMAIN s : s[i] = k
  <2>1. e = 1 /\ a + 1 \in 1 .. a + e
    BY <1>7, <1>12
  <2> QED
    BY <1>8, <1>12, <2>1
<1> QED
  BY <1>2, <1>9, <1>10, <1>11, <1>12 DEF s, start

LEMMA LongEnoughIs ==
    ASSUME lists \in [Order -> Seq(Page)], NEW k \in Order, NEW n
    PROVE  /\ LongEnough(k, n) \in SUBSET Nat
           /\ \A i \in LongEnough(k, n) : lists[k][i] \in FreeHeads /\ tag[lists[k][i]] >= n
           /\ \A r \in ToSet(lists[k]) : tag[r] >= n => LongEnough(k, n) # {}
<1>1. lists[k] \in Seq(Page)
  OBVIOUS
<1>2. DOMAIN lists[k] \in SUBSET Nat
  BY <1>1, LenProperties
<1>3. \A i \in DOMAIN lists[k] : lists[k][i] \in ToSet(lists[k])
  BY DEF ToSet
<1>4. \A r \in ToSet(lists[k]) : \E i \in DOMAIN lists[k] : lists[k][i] = r
  BY DEF ToSet
<1> QED
  BY <1>2, <1>3, <1>4 DEF LongEnough, FreeHeads

\* What the search returns is a free range that is long enough (paging.c:300-312).
LEMMA FoundIs ==
    ASSUME lists \in [Order -> Seq(Page)], NEW n \in Nat, n > 1, Hits(n) # {}
    PROVE  Found(n) \in FreeHeads /\ tag[Found(n)] >= n
<1>1. Hits(n) \in SUBSET Nat
  BY TriedAre DEF Hits
<1>2. Min(Hits(n)) \in Hits(n)
  BY <1>1, LeastOf
<1>3. PICK k : k = OrdersTried(n)[Min(Hits(n))]
  OBVIOUS
<1>4. k \in Order /\ LongEnough(k, n) # {}
  BY <1>2, <1>3, TriedAre DEF Hits
<1>5. Min(LongEnough(k, n)) \in LongEnough(k, n)
  <2>1. LongEnough(k, n) \in SUBSET Nat
    BY <1>4, LongEnoughIs
  <2> QED
    BY <1>4, <2>1, LeastOf
<1>6. PICK i : i = Min(LongEnough(k, n))
  OBVIOUS
<1>7. i \in LongEnough(k, n) /\ Found(n) = lists[k][i]
  BY <1>3, <1>5, <1>6 DEF Found, kmap_find_free
<1> QED
  BY <1>4, <1>7, LongEnoughIs

\* The lists that are not looked at hold no range that is long enough.
LEMMA SearchFinds ==
    ASSUME NEW A, Sound(Ranges, FreeHeads, A, {}, 0)
    PROVE  FindsRoom
<1>1. lists \in [Order -> Seq(Page)] /\ \A r \in FreeHeads : tag[r] \in Nat \ {0}
  <2>1. Tiled(tag, FreeHeads, A, {}, 0) /\ Filed(lists, tag, FreeHeads)
    BY DEF Sound, Ranges
  <2> QED
    BY <2>1 DEF Tiled, Filed, RangeAt, Length
<1>2. SUFFICES ASSUME NEW n \in 2 .. 2^KMAP_ORDERS - 1, NEW r \in FreeHeads, tag[r] >= n
               PROVE  Hits(n) # {}
  BY DEF FindsRoom
<1>3. n \in Nat /\ n > 1 /\ n < 2^KMAP_ORDERS /\ tag[r] \in Nat \ {0}
  BY <1>1, <1>2
<1>4. PICK k \in Order : r \in ToSet(lists[k])
  BY DEF FreeHeads
<1>5. k = ListOf(tag[r])
  <2>1. Filed(lists, tag, FreeHeads)
    BY DEF Sound, Ranges
  <2> QED
    BY <1>4, <2>1 DEF Filed
<1>6. LongEnough(k, n) # {}
  BY <1>1, <1>2, <1>4, LongEnoughIs
<1>7. PICK m, start : m = tag[r] + 1 /\ start = kmap_order(n)
  OBVIOUS
<1>8. k + 1 = kmap_order(m)
  BY <1>3, <1>5, <1>7, ListOfIs
<1>9. /\ k + 1 \in 0 .. KMAP_ORDERS
      /\ k + 1 = KMAP_ORDERS \/ 2^(k + 1) >= m
  <2>1. m \in Nat
    BY <1>3, <1>7
  <2> QED
    BY <1>8, <2>1, OrderIs
<1>10. 2^(k + 1) > n
  <2>1. k + 1 \in Nat /\ 2^(k + 1) \in Int
    BY <1>9
  <2>2. CASE k + 1 = KMAP_ORDERS
    BY <1>3, <2>2
  <2>3. CASE 2^(k + 1) >= m
    BY <1>2, <1>3, <1>7, <2>1, <2>3
  <2> QED
    BY <1>9, <2>2, <2>3
<1>11. start \in 0 .. KMAP_ORDERS /\ \A j \in 0 .. start - 1 : 2^j < n
  BY <1>3, <1>7, OrderIs
<1>12. ~(k + 1 < start)
  <2> SUFFICES ASSUME k + 1 < start
               PROVE  FALSE
    OBVIOUS
  <2>1. k + 1 \in 0 .. start - 1 /\ 2^(k + 1) \in Int
    BY <1>9, <1>11
  <2>2. 2^(k + 1) < n
    BY <1>11, <2>1
  <2> QED
    BY <1>3, <1>10, <2>1, <2>2
<1>13. k >= start \/ (k = start - 1 /\ 2^start > n)
  <2>1. k >= start \/ k + 1 = start
    BY <1>11, <1>12 DEF Order
  <2>2. ASSUME k + 1 = start
        PROVE  k = start - 1 /\ 2^start > n
    <3>1. k = start - 1
      BY <2>2 DEF Order
    <3> QED
      BY <1>10, <2>2, <3>1
  <2> QED
    BY <2>1, <2>2
<1>14. \E i \in DOMAIN OrdersTried(n) : OrdersTried(n)[i] = k
  BY <1>3, <1>7, <1>13, TriedAre
<1> QED
  BY <1>6, <1>14 DEF Hits

-----------------------------------------------------------------------------
(***************************************************************************)
(* The invariant.                                                          *)
(***************************************************************************)

\* What the variables are set to is the state of the ranges.
LEMMA RangesBecome ==
    ASSUME NEW t, NEW G, NEW A, Sound(t, G, A, {}, 0), SetRanges(t)
    PROVE  Sound(Ranges, FreeHeads, A, {}, 0)'
<1>1. t \in State
  BY DEF Sound
<1>2. Ranges' = t
  BY <1>1 DEF SetRanges, Ranges, State
<1>3. G = UNION {ToSet(t.lists[k]) : k \in Order}
  BY FreeIs
<1>4. FreeHeads' = G
  BY <1>3 DEF SetRanges, FreeHeads
<1>5. PICK B : B = A
  OBVIOUS
<1> QED
  BY <1>2, <1>4, <1>5

\* kmap_setup makes the window one free range, whatever was in the memory of the
\* entries (paging.c:215-228).
LEMMA SetUpSound ==
    ASSUME NEW garbage \in [Page -> Nat]
    PROVE  \E G : Sound(SetUp(garbage), G, {}, {}, 0)
<1> DEFINE s == [tag |-> garbage, empty |-> {}, lists |-> [k \in Order |-> <<>>]]
<1>1. s \in State
  BY DEF State
<1>2. Tiled(garbage, {}, {}, {0}, KMAP_PAGES)
  BY DEF Tiled, RangeAt, Length, Page
<1>3. Filed([k \in Order |-> <<>>], garbage, {})
  BY EmptyQueue DEF Filed
<1>4. Sound(s, {}, {}, {0}, KMAP_PAGES)
  BY <1>1, <1>2, <1>3 DEF Sound
<1> HIDE DEF s
<1>5. Put(s, {}, FreeRange(s, 0, KMAP_PAGES))
  BY <1>4, FreeRangeKeeps
<1> QED
  BY <1>5 DEF Put, SetUp, s

LEMMA MapKeeps ==
    ASSUME WindowInv, NEW b \in Buffer, NEW n \in 1 .. KMAP_PAGES, MapRange(b, n)
    PROVE  WindowInv'
<1>1. /\ Sound(Ranges, FreeHeads, MappedHeads, {}, 0)
      /\ mapped \subseteq Page \X (1 .. KMAP_PAGES) \X Buffer
      /\ \A m \in mapped : tag[m[1]] = m[2]
      /\ \A m, w \in mapped : m[1] = w[1] => m = w
  BY DEF WindowInv
<1>2. /\ lists \in [Order -> Seq(Page)] /\ FreeHeads \subseteq Page
      /\ FreeHeads \cap MappedHeads = {} /\ tag \in [Page -> Nat]
  BY <1>1 DEF Sound, Tiled, Filed, Ranges
<1>3. n \in Nat /\ n > 1 /\ Hits(n) # {}
  BY DEF MapRange
<1>4. PICK r : r = Found(n)
  OBVIOUS
<1>5. r \in FreeHeads /\ tag[r] >= n
  BY <1>2, <1>3, <1>4, FoundIs
<1>6. n \in 1 .. tag[r] /\ r \in Page /\ r \notin MappedHeads
  BY <1>2, <1>3, <1>5
<1>7. PICK t, A : t = AllocRange(r, n) /\ A = MappedHeads
  OBVIOUS
<1>8. /\ \E G : Sound(t, G, A \cup {r}, {}, 0)
      /\ \A h \in A : t.tag[h] = tag[h]
      /\ t.tag[r] = n
  <2>1. PICK F : F = FreeHeads
    OBVIOUS
  <2>2. Sound(Ranges, F, A, {}, 0) /\ r \in F
    BY <1>1, <1>5, <1>7, <2>1
  <2>3. Lent(Ranges, A, t, r, n)
    BY <1>6, <1>7, <2>2, AllocKeeps
  <2> QED
    BY <2>3 DEF Lent, Ranges
<1>9. SetRanges(t) /\ mapped' = mapped \cup {<<r, n, b>>}
  BY <1>4, <1>7 DEF MapRange
<1>10. MappedHeads' = A \cup {r}
  <2>1. PICK M, x : M = mapped /\ x = <<r, n, b>>
    OBVIOUS
  <2>2. A = {m[1] : m \in M} /\ MappedHeads' = {m[1] : m \in M \cup {x}}
    BY <1>7, <1>9, <2>1 DEF MappedHeads
  <2>3. {m[1] : m \in M \cup {x}} = {m[1] : m \in M} \cup {x[1]}
    OBVIOUS
  <2>4. x[1] = r
    BY <2>1
  <2> QED
    BY <2>2, <2>3, <2>4
<1>11. Sound(Ranges, FreeHeads, MappedHeads, {}, 0)'
  <2>1. PICK B : B = A \cup {r}
    OBVIOUS
  <2>2. Sound(Ranges, FreeHeads, B, {}, 0)'
    BY <1>8, <1>9, <2>1, RangesBecome
  <2> QED
    BY <1>10, <2>1, <2>2
<1>12. (mapped \subseteq Page \X (1 .. KMAP_PAGES) \X Buffer)'
  BY <1>1, <1>6, <1>9
<1>13. tag' = t.tag /\ \A m \in mapped : m[1] \in A
  BY <1>7, <1>9 DEF SetRanges, MappedHeads
<1>14. \A m \in mapped' : tag'[m[1]] = m[2]
  BY <1>1, <1>8, <1>9, <1>13
<1>15. \A m, w \in mapped' : m[1] = w[1] => m = w
  BY <1>1, <1>6, <1>7, <1>9, <1>13
<1> QED
  BY <1>11, <1>12, <1>14, <1>15 DEF WindowInv

LEMMA UnmapKeeps ==
    ASSUME WindowInv, NEW b \in Buffer, NEW n \in 1 .. KMAP_PAGES, NEW r \in Page,
           UnmapRange(r, n, b)
    PROVE  WindowInv'
<1>1. /\ Sound(Ranges, FreeHeads, MappedHeads, {}, 0)
      /\ mapped \subseteq Page \X (1 .. KMAP_PAGES) \X Buffer
      /\ \A m \in mapped : tag[m[1]] = m[2]
      /\ \A m, w \in mapped : m[1] = w[1] => m = w
  BY DEF WindowInv
<1>2. PICK t, A : t = FreeRange(Ranges, r, tag[r]) /\ A = MappedHeads
  OBVIOUS
<1>3. <<r, n, b>> \in mapped /\ SetRanges(t) /\ mapped' = mapped \ {<<r, n, b>>}
  BY <1>2 DEF UnmapRange
<1>4. r \in A /\ MappedHeads' = A \ {r}
  BY <1>1, <1>2, <1>3 DEF MappedHeads
<1>5. Put(Ranges, A \ {r}, t)
  <2>1. Sound(Ranges, FreeHeads, A, {}, 0)
    BY <1>1, <1>2
  <2> QED
    BY <1>2, <1>4, <2>1, GiveBackKeeps
<1>6. (\E G : Sound(t, G, A \ {r}, {}, 0)) /\ \A h \in A \ {r} : t.tag[h] = tag[h]
  BY <1>5 DEF Put, Ranges
<1>7. Sound(Ranges, FreeHeads, MappedHeads, {}, 0)'
  <2>1. PICK B : B = A \ {r}
    OBVIOUS
  <2>2. Sound(Ranges, FreeHeads, B, {}, 0)'
    BY <1>3, <1>6, <2>1, RangesBecome
  <2> QED
    BY <1>4, <2>1, <2>2
<1>8. tag' = t.tag /\ \A m \in mapped' : m[1] \in A \ {r}
  BY <1>1, <1>2, <1>3 DEF SetRanges, MappedHeads
<1>9. \A m \in mapped' : tag'[m[1]] = m[2]
  BY <1>1, <1>3, <1>6, <1>8
<1>10. /\ (mapped \subseteq Page \X (1 .. KMAP_PAGES) \X Buffer)'
       /\ \A m, w \in mapped' : m[1] = w[1] => m = w
  BY <1>1, <1>3
<1> QED
  BY <1>7, <1>9, <1>10 DEF WindowInv

LEMMA WindowStutters ==
    ASSUME WindowInv, UNCHANGED window_vars
    PROVE  WindowInv'
<1>1. UNCHANGED <<tag, empty, lists, mapped>>
  BY DEF window_vars
<1>2. UNCHANGED <<Ranges, FreeHeads, MappedHeads>>
  BY <1>1 DEF Ranges, FreeHeads, MappedHeads
<1> QED
  BY <1>1, <1>2 DEF WindowInv

\* Whatever clients map and unmap: the window is tiled by free ranges and by those of
\* clients, every entry that is read says what it should, and the lists are right.
THEOREM WindowInvariant == WindowSpec => []WindowInv
<1>1. WindowInit => WindowInv
  <2> SUFFICES ASSUME NEW garbage \in [Page -> Nat], WindowStarts(garbage)
               PROVE  WindowInv
    BY DEF WindowInit
  <2>1. PICK t, G : t = SetUp(garbage) /\ Sound(t, G, {}, {}, 0)
    BY SetUpSound
  <2>2. tag = t.tag /\ empty = t.empty /\ lists = t.lists /\ mapped = {}
    BY <2>1 DEF WindowStarts
  <2>3. Ranges = t
    BY <2>1, <2>2 DEF Ranges, Sound, State
  <2>4. G = UNION {ToSet(t.lists[k]) : k \in Order}
    BY <2>1, FreeIs
  <2>5. FreeHeads = G /\ MappedHeads = {}
    BY <2>2, <2>4 DEF FreeHeads, MappedHeads
  <2> QED
    BY <2>1, <2>2, <2>3, <2>5 DEF WindowInv
<1>2. WindowInv /\ [WindowNext]_window_vars => WindowInv'
  <2> SUFFICES ASSUME WindowInv, [WindowNext]_window_vars
               PROVE  WindowInv'
    OBVIOUS
  <2>1. ASSUME NEW b \in Buffer, NEW n \in 1 .. KMAP_PAGES, MapRange(b, n)
        PROVE  WindowInv'
    BY <2>1, MapKeeps
  <2>2. ASSUME NEW b \in Buffer, NEW n \in 1 .. KMAP_PAGES, NEW r \in Page,
               UnmapRange(r, n, b)
        PROVE  WindowInv'
    BY <2>2, UnmapKeeps
  <2>3. CASE UNCHANGED window_vars
    BY <2>3, WindowStutters
  <2> QED
    BY <2>1, <2>2, <2>3 DEF WindowNext
<1> QED
  BY <1>1, <1>2, PTL DEF WindowSpec

\* The window stays tiled: the neighbours that kmap_free_range finds by arithmetic
\* are ranges, and free ranges are maximal and filed by their length.
THEOREM WindowStaysTiled == WindowSpec => []WindowTiled
<1>1. WindowInv => WindowTiled
  <2> SUFFICES ASSUME WindowInv
               PROVE  WindowTiled
    OBVIOUS
  <2>1. /\ Sound(Ranges, FreeHeads, MappedHeads, {}, 0)
        /\ mapped \subseteq Page \X (1 .. KMAP_PAGES) \X Buffer
        /\ \A m \in mapped : tag[m[1]] = m[2]
        /\ \A m, w \in mapped : m[1] = w[1] => m = w
    BY DEF WindowInv
  <2>2. /\ Tiled(tag, FreeHeads, MappedHeads, {}, 0)
        /\ Filed(lists, tag, FreeHeads)
        /\ empty \subseteq Page /\ FreeHeads \cap empty = {} /\ MappedHeads \subseteq empty
    BY <2>1 DEF Sound, Ranges, State
  <2>3. Heads = FreeHeads \cup MappedHeads \cup {} /\ Heads = FreeHeads \cup MappedHeads
    BY DEF Heads
  <2>4. /\ tag \in [Page -> Nat] /\ 0 \in Heads /\ FreeHeads \cap MappedHeads = {}
        /\ Heads \subseteq Page
        /\ \A h \in Heads : RangeAt(Heads, h, tag[h]) /\ tag[h + tag[h] - 1] = tag[h]
        /\ \A h \in FreeHeads : h + tag[h] \notin FreeHeads
    <3>1. \A h \in Heads : Length(tag, {}, 0, h) = tag[h]
      BY DEF Length
    <3>2. PICK H : H = Heads
      OBVIOUS
    <3>3. H = FreeHeads \cup MappedHeads \cup {}
      BY <2>3, <3>2
    <3>4. \A h \in H : RangeAt(H, h, Length(tag, {}, 0, h))
      BY <2>2, <3>3 DEF Tiled
    <3> QED
      BY <2>2, <2>3, <3>1, <3>2, <3>4 DEF Tiled
  <2>5. ASSUME NEW h \in Heads
        PROVE  EndsAtNext(h)
    <3>1. RangeAt(Heads, h, tag[h]) /\ tag[h + tag[h] - 1] = tag[h] /\ h \in Page
      BY <2>4
    <3>2. \A i \in h + 1 .. h + tag[h] - 1 : i \notin Heads
      BY <3>1 DEF RangeAt, Page
    <3> QED
      BY <3>1, <3>2 DEF RangeAt, EndsAtNext
  <2>6. TagsTile
    BY <2>1, <2>2, <2>3, <2>4, <2>5 DEF TagsTile, WindowTypeOK, Filed
  <2>7. ASSUME NEW k \in Order, NEW r \in ToSet(lists[k])
        PROVE  tag[r] >= 2^k /\ (k < KMAP_ORDERS - 1 => tag[r] < 2^(k + 1))
    <3>1. r \in FreeHeads /\ k = ListOf(tag[r])
      BY <2>2, <2>7 DEF Filed
    <3>2. tag[r] \in Nat \ {0}
      BY <2>3, <2>4, <3>1 DEF RangeAt
    <3> QED
      BY <3>1, <3>2, ListOfIs
  <2>8. FreeFiled
    BY <2>2, <2>4, <2>7 DEF FreeFiled, Filed
  <2> QED
    BY <2>6, <2>8 DEF WindowTiled
<1> QED
  BY <1>1, WindowInvariant, PTL

\* kmap fails for want of a range only if no free range is long enough.
THEOREM RoomFound == WindowSpec => []FindsRoom
<1>1. WindowInv => FindsRoom
  BY SearchFinds DEF WindowInv
<1> QED
  BY <1>1, WindowInvariant, PTL

\* No page of the window is in what two clients have, or in a free range as well.
Apart == \A g, h \in Heads : g # h => PagesOf(g, tag[g]) \cap PagesOf(h, tag[h]) = {}

THEOREM RangesStayApart == WindowSpec => []Apart
<1>1. WindowTiled => Apart
  <2> SUFFICES ASSUME WindowTiled, NEW g \in Heads, NEW h \in Heads, g # h,
                      NEW i, i \in PagesOf(g, tag[g]), i \in PagesOf(h, tag[h])
               PROVE  FALSE
    BY DEF Apart
  <2>1. g \in Page /\ h \in Page
    BY DEF WindowTiled, TagsTile, WindowTypeOK, Heads, FreeHeads, MappedHeads, ToSet
  <2>2. EndsAtNext(g) /\ EndsAtNext(h)
    BY DEF WindowTiled, TagsTile
  <2>3. g \notin h + 1 .. h + tag[h] - 1 /\ h \notin g + 1 .. g + tag[g] - 1
    BY <2>2 DEF EndsAtNext
  <2> QED
    BY <2>1, <2>2, <2>3 DEF PagesOf, EndsAtNext, Page
<1> QED
  BY <1>1, WindowStaysTiled, PTL
=============================================================================
