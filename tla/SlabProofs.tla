------------------------------ MODULE SlabProofs ------------------------------
(***************************************************************************)
(* Proofs about module Slab, for every number of blocks and threads and    *)
(* every size of a pool.                                                   *)
(***************************************************************************)
EXTENDS Slab, QueueLemmas, FiniteSetTheorems

USE SlabAssumption

Object == 0 .. obj_count - 1

\* The words of the bitmap have a bit for every object (alloc.c:87).
LEMMA BitsCover ==
    /\ Object \subseteq Bit
    /\ Padding = Bit \ Object
    /\ Bit \subseteq Nat
    /\ Whole \notin Bit
    /\ 0 \in Object
<1>1. mask_words \in Nat /\ mask_words * OBJS_PER_WORD >= obj_count
  <2> DEFINE a == obj_count + OBJS_PER_WORD - 1
  <2>1. a \in Nat /\ OBJS_PER_WORD \in Nat /\ OBJS_PER_WORD > 0
    OBVIOUS
  <2>2. /\ a \div OBJS_PER_WORD \in Nat
        /\ a < (a \div OBJS_PER_WORD) * OBJS_PER_WORD + OBJS_PER_WORD
    BY <2>1
  <2> QED
    BY <2>1, <2>2 DEF mask_words
<1>2. mask_words * OBJS_PER_WORD \in Nat
  BY <1>1
<1> QED
  BY <1>1, <1>2 DEF Bit, Object, Padding

LEMMA ObjectsAreFinite ==
    /\ IsFiniteSet(Object) /\ Cardinality(Object) = obj_count
    /\ IsFiniteSet(Object \cup {Whole})
<1>1. IsFiniteSet(Object) /\ Cardinality(Object) = obj_count
  BY FS_Interval DEF Object
<1> QED
  BY <1>1, FS_AddElement

\* mem_pool_alloc() finds a zero bit where there is one (alloc.c:213-225).
LEMMA FirstZeroIs ==
    ASSUME NEW p, Bit \ p.bitmask # {}
    PROVE  FirstZero(p) \in Bit \ p.bitmask
<1>1. \E i \in Bit \ p.bitmask : \A j \in Bit \ p.bitmask : i <= j
  BY LeastElement, BitsCover
<1> QED
  BY <1>1 DEF FirstZero

-----------------------------------------------------------------------------
(***************************************************************************)
(* The inductive invariant: each block is in one of four situations, and   *)
(* what the block, its page bit and its clients say agrees with that.      *)
(***************************************************************************)
OnList(b, l) == ~released /\ b \in ToSet(list[l])
Shrunk(b, t) == b \in ToSet(free_slabs[t])

Listed(b, l) ==
    /\ \A m \in ListName : OnList(b, m) <=> m = l
    /\ \A t \in Thread : ~Shrunk(b, t)
    /\ b \notin avail
    /\ ExactOn(b, l) /\ Objects(b) \subseteq {b} \X Object

Leaving(b, t) ==
    /\ \A m \in ListName : ~OnList(b, m)
    /\ \A u \in Thread : Shrunk(b, u) <=> u = t
    /\ b \notin avail
    /\ pool[b] = NewPool /\ Objects(b) = {}

Available(b) ==
    /\ \A m \in ListName : ~OnList(b, m)
    /\ \A t \in Thread : ~Shrunk(b, t)
    /\ b \in avail
    /\ Objects(b) = {}

Given(b) ==
    /\ \A m \in ListName : ~OnList(b, m)
    /\ \A t \in Thread : ~Shrunk(b, t)
    /\ b \notin avail
    /\ b \notin cache_bit /\ Objects(b) = {<<b, Whole>>}

BlockInv(b) ==
    \/ \E l \in ListName : Listed(b, l)
    \/ \E t \in Thread : Leaving(b, t)
    \/ Available(b)
    \/ Given(b)

ListsInv ==
    /\ \A l \in ListName : IsInjective(list[l])
    /\ \A t \in Thread : IsInjective(free_slabs[t])

SlabInv == SlabTypeOK /\ ListsInv /\ FreedOnce /\ \A b \in Block : BlockInv(b)

\* A step that does not touch block b.
Untouched(b) ==
    /\ \A m \in ListName : OnList(b, m)' <=> OnList(b, m)
    /\ \A t \in Thread : Shrunk(b, t)' <=> Shrunk(b, t)
    /\ b \in avail' <=> b \in avail
    /\ b \in cache_bit' <=> b \in cache_bit
    /\ pool'[b] = pool[b]
    /\ Objects(b)' = Objects(b)

LEMMA UntouchedStays ==
    ASSUME NEW b \in Block, BlockInv(b), Untouched(b)
    PROVE  BlockInv(b)'
<1> USE DEF Untouched
<1>1. \A l \in ListName : Listed(b, l) => Listed(b, l)'
  BY DEF Listed, ExactOn
<1>2. \A t \in Thread : Leaving(b, t) => Leaving(b, t)'
  BY DEF Leaving
<1>3. Available(b) => Available(b)'
  BY DEF Available
<1>4. Given(b) => Given(b)'
  BY DEF Given
<1> QED
  BY <1>1, <1>2, <1>3, <1>4 DEF BlockInv

\* What the invariant says of a block where a client has memory.
LEMMA PieceIs ==
    ASSUME SlabInv, NEW x \in held
    PROVE  /\ x = <<x[1], x[2]>> /\ x[1] \in Block /\ x[2] \in Object \cup {Whole}
           /\ x[2] = Whole => Given(x[1])
           /\ x[2] # Whole => x[2] \in Object /\ \E l \in ListName : Listed(x[1], l)
<1>1. x = <<x[1], x[2]>> /\ x[1] \in Block /\ x[2] \in Object \cup {Whole}
  BY DEF SlabInv, SlabTypeOK, Object
<1>2. x \in Objects(x[1])
  BY DEF Objects
<1>3. Objects(x[1]) # {}
  BY <1>2
<1>4. Given(x[1]) => x[2] = Whole
  BY <1>1, <1>2 DEF Given
<1>5. \A l \in ListName : Listed(x[1], l) => x[2] \in Object
  BY <1>1, <1>2 DEF Listed
<1>6. Whole \notin Object
  BY BitsCover
<1> QED
  BY <1>1, <1>3, <1>4, <1>5, <1>6 DEF SlabInv, BlockInv, Leaving, Available

\* The invariant implies what the runs check.
LEMMA InvOneHome == SlabInv => OneHome
<1> SUFFICES ASSUME SlabInv
             PROVE  OneHome
  OBVIOUS
<1>1. ASSUME NEW b \in Block
      PROVE  \E h : Homes(b) = {h}
  <2>1. <<b, Whole>> \in held <=> <<b, Whole>> \in Objects(b)
    BY DEF Objects
  <2>2. ASSUME NEW l \in ListName, Listed(b, l)
        PROVE  Homes(b) = {<<"list", l>>}
    <3>1. <<b, Whole>> \notin held
      BY <2>1, <2>2, BitsCover DEF Listed
    <3>2. ~released /\ {m \in ListName : b \in ToSet(list[m])} = {l}
      BY <2>2 DEF Listed, OnList
    <3>3. {u \in Thread : b \in ToSet(free_slabs[u])} = {}
      BY <2>2 DEF Listed, Shrunk
    <3> QED
      BY <2>2, <3>1, <3>2, <3>3 DEF Homes, Listed
  <2>3. ASSUME NEW t \in Thread, Leaving(b, t)
        PROVE  Homes(b) = {<<"shrink", t>>}
    <3>1. <<b, Whole>> \notin held
      BY <2>1, <2>3 DEF Leaving
    <3>2. released \/ {m \in ListName : b \in ToSet(list[m])} = {}
      BY <2>3 DEF Leaving, OnList
    <3>3. {u \in Thread : b \in ToSet(free_slabs[u])} = {t}
      BY <2>3 DEF Leaving, Shrunk
    <3> QED
      BY <2>3, <3>1, <3>2, <3>3 DEF Homes, Leaving
  <2>4. ASSUME Available(b)
        PROVE  Homes(b) = {<<"avail">>}
    <3>1. <<b, Whole>> \notin held
      BY <2>1, <2>4 DEF Available
    <3>2. released \/ {m \in ListName : b \in ToSet(list[m])} = {}
      BY <2>4 DEF Available, OnList
    <3>3. {u \in Thread : b \in ToSet(free_slabs[u])} = {}
      BY <2>4 DEF Available, Shrunk
    <3> QED
      BY <2>4, <3>1, <3>2, <3>3 DEF Homes, Available
  <2>5. ASSUME Given(b)
        PROVE  Homes(b) = {<<"client">>}
    <3>1. <<b, Whole>> \in held
      BY <2>1, <2>5 DEF Given
    <3>2. released \/ {m \in ListName : b \in ToSet(list[m])} = {}
      BY <2>5 DEF Given, OnList
    <3>3. {u \in Thread : b \in ToSet(free_slabs[u])} = {}
      BY <2>5 DEF Given, Shrunk
    <3> QED
      BY <2>5, <3>1, <3>2, <3>3 DEF Homes, Given
  <2> QED
    BY <2>2, <2>3, <2>4, <2>5 DEF SlabInv, BlockInv
<1>2. \A b \in Block : Cardinality(Homes(b)) = 1
  BY <1>1, FS_Singleton
<1> QED
  BY <1>2 DEF SlabInv, ListsInv, OneHome

LEMMA InvPoolsExact == SlabInv => PoolsExact
<1> SUFFICES ASSUME SlabInv
             PROVE  PoolsExact
  OBVIOUS
<1>1. /\ \A l \in ListName : ToSet(list[l]) \subseteq Block
      /\ \A t \in Thread : ToSet(free_slabs[t]) \subseteq Block
  BY DEF SlabInv, SlabTypeOK, ToSet
<1>2. ASSUME ~released, NEW l \in ListName, NEW b \in ToSet(list[l])
      PROVE  ExactOn(b, l)
  <2>1. b \in Block /\ OnList(b, l)
    BY <1>1, <1>2 DEF OnList
  <2> QED
    BY <2>1 DEF SlabInv, BlockInv, Listed, Leaving, Available, Given
<1>3. ASSUME NEW t \in Thread, NEW b \in ToSet(free_slabs[t])
      PROVE  pool[b] = NewPool /\ Objects(b) = {}
  <2>1. b \in Block /\ Shrunk(b, t)
    BY <1>1, <1>3 DEF Shrunk
  <2> QED
    BY <2>1 DEF SlabInv, BlockInv, Listed, Leaving, Available, Given
<1>4. BitTells
  BY PieceIs DEF BitTells, Given, Listed, ExactOn
<1>5. ObjectsListed
  BY PieceIs DEF ObjectsListed, Listed, OnList
<1> QED
  BY <1>2, <1>3, <1>4, <1>5 DEF PoolsExact, SlabInv

-----------------------------------------------------------------------------
(***************************************************************************)
(* Pools and lists.                                                        *)
(***************************************************************************)
PoolType == [free : 0 .. obj_count, bitmask : SUBSET Bit]

\* The objects that clients have of a pool are finitely many, and as many as the pool
\* has only if they are all of them.
LEMMA PoolRoom ==
    ASSUME NEW b, NEW O \in SUBSET ({b} \X Object)
    PROVE  /\ IsFiniteSet(O) /\ Cardinality(O) \in 0 .. obj_count
           /\ Cardinality(O) < obj_count => \E i \in Object : <<b, i>> \notin O
           /\ Cardinality(O) = 0 <=> O = {}
<1>1. IsFiniteSet({b} \X Object) /\ Cardinality({b} \X Object) = obj_count
  <2>1. IsFiniteSet({b}) /\ Cardinality({b}) = 1
    BY FS_Singleton
  <2> QED
    BY SMTT(20), <2>1, ObjectsAreFinite, FS_Product
<1>2. IsFiniteSet(O) /\ Cardinality(O) <= obj_count
  BY <1>1, FS_Subset
<1>3. Cardinality(O) \in Nat
  BY <1>2, FS_CardinalityType
<1>4. Cardinality(O) = 0 <=> O = {}
  BY <1>2, FS_EmptySet
<1>5. (\A i \in Object : <<b, i>> \in O) => O = {b} \X Object
  OBVIOUS
<1>6. Cardinality(O) < obj_count => \E i \in Object : <<b, i>> \notin O
  <2> SUFFICES ASSUME \A i \in Object : <<b, i>> \in O
               PROVE  ~(Cardinality(O) < obj_count)
    OBVIOUS
  <2>1. Cardinality(O) = obj_count
    BY <1>1, <1>5
  <2> QED
    BY <2>1
<1>7. Cardinality(O) \in 0 .. obj_count
  BY <1>2, <1>3
<1> QED
  BY <1>2, <1>4, <1>6, <1>7

\* mem_pool_alloc() on a pool that has an object left: the BUG_ONs do not fire, and the
\* object it returns is one that no client has (alloc.c:211-235).
LEMMA TakenIs ==
    ASSUME NEW b, NEW p \in PoolType, NEW O \in SUBSET ({b} \X Object),
           Says(p, O), p.free # 0
    PROVE  /\ FirstZero(p) \in Object /\ <<b, FirstZero(p)>> \notin O
           /\ Taken(p) \in PoolType
           /\ Says(Taken(p), O \cup {<<b, FirstZero(p)>>})
           /\ Taken(p).free = p.free - 1
<1> DEFINE i == FirstZero(p)
<1>1. /\ p.bitmask = Padding \cup {x[2] : x \in O}
      /\ p.free = obj_count - Cardinality(O)
      /\ p.free \in 1 .. obj_count /\ p.bitmask \subseteq Bit
  BY DEF Says, PoolType
<1>2. IsFiniteSet(O) /\ Cardinality(O) \in 0 .. obj_count
  BY PoolRoom
<1>3. PICK j \in Object : <<b, j>> \notin O
  <2>1. Cardinality(O) < obj_count
    BY <1>1, <1>2
  <2> QED
    BY <2>1, PoolRoom
<1>4. \A x \in O : x = <<b, x[2]>>
  OBVIOUS
<1>5. j \in Bit \ p.bitmask
  BY <1>1, <1>3, <1>4, BitsCover
<1>6. i \in Bit \ p.bitmask
  BY <1>5, FirstZeroIs
<1>7. i \in Object /\ <<b, i>> \notin O
  <2>1. i \notin Padding /\ i \notin {x[2] : x \in O}
    BY <1>1, <1>6
  <2>2. <<b, i>>[2] = i
    OBVIOUS
  <2> QED
    BY <1>6, <2>1, <2>2, BitsCover
<1> HIDE DEF i
<1>8. Cardinality(O \cup {<<b, i>>}) = Cardinality(O) + 1
  BY <1>2, <1>7, FS_AddElement
<1>9. /\ Taken(p).free = p.free - 1
      /\ Taken(p).bitmask = p.bitmask \cup {i}
      /\ Taken(p) = [free |-> p.free - 1, bitmask |-> p.bitmask \cup {i}]
  BY DEF Taken, i
<1>10. Taken(p) \in PoolType
  BY <1>1, <1>6, <1>9 DEF PoolType
<1>11. {x[2] : x \in O \cup {<<b, i>>}} = {x[2] : x \in O} \cup {i}
  <2>1. <<b, i>>[2] = i
    OBVIOUS
  <2>2. {x[2] : x \in O \cup {<<b, i>>}} = {x[2] : x \in O} \cup {<<b, i>>[2]}
    OBVIOUS
  <2> QED
    BY <2>1, <2>2
<1>12. Says(Taken(p), O \cup {<<b, i>>})
  BY <1>1, <1>2, <1>8, <1>9, <1>11 DEF Says
<1> QED
  BY <1>7, <1>9, <1>10, <1>12 DEF i

\* mem_pool_free() of an object that a client has (alloc.c:237-251).
LEMMA ReturnedIs ==
    ASSUME NEW b, NEW p \in PoolType, NEW O \in SUBSET ({b} \X Object),
           Says(p, O), NEW i \in Object, <<b, i>> \in O
    PROVE  /\ Returned(p, i) \in PoolType
           /\ Says(Returned(p, i), O \ {<<b, i>>})
           /\ Returned(p, i).free = p.free + 1
<1>1. /\ p.bitmask = Padding \cup {x[2] : x \in O}
      /\ p.free = obj_count - Cardinality(O)
      /\ p.free \in 0 .. obj_count /\ p.bitmask \subseteq Bit
  BY DEF Says, PoolType
<1>2. IsFiniteSet(O) /\ Cardinality(O) \in 1 .. obj_count
  <2>1. O # {}
    OBVIOUS
  <2>2. IsFiniteSet(O) /\ Cardinality(O) \in 0 .. obj_count /\ Cardinality(O) # 0
    BY <2>1, PoolRoom
  <2> QED
    BY <2>2
<1>3. Cardinality(O \ {<<b, i>>}) = Cardinality(O) - 1
  BY <1>2, FS_RemoveElement
<1>4. /\ Returned(p, i).free = p.free + 1
      /\ Returned(p, i).bitmask = p.bitmask \ {i}
      /\ Returned(p, i) = [free |-> p.free + 1, bitmask |-> p.bitmask \ {i}]
  BY DEF Returned
<1>5. Returned(p, i) \in PoolType
  BY <1>1, <1>2, <1>4 DEF PoolType
<1>6. p.bitmask \ {i} = Padding \cup {x[2] : x \in O \ {<<b, i>>}}
  <2>1. i \notin Padding
    BY BitsCover
  <2>2. \A x \in O : x = <<b, x[2]>>
    OBVIOUS
  <2>3. {x[2] : x \in O \ {<<b, i>>}} = {x[2] : x \in O} \ {i}
    BY <2>2
  <2> QED
    BY <1>1, <2>1, <2>3
<1>7. Says(Returned(p, i), O \ {<<b, i>>})
  BY <1>1, <1>2, <1>3, <1>4, <1>6 DEF Says
<1> QED
  BY <1>4, <1>5, <1>7

\* list_del() and list_add() move a pool to the head of a list.
LEMMA UnlinkIs ==
    ASSUME NEW s \in Seq(Block), IsInjective(s), NEW b
    PROVE  /\ Unlink(s, b) \in Seq(Block) /\ IsInjective(Unlink(s, b))
           /\ ToSet(Unlink(s, b)) = ToSet(s) \ {b}
<1>1. CASE b \in ToSet(s)
  <2> DEFINE i == CHOOSE j \in DOMAIN s : s[j] = b
  <2>1. i \in DOMAIN s /\ s[i] = b
    BY <1>1 DEF ToSet
  <2> HIDE DEF i
  <2>2. /\ RemoveAt(s, i) \in Seq(Block)
        /\ ToSet(RemoveAt(s, i)) = ToSet(s) \ {b}
        /\ IsInjective(RemoveAt(s, i))
    BY <2>1, RemoveQueue
  <2> QED
    BY <1>1, <2>2 DEF Unlink, i
<1>2. CASE b \notin ToSet(s)
  BY <1>2 DEF Unlink
<1> QED
  BY <1>1, <1>2

MovesTo(old, new, b, l) ==
    /\ new \in [ListName -> Seq(Block)]
    /\ \A m \in ListName : IsInjective(new[m])
    /\ \A m \in ListName : \A c :
          c \in ToSet(new[m]) <=> IF c = b THEN m = l ELSE c \in ToSet(old[m])

LEMMA MoveToIs ==
    ASSUME NEW lists \in [ListName -> Seq(Block)], \A m \in ListName : IsInjective(lists[m]),
           NEW b \in Block, NEW l \in ListName
    PROVE  MovesTo(lists, MoveTo(lists, b, l), b, l)
<1> DEFINE new == MoveTo(lists, b, l)
<1>1. \A m \in ListName : /\ Unlink(lists[m], b) \in Seq(Block)
                          /\ IsInjective(Unlink(lists[m], b))
                          /\ ToSet(Unlink(lists[m], b)) = ToSet(lists[m]) \ {b}
  BY UnlinkIs
<1>2. /\ <<b>> \o Unlink(lists[l], b) \in Seq(Block)
      /\ IsInjective(<<b>> \o Unlink(lists[l], b))
      /\ ToSet(<<b>> \o Unlink(lists[l], b)) = (ToSet(lists[l]) \ {b}) \cup {b}
  BY <1>1, PrependQueue
<1>3. /\ new[l] = <<b>> \o Unlink(lists[l], b)
      /\ \A m \in ListName : m # l => new[m] = Unlink(lists[m], b)
      /\ new = [m \in ListName |-> new[m]]
  BY DEF MoveTo
<1> HIDE DEF new
<1>4. \A m \in ListName : new[m] \in Seq(Block) /\ IsInjective(new[m])
  BY <1>1, <1>2, <1>3
<1>5. \A m \in ListName : \A c :
          c \in ToSet(new[m]) <=> IF c = b THEN m = l ELSE c \in ToSet(lists[m])
  BY <1>1, <1>2, <1>3
<1> QED
  BY <1>3, <1>4, <1>5 DEF MovesTo, new

-----------------------------------------------------------------------------
(***************************************************************************)
(* Allocating and freeing.                                                 *)
(***************************************************************************)
ResizeSound == resize \in [Thread -> held \cup {NoPiece}] /\ FreedOnce

\* An object is taken out of the pool p of block b, which is then on its right list
\* (alloc.c:211-235, 255-290).
LEMMA TakeKeeps ==
    ASSUME SlabInv, ~released,
           NEW b \in Block, NEW p \in PoolType, Says(p, Objects(b)), p.free # 0,
           Objects(b) \subseteq {b} \X Object, \A t \in Thread : ~Shrunk(b, t),
           MovesTo(list, list', b, ListFor(Taken(p).free)),
           pool' = [pool EXCEPT ![b] = Taken(p)],
           held' = held \cup {<<b, FirstZero(p)>>},
           cache_bit' = cache_bit \cup {b}, avail' = avail \ {b},
           UNCHANGED <<free_slabs, resize, released>>
    PROVE  /\ SlabInv'
           /\ <<b, FirstZero(p)>> \in AbstractHeap!Piece
           /\ AbstractHeap!Alloc(<<b, FirstZero(p)>>)
<1> DEFINE i == FirstZero(p)
           l == ListFor(Taken(p).free)
<1>0. SlabTypeOK /\ ListsInv /\ FreedOnce
  BY DEF SlabInv
<1>1. /\ i \in Object /\ <<b, i>> \notin Objects(b)
      /\ Taken(p) \in PoolType
      /\ Says(Taken(p), Objects(b) \cup {<<b, i>>})
  BY TakenIs
<1>2. l \in ListName
  BY DEF ListFor, ListName
<1> HIDE DEF i, l
<1>3. /\ list' \in [ListName -> Seq(Block)] /\ \A m \in ListName : IsInjective(list'[m])
      /\ \A m \in ListName : \A c : c \in ToSet(list'[m]) <=> IF c = b THEN m = l ELSE c \in ToSet(list[m])
  BY DEF MovesTo, l
<1>4. SlabTypeOK'
  <2>1. pool' \in [Block -> PoolType]
    BY <1>0, <1>1 DEF SlabTypeOK, PoolType
  <2>2. held' \subseteq Block \X ((0 .. obj_count - 1) \cup {Whole})
    BY <1>0, <1>1 DEF SlabTypeOK, Object, i
  <2>3. resize' \in [Thread -> held' \cup {NoPiece}]
    BY <1>0 DEF SlabTypeOK
  <2> QED
    BY <1>0, <1>3, <2>1, <2>2, <2>3 DEF SlabTypeOK, PoolType
<1>5. ListsInv' /\ FreedOnce'
  BY <1>0, <1>3 DEF ListsInv, FreedOnce
<1>6. Objects(b)' = Objects(b) \cup {<<b, i>>}
  BY DEF Objects, i
<1>7. Listed(b, l)'
  <2>1. pool'[b] = Taken(p)
    BY <1>0 DEF SlabTypeOK
  <2>2. ExactOn(b, l)'
    BY <1>1, <1>6, <2>1 DEF ExactOn, Says, l
  <2>3. /\ \A m \in ListName : OnList(b, m)' <=> m = l
        /\ \A t \in Thread : ~Shrunk(b, t)'
    BY <1>3 DEF OnList, Shrunk
  <2> QED
    BY <1>1, <1>6, <2>2, <2>3 DEF Listed
<1>8. ASSUME NEW c \in Block, c # b
      PROVE  BlockInv(c)'
  <2>1. Objects(c)' = Objects(c)
    BY <1>8 DEF Objects
  <2>2. pool'[c] = pool[c] /\ (c \in avail' <=> c \in avail) /\ (c \in cache_bit' <=> c \in cache_bit)
    BY <1>0, <1>8 DEF SlabTypeOK
  <2>3. /\ \A m \in ListName : OnList(c, m)' <=> OnList(c, m)
        /\ \A t \in Thread : Shrunk(c, t)' <=> Shrunk(c, t)
    BY <1>3, <1>8 DEF OnList, Shrunk
  <2>4. Untouched(c)
    BY <2>1, <2>2, <2>3 DEF Untouched
  <2> QED
    BY <2>4, UntouchedStays DEF SlabInv
<1>9. SlabInv'
  BY <1>2, <1>4, <1>5, <1>7, <1>8 DEF SlabInv, BlockInv
<1>10. AbstractHeap!Alloc(<<b, i>>)
  <2>1. ASSUME NEW y \in held
        PROVE  ~AbstractHeap!Overlap(<<b, i>>, y)
    <3>1. CASE y[1] = b
      <4>1. y \in Objects(b)
        BY <3>1 DEF Objects
      <4>2. y = <<b, y[2]>> /\ y[2] \in Object
        BY <4>1
      <4>3. y[2] # i /\ y[2] # Whole /\ i # Whole
        BY <1>1, <4>1, <4>2, BitsCover
      <4> QED
        BY <4>3 DEF AbstractHeap!Overlap
    <3>2. CASE y[1] # b
      BY <3>2 DEF AbstractHeap!Overlap
    <3> QED
      BY <3>1, <3>2
  <2> QED
    BY <2>1 DEF AbstractHeap!Alloc, i
<1>11. <<b, i>> \in AbstractHeap!Piece
  BY <1>1 DEF AbstractHeap!Piece, Object
<1> QED
  BY <1>9, <1>10, <1>11 DEF i

\* A client gets a block that the page allocator had (alloc.c:381-389, 413-440).
LEMMA TakeBlockKeeps ==
    ASSUME SlabInv, NEW b \in Block, TakeBlock(b), ResizeSound',
           UNCHANGED <<list, free_slabs, released>>
    PROVE  /\ SlabInv'
           /\ <<b, Whole>> \in AbstractHeap!Piece
           /\ AbstractHeap!Alloc(<<b, Whole>>)
<1>0. SlabTypeOK /\ ListsInv /\ FreedOnce
  BY DEF SlabInv
<1>1. /\ b \in avail /\ avail' = avail \ {b}
      /\ cache_bit' = cache_bit \ {b}
      /\ pool' = [pool EXCEPT ![b] = Garbage]
      /\ held' = held \cup {<<b, Whole>>}
  BY DEF TakeBlock
<1>2. Available(b)
  BY <1>1 DEF SlabInv, BlockInv, Listed, Leaving, Given
<1>3. SlabTypeOK'
  <2>1. Garbage \in PoolType
    BY DEF Garbage, PoolType
  <2>2. pool' \in [Block -> PoolType]
    BY <1>0, <1>1, <2>1 DEF SlabTypeOK, PoolType
  <2>3. held' \subseteq Block \X ((0 .. obj_count - 1) \cup {Whole})
    BY <1>0, <1>1 DEF SlabTypeOK
  <2> QED
    BY <1>0, <1>1, <2>2, <2>3 DEF SlabTypeOK, PoolType, ResizeSound
<1>4. ListsInv' /\ FreedOnce'
  BY <1>0 DEF ListsInv, ResizeSound
<1>5. Given(b)'
  <2>1. Objects(b)' = {<<b, Whole>>}
    BY <1>1, <1>2 DEF Available, Objects
  <2> QED
    BY <1>1, <1>2, <2>1 DEF Available, Given, OnList, Shrunk
<1>6. ASSUME NEW c \in Block, c # b
      PROVE  BlockInv(c)'
  <2>1. Objects(c)' = Objects(c)
    BY <1>1, <1>6 DEF Objects
  <2>2. Untouched(c)
    BY <1>0, <1>1, <1>6, <2>1 DEF Untouched, SlabTypeOK, OnList, Shrunk
  <2> QED
    BY <2>2, UntouchedStays DEF SlabInv
<1>7. AbstractHeap!Alloc(<<b, Whole>>)
  <2>1. \A y \in held : y[1] # b
    BY <1>2 DEF Available, Objects
  <2> QED
    BY <1>1, <2>1 DEF AbstractHeap!Alloc, AbstractHeap!Overlap
<1> QED
  BY <1>3, <1>4, <1>5, <1>6, <1>7 DEF SlabInv, BlockInv, AbstractHeap!Piece

\* Where mem_cache_free() leaves a pool: on the list for what it holds now
\* (alloc.c:309-318).
LEMMA AfterFreeIs ==
    ASSUME SlabTypeOK, ListsInv, ~released, NEW b \in Block, NEW n \in 1 .. obj_count,
           \A m \in ListName : b \in ToSet(list[m]) <=> m = ListFor(n - 1)
    PROVE  MovesTo(list, ListsAfterFree(b, n), b, ListFor(n))
<1> USE DEF ListName
<1>0. list \in [ListName -> Seq(Block)] /\ \A m \in ListName : IsInjective(list[m])
  BY DEF SlabTypeOK, ListsInv
<1>1. MovesTo(list, MoveTo(list, b, "partial"), b, "partial")
  BY <1>0, MoveToIs
<1>2. MovesTo(list, MoveTo(list, b, "free"), b, "free")
  BY <1>0, MoveToIs
<1>3. CASE n = obj_count
  <2>1. ListsAfterFree(b, n) = MoveTo(list, b, "free") /\ ListFor(n) = "free"
    BY <1>3 DEF ListsAfterFree, ListFor
  <2> QED
    BY <1>2, <2>1
<1>4. CASE n = 1
  <2>1. ListsAfterFree(b, n) = MoveTo(list, b, "partial") /\ ListFor(n) = "partial"
    BY <1>4 DEF ListsAfterFree, ListFor
  <2> QED
    BY <1>1, <2>1
<1>5. CASE n # 1 /\ n # obj_count
  <2>1. ListsAfterFree(b, n) = list /\ ListFor(n) = "partial" /\ ListFor(n - 1) = "partial"
    BY <1>5 DEF ListsAfterFree, ListFor
  <2>2. MovesTo(list, list, b, "partial")
    BY <1>0, <2>1 DEF MovesTo
  <2> QED
    BY <2>1, <2>2
<1> QED
  BY <1>3, <1>4, <1>5

\* mem_free() and the end of mem_realloc(): the page bit tells what x is, and an object
\* goes back to its pool (alloc.c:301-326, 393-411).
LEMMA ReleaseKeeps ==
    ASSUME SlabInv, NEW x \in held, Release(x), ResizeSound',
           UNCHANGED <<free_slabs, released>>
    PROVE  SlabInv' /\ x \in AbstractHeap!Piece /\ AbstractHeap!Release(x)
<1> DEFINE b == x[1]
<1>0. /\ SlabTypeOK /\ ListsInv /\ FreedOnce
      /\ held' = held \ {x}
      /\ b \in Block /\ x = <<b, x[2]>> /\ x[2] \in Object \cup {Whole}
      /\ Whole \notin Object
  BY PieceIs, BitsCover DEF SlabInv, Release
<1>1. \A c \in Block : c # b => Objects(c)' = Objects(c)
  BY <1>0 DEF Objects
<1>2. x \in Objects(b) /\ Objects(b)' = Objects(b) \ {x}
  BY <1>0 DEF Objects
<1>3. ASSUME x[2] = Whole
      PROVE  SlabInv'
  <2>1. Given(b)
    BY <1>3, PieceIs
  <2>2. PageFree(x)
    BY <2>1 DEF Given, Release
  <2>3. /\ cache_bit' = cache_bit \ {b} /\ avail' = avail \cup {b}
        /\ UNCHANGED <<pool, list>>
    BY <2>2 DEF PageFree
  <2>4. SlabTypeOK'
    BY <1>0, <2>3 DEF SlabTypeOK, ResizeSound
  <2>5. ListsInv' /\ FreedOnce'
    BY <1>0, <2>3 DEF ListsInv, ResizeSound
  <2>6. Available(b)'
    <3>1. Objects(b)' = {}
      BY <1>0, <1>2, <1>3, <2>1 DEF Given
    <3> QED
      BY <2>1, <2>3, <3>1 DEF Given, Available, OnList, Shrunk
  <2>7. ASSUME NEW c \in Block, c # b
        PROVE  BlockInv(c)'
    <3>1. Untouched(c)
      BY <1>1, <2>3, <2>7 DEF Untouched, OnList, Shrunk
    <3> QED
      BY <3>1, UntouchedStays DEF SlabInv
  <2> QED
    BY <2>4, <2>5, <2>6, <2>7 DEF SlabInv, BlockInv
<1>4. ASSUME x[2] # Whole
      PROVE  SlabInv'
  <2>1. x[2] \in Object /\ PosOf(x) = x[2]
    BY <1>0, <1>4 DEF PosOf
  <2>2. PICK l \in ListName : Listed(b, l)
    BY <1>4, PieceIs
  <2>0. PICK p, k : p = Returned(pool[b], x[2]) /\ k = ListFor(p.free)
    OBVIOUS
  <2>3. /\ ~released /\ b \in cache_bit /\ pool[b] \in PoolType
        /\ Says(pool[b], Objects(b)) /\ l = ListFor(pool[b].free)
        /\ Objects(b) \subseteq {b} \X Object
    BY <1>0, <2>2 DEF Listed, ExactOn, OnList, SlabTypeOK, PoolType
  <2>4. /\ pool' = [pool EXCEPT ![b] = p]
        /\ list' = ListsAfterFree(b, p.free)
        /\ UNCHANGED <<cache_bit, avail>>
    BY <2>0, <2>1, <2>3 DEF Release, MemCacheFree
  <2>5. /\ p \in PoolType /\ Says(p, Objects(b)')
        /\ p.free = pool[b].free + 1
    <3>1. <<b, x[2]>> \in Objects(b) /\ Objects(b)' = Objects(b) \ {<<b, x[2]>>}
      BY <1>0, <1>2
    <3>2. Objects(b) \in SUBSET ({b} \X Object)
      BY <2>3
    <3>3. /\ Returned(pool[b], x[2]) \in PoolType
          /\ Says(Returned(pool[b], x[2]), Objects(b) \ {<<b, x[2]>>})
          /\ Returned(pool[b], x[2]).free = pool[b].free + 1
      <4>1. PICK c, q, O, i : c = b /\ q = pool[b] /\ O = Objects(b) /\ i = x[2]
        OBVIOUS
      <4>2. q \in PoolType /\ O \in SUBSET ({c} \X Object) /\ Says(q, O) /\ i \in Object /\ <<c, i>> \in O
        BY <2>1, <2>3, <3>1, <3>2, <4>1
      <4>3. /\ Returned(q, i) \in PoolType
            /\ Says(Returned(q, i), O \ {<<c, i>>})
            /\ Returned(q, i).free = q.free + 1
        BY <4>2, ReturnedIs
      <4> QED
        BY <4>1, <4>3
    <3> QED
      BY <2>0, <3>1, <3>3
  <2>6. p.free \in 1 .. obj_count /\ p.free - 1 = pool[b].free
    BY <2>3, <2>5 DEF PoolType
  <2>7. MovesTo(list, list', b, k)
    <3>1. \A m \in ListName : b \in ToSet(list[m]) <=> m = ListFor(p.free - 1)
      BY <2>2, <2>3, <2>6 DEF Listed, OnList
    <3> QED
      BY <1>0, <2>0, <2>3, <2>4, <2>6, <3>1, AfterFreeIs
  <2>8. /\ list' \in [ListName -> Seq(Block)] /\ \A m \in ListName : IsInjective(list'[m])
        /\ \A m \in ListName : \A c :
              c \in ToSet(list'[m]) <=> IF c = b THEN m = k ELSE c \in ToSet(list[m])
    BY <2>7 DEF MovesTo
  <2>9. SlabTypeOK'
    <3>1. pool' \in [Block -> PoolType]
      BY <1>0, <2>4, <2>5 DEF SlabTypeOK, PoolType
    <3> QED
      BY <1>0, <2>4, <2>8, <3>1 DEF SlabTypeOK, PoolType, ResizeSound
  <2>10. ListsInv' /\ FreedOnce'
    BY <1>0, <2>8 DEF ListsInv, ResizeSound
  <2>11. k \in ListName
    BY <2>0 DEF ListFor, ListName
  <2>12. Listed(b, k)'
    <3>1. pool'[b] = p
      BY <1>0, <2>4 DEF SlabTypeOK
    <3>2. ExactOn(b, k)'
      BY <2>0, <2>3, <2>4, <2>5, <3>1 DEF ExactOn, Says
    <3>3. Objects(b)' \subseteq {b} \X Object
      BY <1>2, <2>3
    <3>4. /\ \A m \in ListName : OnList(b, m)' <=> m = k
          /\ \A t \in Thread : ~Shrunk(b, t)'
      BY <2>2, <2>3, <2>8 DEF Listed, OnList, Shrunk
    <3> QED
      BY <2>2, <2>4, <3>2, <3>3, <3>4 DEF Listed
  <2>13. ASSUME NEW c \in Block, c # b
         PROVE  BlockInv(c)'
    <3>1. pool'[c] = pool[c]
      BY <1>0, <2>4, <2>13 DEF SlabTypeOK
    <3>2. \A m \in ListName : OnList(c, m)' <=> OnList(c, m)
      BY <2>8, <2>13 DEF OnList
    <3>3. Untouched(c)
      BY <1>1, <2>4, <2>13, <3>1, <3>2 DEF Untouched, Shrunk
    <3> QED
      BY <3>3, UntouchedStays DEF SlabInv
  <2> QED
    BY <2>9, <2>10, <2>11, <2>12, <2>13 DEF SlabInv, BlockInv
<1>5. x \in AbstractHeap!Piece /\ AbstractHeap!Release(x)
  BY <1>0 DEF AbstractHeap!Piece, AbstractHeap!Release, Object
<1> QED
  BY <1>3, <1>4, <1>5

\* mem_cache_alloc(): a pool that has an object left, the head of the list that it is on
\* for that, or a new one (alloc.c:253-299).
LEMMA AllocKeeps ==
    ASSUME SlabInv, MemCacheAlloc
    PROVE  SlabInv' /\ \E x \in AbstractHeap!Piece : AbstractHeap!Alloc(x)
<1>0. /\ SlabTypeOK /\ ListsInv /\ ~released
      /\ list \in [ListName -> Seq(Block)] /\ \A m \in ListName : IsInjective(list[m])
      /\ pool \in [Block -> PoolType]
      /\ UNCHANGED <<free_slabs, resize, released>>
  BY DEF SlabInv, SlabTypeOK, ListsInv, PoolType, MemCacheAlloc
<1>1. ASSUME NEW l \in ListName, list[l] # <<>>
      PROVE  Head(list[l]) \in Block /\ Listed(Head(list[l]), l)
  <2>1. Head(list[l]) \in Block /\ Head(list[l]) \in ToSet(list[l])
    BY <1>0, <1>1, PopQueue
  <2>2. OnList(Head(list[l]), l)
    BY <1>0, <2>1 DEF OnList
  <2> QED
    BY <2>1, <2>2 DEF SlabInv, BlockInv, Listed, Leaving, Available, Given
<1>2. CASE AllocFromPartial
  <2>1. PICK b : b = Head(list["partial"])
    OBVIOUS
  <2>2. b \in Block /\ Listed(b, "partial")
    BY <1>1, <1>2, <2>1 DEF AllocFromPartial, ListName
  <2>3. /\ TakeFrom(b, pool[b], IF Taken(pool[b]).free = 0 THEN MoveTo(list, b, "busy") ELSE list)
        /\ UNCHANGED <<cache_bit, avail>>
    BY <1>2, <2>1 DEF AllocFromPartial
  <2>4. /\ Says(pool[b], Objects(b)) /\ pool[b] \in PoolType /\ b \in cache_bit /\ b \notin avail
        /\ Objects(b) \subseteq {b} \X Object /\ \A t \in Thread : ~Shrunk(b, t)
        /\ pool[b].free # 0 /\ pool[b].free # obj_count
    BY <1>0, <2>2 DEF Listed, ExactOn, ListFor
  <2>5. Taken(pool[b]).free = pool[b].free - 1
    BY DEF Taken
  <2>6. MovesTo(list, list', b, ListFor(Taken(pool[b]).free))
    <3>1. CASE Taken(pool[b]).free = 0
      <4>1. list' = MoveTo(list, b, "busy") /\ ListFor(Taken(pool[b]).free) = "busy"
        BY <2>3, <3>1 DEF TakeFrom, ListFor
      <4> QED
        BY <1>0, <2>2, <4>1, MoveToIs DEF ListName
    <3>2. CASE Taken(pool[b]).free # 0
      <4>1. list' = list
        BY <2>3, <3>2 DEF TakeFrom
      <4>2. ListFor(Taken(pool[b]).free) = "partial"
        BY <2>4, <2>5, <3>2 DEF ListFor, PoolType
      <4>3. \A m \in ListName : b \in ToSet(list[m]) <=> m = "partial"
        BY <1>0, <2>2 DEF Listed, OnList
      <4> QED
        BY <1>0, <4>1, <4>2, <4>3 DEF MovesTo
    <3> QED
      BY <3>1, <3>2
  <2>7. /\ pool' = [pool EXCEPT ![b] = Taken(pool[b])]
        /\ held' = held \cup {<<b, FirstZero(pool[b])>>}
        /\ cache_bit' = cache_bit \cup {b} /\ avail' = avail \ {b}
    BY <2>3, <2>4 DEF TakeFrom
  <2> QED
    BY <1>0, <2>2, <2>4, <2>6, <2>7, TakeKeeps
<1>3. CASE AllocFromFree
  <2>1. PICK b : b = Head(list["free"])
    OBVIOUS
  <2>2. b \in Block /\ Listed(b, "free")
    BY <1>1, <1>3, <2>1 DEF AllocFromFree, ListName
  <2>3. /\ TakeFrom(b, pool[b], IF Taken(pool[b]).free # obj_count THEN MoveTo(list, b, "partial") ELSE list)
        /\ UNCHANGED <<cache_bit, avail>>
    BY <1>3, <2>1 DEF AllocFromFree
  <2>4. /\ Says(pool[b], Objects(b)) /\ pool[b] \in PoolType /\ b \in cache_bit /\ b \notin avail
        /\ Objects(b) \subseteq {b} \X Object /\ \A t \in Thread : ~Shrunk(b, t)
        /\ pool[b].free = obj_count
    BY <1>0, <2>2 DEF Listed, ExactOn, ListFor
  <2>5. Taken(pool[b]).free = obj_count - 1
    BY <2>4 DEF Taken
  <2>6. list' = MoveTo(list, b, "partial") /\ ListFor(Taken(pool[b]).free) = "partial"
    BY <2>3, <2>5 DEF TakeFrom, ListFor
  <2>7. MovesTo(list, list', b, ListFor(Taken(pool[b]).free))
    BY <1>0, <2>2, <2>6, MoveToIs DEF ListName
  <2>8. /\ pool' = [pool EXCEPT ![b] = Taken(pool[b])]
        /\ held' = held \cup {<<b, FirstZero(pool[b])>>}
        /\ cache_bit' = cache_bit \cup {b} /\ avail' = avail \ {b}
    BY <2>3, <2>4 DEF TakeFrom
  <2>9. pool[b].free # 0
    BY <2>4
  <2> QED
    BY <1>0, <2>2, <2>4, <2>7, <2>8, <2>9, TakeKeeps
<1>4. CASE AllocFromNew
  <2>1. PICK b \in avail : /\ TakeFrom(b, NewPool, MoveTo(list, b, "partial"))
                           /\ avail' = avail \ {b}
                           /\ cache_bit' = cache_bit \cup {b}
    BY <1>4 DEF AllocFromNew
  <2>2. b \in Block /\ Available(b)
    BY <1>0 DEF SlabTypeOK, SlabInv, BlockInv, Listed, Leaving, Given
  <2>3. Objects(b) = {} /\ \A t \in Thread : ~Shrunk(b, t)
    BY <2>2 DEF Available
  <2>4. NewPool \in PoolType /\ NewPool.free = obj_count /\ NewPool.bitmask = Padding
    BY BitsCover DEF NewPool, PoolType
  <2>5. Says(NewPool, Objects(b))
    BY <2>3, <2>4, FS_EmptySet DEF Says
  <2>6. list' = MoveTo(list, b, "partial") /\ ListFor(Taken(NewPool).free) = "partial"
    BY <2>1, <2>4 DEF TakeFrom, ListFor, Taken
  <2>7. MovesTo(list, list', b, ListFor(Taken(NewPool).free))
    BY <1>0, <2>2, <2>6, MoveToIs DEF ListName
  <2>8. /\ pool' = [pool EXCEPT ![b] = Taken(NewPool)]
        /\ held' = held \cup {<<b, FirstZero(NewPool)>>}
    BY <2>1 DEF TakeFrom
  <2>9. NewPool.free # 0 /\ Objects(b) \subseteq {b} \X Object
    BY <2>3, <2>4
  <2> QED
    BY <1>0, <2>1, <2>2, <2>3, <2>4, <2>5, <2>7, <2>8, <2>9, TakeKeeps
<1> QED
  BY <1>2, <1>3, <1>4 DEF MemCacheAlloc

-----------------------------------------------------------------------------
(***************************************************************************)
(* Shrinking, releasing and setting up the cache.                          *)
(***************************************************************************)

\* mem_cache_shrink() under the lock: the free pools leave the cache together and are
\* from then on on the list of one thread (alloc.c:156-169).
LEMMA ShrinkKeeps ==
    ASSUME SlabInv, NEW t \in Thread, MemCacheShrink(t)
    PROVE  SlabInv' /\ UNCHANGED held
<1>0. /\ SlabTypeOK /\ ListsInv /\ FreedOnce /\ ~released
      /\ free_slabs[t] = <<>>
      /\ free_slabs' = [free_slabs EXCEPT ![t] = list["free"]]
      /\ list' = [list EXCEPT !["free"] = <<>>]
      /\ UNCHANGED <<pool, cache_bit, avail, resize, released, held>>
  BY DEF SlabInv, MemCacheShrink
<1>1. /\ list["free"] \in Seq(Block) /\ IsInjective(list["free"])
      /\ <<>> \in Seq(Block) /\ ToSet(<<>>) = {} /\ IsInjective(<<>>)
  BY <1>0, EmptyQueue DEF SlabTypeOK, ListsInv, ListName
<1>2. /\ free_slabs'[t] = list["free"] /\ \A u \in Thread : u # t => free_slabs'[u] = free_slabs[u]
      /\ list'["free"] = <<>> /\ \A m \in ListName : m # "free" => list'[m] = list[m]
      /\ free_slabs' \in [Thread -> Seq(Block)] /\ list' \in [ListName -> Seq(Block)]
  BY <1>0, <1>1 DEF SlabTypeOK, ListName
<1>3. SlabTypeOK' /\ ListsInv' /\ FreedOnce'
  BY <1>0, <1>1, <1>2 DEF SlabTypeOK, ListsInv, FreedOnce
<1>4. ASSUME NEW b \in Block, Listed(b, "free")
      PROVE  Leaving(b, t)'
  <2>1. Objects(b)' = Objects(b) /\ pool'[b] = pool[b]
    BY <1>0 DEF Objects
  <2>2. /\ b \in ToSet(list["free"]) /\ \A m \in ListName : m # "free" => b \notin ToSet(list[m])
        /\ \A u \in Thread : b \notin ToSet(free_slabs[u])
        /\ b \notin avail /\ Says(pool[b], Objects(b)) /\ "free" = ListFor(pool[b].free)
        /\ Objects(b) \in SUBSET ({b} \X Object) /\ pool[b] \in PoolType
    BY <1>0, <1>4 DEF Listed, OnList, Shrunk, ExactOn, ListName, SlabTypeOK, PoolType
  <2>3. pool[b].free = obj_count /\ Cardinality(Objects(b)) \in 0 .. obj_count
    BY <2>2, PoolRoom DEF ListFor, PoolType
  <2>4. Objects(b) = {}
    <3>1. Cardinality(Objects(b)) = 0
      BY <2>2, <2>3 DEF Says
    <3> QED
      BY <2>2, <3>1, PoolRoom
  <2>5. pool[b] = NewPool
    <3>1. pool[b].bitmask = Padding
      BY <2>2, <2>4 DEF Says
    <3>2. pool[b] = [free |-> pool[b].free, bitmask |-> pool[b].bitmask]
      BY <2>2 DEF PoolType
    <3> QED
      BY <2>3, <3>1, <3>2 DEF NewPool
  <2>6. /\ \A m \in ListName : ~OnList(b, m)'
        /\ \A u \in Thread : Shrunk(b, u)' <=> u = t
    BY <1>1, <1>2, <2>2 DEF OnList, Shrunk
  <2> QED
    BY <1>0, <2>1, <2>2, <2>4, <2>5, <2>6 DEF Leaving
<1>5. ASSUME NEW b \in Block, ~Listed(b, "free")
      PROVE  BlockInv(b)'
  <2>1. b \notin ToSet(list["free"])
    BY <1>0, <1>5 DEF SlabInv, BlockInv, Listed, Leaving, Available, Given, OnList, ListName
  <2>2. b \notin ToSet(free_slabs[t])
    BY <1>0, <1>1
  <2>3. /\ \A m \in ListName : OnList(b, m)' <=> OnList(b, m)
        /\ \A u \in Thread : Shrunk(b, u)' <=> Shrunk(b, u)
    BY <1>0, <1>1, <1>2, <2>1, <2>2 DEF OnList, Shrunk
  <2>4. Untouched(b)
    BY <1>0, <2>3 DEF Untouched, Objects
  <2> QED
    BY <2>4, UntouchedStays DEF SlabInv
<1> QED
  BY <1>0, <1>3, <1>4, <1>5 DEF SlabInv, BlockInv

\* One turn of its loop, after the lock was released: the pool is still as it was, so
\* the BUG_ON of mem_pool_destroy() does not fire (alloc.c:131-143, 171-176).
LEMMA DestroyKeeps ==
    ASSUME SlabInv, NEW t \in Thread, DestroyNext(t)
    PROVE  SlabInv' /\ UNCHANGED held
<1>1. PICK b : b = Head(free_slabs[t])
  OBVIOUS
<1>0. /\ SlabTypeOK /\ ListsInv /\ FreedOnce
      /\ free_slabs[t] # <<>>
      /\ cache_bit' = cache_bit \ {b} /\ avail' = avail \cup {b}
      /\ free_slabs' = [free_slabs EXCEPT ![t] = Tail(free_slabs[t])]
      /\ UNCHANGED <<list, pool, resize, released, held>>
  BY <1>1 DEF SlabInv, DestroyNext
<1>2. /\ b \in Block /\ b \in ToSet(free_slabs[t])
      /\ Tail(free_slabs[t]) \in Seq(Block) /\ IsInjective(Tail(free_slabs[t]))
      /\ ToSet(Tail(free_slabs[t])) = ToSet(free_slabs[t]) \ {b}
  <2>1. free_slabs[t] \in Seq(Block) /\ IsInjective(free_slabs[t])
    BY <1>0 DEF SlabTypeOK, ListsInv
  <2> QED
    BY <1>0, <1>1, <2>1, PopQueue
<1>3. /\ free_slabs'[t] = Tail(free_slabs[t]) /\ free_slabs' \in [Thread -> Seq(Block)]
      /\ \A u \in Thread : u # t => free_slabs'[u] = free_slabs[u]
  BY <1>0, <1>2 DEF SlabTypeOK
<1>4. SlabTypeOK' /\ ListsInv' /\ FreedOnce'
  BY <1>0, <1>2, <1>3 DEF SlabTypeOK, ListsInv, FreedOnce
<1>5. Leaving(b, t)
  <2>1. Shrunk(b, t)
    BY <1>2 DEF Shrunk
  <2> QED
    BY <1>2, <2>1 DEF SlabInv, BlockInv, Listed, Leaving, Available, Given
<1>6. Available(b)'
  <2>1. Objects(b)' = Objects(b)
    BY <1>0 DEF Objects
  <2>2. /\ \A m \in ListName : ~OnList(b, m)'
        /\ \A u \in Thread : ~Shrunk(b, u)'
    BY <1>0, <1>2, <1>3, <1>5 DEF Leaving, OnList, Shrunk
  <2> QED
    BY <1>0, <1>5, <2>1, <2>2 DEF Leaving, Available
<1>7. ASSUME NEW c \in Block, c # b
      PROVE  BlockInv(c)'
  <2>1. \A u \in Thread : Shrunk(c, u)' <=> Shrunk(c, u)
    BY <1>2, <1>3, <1>7 DEF Shrunk
  <2>2. Untouched(c)
    BY <1>0, <1>7, <2>1 DEF Untouched, OnList, Objects
  <2> QED
    BY <2>2, UntouchedStays DEF SlabInv
<1> QED
  BY <1>0, <1>4, <1>6, <1>7 DEF SlabInv, BlockInv

\* What holds of a listed pool that no client has an object of.
LEMMA IdlePool ==
    ASSUME SlabTypeOK, NEW b \in Block, NEW l \in ListName, Listed(b, l), Objects(b) = {}
    PROVE  l = "free"
<1>1. Cardinality(Objects(b)) = 0
  BY FS_EmptySet
<1>2. pool[b].free = obj_count
  BY <1>1 DEF Listed, ExactOn, Says
<1> QED
  BY <1>2 DEF Listed, ExactOn, ListFor

\* mem_cache_release() destroys the free pools, which are all the pools when clients
\* have returned every object (alloc.c:178-190).
LEMMA CacheReleaseKeeps ==
    ASSUME SlabInv, MemCacheRelease
    PROVE  SlabInv' /\ UNCHANGED held
<1>0. /\ SlabTypeOK /\ ListsInv /\ FreedOnce /\ ~released
      /\ \A x \in held : x[2] = Whole
      /\ avail' = avail \cup ToSet(list["free"])
      /\ cache_bit' = cache_bit \ ToSet(list["free"])
      /\ released' = TRUE
      /\ UNCHANGED <<list, pool, free_slabs, resize, held>>
  BY DEF SlabInv, MemCacheRelease
<1>1. ToSet(list["free"]) \subseteq Block
  BY <1>0 DEF SlabTypeOK, ToSet, ListName
<1>2. SlabTypeOK' /\ ListsInv' /\ FreedOnce'
  BY <1>0, <1>1 DEF SlabTypeOK, ListsInv, FreedOnce
<1>3. ASSUME NEW b \in Block
      PROVE  Objects(b)' = Objects(b)
  BY <1>0 DEF Objects
<1>4. ASSUME NEW b \in Block, NEW l \in ListName, Listed(b, l)
      PROVE  Available(b)'
  <2>1. Objects(b) = {}
    <3>1. \A x \in Objects(b) : x[2] = Whole /\ x[2] \in Object
      BY <1>0, <1>4 DEF Objects, Listed
    <3> QED
      BY <3>1, BitsCover
  <2>2. b \in ToSet(list["free"])
    BY <1>0, <1>4, <2>1, IdlePool DEF Listed, OnList
  <2> QED
    BY <1>0, <1>3, <1>4, <2>1, <2>2 DEF Listed, Available, OnList, Shrunk
<1>5. ASSUME NEW b \in Block, \A l \in ListName : ~Listed(b, l)
      PROVE  BlockInv(b)'
  <2>1. \A l \in ListName : b \notin ToSet(list[l])
    BY <1>0, <1>5 DEF SlabInv, BlockInv, Leaving, Available, Given, OnList
  <2>2. Untouched(b)
    BY <1>0, <1>3, <2>1 DEF Untouched, OnList, Shrunk, ListName
  <2> QED
    BY <2>2, UntouchedStays DEF SlabInv
<1> QED
  BY <1>0, <1>2, <1>4, <1>5 DEF SlabInv, BlockInv

\* mem_cache_setup() makes the lists of the cache empty again (alloc.c:145-154).
LEMMA SetupKeeps ==
    ASSUME SlabInv, MemCacheSetup
    PROVE  SlabInv' /\ UNCHANGED held
<1>0. /\ SlabTypeOK /\ ListsInv /\ FreedOnce /\ released
      /\ list' = [l \in ListName |-> <<>>]
      /\ released' = FALSE
      /\ UNCHANGED <<pool, cache_bit, avail, free_slabs, resize, held>>
  BY DEF SlabInv, MemCacheSetup
<1>1. /\ \A l \in ListName : list'[l] = <<>>
      /\ list' \in [ListName -> Seq(Block)]
      /\ ToSet(<<>>) = {} /\ IsInjective(<<>>)
  BY <1>0, EmptyQueue
<1>2. SlabTypeOK' /\ ListsInv' /\ FreedOnce'
  BY <1>0, <1>1 DEF SlabTypeOK, ListsInv, FreedOnce
<1>3. ASSUME NEW b \in Block
      PROVE  BlockInv(b)'
  <2>1. Objects(b)' = Objects(b)
    BY <1>0 DEF Objects
  <2>2. Untouched(b)
    BY <1>0, <1>1, <2>1 DEF Untouched, OnList, Shrunk
  <2> QED
    BY <2>2, UntouchedStays DEF SlabInv
<1> QED
  BY <1>0, <1>2, <1>3 DEF SlabInv

-----------------------------------------------------------------------------
(***************************************************************************)
(* The general purpose allocator.                                          *)
(***************************************************************************)

LEMMA LargeKeeps ==
    ASSUME SlabInv, MemAllocLarge
    PROVE  SlabInv' /\ \E x \in AbstractHeap!Piece : AbstractHeap!Alloc(x)
<1>1. PICK b \in Block : TakeBlock(b)
  BY DEF MemAllocLarge
<1>2. UNCHANGED <<list, free_slabs, resize, released>>
  BY DEF MemAllocLarge
<1>3. ResizeSound'
  BY <1>1, <1>2 DEF SlabInv, SlabTypeOK, ResizeSound, FreedOnce, TakeBlock
<1> QED
  BY <1>1, <1>2, <1>3, TakeBlockKeeps

\* A client frees what it has, unless mem_realloc() is about to.
LEMMA FreeKeeps ==
    ASSUME SlabInv, MemFree
    PROVE  SlabInv' /\ \E x \in AbstractHeap!Piece : AbstractHeap!Release(x)
<1>1. PICK x \in held : x \notin {resize[t] : t \in Thread} /\ Release(x)
  BY DEF MemFree
<1>2. UNCHANGED <<free_slabs, resize, released>>
  BY DEF MemFree
<1>3. ResizeSound'
  <2>1. held' = held \ {x}
    BY <1>1 DEF Release
  <2>2. \A t \in Thread : resize[t] \in (held \ {x}) \cup {NoPiece}
    BY <1>1 DEF SlabInv, SlabTypeOK
  <2>3. resize' \in [Thread -> held' \cup {NoPiece}]
    BY <1>2, <2>1, <2>2 DEF SlabInv, SlabTypeOK
  <2> QED
    BY <1>2, <2>3 DEF SlabInv, ResizeSound, FreedOnce
<1> QED
  BY <1>1, <1>2, <1>3, ReleaseKeeps

\* mem_realloc() up to the copy: the thread has the new block and the old object.
LEMMA ReallocKeeps ==
    ASSUME SlabInv, NEW t \in Thread, MemRealloc(t)
    PROVE  SlabInv' /\ \E x \in AbstractHeap!Piece : AbstractHeap!Alloc(x)
<1>1. PICK x \in held, b \in Block :
          /\ x \notin {resize[u] : u \in Thread}
          /\ TakeBlock(b)
          /\ resize' = [resize EXCEPT ![t] = x]
  BY DEF MemRealloc
<1>2. UNCHANGED <<list, free_slabs, released>>
  BY DEF MemRealloc
<1>3. ResizeSound'
  <2>1. held' = held \cup {<<b, Whole>>} /\ resize \in [Thread -> held \cup {NoPiece}]
    BY <1>1 DEF TakeBlock, SlabInv, SlabTypeOK
  <2>2. resize' \in [Thread -> held' \cup {NoPiece}]
    BY <1>1, <2>1
  <2>3. /\ resize'[t] = x
        /\ \A u \in Thread : u # t => resize'[u] = resize[u] /\ resize[u] # x
    BY <1>1, <2>1
  <2>4. FreedOnce'
    BY <2>3 DEF SlabInv, FreedOnce
  <2> QED
    BY <2>2, <2>4 DEF ResizeSound
<1> QED
  BY <1>1, <1>2, <1>3, TakeBlockKeeps

\* The end of mem_realloc(): nobody else frees the old object.
LEMMA ReallocFreeKeeps ==
    ASSUME SlabInv, NEW t \in Thread, MemReallocFree(t)
    PROVE  SlabInv' /\ \E x \in AbstractHeap!Piece : AbstractHeap!Release(x)
<1>1. PICK x : x = resize[t]
  OBVIOUS
<1>2. /\ x # NoPiece /\ Release(x)
      /\ resize' = [resize EXCEPT ![t] = NoPiece]
      /\ UNCHANGED <<free_slabs, released>>
  BY <1>1 DEF MemReallocFree
<1>3. resize \in [Thread -> held \cup {NoPiece}] /\ x \in held
  BY <1>1, <1>2 DEF SlabInv, SlabTypeOK
<1>4. ResizeSound'
  <2>1. held' = held \ {x}
    BY <1>2 DEF Release
  <2>2. /\ resize'[t] = NoPiece
        /\ \A u \in Thread : u # t => resize'[u] = resize[u] /\ resize[u] # x
    BY <1>1, <1>2, <1>3 DEF SlabInv, FreedOnce
  <2>3. resize' \in [Thread -> held' \cup {NoPiece}]
    BY <1>2, <1>3, <2>1, <2>2
  <2>4. FreedOnce'
    BY <2>2 DEF SlabInv, FreedOnce
  <2> QED
    BY <2>3, <2>4 DEF ResizeSound
<1> QED
  BY <1>2, <1>3, <1>4, ReleaseKeeps

-----------------------------------------------------------------------------
(***************************************************************************)
(* The theorems.                                                           *)
(***************************************************************************)

LEMMA SlabInitInv == SlabInit => SlabInv
<1> SUFFICES ASSUME SlabInit
             PROVE  SlabInv
  OBVIOUS
<1> USE DEF SlabInit
<1>1. <<>> \in Seq(Block) /\ ToSet(<<>>) = {} /\ IsInjective(<<>>)
  BY EmptyQueue
<1>2. Garbage \in PoolType
  BY DEF Garbage, PoolType
<1>3. SlabTypeOK
  BY <1>1, <1>2 DEF SlabTypeOK, PoolType
<1>4. ListsInv /\ FreedOnce
  BY <1>1 DEF ListsInv, FreedOnce
<1>5. \A b \in Block : Available(b)
  BY <1>1 DEF Available, OnList, Shrunk, Objects
<1> QED
  BY <1>3, <1>4, <1>5 DEF SlabInv, BlockInv

\* A step of the allocator keeps the invariant, and is a step of the abstract heap or
\* changes nothing of what clients hold.
LEMMA SlabNextInv ==
    ASSUME SlabInv, [SlabNext]_slab_vars
    PROVE  SlabInv' /\ [AbstractHeap!Next]_held
<1> DEFINE Step == SlabInv' /\ [AbstractHeap!Next]_held
<1>1. ASSUME MemCacheAlloc PROVE Step
  BY <1>1, AllocKeeps DEF AbstractHeap!Next
<1>2. ASSUME MemAllocLarge PROVE Step
  BY <1>2, LargeKeeps DEF AbstractHeap!Next
<1>3. ASSUME MemFree PROVE Step
  BY <1>3, FreeKeeps DEF AbstractHeap!Next
<1>4. ASSUME MemCacheRelease PROVE Step
  BY <1>4, CacheReleaseKeeps
<1>5. ASSUME MemCacheSetup PROVE Step
  BY <1>5, SetupKeeps
<1>6. ASSUME NEW t \in Thread, MemRealloc(t) PROVE Step
  BY <1>6, ReallocKeeps DEF AbstractHeap!Next
<1>7. ASSUME NEW t \in Thread, MemReallocFree(t) PROVE Step
  BY <1>7, ReallocFreeKeeps DEF AbstractHeap!Next
<1>8. ASSUME NEW t \in Thread, MemCacheShrink(t) PROVE Step
  BY <1>8, ShrinkKeeps
<1>9. ASSUME NEW t \in Thread, DestroyNext(t) PROVE Step
  BY <1>9, DestroyKeeps
<1>10. ASSUME UNCHANGED slab_vars PROVE Step
  <2>1. SlabTypeOK' /\ ListsInv' /\ FreedOnce'
    BY <1>10 DEF slab_vars, SlabInv, SlabTypeOK, ListsInv, FreedOnce
  <2>2. \A b \in Block : Untouched(b)
    BY <1>10 DEF slab_vars, Untouched, OnList, Shrunk, Objects
  <2>3. \A b \in Block : BlockInv(b)'
    BY <2>2, UntouchedStays DEF SlabInv
  <2> QED
    BY <1>10, <2>1, <2>3 DEF slab_vars, SlabInv
<1> QED
  BY <1>1, <1>2, <1>3, <1>4, <1>5, <1>6, <1>7, <1>8, <1>9, <1>10 DEF SlabNext

\* Every reachable state has the four situations of a block.
THEOREM SlabInvariant == SlabSpec => []SlabInv
<1>1. SlabInv /\ [SlabNext]_slab_vars => SlabInv'
  BY SlabNextInv
<1> QED
  BY SlabInitInv, <1>1, PTL DEF SlabSpec

\* A block is in one place, whatever allocating, freeing, resizing and shrinking do
\* between one another's locks.
THEOREM BlocksHaveOneHome == SlabSpec => []OneHome
  BY SlabInvariant, InvOneHome, PTL

\* The count, the bitmap and the list of a pool say what clients have of it, so no
\* BUG_ON of the allocator fires.
THEOREM PoolsStayExact == SlabSpec => []PoolsExact
  BY SlabInvariant, InvPoolsExact, PTL

\* Memory that a client gets overlaps nothing that anybody holds.
THEOREM HeapImplemented == SlabSpec => ImplementsHeap
<1>1. SlabInit => AbstractHeap!Init
  BY DEF SlabInit, AbstractHeap!Init
<1>2. SlabInv /\ [SlabNext]_slab_vars => [AbstractHeap!Next]_held
  BY SlabNextInv
<1> QED
  BY <1>1, <1>2, SlabInvariant, PTL DEF SlabSpec, ImplementsHeap, AbstractHeap!Spec
=============================================================================
