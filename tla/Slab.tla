--------------------------------- MODULE Slab ---------------------------------
(***************************************************************************)
(* One cache of the slab allocator (alloc.c), and the general purpose      *)
(* mem_alloc, mem_free and mem_realloc that sit on top of it.  A block is  *)
(* a run of pages as large as a pool.  Allocating and freeing happen under *)
(* the lock of the cache, so each is one action; shrinking destroys the    *)
(* pools after it has released the lock, one at a time.                    *)
(***************************************************************************)
EXTENDS Integers, FiniteSets, SequencesExt

CONSTANTS
    Block,
    Thread,
    obj_count,      \* objects in a pool
    OBJS_PER_WORD,
    Whole,          \* stands for all of a block that is not a pool
    NoPiece

\* SlabLayout checks that the code's layouts have more than one object
ASSUME SlabAssumption ==
    /\ obj_count \in Nat \ {0, 1}
    /\ OBJS_PER_WORD \in Nat \ {0}
    /\ Whole \notin Nat

VARIABLES
    list,        \* free_pools, partial_pools and busy_pools
    pool,        \* the struct mem_pool in each block: garbage if it is none
    cache_bit,   \* the blocks whose pages carry PAGE_CACHE_BIT
    avail,       \* the blocks that the page allocator has
    free_slabs,  \* the pools that each thread is destroying in mem_cache_shrink
    resize,      \* the memory each thread has yet to free in mem_realloc
    released,    \* mem_cache_release was called
    held         \* the memory that clients have

slab_vars == <<list, pool, cache_bit, avail, free_slabs, resize, released, held>>

ListName == {"free", "partial", "busy"}

-----------------------------------------------------------------------------
mask_words == (obj_count + OBJS_PER_WORD - 1) \div OBJS_PER_WORD
Bit == 0 .. mask_words * OBJS_PER_WORD - 1

\* bitmask is the set of bits that are one; those past the last object always are
Padding == {i \in Bit : i >= obj_count}
NewPool == [free |-> obj_count, bitmask |-> Padding]

\* what a block holds that somebody has used
Garbage == [free |-> 0, bitmask |-> {}]

\* the first zero bit of the first word that has one
FirstZero(p) == CHOOSE i \in Bit \ p.bitmask : \A j \in Bit \ p.bitmask : i <= j

\* mem_pool_alloc and mem_pool_free
Taken(p) == [free |-> p.free - 1, bitmask |-> p.bitmask \cup {FirstZero(p)}]
Returned(p, pos) == [free |-> p.free + 1, bitmask |-> p.bitmask \ {pos}]

\* list_del, which does nothing to a pool that is on no list yet
Unlink(s, b) == IF b \in ToSet(s) THEN RemoveAt(s, CHOOSE i \in DOMAIN s : s[i] = b) ELSE s

\* list_del followed by list_add
MoveTo(lists, b, l) ==
    [m \in ListName |-> IF m = l THEN <<b>> \o Unlink(lists[m], b) ELSE Unlink(lists[m], b)]

-----------------------------------------------------------------------------
SlabInit ==
    /\ list = [l \in ListName |-> <<>>]
    /\ pool = [b \in Block |-> Garbage]
    /\ cache_bit = {}
    /\ avail = Block
    /\ free_slabs = [t \in Thread |-> <<>>]
    /\ resize = [t \in Thread |-> NoPiece]
    /\ released = FALSE
    /\ held = {}

\* the object comes out of pool p of block b, and b is on list l afterwards
TakeFrom(b, p, lists) ==
    /\ pool' = [pool EXCEPT ![b] = Taken(p)]
    /\ list' = lists
    /\ held' = held \cup {<<b, FirstZero(p)>>}

\* variant: a pool whose last object is taken stays on its list
AllocFromPartialStays ==
    /\ list["partial"] # <<>>
    /\ LET b == Head(list["partial"]) IN TakeFrom(b, pool[b], list)
    /\ UNCHANGED <<cache_bit, avail>>

AllocFromPartial ==
    /\ list["partial"] # <<>>
    /\ LET b == Head(list["partial"])
       IN  TakeFrom(b, pool[b],
                    IF Taken(pool[b]).free = 0 THEN MoveTo(list, b, "busy") ELSE list)
    /\ UNCHANGED <<cache_bit, avail>>

AllocFromFree ==
    /\ list["partial"] = <<>> /\ list["free"] # <<>>
    /\ LET b == Head(list["free"])
       IN  TakeFrom(b, pool[b],
                    IF Taken(pool[b]).free # obj_count THEN MoveTo(list, b, "partial") ELSE list)
    /\ UNCHANGED <<cache_bit, avail>>

\* mem_pool_create; nothing changes when there is no block
AllocFromNew ==
    /\ list["partial"] = <<>> /\ list["free"] = <<>>
    /\ \E b \in avail :
        /\ TakeFrom(b, NewPool, MoveTo(list, b, "partial"))
        /\ avail' = avail \ {b}
        /\ cache_bit' = cache_bit \cup {b}

\* also mem_alloc of a size that the table of caches has
MemCacheAlloc ==
    /\ ~released
    /\ AllocFromPartial \/ AllocFromFree \/ AllocFromNew
    /\ UNCHANGED <<free_slabs, resize, released>>

\* mem_alloc of a larger size: a block of its own, which the client writes to
TakeBlock(b) ==
    /\ b \in avail
    /\ avail' = avail \ {b}
    /\ cache_bit' = cache_bit \ {b}
    /\ pool' = [pool EXCEPT ![b] = Garbage]
    /\ held' = held \cup {<<b, Whole>>}

MemAllocLarge ==
    /\ \E b \in Block : TakeBlock(b)
    /\ UNCHANGED <<list, free_slabs, resize, released>>

-----------------------------------------------------------------------------
PosOf(x) == IF x[2] = Whole THEN 0 ELSE x[2]

\* variant: off by one in the test for an empty pool
ListsAfterFreeEarly(b, n) ==
    LET once == IF n = 1 THEN MoveTo(list, b, "partial") ELSE list
    IN  IF n >= obj_count - 1 THEN MoveTo(once, b, "free") ELSE once

\* where the pool is after an object was returned that leaves n free
ListsAfterFree(b, n) ==
    LET once == IF n = 1 THEN MoveTo(list, b, "partial") ELSE list
    IN  IF n = obj_count THEN MoveTo(once, b, "free") ELSE once

MemCacheFree(x) ==
    LET p == Returned(pool[x[1]], PosOf(x))
    IN  /\ pool' = [pool EXCEPT ![x[1]] = p]
        /\ list' = ListsAfterFree(x[1], p.free)
        /\ UNCHANGED <<cache_bit, avail>>

PageFree(x) ==
    /\ cache_bit' = cache_bit \ {x[1]}
    /\ avail' = avail \cup {x[1]}
    /\ UNCHANGED <<pool, list>>

\* mem_free goes by the bit of the page that x lies in
Release(x) ==
    /\ IF x[1] \in cache_bit THEN MemCacheFree(x) ELSE PageFree(x)
    /\ held' = held \ {x}

\* a client frees only what it has, once, and not while it is being resized
MemFree ==
    /\ \E x \in held :
        /\ x \notin {resize[t] : t \in Thread}
        /\ Release(x)
    /\ UNCHANGED <<free_slabs, resize, released>>

\* mem_realloc of an object that outgrows its cache: mem_alloc and memcpy ...
MemRealloc(t) ==
    /\ resize[t] = NoPiece
    /\ \E x \in held, b \in Block :
        /\ x[2] # Whole /\ x \notin {resize[u] : u \in Thread}
        /\ TakeBlock(b)
        /\ resize' = [resize EXCEPT ![t] = x]
    /\ UNCHANGED <<list, free_slabs, released>>

\* ... and mem_free of the old memory
MemReallocFree(t) ==
    /\ resize[t] # NoPiece
    /\ Release(resize[t])
    /\ resize' = [resize EXCEPT ![t] = NoPiece]
    /\ UNCHANGED <<free_slabs, released>>

-----------------------------------------------------------------------------
\* variant: the splice does not empty the list it takes
MemCacheShrinkKeeps(t) ==
    /\ ~released
    /\ free_slabs[t] = <<>> /\ list["free"] # <<>>
    /\ free_slabs' = [free_slabs EXCEPT ![t] = list["free"]]
    /\ UNCHANGED <<list, pool, cache_bit, avail, resize, released, held>>

\* mem_cache_shrink under the lock
MemCacheShrink(t) ==
    /\ ~released
    /\ free_slabs[t] = <<>> /\ list["free"] # <<>>
    /\ free_slabs' = [free_slabs EXCEPT ![t] = list["free"]]
    /\ list' = [list EXCEPT !["free"] = <<>>]
    /\ UNCHANGED <<pool, cache_bit, avail, resize, released, held>>

\* mem_pool_destroy in the loop of mem_cache_shrink
DestroyNext(t) ==
    /\ free_slabs[t] # <<>>
    /\ cache_bit' = cache_bit \ {Head(free_slabs[t])}
    /\ avail' = avail \cup {Head(free_slabs[t])}
    /\ free_slabs' = [free_slabs EXCEPT ![t] = Tail(@)]
    /\ UNCHANGED <<list, pool, resize, released, held>>

\* mem_cache_release, when clients have returned everything and nobody shrinks
\* the cache; the heads of the lists are left as they are
MemCacheRelease ==
    /\ ~released
    /\ \A x \in held : x[2] = Whole
    /\ \A t \in Thread : free_slabs[t] = <<>>
    /\ avail' = avail \cup ToSet(list["free"])
    /\ cache_bit' = cache_bit \ ToSet(list["free"])
    /\ released' = TRUE
    /\ UNCHANGED <<list, pool, free_slabs, resize, held>>

\* mem_cache_setup of a cache that was released
MemCacheSetup ==
    /\ released
    /\ list' = [l \in ListName |-> <<>>]
    /\ released' = FALSE
    /\ UNCHANGED <<pool, cache_bit, avail, free_slabs, resize, held>>

SlabNext ==
    \/ MemCacheAlloc \/ MemAllocLarge \/ MemFree
    \/ MemCacheRelease \/ MemCacheSetup
    \/ \E t \in Thread :
          MemRealloc(t) \/ MemReallocFree(t) \/ MemCacheShrink(t) \/ DestroyNext(t)

SlabSpec == SlabInit /\ [][SlabNext]_slab_vars

-----------------------------------------------------------------------------
Objects(b) == {x \in held : x[1] = b}
Homes(b) ==
    UNION { IF released THEN {} ELSE {<<"list", l>> : l \in {m \in ListName : b \in ToSet(list[m])}},
            {<<"shrink", t>> : t \in {u \in Thread : b \in ToSet(free_slabs[u])}},
            IF b \in avail THEN {<<"avail">>} ELSE {},
            IF <<b, Whole>> \in held THEN {<<"client">>} ELSE {} }

\* Type invariant.
SlabTypeOK ==
    /\ list \in [ListName -> Seq(Block)]
    /\ pool \in [Block -> [free : 0 .. obj_count, bitmask : SUBSET Bit]]
    /\ cache_bit \subseteq Block /\ avail \subseteq Block
    /\ free_slabs \in [Thread -> Seq(Block)]
    /\ held \subseteq Block \X ((0 .. obj_count - 1) \cup {Whole})
    /\ resize \in [Thread -> held \cup {NoPiece}]
    /\ released \in BOOLEAN

\* A block is in one place: with the page allocator, with a client, on one of
\* the three lists, or with the one thread that shrinks it away; on each list
\* it is once (alloc.c:142, 164, 262, 288, 310-316).
OneHome ==
    /\ SlabTypeOK
    /\ \A l \in ListName : IsInjective(list[l])
    /\ \A t \in Thread : IsInjective(free_slabs[t])
    /\ \A b \in Block : Cardinality(Homes(b)) = 1

\* mem_free tells objects of a cache from blocks by the bit of the page, for
\* memory that is with clients at least (alloc.c:387, 400).
BitTells == \A x \in held : x[1] \in cache_bit <=> x[2] # Whole

\* the pool p says of itself that clients have the objects O; where it is then
Says(p, O) ==
    /\ p.bitmask = Padding \cup {x[2] : x \in O}
    /\ p.free = obj_count - Cardinality(O)
ListFor(n) == IF n = 0 THEN "busy" ELSE IF n = obj_count THEN "free" ELSE "partial"

\* the pool in block b is exact, and it is on list l for that
ExactOn(b, l) ==
    /\ Says(pool[b], Objects(b))
    /\ l = ListFor(pool[b].free)
    /\ b \in cache_bit

\* an object that a client has lies in a pool that is on a list
ObjectsListed ==
    \A x \in held : x[2] # Whole =>
        ~released /\ \E l \in ListName : x[1] \in ToSet(list[l])

\* what mem_realloc has yet to free, no other thread frees
FreedOnce ==
    \A t, u \in Thread : t # u /\ resize[t] # NoPiece => resize[u] # resize[t]

\* While a pool is on a list its count and its bitmap say which of its objects
\* clients have, and the list says how many, so the BUG_ONs of mem_pool_alloc and
\* mem_pool_free never fire.  A pool that mem_cache_shrink destroys after it has
\* left the lock is empty and stays empty, whatever other threads do meanwhile.  And
\* a pool is told from a block that a client has (alloc.c:133, 166-176, 213, 231,
\* 240-250, 261, 274, 309-316, 400).
PoolsExact ==
    /\ ~released => \A l \in ListName : \A b \in ToSet(list[l]) : ExactOn(b, l)
    /\ \A t \in Thread : \A b \in ToSet(free_slabs[t]) :
         pool[b] = NewPool /\ Objects(b) = {}
    /\ BitTells /\ ObjectsListed /\ FreedOnce

\* The allocator hands out memory as the abstract heap does.
AbstractHeap == INSTANCE Heap WITH Place <- 0 .. obj_count - 1
ImplementsHeap == AbstractHeap!Spec
===============================================================================
