------------------------------ MODULE SlabLayout ------------------------------
(***************************************************************************)
(* How the slab allocator lays out a pool, and how mem_alloc and           *)
(* mem_realloc find the cache or the order that serves a request           *)
(* (alloc.c).  Sizes are bytes.  One turn of a loop is one action; what    *)
(* pages and objects there are is the business of PageAlloc and Slab, so   *)
(* here an allocation may always fail.                                     *)
(***************************************************************************)
EXTENDS Integers, Sequences

CONSTANTS
    CacheSizes,     \* the sizes that caches are looked at for
    LargeSizes,     \* the sizes of requests that no cache serves
    ReallocSizes,   \* the sizes that mem_realloc is called for
    PAGE_SHIFT, MAX_ORDER, OBJS_PER_WORD, WORD_SZ, MIN_POOL_OBJS,
    mem_pool_size,  \* the table of the general purpose caches, which is sorted
    pool_struct     \* sizeof(struct mem_pool), bitmask[1] included

MEM_POOLS == Len(mem_pool_size)

ASSUME LayoutAssumption ==
    /\ \A i \in 1 .. MEM_POOLS - 1 : mem_pool_size[i] < mem_pool_size[i + 1]
    /\ \A s \in LargeSizes : s > mem_pool_size[MEM_POOLS]
    /\ CacheSizes \subseteq 1 .. mem_pool_size[MEM_POOLS] /\ ReallocSizes \subseteq Nat

VARIABLES
    size,   \* the size asked for
    at,     \* in the loop of mem_pool_lookup or of mem_order_calculate, before
            \* __page_alloc, or back: with a block that is new, or the one it was
    turn,   \* the loop variable; the table is counted from 1
    block,  \* what the caller has got
    old     \* what mem_realloc is replacing

layout_vars == <<size, at, turn, block, old>>

\* a block is an object of a cache or pages of an order; Null is neither
Null == <<"none", 0>>
Object(i) == <<"object", i>>
Paged(k) == <<"pages", k>>

-----------------------------------------------------------------------------
Align == mem_pool_size[1]

ceil(a, b) == (a + b - 1) \div b
align_up(a, b) == b * ceil(a, b)

\* the loop shifts a one to the left until it is not below x
ilog2(x) ==
    LET shifted[p \in 0 .. x] == IF 2^p < x THEN shifted[p + 1] ELSE p
    IN  shifted[0]

\* struct mem_pool with its bitmask
meta_size(objs) ==
    align_up(pool_struct + (ceil(objs, OBJS_PER_WORD) - 1) * WORD_SZ, WORD_SZ)

\* variant: the objects are counted before the struct takes its room
FittingAll(obj_size, pool_size) == pool_size \div obj_size

\* the loop drops objects from the end until the struct fits
Fitting(obj_size, pool_size) ==
    LET all == pool_size \div obj_size
        objs[n \in 0 .. all] == IF obj_size * n + meta_size(n) > pool_size THEN objs[n - 1] ELSE n
    IN  objs[all]

PoolOrder(obj_size) ==
    ilog2((obj_size * MIN_POOL_OBJS + meta_size(MIN_POOL_OBJS)) \div 2^PAGE_SHIFT)

\* mem_cache_layout_setup
Layout(s) ==
    LET obj_size == align_up(s, Align)
        pool_size == 2^(PoolOrder(obj_size) + PAGE_SHIFT)
        objs == Fitting(obj_size, pool_size)
    IN  [obj_size |-> obj_size, obj_count |-> objs, pool_size |-> pool_size,
         meta_offs |-> pool_size - meta_size(objs),
         mask_words |-> ceil(objs, OBJS_PER_WORD)]

\* what mem_realloc takes the size of a block to be
old_size(b) == IF b[1] = "object" THEN Layout(mem_pool_size[b[2]]).obj_size
               ELSE 2^(b[2] + PAGE_SHIFT)

-----------------------------------------------------------------------------
Back == {"new", "same"}

LayoutInit ==
    /\ size \in CacheSizes \cup LargeSizes \cup ReallocSizes
    /\ at = "lookup" /\ turn = 1
    /\ block = Null /\ old = Null

\* mem_alloc returns b, which may be Null
Return(b) ==
    /\ at' = "new" /\ turn' = 0
    /\ block' = b
    /\ UNCHANGED <<size, old>>

\* variant: a cache of just the size is passed over
LookupTurnAbove ==
    /\ at = "lookup" /\ turn # MEM_POOLS + 1
    /\ IF mem_pool_size[turn] > size
       THEN \E b \in {Object(turn), Null} : Return(b)
       ELSE turn' = turn + 1 /\ UNCHANGED <<size, at, block, old>>

\* a turn of mem_pool_lookup; the cache that is found may have no object
LookupTurn ==
    /\ at = "lookup" /\ turn # MEM_POOLS + 1
    /\ IF mem_pool_size[turn] >= size
       THEN \E b \in {Object(turn), Null} : Return(b)
       ELSE turn' = turn + 1 /\ UNCHANGED <<size, at, block, old>>

\* no cache serves the request
LookupEnd ==
    /\ at = "lookup" /\ turn = MEM_POOLS + 1
    /\ at' = "order" /\ turn' = 0
    /\ UNCHANGED <<size, block, old>>

\* variant: the order of the size rounded down
OrderTurnBelow ==
    /\ at = "order" /\ turn # MAX_ORDER + 1
    /\ IF 2^(turn + 1 + PAGE_SHIFT) > size
       THEN at' = "pages" /\ UNCHANGED turn
       ELSE turn' = turn + 1 /\ UNCHANGED at
    /\ UNCHANGED <<size, block, old>>

\* a turn of mem_order_calculate
OrderTurn ==
    /\ at = "order" /\ turn # MAX_ORDER + 1
    /\ IF 2^(turn + PAGE_SHIFT) >= size
       THEN at' = "pages" /\ UNCHANGED turn
       ELSE turn' = turn + 1 /\ UNCHANGED at
    /\ UNCHANGED <<size, block, old>>

OrderEnd ==
    /\ at = "order" /\ turn = MAX_ORDER + 1
    /\ at' = "pages"
    /\ UNCHANGED <<size, turn, block, old>>

\* __page_alloc, which has no block of an order above MAX_ORDER
TakePages ==
    /\ at = "pages"
    /\ \E b \in {Null} \cup (IF turn > MAX_ORDER THEN {} ELSE {Paged(turn)}) : Return(b)

\* mem_realloc, of a null pointer too: the block is large enough, or another is asked for
MemRealloc(s) ==
    /\ at \in Back
    /\ size' = s
    /\ IF block # Null /\ old_size(block) >= s
       THEN /\ at' = "same" /\ old' = Null
            /\ UNCHANGED <<turn, block>>
       ELSE /\ at' = "lookup" /\ turn' = 1
            /\ block' = Null /\ old' = block

LayoutNext ==
    \/ LookupTurn \/ LookupEnd
    \/ OrderTurn \/ OrderEnd
    \/ TakePages
    \/ \E s \in ReallocSizes : MemRealloc(s)

LayoutSpec == LayoutInit /\ [][LayoutNext]_layout_vars

-----------------------------------------------------------------------------
\* In a pool of any size that a cache can have, the objects end before the struct
\* begins, the struct and its whole bitmask end with the pool, and the struct is
\* aligned.  There is room for two objects: a pool is never full and empty at once,
\* which the two tests of __mem_cache_free do not provide for (alloc.c:74-83, 309-317).
PoolsFit ==
    size \in CacheSizes =>
        LET l == Layout(size)
        IN  /\ l.obj_size >= size
            /\ l.obj_count > 1
            /\ l.obj_count * l.obj_size <= l.meta_offs
            /\ l.meta_offs + pool_struct + (l.mask_words - 1) * WORD_SZ <= l.pool_size
            /\ l.meta_offs % WORD_SZ = 0

\* the sizes of blocks there are, and the least that are not below s
Steps == {mem_pool_size[i] : i \in 1 .. MEM_POOLS} \cup
         {2^(k + PAGE_SHIFT) : k \in {j \in 0 .. MAX_ORDER :
                                        2^(j + PAGE_SHIFT) > mem_pool_size[MEM_POOLS]}}
Served(s) == {b \in Steps : b >= s /\ \A c \in Steps : c >= s => b <= c}

\* Objects fit in their pools; whoever gets memory gets enough, and a new block is of
\* the least size that is, so only requests above the largest are always refused.  What
\* mem_realloc then copies, as many bytes as it takes the old block to have, fits the
\* new one (alloc.c:74-83, 340-356, 374-391, 421-440).
RequestServed ==
    /\ PoolsFit
    /\ at \in Back /\ block # Null => old_size(block) >= size
    /\ at = "new" /\ block # Null =>
         /\ old_size(block) \in Served(size)
         /\ old # Null => old_size(old) < old_size(block)
    /\ at = "pages" => (turn <= MAX_ORDER <=> Served(size) # {})
===============================================================================
