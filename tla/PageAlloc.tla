------------------------------ MODULE PageAlloc ------------------------------
(***************************************************************************)
(* The page allocator (memory.c): a buddy system in each zone of physical  *)
(* memory.  Pages are page numbers.  Every operation runs under the spin   *)
(* lock of its zone, so it is one action.                                  *)
(*                                                                         *)
(* Of a page's flags the code looks at the order only if the page is       *)
(* marked free: mark[p] is that order, or Busy.                            *)
(***************************************************************************)
EXTENDS Integers, SequencesExt

CONSTANTS
    Zones,       \* sequence of <<begin, end>>: the nodes of memory_map
    FreeRanges,  \* sequence of <<begin, end>>: the nodes of free_ranges
    MAX_ORDER,
    Stale        \* the pages whose descriptors hold garbage when the machine starts

\* Ranges of addresses that neither overlap nor touch are that far apart in pages
\* too, as their ends are rounded down and their beginnings up.
Separate(ranges) ==
    \A i, j \in DOMAIN ranges :
        i # j => ranges[i][2] < ranges[j][1] \/ ranges[j][2] < ranges[i][1]

ASSUME PageAllocAssumption ==
    /\ MAX_ORDER \in Nat
    /\ Zones \in Seq(Nat \X Nat) /\ Separate(Zones)
    /\ FreeRanges \in Seq(Nat \X Nat) /\ Separate(FreeRanges)
    /\ \A i \in DOMAIN FreeRanges : \E z \in DOMAIN Zones :
         /\ Zones[z][1] <= FreeRanges[i][1] /\ FreeRanges[i][1] < FreeRanges[i][2]
         /\ FreeRanges[i][2] <= Zones[z][2]

VARIABLES
    lists,  \* lists[z][k]: the free blocks of order k in zone z
    mark,   \* the flags of each page
    live,   \* the blocks that clients have, as <<page, order>>
    rest    \* of each free range, where the part begins that has yet to be carved

page_vars == <<lists, mark, live, rest>>

Order == 0 .. MAX_ORDER
Busy == -1
ZoneOf(z) == Zones[z][1] .. Zones[z][2] - 1
Page == UNION {ZoneOf(z) : z \in DOMAIN Zones}
PageZone(p) == CHOOSE z \in DOMAIN Zones : p \in ZoneOf(z)

\* 1 << order
Size[k \in Order] == IF k = 0 THEN 1 ELSE 2 * Size[k - 1]

\* the low order bits of the index are zero
Aligned(p, k) == p % Size[k] = 0

\* idx ^ (1 << order)
BuddyOf(p, k) == IF (p \div Size[k]) % 2 = 0 THEN p + Size[k] ELSE p - Size[k]

-----------------------------------------------------------------------------
\* page_alloc_setup clears no flags: memset(zone->pages, 0, ... (zone->end -
\* zone->end)).  So those of a stale page may be anything; memory that is zero reads as
\* busy.  Page 0 is never given to the allocator: its address stands for failure.
Start(i) == IF FreeRanges[i][1] = 0 THEN 1 ELSE FreeRanges[i][1]
End(i) == FreeRanges[i][2]

PageInit ==
    /\ lists = [z \in DOMAIN Zones |-> [k \in Order |-> <<>>]]
    /\ \E garbage \in [Stale -> {Busy} \cup Order] :
         mark = [p \in Page |-> IF p \in Stale THEN garbage[p] ELSE Busy]
    /\ live = {}
    /\ rest = [i \in DOMAIN FreeRanges |-> Start(i)]

\* the largest block that begins at p and ends at the end of the range or before
OrderAt(p, end) ==
    CHOOSE k \in Order :
        /\ Aligned(p, k) /\ p + Size[k] <= end
        /\ \A j \in Order : Aligned(p, j) /\ p + Size[j] <= end => j <= k

\* a turn of the loop of __page_alloc_zone_free, for range i
Carve(i) ==
    LET p == rest[i]
        k == OrderAt(p, End(i))
    IN  /\ p < End(i)
        /\ \A j \in DOMAIN FreeRanges : j < i => rest[j] = End(j)
        /\ lists' = [lists EXCEPT ![PageZone(p)][k] = Append(@, p)]
        /\ mark' = [mark EXCEPT ![p] = k]
        /\ rest' = [rest EXCEPT ![i] = p + Size[k]]
        /\ UNCHANGED live

\* page_alloc_setup has returned
Ready == \A i \in DOMAIN FreeRanges : rest[i] = End(i)

-----------------------------------------------------------------------------
\* the orders at which zone z has a block for a request of order k
Fits(z, k) == {j \in k .. MAX_ORDER : lists[z][j] # <<>>}

\* variant: the second halves of the blocks that are split are forgotten
SplitLoses(z, p, from, to) ==
    /\ lists' = [lists EXCEPT ![z] = [j \in Order |-> IF j = from THEN Tail(@[j]) ELSE @[j]]]
    /\ mark' = [mark EXCEPT ![p] = Busy]

\* variant: the block that is taken is not marked busy
SplitUnmarked(z, p, from, to) ==
    LET split == to .. from - 1
    IN  /\ lists' = [lists EXCEPT ![z] = [j \in Order |->
                       IF j = from THEN Tail(@[j])
                       ELSE IF j \in split THEN <<BuddyOf(p, j)>> \o @[j] ELSE @[j]]]
        /\ mark' = [q \in Page |-> IF \E j \in split : q = BuddyOf(p, j)
                                     THEN CHOOSE j \in split : q = BuddyOf(p, j)
                                     ELSE mark[q]]

\* block p of order from is taken off its list and halved down to order to
Split(z, p, from, to) ==
    LET split == to .. from - 1
    IN  /\ lists' = [lists EXCEPT ![z] = [j \in Order |->
                       IF j = from THEN Tail(@[j])
                       ELSE IF j \in split THEN <<BuddyOf(p, j)>> \o @[j] ELSE @[j]]]
        /\ mark' = [q \in Page |-> IF \E j \in split : q = BuddyOf(p, j)
                                     THEN CHOOSE j \in split : q = BuddyOf(p, j)
                                     ELSE IF q = p THEN Busy ELSE mark[q]]

\* page_alloc: the first zone that can serve the request, its smallest block;
\* when there is none nothing changes
PageAlloc(k) ==
    \E z \in DOMAIN Zones :
        /\ Fits(z, k) # {}
        /\ \A y \in DOMAIN Zones : y < z => Fits(y, k) = {}
        /\ LET from == CHOOSE j \in Fits(z, k) : \A i \in Fits(z, k) : j <= i
               p == Head(lists[z][from])
           IN  /\ Split(z, p, from, k)
               /\ live' = live \cup {<<p, k>>}
        /\ UNCHANGED rest

\* the block of order k that p lies in
Base(p, k) == p - (p % Size[k])

\* variant: stop merging one order early
MergesLess(p, k) ==
    LET b == BuddyOf(Base(p, k), k)
    IN  k < MAX_ORDER - 1 /\ b \in ZoneOf(PageZone(p)) /\ mark[b] = k

\* the test of the loop of __page_free_zone, when p has grown to order k
Merges(p, k) ==
    LET b == BuddyOf(Base(p, k), k)
    IN  k < MAX_ORDER /\ b \in ZoneOf(PageZone(p)) /\ mark[b] = k

\* where the loop stops that starts with block p of order k
Grown(p, k) ==
    CHOOSE g \in k .. MAX_ORDER :
        ~Merges(p, g) /\ \A j \in k .. g - 1 : Merges(p, j)

\* list_del
Unlink(s, p) == IF p \in ToSet(s) THEN RemoveAt(s, CHOOSE i \in DOMAIN s : s[i] = p) ELSE s

\* page_free of a block that page_alloc has returned
PageFree(p, k) ==
    LET z == PageZone(p)
        g == Grown(p, k)
    IN  /\ <<p, k>> \in live
        /\ live' = live \ {<<p, k>>}
        /\ lists' = [lists EXCEPT ![z] = [j \in Order |->
                       IF j \in k .. g - 1
                         THEN Unlink(@[j], BuddyOf(Base(p, j), j))
                         ELSE IF j = g THEN <<Base(p, g)>> \o @[j] ELSE @[j]]]
        /\ mark' = [mark EXCEPT ![Base(p, g)] = g]
        /\ UNCHANGED rest

PageNext ==
    \/ \E i \in DOMAIN FreeRanges : Carve(i)
    \/ /\ Ready
       /\ \E k \in Order :
            \/ PageAlloc(k)
            \/ \E p \in Page : PageFree(p, k)

PageSpec == PageInit /\ [][PageNext]_page_vars

-----------------------------------------------------------------------------
Pages(b) == b[1] .. b[1] + Size[b[2]] - 1
Listed(z) == UNION {{<<p, k>> : p \in ToSet(lists[z][k])} : k \in Order}
Free == UNION {Listed(z) : z \in DOMAIN Zones}

\* the pages of the free ranges, and those of them that are carved
Given == UNION {Start(i) .. End(i) - 1 : i \in DOMAIN FreeRanges}
Carved == UNION {Start(i) .. rest[i] - 1 : i \in DOMAIN FreeRanges}

\* no page has a stale descriptor that the allocator is not given at boot, page 0 included
ReservedClean == Stale \subseteq Given

\* Type invariant.
PageTypeOK ==
    /\ lists \in [DOMAIN Zones -> [Order -> Seq(Page)]]
    /\ mark \in [Page -> {Busy} \cup Order]
    /\ live \subseteq Page \X Order
    /\ rest \in [DOMAIN FreeRanges -> Nat]
    /\ \A i \in DOMAIN FreeRanges : rest[i] \in Start(i) .. End(i)

\* Every page that was free at boot is in exactly one block, and that block is
\* either free or with one client: nothing is lost, leaked or handed out twice
\* however the free ranges are carved and blocks are split and merged.  A block is
\* aligned to its size, and none is page 0, whose address means failure
\* (memory.c:153, 166-182, 233-263, 315, 318-349).
PagesAccounted ==
    /\ PageTypeOK
    /\ UNION {Pages(b) : b \in Free \cup live} = Carved
    /\ \A b, c \in Free \cup live : b # c => Pages(b) \cap Pages(c) = {}
    /\ Free \cap live = {}
    /\ \A z \in DOMAIN Zones : \A k \in Order :
         IsInjective(lists[z][k]) /\ ToSet(lists[z][k]) \subseteq ZoneOf(z)
    /\ \A b \in Free \cup live : Aligned(b[1], b[2]) /\ b[1] # 0

\* The loop of __page_free_zone takes only blocks off a list that are on it,
\* though it trusts the flags of pages that may have been inside larger blocks
\* since they were written (memory.c:331-341).
MergesListed ==
    \A b \in live : \A j \in b[2] .. Grown(b[1], b[2]) - 1 :
        <<BuddyOf(Base(b[1], j), j), j>> \in Listed(PageZone(b[1]))

\* Two free buddies are always one block, so a large request never fails only
\* because small blocks were not put together (memory.c:325-343).
NoMissedMerge ==
    \A b \in Free : b[2] < MAX_ORDER => <<BuddyOf(b[1], b[2]), b[2]>> \notin Free

\* The flags say the truth wherever they are looked at, from both sides.
MergesExact == MergesListed /\ NoMissedMerge

\* the largest aligned blocks of which the free ranges consist
Largest ==
    {b \in Page \X Order :
        /\ Aligned(b[1], b[2]) /\ Pages(b) \subseteq Given
        /\ b[2] < MAX_ORDER => ~(Pages(<<Base(b[1], b[2] + 1), b[2] + 1>>) \subseteq Given)}

\* When nobody has memory, after the setup or after everything was freed, the free
\* blocks are as large as they can be (memory.c:166-182, 325-349).
AllFreeRestores == Ready /\ live = {} => Free = Largest
=============================================================================
