-------------------------------- MODULE Window ---------------------------------
(***************************************************************************)
(* The window of kernel addresses that kmap and kunmap hand out            *)
(* (paging.c).  The window is tiled by ranges of pages; the first and the  *)
(* last page of a range are tagged with its length, and free ranges are on *)
(* lists by the order of their length.  Both operations run under          *)
(* kmap_lock, so each is one action.  Pages of the window are numbered     *)
(* from 0.  Module Kmap adds the page tables.                              *)
(***************************************************************************)
EXTENDS Integers, FiniteSets, SequencesExt

CONSTANTS
    KMAP_PAGES,  \* in the window
    KMAP_ORDERS,
    Buffer       \* what clients map

ASSUME WindowAssumption == {KMAP_PAGES, KMAP_ORDERS} \subseteq Nat \ {0}

VARIABLES
    tag,     \* kmap_ranges[i].pages
    empty,   \* the entries whose list link points to itself
    lists,   \* kmap_free_ranges
    mapped   \* the ranges that clients have, as <<first page, count, buffer>>

window_vars == <<tag, empty, lists, mapped>>

Page == 0 .. KMAP_PAGES - 1
Order == 0 .. KMAP_ORDERS - 1

\* the smallest order that n pages fit, or KMAP_ORDERS
kmap_order(n) ==
    CHOOSE k \in 0 .. KMAP_ORDERS :
        /\ k = KMAP_ORDERS \/ 2^k >= n
        /\ \A j \in 0 .. k - 1 : 2^j < n

Ranges == [tag |-> tag, empty |-> empty, lists |-> lists]

Without(list, r) ==
    IF r \in ToSet(list) THEN RemoveAt(list, CHOOSE i \in DOMAIN list : list[i] = r) ELSE list

\* list_del leaves null pointers, which list_empty does not take for empty
Unlink(s, r) ==
    [s EXCEPT !.lists = [k \in Order |-> Without(s.lists[k], r)], !.empty = @ \ {r}]

SetTags(s, r, n) == [s EXCEPT !.tag[r] = n, !.tag[r + n - 1] = n]

\* the list of the free ranges of n pages
ListOf(n) == kmap_order(n + 1) - 1

Insert(s, r, n) ==
    LET t == SetTags(s, r, n)
    IN  [t EXCEPT !.empty = @ \ {r}, !.lists[ListOf(n)] = <<r>> \o @]

\* kmap_free_range from its second test on
JoinNext(s, r, n) ==
    IF r + n < KMAP_PAGES /\ r + n \notin s.empty
    THEN Insert(Unlink(s, r + n), r, n + s.tag[r + n])
    ELSE Insert(s, r, n)

\* kmap_free_range
FreeRange(s, r, n) ==
    LET prev == r - s.tag[r - 1]
    IN  IF r > 0 /\ prev \notin s.empty
        THEN JoinNext(Unlink(s, prev), prev, n + s.tag[prev])
        ELSE JoinNext(s, r, n)

\* variant: the lists below the order of the request are not tried
OrdersUpwards(n) == [i \in 1 .. KMAP_ORDERS - kmap_order(n) |-> kmap_order(n) + i - 1]

\* the lists that kmap_alloc_range looks through, in its order
OrdersTried(n) ==
    LET start == kmap_order(n)
    IN  [i \in 1 .. KMAP_ORDERS - start |-> start + i - 1]
          \o IF 2^start > n THEN <<start - 1>> ELSE <<>>

\* kmap_find_free: the first range of list k that is long enough, if there is one
LongEnough(k, n) == {i \in DOMAIN lists[k] : tag[lists[k][i]] >= n}
kmap_find_free(k, n) == lists[k][Min(LongEnough(k, n))]

\* the search of kmap_alloc_range: the first list of those it tries that has one
Hits(n) == {i \in DOMAIN OrdersTried(n) : LongEnough(OrdersTried(n)[i], n) # {}}
Found(n) == kmap_find_free(OrdersTried(n)[Min(Hits(n))], n)

\* variant: the link of a range that is handed out keeps its null pointers
AllocRangeStale(r, n) ==
    LET s == SetTags(Unlink(Ranges, r), r, n)
    IN  IF tag[r] > n THEN FreeRange(s, r + n, tag[r] - n) ELSE s

\* kmap_alloc_range, once range r is found
AllocRange(r, n) ==
    LET u == Unlink(Ranges, r)
        s == SetTags([u EXCEPT !.empty = @ \cup {r}], r, n)
    IN  IF tag[r] > n THEN FreeRange(s, r + n, tag[r] - n) ELSE s

SetRanges(s) == tag' = s.tag /\ empty' = s.empty /\ lists' = s.lists

-----------------------------------------------------------------------------
\* kmap_setup: what mem_alloc returns is not cleared
SetUp(garbage) ==
    FreeRange([tag |-> garbage, empty |-> {}, lists |-> [k \in Order |-> <<>>]], 0, KMAP_PAGES)

WindowStarts(garbage) ==
    /\ tag = SetUp(garbage).tag /\ empty = SetUp(garbage).empty /\ lists = SetUp(garbage).lists
    /\ mapped = {}

WindowInit == \E garbage \in [Page -> Nat] : WindowStarts(garbage)

\* __kmap of n pages; no range is needed for one, and nothing changes when there is none
MapRange(b, n) ==
    /\ n > 1 /\ Hits(n) # {}
    /\ SetRanges(AllocRange(Found(n), n))
    /\ mapped' = mapped \cup {<<Found(n), n, b>>}

\* __kunmap of an address that kmap returned; the length comes from the tag
UnmapRange(r, n, b) ==
    /\ <<r, n, b>> \in mapped
    /\ SetRanges(FreeRange(Ranges, r, tag[r]))
    /\ mapped' = mapped \ {<<r, n, b>>}

WindowNext ==
    \E b \in Buffer, n \in 1 .. KMAP_PAGES :
        MapRange(b, n) \/ \E r \in Page : UnmapRange(r, n, b)

WindowSpec == WindowInit /\ [][WindowNext]_window_vars

-----------------------------------------------------------------------------
PagesOf(r, n) == r .. r + n - 1

\* the first pages of the ranges
FreeHeads == UNION {ToSet(lists[k]) : k \in Order}
MappedHeads == {m[1] : m \in mapped}
Heads == FreeHeads \cup MappedHeads

\* Type invariant.
WindowTypeOK ==
    /\ tag \in [Page -> Nat]
    /\ empty \subseteq Page
    /\ lists \in [Order -> Seq(Page)]
    /\ mapped \subseteq Page \X (1 .. KMAP_PAGES) \X Buffer

\* the range at h, going by its tags, ends where the next one begins
EndsAtNext(h) ==
    /\ tag[h] \in 1 .. KMAP_PAGES - h
    /\ tag[h + tag[h] - 1] = tag[h]
    /\ h + tag[h] \in Heads \cup {KMAP_PAGES}
    /\ \A i \in h + 1 .. h + tag[h] - 1 : i \notin Heads

\* The tags tile the window into ranges that are either mapped by one client or
\* free, and both tags of each range say the same: the arithmetic with which a
\* neighbour is found never lands inside a range.  A link tells whether a range is
\* with a client though most entries hold stale links (paging.c:273-292, 318-320).
TagsTile ==
    /\ WindowTypeOK
    /\ 0 \in Heads /\ \A h \in Heads : EndsAtNext(h)
    /\ FreeHeads \cap MappedHeads = {}
    /\ \A m \in mapped : tag[m[1]] = m[2]
    /\ \A m, w \in mapped : m[1] = w[1] => m = w
    /\ \A h \in Heads : h \in empty <=> h \in MappedHeads

\* Free ranges are never neighbours: what is free can be used as one range, which
\* is once on the list of its order, or the last one (paging.c:275, 285, 293).
FreeFiled ==
    /\ \A h \in FreeHeads : h + tag[h] \notin FreeHeads
    /\ \A k \in Order :
        /\ IsInjective(lists[k])
        /\ \A r \in ToSet(lists[k]) :
             tag[r] >= 2^k /\ (k < KMAP_ORDERS - 1 => tag[r] < 2^(k + 1))

\* The window is always tiled by what clients have and by maximal free ranges that
\* can be found, whatever the tags and links of older ranges have left behind.
WindowTiled == TagsTile /\ FreeFiled

\* Short of the largest order, a request fails only if no free range is long
\* enough, though most lists are not looked at (paging.c:300-311).
FindsRoom ==
    \A n \in 2 .. 2^KMAP_ORDERS - 1 :
        (\E r \in FreeHeads : tag[r] >= n) => Hits(n) # {}
================================================================================
