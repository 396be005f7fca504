--------------------------------- MODULE Boot ---------------------------------
(***************************************************************************)
(* The way of physical memory through the boot (main.c): from the boot     *)
(* loader's map through the boot allocator to the page tables of           *)
(* paging_setup (paging.c), the zones and the first free pages of the page *)
(* allocator (memory.c).  One step is one turn of a loop.                  *)
(***************************************************************************)
EXTENDS Balloc

CONSTANTS
    PAGE_SIZE,
    Align,           \* of what balloc_alloc returns
    Tables,          \* page tables that paging_setup fills in
    BOOTSTRAP_MEM,   \* what the first page tables map
    MAX_PMEM_SIZE,
    Header, PerUnit  \* the size of a zone: so much, and one for so many pages

ASSUME BootAssumption ==
    /\ {PAGE_SIZE, Align, Tables, PerUnit} \subseteq Nat \ {0}
    /\ {BOOTSTRAP_MEM, MAX_PMEM_SIZE, Header} \subseteq Nat

VARIABLES
    blocks,  \* what the boot allocator has given away
    mapped,  \* the size of the mapping of physical memory; va() is good below it
    zones,   \* page_alloc_zones, as <<begin, end>> in pages
    given    \* the ranges of pages put on the lists of the zones

boot_vars == <<balloc_vars, blocks, mapped, zones, given>>

\* the whole pages of a range
Pages(r) == <<RoundUp(r[1], PAGE_SIZE) \div PAGE_SIZE, r[2] \div PAGE_SIZE>>

balloc_memory == InOrder(mem.memory_map)[Cardinality(mem.memory_map)][2]

BootInit ==
    /\ BallocInit
    /\ blocks = {} /\ mapped = 0 /\ zones = <<>> /\ given = <<>>

\* a BUG_ON fires
Stop(why) == pc' = why /\ UNCHANGED at

\* paging_setup_get_page; page 0 is a fault for every table but the root
PageTable ==
    /\ pc = "paging" /\ ~OutOfNodes
    /\ LET page == AllocAddr(mem, PAGE_SIZE, PAGE_SIZE, 0, BOOTSTRAP_MEM)
       IN  /\ mem' = Alloc(mem, PAGE_SIZE, PAGE_SIZE, 0, BOOTSTRAP_MEM)
           /\ blocks' = blocks \cup {<<p, p + PAGE_SIZE>> : p \in {page} \ {BOOTSTRAP_MEM}}
           /\ IF page = BOOTSTRAP_MEM \/ (at > 1 /\ page = 0)
              THEN Stop("no_page") ELSE Turn(Tables, "zones")
    /\ mapped' = Min2((balloc_memory \div PAGE_SIZE) * PAGE_SIZE, MAX_PMEM_SIZE)
    /\ UNCHANGED <<listed, zones, given>>

ZoneSize(n) == Header + (n + PerUnit - 1) \div PerUnit

\* __page_alloc_zone_setup for a range of the memory map
Zone ==
    /\ pc = "zones" /\ ~OutOfNodes
    /\ LET z == Pages(InOrder(mem.memory_map)[at])
           size == ZoneSize(z[2] - z[1])
           addr == AllocAddr(mem, size, Align, 0, UINTPTR_MAX)
       IN  IF z[1] >= z[2]
           THEN Turn(Cardinality(mem.memory_map), "pages") /\ UNCHANGED <<mem, blocks, zones>>
           ELSE /\ mem' = Alloc(mem, size, Align, 0, UINTPTR_MAX)
                /\ IF addr = UINTPTR_MAX
                   THEN Stop("no_memory") /\ UNCHANGED <<blocks, zones>>
                   ELSE /\ Turn(Cardinality(mem.memory_map), "pages")
                        /\ blocks' = blocks \cup {<<addr, addr + size>>}
                        /\ zones' = Append(zones, z)
    /\ UNCHANGED <<listed, mapped, given>>

\* variant: a page of which a part is free counts
TouchedPages(r) == <<r[1] \div PAGE_SIZE, RoundUp(r[2], PAGE_SIZE) \div PAGE_SIZE>>

\* the pages of a free range that the allocator gets: all but page 0
FreePages(r) == IF Pages(r)[1] = 0 THEN <<1, Pages(r)[2]>> ELSE Pages(r)

\* page_alloc_zone_find; {} if there is none
ZoneFind(p) == {z \in DOMAIN zones : zones[z][1] <= p /\ p < zones[z][2]}

\* __page_alloc_zone_free for a free range
FreeRange ==
    /\ pc = "pages" /\ ~OutOfNodes
    /\ at <= Cardinality(mem.free_ranges)
    /\ LET r == FreePages(InOrder(mem.free_ranges)[at])
           next == Turn(Cardinality(mem.free_ranges), "done")
       IN  IF r[1] >= r[2] THEN next /\ UNCHANGED given
           ELSE IF \E z \in ZoneFind(r[1]) : r[2] <= zones[z][2]
           THEN next /\ given' = Append(given, r)
           ELSE Stop("no_zone") /\ UNCHANGED given
    /\ UNCHANGED <<mem, listed, blocks, mapped, zones>>

NothingFree ==
    /\ pc = "pages" /\ ~OutOfNodes /\ mem.free_ranges = {}
    /\ pc' = "done"
    /\ UNCHANGED <<mem, listed, at, blocks, mapped, zones, given>>

BootNext ==
    \/ BallocNext /\ UNCHANGED <<blocks, mapped, zones, given>>
    \/ PageTable \/ Zone \/ FreeRange \/ NothingFree

BootSpec == BootInit /\ [][BootNext]_boot_vars

-----------------------------------------------------------------------------
Covered(t) == UNION {r[1] .. r[2] - 1 : r \in t}
Disjoint(S) == \A r, q \in S : r # q => Covered({r}) \cap Covered({q}) = {}
ListedRanges == Range(listed)

\* Type invariant.
BootTypeOK ==
    /\ {mem.memory_map, mem.free_ranges} \subseteq SUBSET (Nat \X Nat)
    /\ mem.nodes \in -1 .. BALLOC_MAX_RANGES /\ mem.low \in -1 .. BALLOC_MAX_RANGES
    /\ pc \in {"list", "reserve", "paging", "zones", "pages", "done",
              "no_page", "no_memory", "no_zone"}
    /\ at \in Nat \ {0} /\ mapped \in Nat
    /\ zones \in Seq(Nat \X Nat) /\ given \in Seq(Nat \X Nat)

\* The ranges of a tree neither overlap nor touch, whatever the map lists and however
\* often ranges are merged and split, and every node that is not one of a range is
\* unused: none leaks, so a boot stops for lack of nodes only if it really has that
\* many ranges (balloc.c:56-72, 92-103, 131-138).
RangesApart ==
    /\ BootTypeOK
    /\ \A t \in {mem.memory_map, mem.free_ranges} :
         \A r, q \in t : r[1] <= r[2] /\ (r = q \/ r[2] < q[1] \/ q[2] < r[1])
    /\ mem.nodes = BALLOC_MAX_RANGES
                     - Cardinality(mem.memory_map) - Cardinality(mem.free_ranges)

\* Once the map is read, what is free is exactly the known memory without the kernel,
\* the initrd, what any entry reserves - also where entries overlap - and what has been
\* allocated since; no two allocations overlap (balloc.c:175-182, 203-229, 124-142).
FreeExactly ==
    pc \notin {"list", "reserve"} /\ ~OutOfNodes =>
        /\ Covered(mem.free_ranges) =
             Covered(mem.memory_map)
               \ (Covered(blocks) \cup Covered({r \in ListedRanges : Taken(r)}))
        /\ Disjoint(blocks)

\* Entries that do not overlap each other are known in full, whatever the kernel and
\* an initrd whose end is far too large do to the tree (balloc.c:68-72, initramfs.c:73).
ListedKnown ==
    LET entries == {r \in ListedRanges : r[3] \in {"available", "reserved"}}
    IN  pc # "list" /\ ~OutOfNodes
        /\ Cardinality(entries) = Len(listed) - 2
        /\ (\A r, q \in entries : r = q \/ r[2] <= q[1] \/ q[2] <= r[1])
        => Covered(entries) \subseteq Covered(mem.memory_map)

\* The page allocator gets what PageAllocAssumption asks for: zones that do not
\* overlap, and ranges of pages that lie in one zone each, so that no
\* BUG_ON of __page_alloc_zone_free fires; they are all the pages that are free to the last
\* byte, but page 0, and va() maps them (memory.c:56-85, 148-183, paging.c:197-206).
HandsOver ==
    /\ pc \in {"pages", "done"} => Disjoint(Range(zones))
    /\ \A i \in DOMAIN given : \E z \in DOMAIN zones :
         zones[z][1] <= given[i][1] /\ given[i][1] < given[i][2] /\ given[i][2] <= zones[z][2]
    /\ pc # "no_zone"
    /\ pc = "done" =>
         /\ Covered(Range(given)) =
              {p \in 1 .. UINTPTR_MAX \div PAGE_SIZE :
                 p * PAGE_SIZE .. (p + 1) * PAGE_SIZE - 1 \subseteq Covered(mem.free_ranges)}
         /\ \A p \in Covered(Range(given)) : (p + 1) * PAGE_SIZE <= mapped
===============================================================================
