-------------------------------- MODULE Paging ---------------------------------
(***************************************************************************)
(* The page tables of the kernel (paging.c): how they are built at boot,   *)
(* extended, and read by the processor.  Addresses, sizes and frames are   *)
(* counted in pages.  The root is table 1; memory for further tables does  *)
(* not run out (module Boot has what happens if it does at boot).          *)
(* Protection bits are left out: every entry gets all of them.             *)
(***************************************************************************)
EXTENDS Integers, SequencesExt

CONSTANTS
    ENTRIES,      \* of a table; there are four levels of them
    HIGHER_BASE,  \* where physical memory is mapped from
    VIRTUAL_BASE  \* where the kernel is linked

ADDRESSES == ENTRIES^4

ASSUME PagingAssumption ==
    /\ {ENTRIES, HIGHER_BASE, VIRTUAL_BASE} \subseteq Nat \ {0}
    /\ VIRTUAL_BASE < ADDRESSES
    /\ HIGHER_BASE % ENTRIES^3 = 0

\* an entry is not present, names a table, or names the first of the frames it maps
Entry == {"none", "table", "frame"} \X Nat
None == <<"none", 0>>
EmptyTable == [i \in 0 .. ENTRIES - 1 |-> None]

\* bug says why the kernel has stopped, if it has
NoTables == [table |-> <<EmptyTable>>, bug |-> "no"]
Bug(pt, why) == [pt EXCEPT !.bug = why]

pml_size(lvl) == ENTRIES^(lvl - 1)
pml_offs(addr, lvl) == (addr \div pml_size(lvl)) % ENTRIES

-----------------------------------------------------------------------------
\* memset of the page of a new table, whose number is put in entry i of table t
AddTable(pt, t, i) ==
    [pt EXCEPT !.table = Append([@ EXCEPT ![t][i] = <<"table", Len(pt.table) + 1>>], EmptyTable)]

\* an entry at lvl can map the range by itself: of levels 2 and 3 a large page
Fits(begin, end, phys, lvl) ==
    /\ end - begin + 1 = pml_size(lvl)
    /\ begin % pml_size(lvl) = 0 /\ phys % pml_size(lvl) = 0

\* variant: the last entry is mapped to its end
PartToEnd(begin, end, lvl, k) ==
    LET first == (begin \div pml_size(lvl) + k) * pml_size(lvl)
    IN  <<IF k = 0 THEN begin ELSE first, first + pml_size(lvl) - 1>>

\* the part of a range that lies in the k-th of the entries of lvl that it meets
PartAt(begin, end, lvl, k) ==
    LET first == (begin \div pml_size(lvl) + k) * pml_size(lvl)
        last == first + pml_size(lvl) - 1
    IN  <<IF k = 0 THEN begin ELSE first, IF last < end THEN last ELSE end>>

(***************************************************************************)
(* __pt_map_pages: begin .. end, both included, to the frames from phys.   *)
(* pt_populate_pages has it write entries that are not present, and asks   *)
(* for no large pages (map is FALSE); kmap has no pool to take tables from.*)
(***************************************************************************)
RECURSIVE MapPages(_, _, _, _, _, _, _, _)

MapEntry(pt, t, i, begin, end, phys, map, lvl, pool) ==
    LET entry == pt.table[t][i]
        whole == lvl # 4 /\ Fits(begin, end, phys, lvl) /\ (map \/ lvl = 1)
        below == IF entry = None THEN AddTable(pt, t, i) ELSE pt
    IN  IF pt.bug # "no" THEN pt
        ELSE IF entry = None /\ whole
          THEN [pt EXCEPT !.table[t][i] = IF map THEN <<"frame", phys>> ELSE None]
        ELSE IF lvl = 1 THEN Bug(pt, "a page is mapped already")
        ELSE IF entry = None /\ ~pool THEN Bug(pt, "no pool")
        ELSE IF entry[1] = "frame" THEN Bug(pt, "a large page is taken for a table")
        ELSE MapPages(below, below.table[t][i][2], begin, end, phys, map, lvl - 1, pool)

MapPages(pt, t, begin, end, phys, map, lvl, pool) ==
    LET from == pml_offs(begin, lvl)
        Step(p, k) == LET part == PartAt(begin, end, lvl, k)
                      IN  MapEntry(p, t, from + k, part[1], part[2],
                                   phys + part[1] - begin, map, lvl, pool)
    IN  FoldLeft(Step, pt, [k \in 1 .. pml_offs(end, lvl) - from + 1 |-> k - 1])

\* pt_map_pages and pt_populate_pages: the end is not included, and may be 0
pt_map_pages(pt, begin, end, phys, pool) ==
    MapPages(pt, 1, begin, (end - 1) % ADDRESSES, phys, TRUE, 4, pool)
pt_populate_pages(pt, begin, end) ==
    MapPages(pt, 1, begin, (end - 1) % ADDRESSES, 0, FALSE, 4, TRUE)

\* paging_setup on a machine with mem_size pages of memory
paging_setup(mem_size) ==
    pt_map_pages(
        pt_map_pages(NoTables, HIGHER_BASE, HIGHER_BASE + mem_size, 0, TRUE),
        VIRTUAL_BASE, 0, 0, TRUE)

-----------------------------------------------------------------------------
\* what the processor makes of an address: the frame, or None
RECURSIVE Walk(_, _, _, _)
Walk(pt, t, addr, lvl) ==
    LET entry == pt.table[t][pml_offs(addr, lvl)]
    IN  IF entry[1] = "table" THEN Walk(pt, entry[2], addr, lvl - 1)
        ELSE IF entry[1] = "frame" THEN <<"frame", entry[2] + (addr % pml_size(lvl))>>
        ELSE None
Translate(pt, addr) == Walk(pt, 1, addr, 4)

\* the loop of __kunmap over the levels of one address, which tests nothing on its way
ClearEntry(pt, addr) ==
    LET under(t, lvl) == pt.table[t][pml_offs(addr, lvl)]
        e4 == under(1, 4)
        e3 == IF e4[1] = "table" THEN under(e4[2], 3) ELSE None
        e2 == IF e3[1] = "table" THEN under(e3[2], 2) ELSE None
    IN  IF e2[1] = "table" THEN [pt EXCEPT !.table[e2[2]][pml_offs(addr, 1)] = None]
        ELSE Bug(pt, "no table to clear in")

\* what the address space is after boot, the window of kmap() being empty
DirectlyMapped(addr, mem_size) ==
    IF addr \in HIGHER_BASE .. HIGHER_BASE + mem_size - 1 THEN <<"frame", addr - HIGHER_BASE>>
    ELSE IF addr >= VIRTUAL_BASE THEN <<"frame", addr - VIRTUAL_BASE>>
    ELSE None
=================================================================================
