--------------------------------- MODULE Kmap ---------------------------------
(***************************************************************************)
(* kmap and kunmap (paging.c): the ranges of module Window, and the page   *)
(* tables of module Paging that make their pages appear.                   *)
(*                                                                         *)
(* The processor may remember a translation until it is flushed, but no    *)
(* entry that is not present: tlb is what it uses if it always does.       *)
(***************************************************************************)
EXTENDS Window, Paging

CONSTANT Machine  \* how a boot may go: [mem_size, and old, what unused memory holds]

\* the window ends where the kernel is linked
KMAP_BEGIN == VIRTUAL_BASE - KMAP_PAGES
MAX_PMEM_SIZE == KMAP_BEGIN - HIGHER_BASE

\* page i of buffer b is the frame b + i
ASSUME KmapAssumption ==
    /\ HIGHER_BASE < KMAP_BEGIN
    /\ Buffer \subseteq Nat
    /\ Machine \subseteq [mem_size : 1 .. MAX_PMEM_SIZE, old : Nat]

VARIABLES
    pt,      \* the page tables
    tlb,     \* what each page of the window is to the processor
    mem_size \* the memory of the machine

kmap_vars == <<window_vars, pt, tlb, mem_size>>

-----------------------------------------------------------------------------
\* kmap_setup after paging_setup
KmapInit ==
    \E m \in Machine :
        /\ WindowStarts([i \in Page |-> m.old])
        /\ mem_size = m.mem_size
        /\ pt = pt_populate_pages(paging_setup(mem_size), KMAP_BEGIN, VIRTUAL_BASE)
        /\ tlb = [i \in Page |-> None]

\* flush_tlb_addr of the pages S, after their entries have become those of q
FlushTlb(q, S) ==
    tlb' = [i \in Page |-> IF i \in S \/ tlb[i] = None THEN Translate(q, KMAP_BEGIN + i) ELSE tlb[i]]

\* the pages of the range that MapRange finds are mapped one by one
kmap(b, n) ==
    /\ pt.bug = "no"
    /\ MapRange(b, n)
    /\ LET r == Found(n)
           MapPage(p, i) == pt_map_pages(p, KMAP_BEGIN + r + i, KMAP_BEGIN + r + i + 1, b + i, FALSE)
       IN  /\ pt' = FoldLeft(MapPage, pt, [i \in 1 .. n |-> i - 1])
           /\ FlushTlb(pt', PagesOf(r, n))
    /\ UNCHANGED mem_size

\* as many as the tag says are cleared
kunmap(r, n, b) ==
    /\ pt.bug = "no"
    /\ UnmapRange(r, n, b)
    /\ LET Clear(i, p) == ClearEntry(p, KMAP_BEGIN + i)
       IN  pt' = FoldSet(Clear, pt, PagesOf(r, tag[r]))
    /\ FlushTlb(pt', PagesOf(r, tag[r]))
    /\ UNCHANGED mem_size

KmapNext ==
    \E b \in Buffer, n \in 1 .. KMAP_PAGES :
        \/ kmap(b, n)
        \/ \E r \in Page : kunmap(r, n, b)

KmapSpec == KmapInit /\ [][KmapNext]_kmap_vars

-----------------------------------------------------------------------------
\* Type invariant of what Window does not have.
KmapTypeOK ==
    /\ pt.table \in Seq([0 .. ENTRIES - 1 -> Entry])
    /\ tlb \in [Page -> Entry]

\* what a page of the window should be
Promised(i) ==
    LET in == {m \in mapped : i \in PagesOf(m[1], m[2])}
    IN  IF in = {} THEN None
        ELSE LET m == CHOOSE m \in in : TRUE IN <<"frame", m[3] + i - m[1]>>

\* A page of the window is mapped iff it is in a client's range, to the frame the
\* client asked for, in the tables and for a processor that remembers whatever is
\* not flushed.  Nothing the window ever did shows outside it: when it is empty
\* memory and the kernel are mapped as boot has mapped them, page by page for any
\* size of memory.  And no BUG_ON fires on the way, so kmap never needs a table and
\* kunmap always finds one (paging.c:101-136, 205-208, 339-349, 368-384, 428).
MappedExactly ==
    /\ KmapTypeOK /\ pt.bug = "no"
    /\ \A i \in Page : Translate(pt, KMAP_BEGIN + i) = Promised(i) /\ tlb[i] = Promised(i)
    /\ mapped = {} => \A addr \in 0 .. ADDRESSES - 1 :
          Translate(pt, addr) = DirectlyMapped(addr, mem_size)
===============================================================================
