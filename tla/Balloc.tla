-------------------------------- MODULE Balloc --------------------------------
(***************************************************************************)
(* The boot allocator (balloc.c): one tree of the ranges of memory that    *)
(* exist and one of those that are free, built from the boot loader's map. *)
(* A range is a pair <<begin, end>>.  The tree is RBTree, which keeps its  *)
(* members in order and finds the first one above an address; here it is   *)
(* the set of its ranges.  Nothing else runs yet.                          *)
(***************************************************************************)
EXTENDS Integers, FiniteSets, SequencesExt

CONSTANTS
    UINTPTR_MAX,        \* beyond all memory
    MaxEntries,         \* of the map
    Ranges,             \* the ranges that its entries may list
    Kernel,             \* the range of the kernel's image
    Modules,            \* the <<mod_start, mod_end>> of the initrd, if there is one
    BALLOC_MAX_RANGES

ASSUME BallocAssumption ==
    /\ {UINTPTR_MAX, MaxEntries, BALLOC_MAX_RANGES} \subseteq Nat
    /\ \A r \in Ranges \cup Modules \cup {Kernel} :
         r \in Nat \X Nat /\ r[1] < r[2] /\ 2 * r[2] < UINTPTR_MAX

VARIABLES
    mem,     \* the trees memory_map and free_ranges, the number of unused nodes
             \* and the least that there have been; BUG_ON stops at -1
    listed,  \* what balloc_parse_mmap goes through, as <<begin, end, type>>
    pc,      \* which loop of the boot runs
    at       \* its index

balloc_vars == <<mem, listed, pc, at>>

Min2(a, b) == IF a < b THEN a ELSE b
Max2(a, b) == IF a < b THEN b ELSE a

-----------------------------------------------------------------------------
\* the last range that begins before a, the first that does not; {} if there is none
Before(t, a) == {r \in t : r[1] < a /\ \A q \in t : q[1] < a => q[1] <= r[1]}
From(t, a) == {r \in t : r[1] >= a /\ \A q \in t : q[1] >= a => r[1] <= q[1]}

\* the same tree, as rb_next walks it
InOrder(t) ==
    [i \in 1 .. Cardinality(t) |->
       CHOOSE r \in t : Cardinality({q \in t : q[1] < r[1]}) = i - 1]

\* balloc_alloc_node, and balloc_free_node of n nodes
UseNode(m, n) == [m EXCEPT !.nodes = @ - 1 + n, !.low = Min2(@, m.nodes - 1)]

\* variant: a range is merged with the one behind only if they overlap
OverlapsBefore(r, from) == r[2] > from

ReachesBefore(r, from) == r[2] >= from

\* variant: the end of a range that is merged with the one behind it is kept
KeptEnd(to, next) == to
\* a range that is merged with the one behind it ends where that one ends, also if
\* that is sooner
EndWith(to, next) == next[2]

\* __balloc_add_range; nothing happens any more once nodes have run out
AddRange(m, tree, from, to) ==
    LET t == m[tree]
        prev == {r \in Before(t, from) : ReachesBefore(r, from)}
        begin == IF prev = {} THEN from ELSE (CHOOSE r \in prev : TRUE)[1]
        end == IF prev = {} THEN to ELSE Max2(to, (CHOOSE r \in prev : TRUE)[2])
        next == {r \in From(t, from) : r[1] <= end}
        last == IF next = {} THEN end ELSE EndWith(end, CHOOSE r \in next : TRUE)
    IN  IF m.low < 0 THEN m
        ELSE UseNode([m EXCEPT ![tree] = (@ \ (prev \cup next)) \cup {<<begin, last>>}],
                     Cardinality(prev) + Cardinality(next))

\* the node of range r goes, and what lies outside from .. to comes back
Punch(m, tree, r, from, to) ==
    LET gone == [m EXCEPT ![tree] = @ \ {r}]
        left == IF r[1] < from THEN AddRange(gone, tree, r[1], from) ELSE gone
        rest == IF r[2] > to THEN AddRange(left, tree, to, r[2]) ELSE left
    IN  [rest EXCEPT !.nodes = @ + 1]

\* variant: a range that begins before the hole is not met
MeetsInside(r, from, to) == r[1] >= from /\ r[1] < to

Meets(r, from, to) == r[2] > from /\ r[1] < to

\* __balloc_remove_range: what comes back never touches the next range of the walk
RemoveRange(m, tree, from, to) ==
    LET met == InOrder({r \in m[tree] : Meets(r, from, to)})
        after[i \in 0 .. Len(met)] ==
            IF i = 0 THEN m ELSE Punch(after[i - 1], tree, met[i], from, to)
    IN  after[Len(met)]

RoundUp(a, n) == ((a + n - 1) \div n) * n

\* where in range r an aligned block would begin
Base(r, align, from) == RoundUp(Max2(r[1], from), align)

\* the first free range of __balloc_alloc with room for a block; {} if there is none
Room(m, size, align, from, to) ==
    LET fit == {r \in m.free_ranges : /\ Meets(r, from, to)
                                      /\ Base(r, align, from) + size <= Min2(r[2], to)}
    IN  From(fit, 0)

\* the address __balloc_alloc returns; the end of the search stands for failure
AllocAddr(m, size, align, from, to) ==
    LET room == Room(m, size, align, from, to)
    IN  IF room = {} THEN to ELSE Base(CHOOSE r \in room : TRUE, align, from)

\* and what it leaves
Alloc(m, size, align, from, to) ==
    LET room == Room(m, size, align, from, to)
        addr == AllocAddr(m, size, align, from, to)
    IN  IF room = {} THEN m
        ELSE Punch(m, "free_ranges", CHOOSE r \in room : TRUE, addr, addr + size)

-----------------------------------------------------------------------------
Entry == {<<r[1], r[2], type>> : r \in Ranges, type \in {"available", "reserved"}}

\* find_initrd takes mod_end for a length
Initrd(mods) == IF mods = {} THEN <<0, 0>>
                ELSE LET m == CHOOSE x \in mods : TRUE IN <<m[1], m[1] + m[2]>>

\* the kernel and the initrd are added and removed like reserved entries, after them
BallocInit ==
    /\ \E n \in 0 .. MaxEntries, mods \in {{}} \cup {{x} : x \in Modules} :
         \E entries \in [1 .. n -> Entry] :
            listed = entries \o << <<Kernel[1], Kernel[2], "kernel">>,
                                   <<Initrd(mods)[1], Initrd(mods)[2], "initrd">> >>
    /\ mem = [memory_map |-> {}, free_ranges |-> {},
              nodes |-> BALLOC_MAX_RANGES, low |-> BALLOC_MAX_RANGES]
    /\ pc = "list"
    /\ at = 1

OutOfNodes == mem.low < 0

\* a turn of a loop from 1 to n, after which another loop starts
Turn(n, next) ==
    IF at < n THEN at' = at + 1 /\ UNCHANGED pc ELSE at' = 1 /\ pc' = next

\* the first loop of balloc_parse_mmap
ListRange ==
    /\ pc = "list" /\ ~OutOfNodes
    /\ LET r == listed[at]
           m == AddRange(mem, "memory_map", r[1], r[2])
       IN  mem' = AddRange(m, "free_ranges", r[1], r[2])
    /\ Turn(Len(listed), "reserve")
    /\ UNCHANGED listed

Taken(r) == r[3] # "available"

\* the second loop
ReserveRange ==
    /\ pc = "reserve" /\ ~OutOfNodes
    /\ LET r == listed[at]
       IN  mem' = IF Taken(r) THEN RemoveRange(mem, "free_ranges", r[1], r[2]) ELSE mem
    /\ Turn(Len(listed), "paging")
    /\ UNCHANGED listed

BallocNext == ListRange \/ ReserveRange
===============================================================================
