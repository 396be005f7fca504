--------------------------------- MODULE Heap ---------------------------------
(***************************************************************************)
(* What the memory allocators promise their clients (alloc.h, memory.h):   *)
(* memory that a client holds overlaps nothing that anybody else holds.    *)
(* A piece of memory is a block and a place in it, or the whole block.     *)
(***************************************************************************)
CONSTANTS Block, Place, Whole

VARIABLE held

Piece == Block \X (Place \cup {Whole})

Overlap(x, y) == x[1] = y[1] /\ (x[2] = y[2] \/ x[2] = Whole \/ y[2] = Whole)

Init == held = {}

Alloc(x) ==
    /\ \A y \in held : ~Overlap(x, y)
    /\ held' = held \cup {x}

Release(x) == x \in held /\ held' = held \ {x}

Next == \E x \in Piece : Alloc(x) \/ Release(x)

Spec == Init /\ [][Next]_held
===============================================================================
