-------------------------------- MODULE MCKmap --------------------------------
(* Model-checking instance of Kmap. *)
EXTENDS Kmap

\* every size of memory is mapped at boot; the window is used on the largest machine,
\* where it lies next to the last of memory, after any tags of some stale lengths
MCMachine ==
    {[mem_size |-> m, old |-> 0] : m \in 1 .. MAX_PMEM_SIZE}
        \cup {[mem_size |-> MAX_PMEM_SIZE, old |-> i] : i \in {1, 3, KMAP_PAGES}}
Explored == mem_size = MAX_PMEM_SIZE
===============================================================================
