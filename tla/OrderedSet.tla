------------------------------ MODULE OrderedSet ------------------------------
(***************************************************************************)
(* What the tree of rbtree.h promises its user: the members, in order, with *)
(* single steps that add one and take one out.  How members are linked, and *)
(* that links are moved to keep the tree balanced, does not show.           *)
(***************************************************************************)
EXTENDS Integers, FiniteSets, SequencesExt

CONSTANT Node    \* numbers, whose order is that of the keys

VARIABLE order   \* the members as rb_next visits them

OrderedInit == order = <<>>

Add(n) ==
    /\ n \notin ToSet(order)
    /\ LET below == {m \in ToSet(order) : m < n}
       IN  order' = InsertAt(order, Cardinality(below) + 1, n)

Take(n) ==
    /\ n \in ToSet(order)
    /\ order' = Remove(order, n)

OrderedNext == \E n \in Node : Add(n) \/ Take(n)

OrderedSpec == OrderedInit /\ [][OrderedNext]_order
===============================================================================
