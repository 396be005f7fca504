-------------------------------- MODULE MCSlab --------------------------------
(* Model-checking instance of Slab. *)
EXTENDS Slab, TLC

Blocks == Permutations(Block)
===============================================================================
