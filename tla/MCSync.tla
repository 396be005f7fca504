------------------------------- MODULE MCSync -------------------------------
(* Model-checking instance of Sync. *)
EXTENDS Sync, TLC

\* the boot thread is told apart, the other slots are interchangeable
Slots == Permutations(Thread \ {kthread})
=============================================================================
