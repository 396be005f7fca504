----------------------------- MODULE MCSpinlock -----------------------------
(* Model-checking instance of Spinlock. *)
EXTENDS Spinlock, TLC

\* the boot thread is told apart, the others are interchangeable
Others == Permutations(Thread \ {boot})
=============================================================================
