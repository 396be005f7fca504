------------------------------- MODULE MCRBTree -------------------------------
(* Model-checking instance of RBTree. *)
EXTENDS RBTree
===============================================================================
