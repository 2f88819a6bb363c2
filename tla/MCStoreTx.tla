------------------------------- MODULE MCStoreTx -------------------------------
(* Model-checking instance of StoreTx.  Units are interchangeable. *)
EXTENDS StoreTx, TLC

Symmetry == Permutations(Unit)
================================================================================
