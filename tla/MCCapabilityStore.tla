--------------------------- MODULE MCCapabilityStore ---------------------------
(* Model-checking instance of CapabilityStore.  The ids are interchangeable, *)
(* so both sets of ids are symmetric; no property here is a liveness one.    *)
EXTENDS CapabilityStore, TLC

Symmetry == Permutations(Principal) \cup Permutations(Cap)
================================================================================
