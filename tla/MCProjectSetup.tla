----------------------------- MODULE MCProjectSetup -----------------------------
(* Model-checking instance of ProjectSetup: a project, and another within it. *)
EXTENDS ProjectSetup, TLC

CONSTANTS outer, inner

MCAbove == (outer :> {}) @@ (inner :> {outer})
MCHome  == [d \in Dir |-> d]

Symmetry == Permutations(Command) \cup Permutations(Opener) \cup Permutations(Ns)
================================================================================
