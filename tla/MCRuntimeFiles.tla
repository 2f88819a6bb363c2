----------------------------- MODULE MCRuntimeFiles -----------------------------
(* Model-checking instance of RuntimeFiles: boots side by side, with an operator *)
(* who removes, spoils, restores and revokes.                                    *)
EXTENDS RuntimeFiles, TLC

CONSTANTS p1, p2, p3, c1, c2, c3, r1, r2, s1, s2, s3

Boots == Permutations({p1, p2, p3}) \cup Permutations({c1, c2, c3})
           \cup Permutations({r1, r2}) \cup Permutations({s1, s2, s3})
================================================================================
