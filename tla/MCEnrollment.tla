----------------------------- MODULE MCEnrollment -----------------------------
(* Model-checking instance of Enrollment: calls and capability ids are        *)
(* interchangeable in every safety property.                                  *)
EXTENDS Enrollment, TLC

Symmetry == Permutations(Call) \cup Permutations(Cap)
================================================================================
