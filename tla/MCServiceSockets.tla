---------------------------- MODULE MCServiceSockets ----------------------------
(* Model-checking instances of ServiceSockets, by configuration: MCServiceSockets *)
(* (what a service keeps) and MCServiceSocketsReady (what /health promises).      *)
EXTENDS ServiceSockets, TLC

CONSTANTS p1, p2, p3

Pids == Permutations(Proc)
================================================================================
