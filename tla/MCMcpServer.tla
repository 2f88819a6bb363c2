------------------------------- MODULE MCMcpServer -------------------------------
(* Model-checking instance of McpServer. *)
EXTENDS McpServer, TLC

CONSTANTS t1, t2, t3, r1, r2, c1, c2, c3

Alike == Permutations(Token) \cup Permutations(Slot) \cup Permutations(Stream)
================================================================================
