------------------------------ MODULE AtomicUnits ------------------------------
(***************************************************************************)
(* What store.tx promises, whatever SQLite does: a unit of work takes      *)
(* effect at one instant, together with the units that were completed      *)
(* inside it, or never; and its caller is told which.                      *)
(***************************************************************************)
CONSTANTS
  Unit,    \* the calls of store.tx, each a unit of work
  NoUnit   \* the caller of a unit that is not called from within another

VARIABLES
  outer,   \* the unit in whose body a unit was called
  ended,   \* what its caller has been told: "none", "ok" or "error"
  landed   \* units whose work is durable

\* u, and what was completed within it by units that were themselves completed.
Kept(u) ==
  {v \in Unit : \A X \in SUBSET Unit :
     (/\ u \in X
      /\ \A w \in Unit : ended[w] = "ok" /\ outer[w] \in X => w \in X) => v \in X}

Init ==
  /\ outer = [u \in Unit |-> NoUnit]
  /\ ended = [u \in Unit |-> "none"]
  /\ landed = {}

Call(u, v) ==
  /\ ended[u] = "none" /\ u \notin landed
  /\ outer' = [outer EXCEPT ![u] = v]
  /\ UNCHANGED <<ended, landed>>

\* Everything the unit keeps lands at once.
Land(u) ==
  /\ ended[u] = "none" /\ outer[u] = NoUnit
  /\ landed' = landed \cup Kept(u)
  /\ UNCHANGED <<outer, ended>>

\* Success is told of a unit that landed, or that is left to the unit around it.
Succeed(u) ==
  /\ ended[u] = "none"
  /\ outer[u] = NoUnit => u \in landed
  /\ ended' = [ended EXCEPT ![u] = "ok"]
  /\ UNCHANGED <<outer, landed>>

\* Failure is told of a unit that left nothing behind.
Fail(u) ==
  /\ ended[u] = "none" /\ u \notin landed
  /\ ended' = [ended EXCEPT ![u] = "error"]
  /\ UNCHANGED <<outer, landed>>

Next == \E u \in Unit : \/ \E v \in Unit \cup {NoUnit} : Call(u, v)
                        \/ Land(u) \/ Succeed(u) \/ Fail(u)

Spec == Init /\ [][Next]_<<outer, ended, landed>>
================================================================================
