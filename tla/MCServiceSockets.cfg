SPECIFICATION Spec
CONSTANTS
  p1 = p1  p2 = p2  p3 = p3
  Proc = {p1, p2, p3}
  None = None
  MaxFaults = 3
SYMMETRY Pids
INVARIANTS ServiceIsKept LeftoversAreReclaimable
CHECK_DEADLOCK FALSE
