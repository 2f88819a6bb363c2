SPECIFICATION Spec
CONSTANTS
  p1 = p1  p2 = p2  p3 = p3
  Proc = {p1, p2}
  None = None
  MaxFaults = 0
INVARIANT ReadyMeansEnrollable
CHECK_DEADLOCK FALSE
