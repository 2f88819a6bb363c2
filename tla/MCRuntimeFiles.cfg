SPECIFICATION Spec
CONSTANTS
  p1 = p1  p2 = p2  p3 = p3
  c1 = c1  c2 = c2  c3 = c3
  r1 = r1  r2 = r2
  s1 = s1  s2 = s2  s3 = s3
  Proc = {p1, p2, p3}
  Cap = {c1, c2, c3}
  Principal = {r1, r2}
  Secret = {s1, s2, s3}
  Absent = Absent
  Unusable = Unusable
  MaxMeddles = 2
SYMMETRY Boots
INVARIANTS OneOperator NothingHeldByNobody ServingIsUsable RefusedForCause
CHECK_DEADLOCK FALSE
