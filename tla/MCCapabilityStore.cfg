SPECIFICATION Spec
CONSTANTS
  Principal = {p1, p2}
  Cap = {c1, c2, c3}
  Scope = {s1, s2}
  MaxTime = 1
  MaxTtl = 2
  MaxChainDepth = 1
  None = None
SYMMETRY Symmetry
INVARIANTS
  RevocationReachesDescendants
  AuthorityOnlyNarrows
  LiveMeansLineageLive
PROPERTY RefusalOnlyEndsWithClock
