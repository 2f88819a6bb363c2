SPECIFICATION Spec
CONSTANTS
  Call = {c1, c2}
  Cap = {k1, k2}
  Scope = {"channel:read", "permit:administer"}
  Ttl = {2, 3}
  MinTtl = 1
  MaxTtl = 2
  DefaultTtl = 1
  CodeTtl = 1
  MaxTime = 2
  None = None
SYMMETRY Symmetry
INVARIANTS GrantsAreApproved OnePerApproval BurnsAreEarned OneLiveRoot
PROPERTIES BlockedIsFinal
