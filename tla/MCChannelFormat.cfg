SPECIFICATION FormatSpec
CONSTANTS
  Id = {1, 2}
  NoBody = NoBody
  Bodies <- MCBodies
  Old <- MCOld
  MaxFaults = 1
  MaxKept = 2
INVARIANTS EditsAreKept NoBodyIsGuessed
PROPERTIES WritesAreExact DamageIsKept HandStaysLocal
CHECK_DEADLOCK FALSE
