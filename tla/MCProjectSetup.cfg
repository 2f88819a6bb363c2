SPECIFICATION SetupSpec
CONSTANTS
  outer = outer
  inner = inner
  Dir = {outer, inner}
  Ns = {a, b}
  Above <- MCAbove
  Home <- MCHome
  None = None
  NoMap = NoMap
  Garbage = Garbage
  Command = {p1, p2}
  Nobody = Nobody
  Dead = Dead
  NoConfig = NoConfig
  Torn = Torn
  MaxRuns = 3
  MaxHand = 1
  Opener = {s1, s2}
  Newer = 7
SYMMETRY Symmetry
INVARIANTS  OneHomePerNamespace OpenMeansCurrent
PROPERTY MapOnlyGrows
CHECK_DEADLOCK FALSE
