SPECIFICATION TxSpec
CONSTANTS
  Unit = {u1, u2, u3, u4}
  NoUnit = NoUnit
  MaxRows = 2
  Heedless = FALSE
SYMMETRY Symmetry
INVARIANTS UnitsLandWhole NeverLeftOpen
PROPERTY UnitsAreAtomic
CHECK_DEADLOCK FALSE
