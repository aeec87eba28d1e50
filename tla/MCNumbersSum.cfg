CONSTANTS
  PARTS = 8
  Literals <- MCLiterals
SPECIFICATION Spec
INVARIANT SumExact
CHECK_DEADLOCK FALSE
