CONSTANTS
  PARTS = 8
  Literals <- MCLiterals
SPECIFICATION Spec
INVARIANTS
  TypeOK
  SumExactInRange
  ProductExact
  QuotientExactInRange
  OrderExact
  ModuloSound
  RoundingSound
CHECK_DEADLOCK FALSE
