CONSTANTS
  SIZES = 4
  BYTES = 2
  MaxBytes = 5
  MaxVectors = 3
  Counts <- MCCounts
  Ints <- MCInts
  Literals <- MCLiterals
SPECIFICATION Spec
INVARIANTS
  TypeOK
  InBounds
PROPERTIES
  LiteralsUntouched
  ArraysSpec
CHECK_DEADLOCK FALSE
