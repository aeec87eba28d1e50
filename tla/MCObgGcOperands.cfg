CONSTANTS
  Addr = {b1, b2, b3, b4}
  Imm = {i1}
  PRE_OLN = 5
  MaxStack = 3
  StrayTypes = {"imm"}
  BEEF = BEEF
  NULL = NULL
SYMMETRY Interchangeable
SPECIFICATION SpecOperands
INVARIANT ResultsKept
CHECK_DEADLOCK FALSE
