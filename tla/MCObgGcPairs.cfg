CONSTANTS
  Addr = {b1, b2, b3, b4, b5, b6}
  Imm = {i1}
  PRE_OLN = 6
  MaxStack = 3
  StrayTypes = {"imm"}
  BEEF = BEEF
  NULL = NULL
CONSTRAINT NoGlobals
SYMMETRY Interchangeable
SPECIFICATION SpecPairs
PROPERTY ActiveKept
CHECK_DEADLOCK FALSE
