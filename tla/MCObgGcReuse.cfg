CONSTANTS
  Addr = {b1, b2, b3}
  Imm = {i1}
  PRE_OLN = 4
  MaxStack = 2
  StrayTypes = {"imm"}
  BEEF = BEEF
  NULL = NULL
SYMMETRY Interchangeable
SPECIFICATION SpecReuse
PROPERTY FreedOnce
CHECK_DEADLOCK FALSE
