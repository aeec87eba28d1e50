\* Five blocks and four list nodes: memory and list nodes run out in turn, and
\* a nested list fits.  One immediate is enough to tell the places of a list
\* apart, for lists are elements too.
CONSTANTS
  Addr = {b1, b2, b3, b4, b5}
  Imm = {i1}
  PRE_OLN = 4
  MaxStack = 3
  StrayTypes = {"imm", "list"}
  BEEF = BEEF
  NULL = NULL
SYMMETRY Interchangeable
SPECIFICATION Spec
INVARIANTS
  TypeOK
  BookedOnce
  ListConstantsPermanent
  NothingBooked
  NothingDangling
PROPERTIES
  Transparent
  CollectionKeeps
CHECK_DEADLOCK FALSE
