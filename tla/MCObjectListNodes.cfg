\* Four slots, one address more than slots so that a second gc_init can get
\* different nodes, two pools.
CONSTANTS
  PRE_OLN = 4
  Nodes = {n1, n2, n3, n4, n5}
  Pools = {obj_pool, list_pool}
  NULL = NULL
  POISON = POISON
SPECIFICATION Spec
INVARIANTS
  TypeOK
  Conserved
  IndexCounts
  ArrayIntact
PROPERTY StockSpec
CHECK_DEADLOCK FALSE
