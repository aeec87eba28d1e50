CONSTANTS
  STKSEG_SIZE = 33
  a = a
  b = b
  c1 = c1
  Object = {a, b}
  Closure = {c1}
  Code = {1, 2}
  TailArities = {0, 1, 2}
  ClosureArity <- MCArity
  ClosureEntry <- MCEntry
  InitEnv <- MCEnv
  MaxVar = 1
  Prim = a
  Listed = {b}
  Entry = {1}
  MaxElements = 2
  NULL = NULL
  JUNK = JUNK
VIEW MCView
SPECIFICATION MCSpec
INVARIANTS
  TypeOK
  StackIntact
  RegistersPlaced
PROPERTIES
  ReturnRestores
  StackSpec
CHECK_DEADLOCK FALSE
