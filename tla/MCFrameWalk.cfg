CONSTANTS
  STKSEG_SIZE = 50
  a = a
  b = b
  c1 = c1
  Object = {a, b}
  Closure = {c1}
  Code = {1, 2}
  TailArities = {0, 1, 2}
  ClosureArity <- MCArity
  ClosureEntry <- MCEntry
  InitEnv <- MCEnv
  MaxVar = 1
  NULL = NULL
  JUNK = JUNK
SPECIFICATION Spec
INVARIANT WalkFindsFrames
CHECK_DEADLOCK FALSE
