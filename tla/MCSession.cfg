\* Sixteen addresses, room for fourteen blocks in the limit and fifteen in the
\* table, so that a leak can reach the limit; three commands, one power loss.
CONSTANTS
  Block <- Blocks
  NULL = NULL
  TrackerLength = 15
  MemoryHardLimit = 14
  Sizes <- Units
  Program <- Programs
  CodeOf <- Codes
  GlobalsOf <- Globals
  NamesOf <- Symbols
  MaxCommands = 3
  MaxPowerLosses = 1
SPECIFICATION Spec
INVARIANTS
  TypeOK
  TrackerExact
  LimitKept
  FetchesOwnCode
  NamesReadable
  GlobalsAlive
  NothingElseLost
PROPERTY Answered
CHECK_DEADLOCK FALSE
