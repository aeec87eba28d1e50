CONSTANTS
  Codes <- MCCodes
  Index <- MCIndex
  Char <- MCChar
  CHARS = 4
  SignedChar = TRUE
  Newline = 1
  MAX_STR_LEN = 2
  StringLiteral <- MCStringLiteral
  MaxStrings = 2
  MaxText = 2
  Atom <- MCAtom
  ListLiteral <- MCListLiteral
  MaxKnown = 5
SPECIFICATION Spec
INVARIANTS
  InBlocks
  StringsAreTexts
  SharingInvisible
PROPERTY AsDocumented
CHECK_DEADLOCK FALSE
