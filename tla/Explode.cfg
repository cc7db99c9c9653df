SPECIFICATION FairSpec
CONSTANTS
  Char <- Characters
  BlankChars <- Blanks
  Subjects <- AllStrings
  Delimiters <- Separators
  SizeMod = 64
  MaxLength = 7
INVARIANTS
  TypeOK
  CleanListsSplit
  NothingLost
  ThrowsOnlyOnShortRest
  ComputesExploded
PROPERTIES
  Termination
CHECK_DEADLOCK FALSE
