SPECIFICATION Spec
CONSTANTS
  BlankChars <- Blanks
  Token <- AllTokens
  Columns <- Table
  TextColumns <- TextNames
  Number <- Digits
  Inputs <- MCInputs
  MaxTokens = 4
  MaxPieces = 5
  MaxWords = 4
INVARIANTS
  StringsAsWritten
CHECK_DEADLOCK FALSE
