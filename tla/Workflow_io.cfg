SPECIFICATION Spec
CONSTANTS
  Empty = Empty
  Absent = Absent
  Partial = Partial
  None = None
  Select = Select
  Where = Where
  Attributes = Attributes
  Having = Having
  F0 = F0
  F1 = F1
  F2 = F2
  Cond = Cond
  LongCond = LongCond
  LongTexts = {LongCond}
  HighestGroup <- Highest
  Queries <- ShortQueries
  Forms <- ValidForms
  IOErrors = TRUE
  MaxRequests = 1
INVARIANTS
  UponSuccess
CHECK_DEADLOCK FALSE
