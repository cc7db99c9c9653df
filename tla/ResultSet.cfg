SPECIFICATION RSSpec
CONSTANTS
  Rows <- MCRows
  Results <- MCResults
  Offsets <- MCOffsets
  IntColumns = {"quant"}
  TextColumns = {"state"}
  Null = Null
  EmptyText = ""
  Half = 4
  NoColumn = NoColumn
INVARIANT
  TypeOK
PROPERTIES
  DriftsOnlyBackwards
  RefinesCursor
CHECK_DEADLOCK FALSE
