SPECIFICATION Spec
CONSTANTS
  Rows <- MCRows
  Results = {}
  Offsets = {}
  IntColumns = {"quant"}
  TextColumns = {"state", "note", "COLUMN_NAME", "DATA_TYPE"}
  Null = Null
  EmptyText = ""
  Half = 4
  NoColumn = NoColumn
  Generators = {g1, g2}
  EntryCounts <- MCEntryCounts
  GeneratedRows <- MCGeneratedRows
  Schemas <- MCSchemas
  MaxAlters = 1
  Where <- MCWhere
INVARIANTS
  DatabaseTypeOK
  ColumnsOfOneSchema
  EachRowOnce
  OneMomentOfTheTable
  EntriesAccountedFor
PROPERTIES
  EveryoneEnds
CHECK_DEADLOCK FALSE
