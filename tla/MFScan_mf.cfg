SPECIFICATION FairSpec
CONSTANTS
  NULL = NULL
  NY = NY
  CT = CT
  Names = {c1, c2, c3}
  Prods = {}
  Quants = {1, 3, NULL}
  Months = {}
  MaxRows = 3
  Columns <- SalesColumns
  NumericColumns = {"quant"}
  grouping_attr = {"cust"}
  select_columns = {"cust"}
  select_aggregates <- MFSelect
  no_grouping_vars = 2
  all_aggregates <- MFAggregates
  select_conditions <- MFConditions
  having <- MFHaving
  emf = FALSE
  Rows <- SalesRowsAndNull
  Tables <- MCTables
INVARIANTS
  TypeOK
  NeverOutOfRange
  OneRowPerGroup
  PrintsGroupsOnce
  ScannedAggregatesExact
  FillExact
PROPERTIES
  RefinesQuery
  Termination
CHECK_DEADLOCK FALSE
