SPECIFICATION FairSpec
CONSTANTS
  NULL = NULL
  NY = NY
  CT = CT
  Names = {c1, c2}
  Prods = {p1, p2}
  Quants = {1, 3, NULL}
  Months = {}
  MaxRows = 3
  Columns <- ProductColumns
  NumericColumns = {"quant"}
  grouping_attr = {"cust", "prod"}
  select_columns = {"cust", "prod"}
  select_aggregates <- EMFSelect
  no_grouping_vars = 2
  all_aggregates <- EMFAggregates
  select_conditions <- EMFConditions
  having <- EMFHaving
  emf = TRUE
  Rows <- ProductRows
  Tables <- MCTables
INVARIANTS
  ScannedAggregatesExact
PROPERTIES
  RefinesQuery
  Termination
CHECK_DEADLOCK FALSE
