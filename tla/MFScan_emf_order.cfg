SPECIFICATION Spec
CONSTANTS
  NULL = NULL
  NY = NY
  CT = CT
  Names = {}
  Prods = {p1, p2}
  Quants = {1, 3}
  Months = {1, 2}
  MaxRows = 3
  Columns <- MonthColumns
  NumericColumns = {"month", "quant"}
  grouping_attr = {"prod", "month"}
  select_columns = {"prod", "month"}
  select_aggregates <- OrderAggregates
  no_grouping_vars = 1
  all_aggregates <- OrderAggregates
  select_conditions <- OrderConditions
  having <- NoHaving
  emf = TRUE
  Rows <- MonthRows
  Tables <- MCTables
INVARIANTS
  ScannedAggregatesExact
CHECK_DEADLOCK FALSE
