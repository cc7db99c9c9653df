SPECIFICATION Spec
CONSTANTS
  NULL = NULL
  NY = NY
  CT = CT
  Names = {c1, c2}
  Prods = {p1, p2}
  Quants = {1, 3}
  Months = {}
  MaxRows = 3
  Columns <- ProductColumns
  NumericColumns = {"quant"}
  grouping_attr = {"prod"}
  select_columns = {"prod"}
  select_aggregates <- HalfAggregates
  no_grouping_vars = 2
  all_aggregates <- HalfAggregates
  select_conditions <- HalfConditions
  having <- HalfHaving
  emf = TRUE
  Rows <- ProductRows
  Tables <- MCTables
INVARIANTS
  PrintedAnswer
CHECK_DEADLOCK FALSE
