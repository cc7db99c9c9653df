SPECIFICATION Spec
CONSTANTS
  Words <- MySQLWords
  Within <- SomeWithin
  Schemas <- SomeSchemas
  Queries <- SomeQueries
  DataTypes = {"varchar", "bigint", "float", "double", "datetime"}
INVARIANTS
  TypeOK
  CompiledMeetsAssumptions
  LookupsAgree
  SaneQueriesCompile
CHECK_DEADLOCK FALSE
