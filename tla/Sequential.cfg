SPECIFICATION SequentialSpec
CONSTANTS
  K = 2
  RunSize = 2
  Inputs <- SortInputs
  Nil = Nil
  Schemas <- AllSchemas
  Employees <- EmployeeTables
  Countries <- CountryTables
  PlanSchema <- CompanySchema
  SelectionRegister = 2
  Constant <- Age18
  JoinLeft = 1
  JoinRight = 0
  ProjectionRegisters <- Projected
  MaxOpens = 2
  MaxSize = 6
  MaxEmployees = 3
  MaxCountries = 2
CHECK_DEADLOCK FALSE
INVARIANTS
  OutputIsSorted
  RunsAreSorted
  MergeIsOrdered
  SchemaIsRestored
  JoinIteratorIsValid
  TuplesAreJoined
PROPERTIES
  SortEnds
