SPECIFICATION Spec
CONSTANTS
  Addr = {"a"}
  Scale = 100
  Backends = {"sqlite", "redis", "memory"}
  Samples <- MCSamples
  Loaded <- MCLoaded
  Args <- MCArgs
  RetryDelays = 1
  MaxChecks = 3
  MaxStarts = 2
INVARIANTS RowsExplained WarmStartRemembers
PROPERTIES UpsertReturns
CHECK_DEADLOCK FALSE
