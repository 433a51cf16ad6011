SPECIFICATION Spec
CONSTANTS
  MaxStatements = 3
  MaxRuns = 2
INVARIANTS
  EveryStatementOnce
  OrderWithinKinds
CHECK_DEADLOCK FALSE
