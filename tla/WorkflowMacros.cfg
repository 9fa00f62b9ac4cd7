CONSTANTS
  Workflows <- MCWorkflows
  MaxSteps = 3
  MaxItems = 3
  MaxCommands = 3
SPECIFICATION FairSpec
INVARIANTS RollbackOrderly ResultIsTrue
PROPERTIES AbortStops RunReturns
CHECK_DEADLOCK FALSE
