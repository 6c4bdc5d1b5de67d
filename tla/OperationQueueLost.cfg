SPECIFICATION FairSpec
CONSTANTS
  Ops = {a, b}
  NoOp = NoOp
  MaxOps = 2
PROPERTY
  EveryOperationRuns
CHECK_DEADLOCK FALSE
