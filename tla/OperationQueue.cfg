SPECIFICATION FairSpec
CONSTANTS
  Ops = {a, b}
  NoOp = NoOp
  MaxOps = 4
INVARIANTS
  TypeOK
PROPERTIES
  ExecutesInOrder
  QuietAfterDestroy
  AwakeWorkerServes
CHECK_DEADLOCK FALSE
