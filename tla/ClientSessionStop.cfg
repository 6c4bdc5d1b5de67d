SPECIFICATION FairSpec
CONSTANTS
  MaxLogins = 1
  NoOp = NoOp
PROPERTIES
  StopEndsLoop
CHECK_DEADLOCK FALSE
