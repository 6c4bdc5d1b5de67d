SPECIFICATION Spec
CONSTANTS
  MaxItems = 3
  Size = 1
INVARIANTS
  QueuedIsSent
CHECK_DEADLOCK FALSE
