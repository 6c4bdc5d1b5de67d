SPECIFICATION Spec
CONSTANTS
  MaxItems = 4
  Size = 2
INVARIANTS
  TypeOK
  StreamIntact
  NoCrashAlone
CHECK_DEADLOCK FALSE
