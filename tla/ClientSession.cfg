SPECIFICATION FairSpec
CONSTANTS
  MaxLogins = 2
  NoOp = NoOp
INVARIANTS
  TypeOK
  OneResultPerLogin
  SoundWithoutOverlap
PROPERTIES
  ErrorAfterTeardown
  StopInTimeReturns
CHECK_DEADLOCK FALSE
