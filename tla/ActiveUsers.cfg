SPECIFICATION FairSpec
CONSTANTS
  Keys <- MCKeys
  MaxRequests = 3
  MaxChanges = 1
INVARIANTS
  TypeOK
  KeyArrives
  NoCrashAlone
  AnswersMatchRequests
PROPERTIES
  AloneIsAnswered
CHECK_DEADLOCK FALSE
