SPECIFICATION DeliveryFairSpec
CONSTANTS
  u1 = u1
  u2 = u2
  c1 = c1
  c2 = c2
  c3 = c3
  Owner <- OneReturns
  Users = {u1, u2}
  Conns = {c1, c2, c3}
  Keys = {}
  MaxMsgs = 2
  MaxChats = 1
  NoConn = NoConn
  NoUser = NoUser
  NoKey = NoKey
INVARIANTS
  DeliveryTypeOK
  ConnectedIsReachable
  LossesExplained
PROPERTIES
  MailIsKept
  RefusedByGhostOnly
  PresentIsTold
CHECK_DEADLOCK FALSE
