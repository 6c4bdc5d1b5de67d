SPECIFICATION Spec
CONSTANTS
  Users = {u1, u2}
  Conns = {c1, c2}
  Keys = {k1}
  MaxMsgs = 3
  NoConn = NoConn
  NoUser = NoUser
  NoKey = NoKey
INVARIANT
  RelayInOrder
CHECK_DEADLOCK FALSE
