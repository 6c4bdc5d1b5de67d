SPECIFICATION Spec
CONSTANTS
  Users = {u1, u2}
  Conns = {c1, c2, c3}
  Keys = {k1}
  MaxMsgs = 3
  NoConn = NoConn
  NoUser = NoUser
  NoKey = NoKey
SYMMETRY Permuted
INVARIANTS
  TypeOK
  SessionTable
  InItsPlace
PROPERTIES
  KeysServed
  StoresAndForwards
CHECK_DEADLOCK FALSE
