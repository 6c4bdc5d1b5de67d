SPECIFICATION FairSpec
CONSTANTS
  a = a
  b = b
  Clients = {a, b}
  Observers = {o1, o2}
  MaxSent <- TwoMessages
  MaxRegs <- TwoChanges
INVARIANTS
  TypeOK
  MessagesInOrder
  SeenAfterDelivered
PROPERTIES
  OnlyRegisteredAreTold
  EventsAreBroadcast
  RoundTrip
CHECK_DEADLOCK FALSE
