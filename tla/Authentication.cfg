SPECIFICATION FairSpec
CONSTANTS
  Offers <- MCOffers
  MaxResponses = 2
INVARIANTS
  TypeOK
  EventsInOrder
  TriedInOrder
  TimersMatchWaits
  GivesUpForGood
PROPERTIES
  LoginEnds
CHECK_DEADLOCK FALSE
