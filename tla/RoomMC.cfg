SPECIFICATION RoomSpec
CONSTANTS
  P1 = P1
  P2 = P2
  H1 = H1
  S1 = S1
  S2 = S2
  Client = {P1, P2, S1}
  Binding = {"seat", "heir", "observer"}
  BindingOf <- RoomBindingOf
  SideOf <- RoomSideOf
  Bound = {"seat", "observer"}
  NoRead = NoRead
  MaxSequence = 2
INVARIANTS
  NothingIsLost
  DeliveryIsInOrder
PROPERTIES
  SpectatorsAreAuthorized
  EveryoneIsServed
CHECK_DEADLOCK FALSE
