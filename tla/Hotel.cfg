CONSTANTS
  Clients = {c1, c2, c3, c4}
  c1 = c1
  c2 = c2
  c3 = c3
  c4 = c4
  ROOMS = 2
  DAYS = 3
SPECIFICATION Spec
INVARIANTS
  TypeOK
  RoomsMatchGuests
  ClientIsInOnePlace
PROPERTIES
  GuestsLeave
CHECK_DEADLOCK FALSE
