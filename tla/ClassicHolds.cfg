SPECIFICATION Spec
CONSTANTS
  Nobody = Nobody
  b1 = b1  b3 = b3  x1 = x1  g1 = g1  g2 = g2
  Blocks = {b1, b3}
  Bids = {}
  Guests = {}
  Quantity = 1
  LastDay = 1
  From <- FirstDay
  To <- OneLeavesEarly
  RoomsOf <- OneRoomEach
  Replay = TRUE
  Lost = {"release", "read"}
INVARIANTS
  TypeOK
  HoldsNeverOversell
CHECK_DEADLOCK FALSE
