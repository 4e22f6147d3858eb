SPECIFICATION FairSpec
CONSTANTS
  Nobody = Nobody
  b1 = b1  b3 = b3  x1 = x1  g1 = g1  g2 = g2
  Blocks = {b1}
  Bids = {x1}
  Guests = {g1, g2}
  Quantity = 1
  LastDay = 1
  From <- FirstDay
  To <- SecondDay
  RoomsOf <- OneRoomEach
  Replay = FALSE
  Lost = {"patch", "budget", "verify", "flip", "flag", "settle", "read"}
INVARIANTS
  HoldFollowsBlock
PROPERTY
  AbandonedIsReleased
CHECK_DEADLOCK FALSE
