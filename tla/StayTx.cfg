SPECIFICATION FairTxSpec
CONSTANTS
  NULL = NULL
  b1 = b1  b2 = b2  b3 = b3  k1 = k1  u1 = u1  u2 = u2  r1 = r1  t1 = t1  t2 = t2
  Bids = {b1, b2, b3}
  Blocks = {k1}
  Units = {u1, u2}
  Rooms = {r1}
  Nights = {1}
  Txs = {t1, t2}
  CategoryOf <- OneCategory
  StayOf <- StayDates
  RoomsBooked <- TwoAndOne
  Written = {}
  Calls <- EveryKind
  LockKey <- OwnKeys
  Rank <- UnitIds
INVARIANTS
  NoWaitCycle
  ExitedBidsHoldNothing
PROPERTY
  ImplementsClaims
  UndatedClaimsFailClosed
  EveryTxEnds
