SPECIFICATION Spec
CONSTANTS
  NULL = NULL
  b1 = b1  b2 = b2  k1 = k1  k2 = k2
  u1 = u1  u2 = u2  r1 = r1  r2 = r2
  Bids = {b1, b2}
  Blocks = {k1}
  Units = {u1, u2}
  Rooms = {r1}
  Nights = {1, 2}
  CategoryOf <- Categories
  StayOf <- DatedStays
  RoomsBooked <- TwoAndOne
  Written <- StatusClasses
SYMMETRY UnitSymmetry
INVARIANTS
  TypeOK
  LinesDisjoint
  OneOccupantUnlessLapsed
  ColumnBackedByLine
PROPERTY
  ImplementsClaims
