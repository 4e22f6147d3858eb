SPECIFICATION FairDesk
CONSTANTS
  NULL = NULL
  b1 = b1  u1 = u1  u2 = u2  r1 = r1  q1 = q1  q2 = q2
  Bids = {b1}
  Blocks = {}
  Units = {u1}
  Rooms = {r1}
  Nights = {1}
  Requests = {q1, q2}
  MaxFailures = 2
  CategoryOf <- OneCategory
  StayOf <- FirstNight
  RoomsBooked <- OneRoom
  Written <- DeskStatuses
INVARIANTS
  CheckedInIsEvidenced
PROPERTY
  CheckedOutOverCheckedIn
  InHouseGuestLeaves
