CONSTANTS
    Bids = {1, 2}
    NumRooms = 2
    Offers <- MCOffers
    Modes = {"sealed"}
    LiveBids = {}
    MaxOrders = 0
    MaxCrashes = 1
    Faults = {"crash"}
SPECIFICATION Spec
INVARIANTS
    AwardsFit
CHECK_DEADLOCK FALSE
