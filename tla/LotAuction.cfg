CONSTANTS
    Bids = {1, 2}
    NumRooms = 2
    Offers <- MCOffers
    Modes = {"sealed", "live"}
    LiveBids = {1}
    MaxOrders = 1
    MaxCrashes = 1
    Faults = {"crash", "mint", "cancel", "award"}
SPECIFICATION FairSpec
INVARIANTS
    OneRunFits
    NoEnvy
    PaymentBuysOneVoucher
PROPERTIES
    BidsAreDecided
CHECK_DEADLOCK FALSE
