CONSTANTS
    None = None
    PayWindow = 1
    HotelWindow = 2
    PlaceWindow = 2
    CounterWindow = 2
    Grace = 1
    CounterGrace = 4
    OldAge = 4
    AutoDelay = 1
    MaxCheckout = 1
    MaxCharges = 2
    Faults = {"stamp", "counter-accept", "accept", "record", "schedule", "cancel",
              "rebid", "railway", "cron-accept", "sweep"}
SPECIFICATION FairSpec
INVARIANTS
    BidTypeOK
    RewardedOnce
PROPERTIES
    WindowHonoured
    SweepSparesPayers
    ScheduleKept
    NothingLingers
