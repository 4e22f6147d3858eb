CONSTANTS
    b1 = b1
    b2 = b2
    s1 = s1
    t1 = t1
    t2 = t2
    c1 = c1
    c2 = c2
    session = session
    day1 = day1
    day2 = day2
    month = month
    None = None
    Boot = {b1, b2}
    Session = {s1}
    Turn = {t1, t2}
    Call = {c1, c2}
    Days = {1, 2}
    Counter = {session, day1, day2, month}
    SessionOf <- MCSessionOf
    Scopes <- MCScopes
    Ceiling <- MCCeiling
    Worst = 1
    CallsPerTurn = 2
    Faults = {"acquire", "record", "settle", "revoke", "reconcile"}
SPECIFICATION Spec
CHECK_DEADLOCK FALSE
SYMMETRY Sym
INVARIANTS
    ExposureWithinCeiling
    CountersMatchEnvelopes
    NoMintedMoney
PROPERTIES
    ImplementsAccounts
