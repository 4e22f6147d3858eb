CONSTANTS
    Sessions = {s1}
    Requests = {r1, r2}
    Janitors = {j1, j2}
    Workers = {w1, w2}
    ActiveLimit = 1
    Batch = 1
    Ttl = 2
    CleanupLease = 1
    StageLease <- MCStageLease
    MaxUploads = 2
    MaxClaims = 2
SPECIFICATION Spec
SYMMETRY Symmetry
INVARIANTS
    UploadTypeOK
    AcceptedKeepsObject
    CleanedStaysClean
    ReadyServesItsOwnBytes
PROPERTIES
    ImplementsPipeline
CHECK_DEADLOCK FALSE
