CONSTANTS
    NoPolicy = NoPolicy
    NoDb = NoDb
    NoScope = NoScope
    Star = Star
    orders = orders
    run1 = run1
    conf1 = conf1
    RunCalls = {run1}
    ConfirmCalls = {conf1}
    RunRequests <- MCRunRequests
    ConfirmRequests <- MCConfirmRequests
    Files <- MCFiles
    FailClosed = TRUE
    Timeout = 1
    PruneAge = 1
    MaxReloads = 1
    MaxNow = 1
    MaxAuditFailures = 1
SPECIFICATION FairSpec
INVARIANTS
    ConsentDecides
    NothingUnrecorded
    TrailTellsOutcome
    RevokedWriteStays
PROPERTY
    KeepsPromise
    RunCallsEnd
CHECK_DEADLOCK FALSE
