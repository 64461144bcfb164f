CONSTANTS
    NoPolicy = NoPolicy
    NoDb = NoDb
    NoScope = NoScope
    Star = Star
    orders = orders
    run1 = run1
    conf1 = conf1
    RunCalls = {}
    ConfirmCalls = {conf1}
    RunRequests <- MCRunRequests
    ConfirmRequests <- MCConfirmRequests
    Files <- MCFilesAndNone
    FailClosed = TRUE
    Timeout = 1
    PruneAge = 1
    MaxReloads = 1
    MaxNow = 0
    MaxAuditFailures = 0
SPECIFICATION Spec
INVARIANT DenialsRecorded
CHECK_DEADLOCK FALSE
