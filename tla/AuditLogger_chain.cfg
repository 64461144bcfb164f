CONSTANTS
    a = a
    b = b
    c = c
    f1 = f1
    f2 = f2
    f3 = f3
    Records = {a, b, c}
    Flushers = {f1, f2}
    NoTask = NoTask
    Genesis = Genesis
    Sentinel = Sentinel
    FailClosed = TRUE
    PartialWrites = FALSE
    PowerLoss = FALSE
    MaxFailures = 2
    MaxRestarts = 2
    MaxCloses = 0
SPECIFICATION FairSpec
CHECK_DEADLOCK FALSE
INVARIANTS
    ChainVerifies
    FileMatchesCalls
PROPERTY CallsReturn
