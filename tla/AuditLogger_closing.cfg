CONSTANTS
    a = a
    b = b
    c = c
    f1 = f1
    f2 = f2
    f3 = f3
    Records = {a, b, c}
    Flushers = {f1, f2, f3}
    NoTask = NoTask
    Genesis = Genesis
    Sentinel = Sentinel
    FailClosed = FALSE
    PartialWrites = TRUE
    PowerLoss = TRUE
    MaxFailures = 1
    MaxRestarts = 1
    MaxCloses = 1
SPECIFICATION FairSpec
CHECK_DEADLOCK FALSE
INVARIANTS
    WaitingIsHeld
PROPERTY CloseReturns
