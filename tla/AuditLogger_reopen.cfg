CONSTANTS
    a = a
    b = b
    c = c
    f1 = f1
    f2 = f2
    f3 = f3
    Records = {a, b, c}
    Flushers = {f1, f2, f3}
    NoTask = NoTask
    Genesis = Genesis
    Sentinel = Sentinel
    FailClosed = TRUE
    PartialWrites = FALSE
    PowerLoss = FALSE
    MaxFailures = 0
    MaxRestarts = 0
    MaxCloses = 1
SPECIFICATION Spec
CHECK_DEADLOCK FALSE
INVARIANT ChainVerifies
