CONSTANTS
    NoDb = NoDb
    c1 = c1
    c2 = c2
    main = main
    other = other
    Calls = {c1, c2}
    Databases = {main, other}
    Home = main
    Ids = {1, 2}
    Starts <- MCStarts
    Requests <- MCRequests
    SampleSize = 1
    CacheMax = 1
    Ttl = 1
    MaxRetries = 1
    MaxTime = 2
    MaxChanges = 1
SPECIFICATION Spec
INVARIANTS
    WrittenAtMostOnce
PROPERTIES
    MarshalsForItsCollection
SYMMETRY Swap
CHECK_DEADLOCK FALSE
