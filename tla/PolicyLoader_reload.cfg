CONSTANTS
    ana = ana
    bob = bob
    role = role
    bad = bad
    alone = alone
    other = other
    child = child
    Blank = Blank
    Gone = Gone
    NoExtends = NoExtends
    Layouts <- MCLayouts
    Items <- MCItems
    Valid = {alone, other, child}
    Broken = {bad}
    MaxWrites = 3
SPECIFICATION LoaderFairSpec
INVARIANTS
    OnlyWholeValidMaps
PROPERTIES
    PoliciesNotLost
    UpToDateUnlessRaced
CHECK_DEADLOCK FALSE
