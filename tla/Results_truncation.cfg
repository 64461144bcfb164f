CONSTANTS
    NoPolicy = NoPolicy
    NoDb = NoDb
    NoScope = NoScope
    Star = Star
    orders = orders
    people = people
    staff = staff
    hr = hr
    Coll = orders
    Output <- MCOutput
    Databases = {NoDb, hr}
    Stores <- MCStores
    Policies <- MCPolicies
    Pipelines <- MCPipelines
    Limits = {1, 3}
    MaxLimit = 3
    Budget = 11
    MaxDepth = 1
    MaxNesting = 6
    MaxReloads = 1
SPECIFICATION Spec
INVARIANT
    TruncationIsTold
CHECK_DEADLOCK FALSE
