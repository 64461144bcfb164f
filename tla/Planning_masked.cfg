CONSTANTS
    NoPolicy = NoPolicy
    NoDb = NoDb
    NoScope = NoScope
    Star = Star
    NoRef = NoRef
    d1 = d1
    d2 = d2
    users = users
    user = user
    orders = orders
    items = items
    id = id
    userId = userId
    sku = sku
    status = status
    state = state
    Locations <- MCLocations
    IdShaped = {id, userId}
    DocId = id
    Plural <- MCPlural
    Stem <- MCStem
    MaxHops = 3
    Home = d1
    Worlds <- MCWorlds
    Target <- MCTarget
    Unique <- MCUnique
    Indexed <- MCIndexed
    Concept = {status, state}
    Policies <- MCPolicies
    Requests <- MCRequests
    Costs = {0, 1}
    Composite = {9}
    SampleCap = 2
    TenantMin = 2
    TopN = 2
    MaxReloads = 2
    MaxFailures = 1
SPECIFICATION Spec
INVARIANT MaskedIsNoEndpoint
CHECK_DEADLOCK FALSE
