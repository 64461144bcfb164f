CONSTANTS
    NoPolicy = NoPolicy
    NoDb = NoDb
    NoScope = NoScope
    Star = Star
    c1 = c1
    c2 = c2
    main = main
    other = other
    ghost = ghost
    sales = sales
    hr = hr
    orders = orders
    people = people
    email = email
    Calls = {c1, c2}
    Registered <- MCRegistered
    Default = main
    Setups <- MCSetups
    Names = {main, other, ghost}
    Databases = {sales, hr}
    Home <- MCHome
    Stored <- MCStored
    Fields = {email}
    MaxReloads = 0
    Policies <- MCPolicies
SPECIFICATION Spec
INVARIANTS
    DatabaseAxisHeld
CHECK_DEADLOCK FALSE
