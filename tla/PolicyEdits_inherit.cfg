CONSTANTS
    NoPolicy = NoPolicy
    NoDb = NoDb
    NoScope = NoScope
    Star = Star
    orders = orders
    customers = customers
    sales = sales
    hr = hr
    email = email
    ssn = ssn
    main = main
    replica = replica
    me = me
    role = role
    root = root
    NoBase = NoBase
    Earliest = 0
    Latest = 1
    Agent = me
    Collections <- MCCollections
    Databases <- MCDatabases
    Fields <- MCFields
    ConnectionNames <- MCConnectionNames
    Templates <- MCTemplates
    Requests <- MCRequests
    Plans <- MCPlans
    EditedActions <- MCEdited
    Window <- MCWindow
    MaxEdits = 3
    Emptying = FALSE
SPECIFICATION Spec
INVARIANT
    OwnDatabasesHold
CHECK_DEADLOCK FALSE
