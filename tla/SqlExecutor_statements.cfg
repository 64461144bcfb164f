CONSTANTS
    Null = Null
    k1 = k1
    k2 = k2
    k3 = k3
    k4 = k4
    first = first
    second = second
    Calls = {first, second}
    Ids <- MCIds
    Columns <- MCColumns
    WordyColumns <- MCWordyColumns
    Tables <- MCTables
    Requests <- MCRequests
SPECIFICATION Spec
INVARIANTS
    CountsAreTrue
PROPERTIES
    DoesWhatItSays
CHECK_DEADLOCK FALSE
