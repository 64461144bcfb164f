CONSTANTS
    a1 = a1
    a2 = a2
    Agents = {a1, a2}
    Burst = 2
    Grain = 2
    MapLimit = 2
    IdleTicks = 1
    MaxNow = 6
SYMMETRY AgentSymmetry
SPECIFICATION LimiterSpec
INVARIANTS
    RateHeld
    PollingDoesNotStarve
CHECK_DEADLOCK FALSE
