CONSTANTS
    r1 = r1
    r2 = r2
    RunCalls = {r1, r2}
    Timeout = 2
    PruneAge = 3
SPECIFICATION StoreFairSpec
INVARIANTS
    ApprovedByHuman
    AckedStands
    NoLostWakeup
    ApprovalLostOnlyToTimer
PROPERTIES
    NoDecisionAfterAnswer
    RecordsEnd
CHECK_DEADLOCK FALSE
