SPECIFICATION FairPoolSpec
CONSTANTS
    Capacity = 2
    Depths <- MCDepths
    MaxTickets = 5
INVARIANTS
    PoolIsSound
PROPERTIES
    RefinesAdmission
    LeastDepthServed
CHECK_DEADLOCK FALSE
