SPECIFICATION FairSpec
CONSTANTS
    o = o
    Owners = {o}
    Jobs = {j1}
    Owner <- MCOwner
    Calls = {k1, k2}
    MaxActive = 1
INVARIANTS
    NoStrayProcess
    JobsEndWithOwner
    EndsAreTold
PROPERTIES
    JobsEnd
CHECK_DEADLOCK FALSE
