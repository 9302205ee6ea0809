SPECIFICATION FairSpec
CONSTANTS
    p = p
    Owners = {p}
    Jobs = {j1}
    Owner <- MCOwner
    Slots = 2
    MaxOutput = 2
    EventBytes = 1
INVARIANTS
    CopyIsWhole
    OutputAccounted
PROPERTIES
    EndsReported
CHECK_DEADLOCK FALSE
