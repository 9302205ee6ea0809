SPECIFICATION FairSpec
CONSTANTS
    Steers = {s1, s2}
    Notices = {n1}
    MaxEvents = 1
INVARIANTS
    
    WaitIsWoken
PROPERTIES
    SteeringSettles
CHECK_DEADLOCK FALSE
