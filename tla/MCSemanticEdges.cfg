SPECIFICATION Spec
CONSTANTS
    c1 = c1
    Children <- MCChildren
    Persistent <- MCChildren
    Compacting <- MCRoot
    Refining <- MCRoot
    MaxMail = 1
    MaxRequests = 4
INVARIANTS
    NeverRaises
    ContinuesSurvivor
    CarriedOnce
CHECK_DEADLOCK FALSE
