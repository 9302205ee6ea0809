SPECIFICATION FairSpec
CONSTANTS
    Prompts = {p1, p2}
    Steers = {s1}
    Closers = {c1, c2}
    MaxCancels = 1
    MaxFaults = 2
INVARIANTS
    CloseIsOrderly
PROPERTIES
    CloseSettles
CHECK_DEADLOCK FALSE
