SPECIFICATION Spec
CONSTANTS
    a = a
    b = b
    Root = root
    Agents <- MCAgents
    Parent <- MCParent
    Messages = {m1}
    MaxCalls = 2
    MaxFaults = 1
INVARIANTS
    NothingIsMissed
    EndsAreOrderly
CHECK_DEADLOCK FALSE
