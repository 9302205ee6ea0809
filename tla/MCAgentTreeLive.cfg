SPECIFICATION FairSpec
CONSTANTS
    a = a
    b = b
    Root = root
    Agents <- MCAgents
    Parent <- MCParent
    Messages = {}
    MaxCalls = 2
    MaxFaults = 1
PROPERTIES
    StopCompletes
    NoOrphans
CHECK_DEADLOCK FALSE
