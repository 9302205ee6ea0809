SPECIFICATION FairSpec
CONSTANTS
    RecoveryLimit = 2
    MaxCells = 3
    MaxCancels = 2
    MaxCrashes = 1
    MaxErrors = 1
    MaxTimeouts = 1

    
PROPERTIES
    LossIsTold
    
CHECK_DEADLOCK FALSE
