SPECIFICATION HarnessSpec
CONSTANTS
    Engines = {e1}
    Writers = {w1}
    Keys = {k}
    Episodes = {ep}
    Limit = 2
    MaxEdits = 2
    MaxTime = 3
INVARIANTS
    FileIsItsWrites
    ToldCanBeUndone

    
CHECK_DEADLOCK FALSE
