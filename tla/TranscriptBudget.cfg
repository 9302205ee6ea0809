SPECIFICATION SpecTalk
CONSTANTS
    Limited = TRUE
    MaxAttempts = 2
    MaxCompactions = 1
    MaxPrompts = 2
    MaxLength = 5
INVARIANTS
    EveryCallAnswered
CHECK_DEADLOCK FALSE
