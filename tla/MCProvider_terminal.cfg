SPECIFICATION Spec
CONSTANTS
    Capacity = 2
    MaxAttempts = 2
    MaxParts = 2
INVARIANTS
    EndsWithTerminal
CHECK_DEADLOCK FALSE
