SPECIFICATION FairSpec
CONSTANTS
    Capacity = 2
    MaxAttempts = 2
    MaxParts = 4
INVARIANTS
    OneAttemptShown
    NothingDropped
    ShownIsRecorded
PROPERTIES
    LeavingEnds
CHECK_DEADLOCK FALSE
