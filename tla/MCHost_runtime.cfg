SPECIFICATION FairSpec
CONSTANTS
    MaxRuns = 2
    Keys = {k1}
    NoKey = noKey
    Owner = owner
    Settler = settler
    Note = note
    MaxTroubles = 2
INVARIANTS
    OneRun
    DisposedIsQuiet
    KeyIsLive
PROPERTIES
    WaitersGetOn
CHECK_DEADLOCK FALSE
