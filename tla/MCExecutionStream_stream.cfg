SPECIFICATION StreamSpec
CONSTANTS
    Sessions = {s1}
    Submissions = {}
    Texts = {t1}
    Legacy = legacy
    ActiveLimit = 1
    LedgerLimit = 1
    RecentLegacy = 1
    MaxExecs = 2
    MaxFaults = 0
    MaxReopens = 1
    Watched = s1
    Capacity = 2
    Attempts = 2
    MaxContent = 1
    MaxStreams = 1
INVARIANTS
    NothingIsMissing
PROPERTIES
    SnapshotIsOneInstant
CHECK_DEADLOCK FALSE
