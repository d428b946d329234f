SPECIFICATION FairSpec
CONSTANTS
    Sessions = {s1}
    Submissions = {i1, i2}
    Texts = {t1, t2}
    Legacy = legacy
    ActiveLimit = 2
    LedgerLimit = 2
    RecentLegacy = 1
    MaxExecs = 2
    MaxFaults = 1
    MaxReopens = 1
INVARIANTS
    RunsOnce
    WorkIsOwned
    ViewIsObserved
    OutcomeIsTrue
    ReferredIsKept
PROPERTIES
    PublishedGoesForward
    KeepsSubmissions
    InterruptEnds
    CloseReturns
CHECK_DEADLOCK FALSE
