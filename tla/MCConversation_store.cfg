SPECIFICATION Spec
CONSTANTS
    w1 = w1
    w2 = w2
    Writers = {w1, w2}
    Records <- MCRecords
    Batches <- MCBatches
    Imports <- MCImports
    CreateOps = {"c"}
    DefaultCreate = "d"
    DeleteOps = {"x"}
    RecentLimit = 1
    Collisions = {"b"}
    MaxRevision = 1
    MaxFaults = 2
    Modes <- MCModes
    None = None
    Garbage = Garbage
SYMMETRY MCWriters
INVARIANTS
    ReceiptsHold
    HeadIsJournal
    AppendsAreNew
    DeletedIsRetired
CHECK_DEADLOCK FALSE
