SPECIFICATION Spec
CONSTANTS
    w1 = w1
    w2 = w2
    Writers = {w1, w2}
    Records <- MCRecords
    Batches <- MCBatches
    Imports <- MCImports
    CreateOps = {"c"}
    DefaultCreate = "d"
    DeleteOps = {"x"}
    RecentLimit = 1
    Collisions = {}
    MaxRevision = 1
    MaxFaults = 1
    Modes <- MCModes
    None = None
    Garbage = Garbage
SYMMETRY MCWriters
INVARIANTS
    OnceOnly
CHECK_DEADLOCK FALSE
