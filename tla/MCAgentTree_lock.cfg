SPECIFICATION FairSpec
CONSTANTS
    root = root
    a = a
    b = b
    Root = root
    Paths <- MCPaths
    Parent <- MCParent
    Depth <- MCDepth
    MaxOpen = 3
    MaxIncs = 2
    MaxOps = 4
    MaxSends = 0
    MaxAborts = 1
    MaxAwaits = 0
    MaxFaults = 1
INVARIANTS
    OpenHasHandle
    DisposedQuiet
PROPERTIES
    ImplementsLifecycle
    LockGivenBack
CHECK_DEADLOCK FALSE
