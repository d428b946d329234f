SPECIFICATION Spec
CONSTANTS
    root = root
    a = a
    b = b
    Root = root
    Paths <- MCPaths
    Parent <- MCParent
    Depth <- MCDepth
    MaxOpen = 3
    MaxIncs = 2
    MaxOps = 3
    MaxSends = 1
    MaxAborts = 1
    MaxAwaits = 1
    MaxFaults = 1
INVARIANTS
    RunningIsOwned
    DisposedAlone
PROPERTIES
    AwaitedRoundTold
CHECK_DEADLOCK FALSE
