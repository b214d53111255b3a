CONSTANTS
    SLBits = 1
    MaxUnits = 63
    Memory = 24
    Builds <- MCBuilds
    Requests = {0, 1, 5, 63}
    Aligns = {1, 2}
    MaxLive = 4
    Threads = {t1, t2}
    MaxClass = 2
    Depth = 2
    Sizes = {1, 2}
    MaxOwned = 3
    Alone <- MCAlone
    Shared <- MCShared
    Clients = {"t1", "t2"}
    KeysMax = 2
    DtorIterations = 2
    Generations = 4
    MaxCreates = 2
    MaxSets = 3
    MaxTid = 3
    MaxCalls <- MCMaxCalls
SPECIFICATION AllSpec
INVARIANTS AllocatorSound OwnersSafe
PROPERTY NullOnlyWhenFull
SYMMETRY Symmetry
