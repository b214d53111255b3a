CONSTANTS
    Callers = {"t1", "t2", "t3", "t4"}
    WaitCanFail = TRUE
    MaxAborts = 2
    Threads = {"t1", "t2", "t3"}
    Desired = 0
    Permits = {1, 2}
    MaxCount = 2
    CountsDown <- MCCountsDown
    Weight <- MCWeight
    Rounds = 2
    Callbacks = {"c1", "c2"}
    NoOne = "none"
    MaxBuilt = 3
    PerProducer = 3
    Generations = 8
SPECIFICATION AllSpec
INVARIANTS
    OnceSafe PhasesAreWhole StopTokenSafe
PROPERTIES
    SemaphoreSafe NobodyStaysBehind
CHECK_DEADLOCK FALSE
