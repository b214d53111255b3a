CONSTANTS
    Main = main
    Workers = {w1, w2, w3}
    MaxOps <- MCMaxOps
    Null = "null"
    Readers = {"r1", "r2"}
    Writers = {"w1"}
    Addresses = {"a1", "a2"}
    MaxUses = 3
    Images = {"main", "a", "b", "c"}
    Executable = "main"
    Missing = "missing"
    Root = "root"
    Loads <- MCLoads
    Consumers = {"c1", "c2"}
    Producers = {"p1", "p2"}
    NoThread = "none"
    MaxPut = 2
    Generations = 8
    Exiting = {"t1", "t2"}
    Handlers = {"h1", "h2", "h3"}
    Dso <- MCDso
    MaxFrames = 2
    Names = {"start", "a", "b"}
    Entry = "start"
    Initial = "initial"
    Links <- Inputs
    Exceptions = {"e1", "e2"}
    Pointers = {"p", "q"}
    MaxScopes = 5
SPECIFICATION AllSpec
INVARIANTS
    ThreadsSafe HazardPointersSafe LifecycleSafe NoLostNotify ExceptionsSafe
    KeptIsReachable
PROPERTIES HandlersSafe LinkSafe
SYMMETRY Symmetry
CHECK_DEADLOCK FALSE
