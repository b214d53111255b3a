CONSTANTS
    w1 = w1
    w2 = w2
    r1 = r1
    r2 = r2
    Threads = {w1, w2, r1, r2}
    Calls <- MCCalls
    Objects = {o1, o2, o3}
    First = o1
    MaxDepth = 2
    MaxOps <- MCMaxOps
SPECIFICATION MCSpec
INVARIANTS NoReaderSeesFreed BarrierReclaims SharedMutexSafe
PROPERTIES BarrierReturns ImplementsRwLock WritersGetIn
CHECK_DEADLOCK FALSE
