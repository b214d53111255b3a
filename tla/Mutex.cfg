CONSTANTS
    Threads = {t1, t2, t3}
    NoThread = none
    WaitCanFail = TRUE
    MaxCalls = 2
    MaxDepth = 2
SPECIFICATION Spec
INVARIANTS TypeOK MutualExclusion OwnerTokenIsTruthful NoLostWakeup
PROPERTIES ImplementsLock LockReturns
