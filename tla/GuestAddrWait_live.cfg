CONSTANTS
    Threads = {t1, t2, t3}
    Main = main
    Addrs = {a1}
    Values = {v0, v1}
    Unreadable = unreadable
    WaitModes = {"timed", "forever"}
    WakeModes = {TRUE}
    MaxCalls = 1
SPECIFICATION Spec
INVARIANTS TypeOK WaiterCountExact ChangeIsFollowedByWake ShutdownReachesEveryWaiter
PROPERTIES ChangedWordReturns ShutdownReleasesAll
