CONSTANTS
    Threads = {t1, t2, t3}
    Main = main
    Addrs = {a1}
    Values = {v0, v1}
    Unreadable = unreadable
    WaitModes = {"forever"}
    WakeModes = {FALSE}
    MaxCalls = 1
SPECIFICATION Spec
PROPERTY WakeUnblocksOne
