CONSTANTS
    Threads = {t1, t2}
    Main = main
    Addrs = {a1}
    Values = {v0, v1}
    Unreadable = unreadable
    WaitModes = {"poll", "timed", "forever"}
    WakeModes = {TRUE, FALSE}
    MaxCalls = 2
SPECIFICATION Spec
PROPERTIES ResultsJustified ImplementsAddrWait
