CONSTANTS
    MaxTid = 3
    MaxOps <- MCMaxOps
    Calls = {"create", "join", "detach", "wait", "wake", "heap", "exit"}
    JoinOlder = FALSE
SPECIFICATION Spec
INVARIANTS EndingsSafe GuestRecordsSafe
PROPERTY ShutdownEnds
CHECK_DEADLOCK FALSE
