CONSTANTS
    Threads = {t1, t2, t3}
    Callbacks = {c1, c2}
    NoOne = none
    DropInline = TRUE
    MaxBuilt = 3
SPECIFICATION Spec
INVARIANT StateOutlivesUse
CHECK_DEADLOCK FALSE
