CONSTANTS
    Exceptions = {e1, e2, e3}
    Null = null
    Pointers = {p, q}
    MaxDepth = 5
    NestedInCleanup = TRUE
    RethrowBelow = FALSE
SPECIFICATION Spec
INVARIANT UnwindingGoesOn
SYMMETRY Symmetry
CHECK_DEADLOCK FALSE
