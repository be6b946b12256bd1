SPECIFICATION PacerSpec
CONSTANTS
    Callers = {w1, w2, w3}
    Interval = 2
    MaxTime = 7
INVARIANTS
    Spacing
    RateCap
    BoundedWait
CHECK_DEADLOCK FALSE
