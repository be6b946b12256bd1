SPECIFICATION Spec
CONSTANTS
    Requests = {1, 2, 3}
    JobIDs = {a, b}
    Capacity = 2
    NoHandle = NoHandle
INVARIANT CapacityRespected
CHECK_DEADLOCK FALSE
