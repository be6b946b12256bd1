SPECIFICATION Spec
CONSTANTS
    Jobs = {1, 2, 3}
    MaxJobs = 2
    MaxConcurrent = 1
INVARIANT RefusedOnlyWhenOccupied
CHECK_DEADLOCK FALSE
