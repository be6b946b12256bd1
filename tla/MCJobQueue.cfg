SPECIFICATION FairSpec
CONSTANTS
    Jobs = {1, 2, 3, 4}
    MaxJobs = 3
    MaxConcurrent = 2
INVARIANTS
    TypeOK
    SlotAccounting
    RunningOwned
    FIFOStart
    CancelReachesRun
    NoLostWakeup
PROPERTIES
    LifecycleSpec
    PendingServed
    CancelledFreesSlot
CHECK_DEADLOCK FALSE
