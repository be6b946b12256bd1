SPECIFICATION OrderedSpec
CONSTANTS
    Requests = {1, 2, 3}
    JobIDs = {a, b}
    Capacity = 2
    NoHandle = NoHandle
INVARIANTS
    EntriesOwned
    ListedWhenUnique
    ShutdownReachesAll
PROPERTIES
    CancelledEnds
CHECK_DEADLOCK FALSE
