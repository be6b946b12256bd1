SPECIFICATION MCSpec
CONSTANTS
    Concurrency = 2
    MaxBegun = 6
    Configs <- MCConfigs
INVARIANTS
    Conservation
    Budget
    NoSendOnClosed
    CompleteRun
PROPERTIES
    Termination
CHECK_DEADLOCK FALSE
