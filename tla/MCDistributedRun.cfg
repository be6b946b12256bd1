SPECIFICATION FairSpec
CONSTANTS
    N = 2
    JobRequests = 5
    JobDuration = 0
    Capacity = 2
    Unreliable = {1}
    MaxAttempts = 2
INVARIANTS
    ResultsCountedOnce
    FinalStateShown
PROPERTIES
    RunReturns
    AttemptsEnd
    NodesFollow
CHECK_DEADLOCK FALSE
