SPECIFICATION FairSpec
CONSTANTS
    Runs = {r1}
    Workers = {w1, w2}
    Clients = {c1, c2}
    BufferCap = 2
    NoState = NoState
INVARIANTS
    FinalShown
PROPERTIES
    FinalReaches
CHECK_DEADLOCK FALSE
