SPECIFICATION Spec
CONSTANTS
    Workers = {1, 2}
    Bounds <- MCBounds
    Micro = 2
    Results <- MCResults
    Windows <- MCWindows
    RunWindow <- MCRunWindow
    Price = 3
    MaxResults = 3
INVARIANTS
    MergeExact
    MergeClose
    PercentileBounds
PROPERTIES
    ScrapesGrow
CHECK_DEADLOCK FALSE
