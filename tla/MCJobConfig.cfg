SPECIFICATION Spec
CONSTANTS
    N = 2
    Documents <- MCDocuments
    FlagSets <- MCFlagSets
    Bodies <- MCBodies
    Dirs <- MCDirs
    Secrets = {"", "s"}
    Spellings <- MCSpellings
    Methods <- MCMethods
    WebURLs <- MCWebURLs
    HostPorts <- MCHostPorts
    MaxSends = 3
INVARIANTS
    OneSource
    
    PayloadsTakeTurns
    RetestRepeats
CHECK_DEADLOCK FALSE
