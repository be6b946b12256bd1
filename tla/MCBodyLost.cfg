SPECIFICATION Spec
CONSTANTS
    N = 1
    Documents <- MCDocuments
    FlagSets <- MCFlagSets
    Bodies <- MCBodies
    Dirs <- MCDirs
    Secrets = {""}
    Spellings <- MCSpellings
    Methods <- MCMethods
    WebURLs <- MCWebURLs
    HostPorts <- MCHostPorts
    MaxSends = 1
INVARIANTS
    WorkersSendPayload
CHECK_DEADLOCK FALSE
