CONSTANTS
    Appenders = {a1}
    Local = L
    Peers = {p1}
    NoPrimary = NoPrimary
    Old = Old
    NoByte = NoByte
    Routes <- TheRoutes
    InitRoute <- TheInitRoute
    Replication = 2
    MayWrite = TRUE
    MayProxy = TRUE
    RequestOffsets = {0}
    InitEnds = {0}
    FragmentLength = 2
    MaxChunks = 1
    MaxRev = 1
    MaxPipelines = 2
    MaxFailures = 1
    MaxExternal = 0
    MaxCancels = 0
    MaxOffset = 3
SPECIFICATION Spec
INVARIANT FailedAppendsRolledBack
