CONSTANTS
    Appenders = {a1}
    Local = L
    Peers = {p1}
    NoPrimary = NoPrimary
    Old = Old
    NoByte = NoByte
    Routes <- TheRoutes
    InitRoute <- TheInitRoute
    Replication = 1
    MayWrite = TRUE
    MayProxy = TRUE
    RequestOffsets = {0, 1, 2}
    InitEnds = {0}
    FragmentLength = 2
    MaxChunks = 1
    MaxRev = 3
    MaxPipelines = 3
    MaxFailures = 1
    MaxExternal = 1
    MaxCancels = 1
    MaxOffset = 4
SPECIFICATION Spec
INVARIANTS
    NoSpoolPanic
    SendSideExclusive
