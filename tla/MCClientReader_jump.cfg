CONSTANTS
    FragLen = 2
    MaxHead = 4
    InitHeads = {1, 2, 3}
    RequestOffsets <- MCRequestOffsets
    Blocks = {FALSE}
    DoNotProxy = TRUE
    MetadataOnly = FALSE
    ChunkSize = 2
    BufCap = 2
    Retention = TRUE
    ResetOnJump = FALSE
    SeekOffsets = {1, 2, 3}
    MaxFaults = 1
    CtxErrs = {"Canceled", "DeadlineExceeded"}
SPECIFICATION Spec
INVARIANTS AdjustedOffsetExact
