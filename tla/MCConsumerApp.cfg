CONSTANTS
    Shards = {s1}
    RPCs = {r1, r2}
    MaxRev = 2
    MaxReplicas = 2
    EtcdMayFail = FALSE
    Publishers = {p1, p2}
    Buffers = {b1, b2}
    NoMsg = NoMsg
    NoBuf = NoBuf
SPECIFICATION AppSpec
INVARIANTS
    WritesOwnFramedMessage
PROPERTY ShutdownCompletes
