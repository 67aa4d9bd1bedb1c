CONSTANTS
    Shards = {s1}
    RPCs = {r1, r2}
    MaxRev = 2
    MaxReplicas = 2
    EtcdMayFail = TRUE
SPECIFICATION Spec
PROPERTY ShutdownCompletes
