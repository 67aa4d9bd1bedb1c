CONSTANTS
    Shards = {s1}
    RPCs = {r1}
    MaxRev = 2
    MaxReplicas = 1
    EtcdMayFail = TRUE
SPECIFICATION Spec
INVARIANT ResolvedStoreLive
