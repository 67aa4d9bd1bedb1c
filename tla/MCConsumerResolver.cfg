CONSTANTS
    Shards = {s1}
    RPCs = {r1, r2}
    MaxRev = 3
    MaxReplicas = 2
    EtcdMayFail = TRUE
SPECIFICATION Spec
INVARIANTS
    TypeOK
    NoResolvePanic
    OneReplicaPerShard
    TornDownBeforeExit
SYMMETRY Symmetry
