SPECIFICATION CalmSpec
CONSTANTS
    Indices = {"a", "b"}
    Primaries <- MCPrimaries
    MinReplicas = 2
    MaxReplicas = 6
    MinIndexReplicas = 0
    MaxIndexReplicas = 2
    MinShardsPerNode = 1
    MaxShardsPerNode = 2
    UpCooldown = 1
    DownCooldown = 1
    UserReplicas = {0, 1, 7, Nil}
    UserIndexReplicas = {0, 3}
    Nil = Nil
    Disturbances = {"replicas", "indexReplicas", "deleteIndex", "fail"}
INVARIANTS
    TypeOK
PROPERTIES
    ReplicasInBounds
    IndexReplicasInBounds
    DownKeepsShardsPerNode
    Settles
    CooldownRespected
    OverloadEnds
CHECK_DEADLOCK FALSE
