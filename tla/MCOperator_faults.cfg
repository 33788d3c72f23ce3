SPECIFICATION Spec
CONSTANTS
    Nil = Nil
    MaxPods = 3
    Desired = {1}
    ScalingEnabled = FALSE
    MinReplicas = 0
    SkipDraining = FALSE
    InformerLag = FALSE
    Indices = {}
    Changes = {}
    Disturbances = {"evict"}
    MaxEdits = 1
INVARIANTS
    TypeOK
    DrainedPodsStayEmpty
    ReplicasInRange
PROPERTIES
    DeletedPodIsEmpty
