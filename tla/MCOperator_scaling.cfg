SPECIFICATION Spec
CONSTANTS
    Nil = Nil
    MaxPods = 2
    Desired = {1, 2, Nil}
    ScalingEnabled = TRUE
    MinReplicas = 1
    SkipDraining = FALSE
    InformerLag = FALSE
    Indices = {}
    Changes = {}
    Disturbances = {"cancel", "events"}
    MaxEdits = 0
INVARIANTS
    ReplicasInRange
    ShrinkRemovesEmptyPods
PROPERTIES
    DeletedPodIsEmpty
