SPECIFICATION Spec
CONSTANTS
    Nil = Nil
    MaxPods = 2
    Desired = {1, 2}
    ScalingEnabled = TRUE
    MinReplicas = 0
    SkipDraining = TRUE
    InformerLag = FALSE
    Indices = {"a", "b"}
    Changes <- MCChanges
    Disturbances = {"autoscaler", "deleteIndex"}
    MaxEdits = 0
PROPERTIES
    OperationApplied
