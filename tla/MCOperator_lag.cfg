SPECIFICATION LaggingSpec
CONSTANTS
    Nil = Nil
    MaxPods = 2
    Desired = {1}
    ScalingEnabled = FALSE
    MinReplicas = 0
    SkipDraining = TRUE
    InformerLag = TRUE
    Indices = {}
    Changes = {}
    Disturbances = {}
    MaxEdits = 0
PROPERTIES
    UpdateCompletes
