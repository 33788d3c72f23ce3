SPECIFICATION CalmSpec
CONSTANTS
    Nil = Nil
    MaxPods = 2
    Desired = {1}
    ScalingEnabled = FALSE
    MinReplicas = 0
    SkipDraining = FALSE
    InformerLag = FALSE
    Indices = {}
    Changes = {}
    Disturbances = {"unschedulable"}
    MaxEdits = 0
PROPERTIES
    UpdateCompletes
