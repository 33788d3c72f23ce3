SPECIFICATION Spec
CONSTANTS
    Nil = Nil
    MaxPods = 2
    Desired = {1, 2}
    ScalingEnabled = FALSE
    MinReplicas = 0
    SkipDraining = FALSE
    InformerLag = FALSE
    Indices = {}
    Changes = {}
    Disturbances = {}
    MaxEdits = 0
PROPERTIES
    AbortedScaleDownKeepsPods
