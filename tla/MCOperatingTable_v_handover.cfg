SPECIFICATION Spec
CONSTANTS
    Names = {a}
    MaxUid = 1
    OperatorID = me
    NoID = noId
    NoEvent = noEvent
    Annotations = {me, other}
    NoAnnotation = none
    Disturbances = {"handover"}
    MaxQueue = 2
INVARIANTS
    WaitsForAnOperation
CHECK_DEADLOCK FALSE
