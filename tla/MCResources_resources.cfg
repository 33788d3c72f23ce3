SPECIFICATION CalmResources
CONSTANTS
    Names = {a}
    MaxUid = 2
    OperatorID = noId
    NoID = noId
    NoEvent = noEvent
    Annotations = {other, none}
    NoAnnotation = none
    Disturbances = {"crash"}
    MaxQueue = 2
INVARIANTS
    ResourcesTypeOK
    PodsAreProtected
    OwnedAreOperated
PROPERTIES
    EventsAreHandled
    ResourcesComplete
CHECK_DEADLOCK FALSE
