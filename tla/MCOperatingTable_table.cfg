SPECIFICATION Spec
CONSTANTS
    Names = {a, b}
    MaxUid = 2
    OperatorID = me
    NoID = noId
    NoEvent = noEvent
    Annotations = {me, none}
    NoAnnotation = none
    Disturbances = {"handover", "crash"}
    MaxQueue = 3
INVARIANTS
    TypeOK
    AtMostOneLoop
    LoopsMatchEDS
PROPERTIES
    LeaseImplemented
CHECK_DEADLOCK FALSE
