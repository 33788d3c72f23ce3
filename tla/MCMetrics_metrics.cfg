SPECIFICATION CalmSpec
CONSTANTS
    Pods = {p, q, r}
    Usages = {50, 90}
    Interval = 2
    UpThreshold = 3
    DownThreshold = 1
    UpBoundary = 50
    DownBoundary = 50
    MaxUid = 2
    MaxRestarts = 1
INVARIANTS
    TypeOK
    HintsAreJustified
    SamplesTakeTime
PROPERTIES
    LoadIsNoticed
