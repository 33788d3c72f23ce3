SPECIFICATION CalmSpec
CONSTANTS
    Clients = {"a", "b"}
    IPs = {"a1", "a2", "b1"}
    Owner <- MCOwner
    FirstNodes = {"a1", "b1"}
    UserSettings <- MCUserSettings
    Unset = Unset
    NoIP = NoIP
    Disturbances = {"users", "fail"}
INVARIANTS
    TypeOK
    DeletedNodeIsEmpty
PROPERTIES
    ExclusionsKept
    DrainsComplete
