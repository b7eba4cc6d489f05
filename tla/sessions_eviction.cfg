CONSTANTS
    s1 = s1
    s2 = s2
    s3 = s3
    d1 = d1
    d2 = d2
    Sessions = {s1, s2, s3}
    Devices = {d1}
    Kind <- KindSSA
    Owner <- OwnerSSA
    Target <- TargetSSA
    Limit = 2
    BackendFails = FALSE
    EventStates = {}
    NoRec = NoRec
    Unknown = Unknown
SPECIFICATION Spec
CONSTRAINT OneChannel
PROPERTY EvictsAsNeeded
