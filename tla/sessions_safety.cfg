CONSTANTS
    s1 = s1
    s2 = s2
    s3 = s3
    d1 = d1
    d2 = d2
    Sessions = {s1, s2}
    Devices = {d1, d2}
    Kind <- KindDD
    Owner <- OwnerDD
    Target <- TargetDD
    Limit = 1
    BackendFails = TRUE
    EventStates = {"Requested", "Connecting", "Connected", "Detached", "Ended", "Failed"}
    NoRec = NoRec
    Unknown = Unknown
SPECIFICATION Spec
CONSTRAINT OneChannel
INVARIANTS
    WithinLimit
    OfflineConsistent
PROPERTY NoSilentKill
