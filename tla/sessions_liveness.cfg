CONSTANTS
    s1 = s1
    s2 = s2
    s3 = s3
    d1 = d1
    d2 = d2
    Sessions = {s1, s2}
    Devices = {d1}
    Kind <- KindSR
    Owner <- OwnerSR
    Target <- TargetSR
    Limit = 1
    BackendFails = TRUE
    EventStates = {"Connecting"}
    NoRec = NoRec
    Unknown = Unknown
SPECIFICATION LiveSpec
PROPERTY SessionsSettle
