CONSTANTS
    FileDevices = {d1}
    Requests = {r1, r2}
    MaxActive = 2
    MaxUpload = 1
    MaxRead = 1
    Workloads <- OneKind
    MaxGen = 2
    MaxTmp = 3
    MaxTasks = 2
    MaxSize = 2
    MaxSent = 2
SPECIFICATION Spec
INVARIANTS
    UploadsSound
    ChannelSound
PROPERTY StreamsEnd
CHECK_DEADLOCK FALSE
