CONSTANTS
    Names = {"a", "b"}
    Depth = 3
    Denied <- ProtectedPath
    Mounts <- OtherDisk
    MaxEntries = 4
    MaxDelta = 3
    MaxLines = 1
    MaxFile = 4
    MsgIds = {m1}
    MaxChunks = 2
    MaxBytes = 3
    SplitSize = 5
    Widths = {1, 2, 3, 4}
    MaxText = 4
    AuditWriters = {1, 2}
    LogLines = 2
    Archives = 2
    PageLimit = 2
    EventMax = 8
    AuditFaults = 2
    AuditOverlap = FALSE
SPECIFICATION Spec
INVARIANTS
    ActionsSound
    TextsFaithful
    FramesSound
    
PROPERTY RequestsEnd
CHECK_DEADLOCK FALSE
