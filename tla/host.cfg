CONSTANTS
    Tasks = {"a", "b"}
    Releases = 3
    Installs = 3
    UpdateFaults = 2
    Hosts = {"supervised", "systemd", "bare"}
    UpdateOverlap = FALSE
    Pids = {1, 2, 3}
    InodeMax = 3
    Managers = {TRUE, FALSE}
    Crashes = 1
    Disorder = {}
    Ports = {0, 1, 2}
    OpMax = 4
    FlushEvery = 2
    BufCap = 2
    Thresholds = {1, 2}
    Metric <- TwoOfOne
    Cooldown <- Cooldowns
    MinuteMax = 5
    DropMax = 1
    Chunks <- Reads
    OscLimit = 1
    QuietFor = 2
    MinCommand = 3
    IdleBytes = 4
    MinIdle = 3
    KeyMax = 4
    Resets = 2
    PairFaults = 2
    PeerKeys = {"session", "files"}
    OfferMax = 2
    ByteMax = 1
    PeerFaults = 1
    Grace = 1
    Ttls = {2}
    MinTtl = 2
    Margin = 1
    Attempts = {1, 2}
    Size <- Sizes
    Grown <- Sizes
    HighWater = 1
    TransferFaults = 1
SPECIFICATION Spec
INVARIANTS
    UpdateSound
    
    
    MinuteSamples
    AttentionEarned
    
    BytesAccounted
    
    TransferSound
CHECK_DEADLOCK FALSE
