CONSTANTS
    d1 = d1
    d2 = d2
    Devices = {d1, d2}
    NoDevice = nobody
    Revocable = {d1}
    Grants <- Permissions
    Layouts <- SameKind
    Ids <- ChannelIds
    MaxEvents = 2
    Signers = {d1}
    Nonces = {1, 2}
    MessageTypes <- SignedTypes
    Skew = 1
    Ttl = 2
    SweepAt = 2
    Drift = 1
    Horizon = 10
    KeyMax = 2
    ReqMax = 2
    Frames = 2
    Clients = {1, 2}
    ChunkMax = 2
    TypedMax = 1
    PingEvery = 4
    PongWithin = 2
    IdleLimit = 12
    BackoffMax = 4
    BusyMax = 3
    Requests = {1, 2}
    RequestCap = 1
    BodyMax = 1
    RespMax = 2
    QueueCap = 1
    Tunnels = {1, 2}
    Script <- Fragments
    TunnelCap = 1
    BufCap = 2
    MsgMax = 2
    OutCap = 1
SPECIFICATION Spec
INVARIANTS
    AuthSound
    HttpPerChannel
    HandledOnce
    CipherSound
    LocalClientsServed
    WatchdogSound
    ForwardingSound
CHECK_DEADLOCK FALSE
