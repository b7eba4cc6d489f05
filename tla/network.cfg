CONSTANTS
    Ids = {1, 2}
    Cap = 1
    ReqMax = 1
    RespMax = 2
    QueueCap = 1
    Script <- Fragments
    BufCap = 2
    MsgMax = 2
    OutCap = 1
    Attempts = {1}
    FileSize <- Sizes
    Grown <- SizesRead
    HighWater = 1
    TransferFaults = 2
    Keys = {"agent"}
    OfferMax = 2
    ByteMax = 0
    PeerFaults = 1
    Grace = 1
    Ttls = {2}
    MinTtl = 2
    Margin = 1
    ShortMax = 2
    LongMax = 3
    CountMax = 1
    Texts <- Strings
    HeaderTexts <- Headers
    Payloads <- Raw
SPECIFICATION Spec
INVARIANT RoundTrip
 
CHECK_DEADLOCK FALSE
