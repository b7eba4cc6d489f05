CONSTANTS
    c1 = c1
    c2 = c2
    d1 = d1
    d2 = d2
    Daemon = Daemon
    Clis = {c1}
    Job <- JobP
    Device <- DeviceP
    Devices = {d1, d2}
    InitTrusted = {d1}
    NoProc = NoProc
    MaxExpiries = 2
    MaxFaults = 1
SPECIFICATION LiveSpec
PROPERTY StateConverges
CHECK_DEADLOCK FALSE
