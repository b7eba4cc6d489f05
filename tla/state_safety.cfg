CONSTANTS
    c1 = c1
    c2 = c2
    d1 = d1
    d2 = d2
    Daemon = Daemon
    Clis = {c1, c2}
    Job <- JobPR
    Device <- DevicePR
    Devices = {d1, d2}
    InitTrusted = {d1}
    NoProc = NoProc
    MaxExpiries = 1
    MaxFaults = 1
SPECIFICATION Spec
INVARIANTS
    RotationLocked
    SecretNotBehind
CHECK_DEADLOCK FALSE
