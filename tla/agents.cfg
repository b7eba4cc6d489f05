CONSTANTS
    a1 = a1
    a2 = a2
    Agents = {a1, a2}
    Slots <- MixedSlots
    None = None
    MaxSessions = 2
    MaxBinds = 2
SPECIFICATION Spec
INVARIANT AgentsSound
PROPERTY Children
CHECK_DEADLOCK FALSE
