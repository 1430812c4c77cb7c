SPECIFICATION Spec
CONSTANTS
    Cpus = {1, 2}
    Spaces = {"a", "b"}
    NPages = 2
    Small = {"b"}
    QueueCap = 1
    None = None
INVARIANTS StaleOnlyWhileLocked NoFreeFrameReachable
CHECK_DEADLOCK FALSE
PROPERTY FlushesEnd
