\* Two threads make every call; two places, three descriptions.
SPECIFICATION SumSpec
CONSTANTS
    Threads = {t1, t2}
    MaxFd = 1
    MaxDesc = 3
    Ops = {"open", "openat", "rw", "dup", "kdup", "dup2", "close", "send", "fcntl", "exit"}
    None = None
SYMMETRY Symmetry
INVARIANTS RegistersMatchSpace ClosedTablesAreUnused ActiveCountIsExact ReferencedIsOpen ExclusiveIsExclusive
CHECK_DEADLOCK FALSE
