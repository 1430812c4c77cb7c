\* Two callers, tags used again, timeouts, and a kill of one caller.
SPECIFICATION SumSpec
CONSTANTS
    Callers = {c1, c2}
    Tags = {t1, t2}
    Timed = {TRUE}
    Kills = 1
    CanUnmount = FALSE
    None = None
    MaxReq = 2
CHECK_DEADLOCK FALSE
SYMMETRY Symmetry
INVARIANTS TagMatchesCall BorrowedUntilAnswered InUseIsOpen BufferIsContiguous NoLostInterrupt ReadersWake
PROPERTIES WrittenBack
