\* A contiguous grant of three pages.
SPECIFICATION Spec
CONSTANTS
    Base = 2
    Count = 7
    AbsOff = 2
    MaxOrder = 2
    BlockOrders = {}
    ContigCounts = {3}
    None = None
CHECK_DEADLOCK FALSE
INVARIANT DeallocateAssertionsHold
