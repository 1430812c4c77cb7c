\* A reader and a writer, buffers of up to two bytes.
SPECIFICATION SumSpec
CONSTANTS
    Reader = {r1}
    Writer = {w1}
    NoContext = NoContext
    MAX_QUEUE_SIZE = 2
    Sizes = {0, 1, 2}
    MaxSent = 3
INVARIANTS NoLostWakeup SignalledIsNotBlocked ProcessorsAreDistinct
PROPERTIES ImplementsStream ReadReturnsOnData KilledExits CallReturns
CHECK_DEADLOCK FALSE
