SPECIFICATION FairSpec
CONSTANTS
    Reader = {r1}
    Writer = {w1}
    NoContext = NoContext
    MAX_QUEUE_SIZE = 1
    Sizes = {0, 1}
    MaxSent = 1
PROPERTIES
    CloseWakesReader
CHECK_DEADLOCK FALSE
