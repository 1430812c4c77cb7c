\* Three address spaces, of which two exist at first, and three frames.
SPECIFICATION SumSpec
CONSTANTS
    Spaces = {1, 2, 3}
    FirstSpaces = {1, 2}
    NPages = 1
    Frames = {1, 2, 3}
    Device = Device
    None = None
    MaxRefs = 4
    MaxOps = 5
INVARIANTS EveryFrameOnce BuddiesAreMerged AreasAreTheUsableFrames FirstFreeListsExact RefcountExact CowIsReadOnly NoLostEvent
CHECK_DEADLOCK FALSE
