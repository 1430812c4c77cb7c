\* Two processors, a monotonic and a realtime handle, two timeouts.
SPECIFICATION SumSpec
CONSTANTS
    Cpus = {1, 2}
    Handles = {"m", "r"}
    clock <- MCClock
    MaxTime = 1
    MaxTimeouts = 2
INVARIANTS NoMissedWake
PROPERTIES TimeoutsFire TimedSleepEnds
CHECK_DEADLOCK FALSE
