SPECIFICATION TimelessSpec
CONSTANTS
    cpu0 = cpu0
    cpu1 = cpu1
    Cpus = {cpu0, cpu1}
    Idle <- MCIdle
    User = {1, 3}
    NoCpu = NoCpu
    Never = Never
    Masks = {{cpu0}}
    MaxTime = 0
PROPERTIES
    NoStarvation
