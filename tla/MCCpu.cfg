\* Two CPUs and two user contexts.
SPECIFICATION SumSpec
CONSTANTS
    cpu0 = cpu0
    cpu1 = cpu1
    Cpus = {cpu0, cpu1}
    Idle <- MCIdle
    User = {1, 3}
    NoCpu = NoCpu
    Never = Never
    Masks = {{}, {cpu0}, {cpu0, cpu1}}
    MaxTime = 1
INVARIANTS OneCpuPerContext SwitchReturnsRunnable RegistersAreOwn
CHECK_DEADLOCK FALSE
