\* Two instances, one of which may be closed and started again; no faults.
CONSTANTS
    e1 = e1
    e2 = e2
    e3 = e3
    w1 = w1
    w2 = w2
    Execs = {e1, e2}
    SubExecs = {e2}
    Instances = {w1, w2}
    ConcurrentWorkers = 1
    BatchSize = 2
    CancelCallers = {}
    Retiring = {w1}
    MaxFaults = 0
SPECIFICATION FairSpec
PROPERTIES
    EventuallySettles
    ShutdownDrains
CHECK_DEADLOCK FALSE
