\* Three executions for the two slots of one instance, one fault, a cancel, a shutdown.
CONSTANTS
    e1 = e1
    e2 = e2
    e3 = e3
    w1 = w1
    w2 = w2
    Execs = {e1, e2, e3}
    SubExecs = {e3}
    Instances = {w1}
    ConcurrentWorkers = 2
    BatchSize = 2
    CancelCallers = {e1}
    Retiring = {w1}
    MaxFaults = 1
SPECIFICATION Spec
INVARIANTS
    ConcurrencyBound
    CountIsActive
    ShutdownReachesAll
CHECK_DEADLOCK FALSE
