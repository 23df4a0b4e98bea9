\* Two instances share two executions (one a sub-workflow), with two faults.
CONSTANTS
    e1 = e1
    e2 = e2
    e3 = e3
    w1 = w1
    w2 = w2
    Execs = {e1, e2}
    SubExecs = {e2}
    Instances = {w1, w2}
    ConcurrentWorkers = 2
    BatchSize = 2
    CancelCallers = {}
    Retiring = {}
    MaxFaults = 2
SYMMETRY InstanceSymmetry
SPECIFICATION Spec
INVARIANTS
    TypeOK
    OnePlace
    NoneForgotten
    QueuedCancelHonoured
PROPERTIES
    LifeSpec
CHECK_DEADLOCK FALSE
