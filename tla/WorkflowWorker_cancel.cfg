\* Cancelling through the API while a worker picks the execution up.
CONSTANTS
    e1 = e1
    e2 = e2
    e3 = e3
    w1 = w1
    w2 = w2
    Execs = {e1, e2}
    SubExecs = {e2}
    Instances = {w1, w2}
    ConcurrentWorkers = 1
    BatchSize = 2
    CancelCallers = {}
    Retiring = {}
    MaxFaults = 0
SPECIFICATION Spec
PROPERTIES
    CancelIsFinal
CHECK_DEADLOCK FALSE
