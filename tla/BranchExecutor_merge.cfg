\* A merge after the two branches of a condition.
CONSTANTS
    a = a
    b = b
    c = c
    d = d
    Nodes = {a, b, c, d}
    Handles = {"true", "false"}
    Graphs <- OneCondition
    MaxParallel = 2
    Interval = 2
    ContinueOnError = {}
    SubWorkflows = {}
    Breakable = {}
    Outspoken = {}
    MaxFaults = 0
SPECIFICATION Spec
INVARIANTS
    DataReachesNext
CHECK_DEADLOCK FALSE
