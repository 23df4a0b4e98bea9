\* The documented shapes, two nodes at a time, one fault.
CONSTANTS
    a = a
    b = b
    c = c
    d = d
    Nodes = {a, b, c, d}
    Handles = {"true", "false", "output"}
    Graphs <- Shapes
    MaxParallel = 2
    Interval = 2
    ContinueOnError = {b}
    SubWorkflows = {b, c}
    Breakable = {d}
    Outspoken = {b, c}
    MaxFaults = 1
SPECIFICATION FairSpec
INVARIANTS
    TypeOK
    DepsFirst
    NoOrphans
    LogsAgree
    CheckpointResumable
    RunIsDetermined
PROPERTIES
    FlowSpec
    Descends
    Terminates
CHECK_DEADLOCK FALSE
