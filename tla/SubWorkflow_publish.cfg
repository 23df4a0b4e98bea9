\* Two operations on the library at a time, no call.
CONSTANTS
    sub = sub
    Workflows = {sub}
    Top = sub
    CallsOf <- Graph
    MaxEdits = 2
    MaxCalls = 0
    MaxCancels = 0
    MaxFaults = 0
SPECIFICATION Spec
INVARIANT LatestExists
CHECK_DEADLOCK FALSE
