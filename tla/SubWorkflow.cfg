\* Two calls, siblings or nested, one fault, an abort at any time, one child cancelled.
CONSTANTS
    sub = sub
    Workflows = {sub}
    Top = sub
    CallsOf <- Graph
    MaxEdits = 1
    MaxCalls = 2
    MaxCancels = 1
    MaxFaults = 1
SPECIFICATION FairSpec
INVARIANTS
    TypeOK
    ReturnedIsWhole
    AbortReaches
PROPERTIES
    FinalRowStays
    CallsSettle
CHECK_DEADLOCK FALSE
