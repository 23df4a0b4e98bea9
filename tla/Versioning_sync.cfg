\* One request at a time: a save, an edit, a suggestion, a merge or a rollback.
CONSTANTS
    Nodes = {n1}
    Contents = {c1, c2}
    Absent = Absent
    Main = main
    Branches = {main, b1}
    PullRequests = {p1}
    Requests = {r1}
    MaxBegun = 3
    MaxSent = 2
    MaxFaults = 0
SPECIFICATION Spec
INVARIANT
    MainInSync
CHECK_DEADLOCK FALSE
