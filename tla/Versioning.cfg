\* Two requests at once on a workflow, its main branch, one other branch and one
\* pull request between them.
CONSTANTS
    Nodes = {n1}
    Contents = {c1, c2}
    Absent = Absent
    Main = main
    Branches = {main, b1}
    PullRequests = {p1}
    Requests = {r1, r2}
    MaxBegun = 4
    MaxSent = 1
    MaxFaults = 1
SPECIFICATION Spec
SYMMETRY Symmetry
INVARIANTS
    TypeOK
    SavesSerialise
    SaveNotBlocked
    MergedIsWhole
CHECK_DEADLOCK FALSE
