\* Two connections, of one user or of guests, two workflows, two messages and one
\* fault on top of connecting, disconnecting and the sweep.
CONSTANTS
    Workflows = {w1, w2}
    Users = {u}
    MaxSockets = 2
    MaxAtOnce = 2
    Guest = Guest
    GuestOf = w1
    Nobody = Nobody
    MaxBegun = 2
    MaxFaults = 1
SPECIFICATION FairSpec
INVARIANTS
    TypeOK
    ListedIsSweepable
    ClosedIsUnlisted
    AddressIsListed
PROPERTY GhostsLeave
CHECK_DEADLOCK FALSE
