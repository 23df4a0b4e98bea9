\* Three calls, a breaker that opens at the second failure, one fault.
CONSTANTS
    c1 = c1
    c2 = c2
    c3 = c3
    Calls = {c1, c2, c3}
    MaxAttempts <- Attempts
    Rate <- Rates
    Threshold = 2
    ResetTime = 1
    MaxFaults = 1
SPECIFICATION FairSpec
INVARIANTS
    TypeOK
    OneRunner
    BreakerHasReason
    OneCallOneFailure
PROPERTIES
    NoStartAfterAbort
    CallsEnd
    BreakerRecovers
CHECK_DEADLOCK FALSE
