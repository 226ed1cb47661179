SPECIFICATION FairSpec
CONSTANTS
    Receivers = {r1, r2}
    Reconnectors = {c1, c2}
    Heartbeats = {b1, b2, b3, b4}
    MaxAttempts = 2
    MaxBreaks = 3
CHECK_DEADLOCK FALSE
INVARIANT TypeOK
INVARIANT DoneClosedOnce
INVARIANT StreamHasOneUser
INVARIANT OneBreakIsRepaired
PROPERTY ReconnectEnds
