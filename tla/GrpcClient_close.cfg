SPECIFICATION FairSpec
CONSTANTS
    Receivers = {r1, r2}
    Reconnectors = {c1, c2}
    Heartbeats = {b1, b2, b3}
    MaxAttempts = 2
    MaxBreaks = 2
CHECK_DEADLOCK FALSE
PROPERTY CloseReturns
