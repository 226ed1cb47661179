SPECIFICATION FairSpec
CONSTANTS
    Posts = {p1}
    Processors = {w1}
    First = 1
    Second = 2
    Retention = 3
    MaxHour = 4
    MaxCrashes = 1
CHECK_DEADLOCK FALSE
INVARIANT TypeOK
INVARIANT NoPostForgotten
PROPERTY NoEarlyEmoji
PROPERTY EveryPostSettled
