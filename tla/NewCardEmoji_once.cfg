SPECIFICATION Spec
CONSTANTS
    Posts = {p1}
    Processors = {w1, w2}
    First = 1
    Second = 2
    Retention = 3
    MaxHour = 4
    MaxCrashes = 1
CHECK_DEADLOCK FALSE
SYMMETRY Symmetry
INVARIANT AtMostOneEmoji
