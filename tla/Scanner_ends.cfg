SPECIFICATION FairSpec
CONSTANTS
    c1 = c1
    c2 = c2
    t1 = t1
    t2 = t2
    t3 = t3
    Channels = {c1, c2}
    Threads = {t1, t2, t3}
    ChannelOf <- TwoInOne
    ArchivedAt <- FirstAges
    Scans = {k1}
    Manual = {}
    MaxWorkers = 1
    PageSize = 1
    MaxChanges = 1
    MaxCrashes = 0
CHECK_DEADLOCK FALSE
PROPERTY ScanEnds
