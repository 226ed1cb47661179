SPECIFICATION Spec
CONSTANTS
    c1 = c1
    c2 = c2
    t1 = t1
    t2 = t2
    t3 = t3
    Channels = {c1}
    Threads = {t1, t2}
    ChannelOf <- OneChannel
    ArchivedAt <- FirstAges
    Scans = {k1, k2}
    Manual = {k2}
    MaxWorkers = 1
    PageSize = 1
    MaxChanges = 1
    MaxCrashes = 1
CHECK_DEADLOCK FALSE
INVARIANT TypeOK
INVARIANT ExcludedWereNotFound
PROPERTY ScanSavesWhatStayed
