SPECIFICATION FairSpec
CONSTANTS
    Channels = {a, b}
    Commands = {o1}
    Scheduler = scheduler
    MaxWorks = 2
    MaxID = 14
    MaxCommands = 1
    MaxMishaps = 1
CHECK_DEADLOCK FALSE
INVARIANTS TypeOK NoMessageLeftBehind
PROPERTIES RowsGoForAReason BrokenRowsHeal
