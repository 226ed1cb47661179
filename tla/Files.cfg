SPECIFICATION Spec
CONSTANTS
    PresetIDs = {s1, s2}
    Keywords = {k1, k2}
    Admins = {a1, a2}
    MaxAdminCommands = 2
    MaxConfigFaults = 1
    Guilds = {g1}
    Shows = {c1}
    Pages = 3
    MaxMessages = 2
    MaxShows = 1
    MaxBoardFaults = 1
    Pushes = {q1, q2}
    PushAdmins = {a1, a2}
    Kept = 1
    Window = 2
    MaxPushMessages = 3
    MaxPushCommands = 2
    HistoryGuilds = {g1, g2}
    Readers = {r1}
    DefaultPageSize = 2
    MaxPageSize = 3
    SearchPageSize = 2
    MaxRecords = 5
    Target = 2
    MaxManualScans = 1
    MaxScheduleFaults = 1
    Cleanings = {x1, x2}
    Limits = {2}
    CleanerWindow = 3
    MaxTopMessages = 4
    MaxTopEvents = 1
    MaxRegistrations = 1
    MaxTopFaults = 1
CHECK_DEADLOCK FALSE
INVARIANTS TypeOK SyncedTables ChannelKeepsLatest EveryRecordIsRead
PROPERTIES NoBindingLost PagesInOrder CleaningsSpareTheNewest FullScansRecur LimitIsKept
