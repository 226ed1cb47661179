SPECIFICATION CasesSpec
CONSTANTS
    g1 = g1
    u1 = u1
    tag = tag
    ban = ban
    R = R
    S = S
    V = V
    Zero = Zero
    Roles = {R, S, V}
    Guilds = {g1}
    Users = {u1}
    Actions = {tag, ban}
    PunishConfig <- BothConfig
    RecoverRole <- RecoverV
    MemberRoles <- HoldsV
    Handlers = {h1, h2}
    Revokers = {v1}
    MaxRecords = 2
    MaxTime = 3
    LoneTime = 2
    MaxCrashes = 1
INVARIANTS TypeOK OwedRolesTracked
PROPERTIES TimerRemovesOnlyExpired  TimedRolesEnd
