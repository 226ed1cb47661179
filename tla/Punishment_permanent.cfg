SPECIFICATION Spec
CONSTANTS
    g1 = g1
    u1 = u1
    tag = tag
    ban = ban
    R = R
    S = S
    V = V
    Zero = Zero
    Roles = {R, S}
    Guilds = {g1}
    Users = {u1}
    Actions = {tag}
    PunishConfig <- PermanentConfig
    RecoverRole <- NoRecover
    MemberRoles <- HoldsNone
    Handlers = {h1}
    Revokers = {v1}
    MaxRecords = 2
    MaxTime = 3
    MaxCrashes = 0
PROPERTY TimerRemovesOnlyExpired
