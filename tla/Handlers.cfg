SPECIFICATION Spec
CONSTANTS
    Members = {u1}
    Prompts = {p1, p2}
    Handlers = {h1, h2}
    Lifetime = 1
    MaxPromptFaults = 1
    Dialogs = {d1}
    Direct = {d2}
    Targets = {t1, me}
    Self = me
    Workers = {w1, w2}
    Limit = 1
    LockTicks = 1
    DayTicks = 2
    MaxGuardFaults = 1
    Callers = {c1, c2}
    Navigations = {n1}
    MaxUserDBFaults = 2
    Titles = {A, B}
    PanelTasks = {r1, r2}
    MaxPanelID = 5
    MaxPosts = 1
    MaxSetups = 1
    MaxPanelFaults = 1
CHECK_DEADLOCK FALSE
INVARIANTS TypeOK PoolsHaveTables OnePanel
PROPERTIES ConfirmationIsAPrompt EveryClickEnds DialogIsAPrompt NavigationsSurvive InitUserDBReturns RefreshesEnd
