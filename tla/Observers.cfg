SPECIFICATION ObserversSpec
CONSTANTS
    OrderIds = {o1}
    Requests = {r1, r2, r3}
    NoOrder = NoOrder
    Overlap = TRUE
    MayFail = TRUE
    None = None
    Sales = {s1, s2}
    Clients = {c1}
    History = 2
    Recent = 1
    SeenLimit = 1
    SeenKept = 0
    Pulses = 1
    Calls = {q1, q2, q3}
    Limit = 2
    Deployments <- MCDeployments
    Faults = 2
INVARIANTS HistoryHasNoGap NothingInvented HubIsSound ProxyIsSound StartupIsSound
PROPERTIES OrdersSettle RecentAreAnnounced ShutOutIsTemporary EverythingComesUp
CHECK_DEADLOCK FALSE
