SPECIFICATION PeripherySpec
CONSTANTS
    Locations = {k1}
    OrderIds = {o1}
    Requests = {r1, r2, r3, r4}
    Deltas <- MCDeltas
    Quantities <- MCQuantities
    Nothing = Nothing
    Overlap = TRUE
    MayFail = TRUE
    None = None
    Goods = {g1, g2}
    Purchases = {p1, p2}
    PageSize = 1
    FewGoods = 2
    People = 1
    Centers = {z1}
    Staff = {e1}
    Seeders = {d1, d2}
    Messages = 4
    Restarts = 2
    Readers = {a1, a2, a3}
    Total = 2
    Workers = {w1, w2, w3}
    Arrivals = 2
    Page = 1
    Streams = {t1, t2}
INVARIANTS NeverNegative BuyerIsSound SeedsAreWhole LogFollowsMessages TerminalIsSound
PROPERTIES OrdersAreClosed ReportsAreSound
CHECK_DEADLOCK FALSE
