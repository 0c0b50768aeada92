SPECIFICATION Spec
CONSTANTS
    Suppliers = {s1}
    PurchaseOrders = {p1}
    Skus = {k1}
    Orderings <- MCOrderings
    Shipments <- MCShipments
    Patches <- MCPatches
    Requests = {r1, r2, r3}
    Nobody = Nobody
    Overlap = FALSE
    MayFail = FALSE
SYMMETRY MCSymmetry
INVARIANTS MatchIsThreeWay
CHECK_DEADLOCK FALSE
