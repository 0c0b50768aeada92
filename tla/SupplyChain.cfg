SPECIFICATION ChainSpec
CONSTANTS
    Suppliers = {s1}
    PurchaseOrders = {p1, p2}
    Skus = {k1}
    Orderings <- MCOrderings
    Shipments <- MCShipments
    Patches <- MCPatches
    Requests = {r1, r2, r3, r4}
    Nobody = Nobody
    Overlap = TRUE
    MayFail = TRUE
    Handlings = 3
SYMMETRY MCSymmetry
INVARIANTS NumbersDense OneInvoicePerOrder ReceivedIsCovered SimulatorIsSound
CHECK_DEADLOCK FALSE
