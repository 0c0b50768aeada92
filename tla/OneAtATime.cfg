SPECIFICATION OneSpec
CONSTANTS
    Locations = {k1, k2}
    OrderIds = {o1}
    Requests = {r1, r2, r3, r4, r5, r6}
    Deltas <- MCDeltas
    Quantities <- MCQuantities
    Nothing = Nothing
    NoOrder = NoOrder
    Overlap = FALSE
    MayFail = TRUE
SYMMETRY RequestSymmetry
INVARIANTS ReservedOnHand NothingOversold StockIsExplained RowIsExplained LagOnlyAfterFailure
PROPERTIES ImplementsBook ImplementsLifecycle
CHECK_DEADLOCK FALSE
