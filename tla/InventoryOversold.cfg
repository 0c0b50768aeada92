SPECIFICATION Spec
CONSTANTS
    Locations = {k1}
    OrderIds = {o1}
    Requests = {r1, r2, r3}
    Deltas <- MCDeltas
    Quantities <- MCQuantities
    Nothing = Nothing
    Overlap = TRUE
    MayFail = FALSE
SYMMETRY RequestSymmetry
INVARIANTS NothingOversold
CHECK_DEADLOCK FALSE
