SPECIFICATION Spec
CONSTANTS
    OrderIds = {o1}
    Requests = {r1, r2, r3, r4}
    NoOrder = NoOrder
    Overlap = FALSE
    MayFail = TRUE
INVARIANTS ShippedIsPaid
CHECK_DEADLOCK FALSE
