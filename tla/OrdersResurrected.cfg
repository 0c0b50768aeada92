SPECIFICATION Spec
CONSTANTS
    OrderIds = {o1}
    Requests = {r1, r2, r3}
    NoOrder = NoOrder
    Overlap = TRUE
    MayFail = FALSE
PROPERTIES TerminalIsFinal
CHECK_DEADLOCK FALSE
