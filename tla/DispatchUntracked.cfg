SPECIFICATION Spec
CONSTANTS
    Weights = {16000}
    Stated = {500}
    Requests = {r1, r2, r3}
    Budget = 3
    None = None
INVARIANT TrackingIsAnswered
CHECK_DEADLOCK FALSE
