SPECIFICATION Spec
CONSTANTS
    Departments = {d1}
    Employees = {e1}
    Contracts <- MCContracts
    Periods = {p1}
    Requests = {r1, r2, r3}
    Nobody = Nobody
INVARIANT RunsAreLocked
CHECK_DEADLOCK FALSE
