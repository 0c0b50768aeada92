SPECIFICATION BackOfficeSpec
CONSTANTS
    Transactions = {t1}
    Amounts = {1, 2, 3}
    Requests = {r1, r2, r3, r4}
    NoTransaction = NoTransaction
    Accounts = {a1, a2, a3}
    Entries <- MCEntries
    Cent = 2
    Rates <- MCRates
    Jurisdictions = {j1}
    Baskets <- MCBaskets
    Days = 2
    Nobody = Nobody
    Departments = {d1}
    Employees = {e1, e2}
    Contracts <- MCContracts
    Periods = {w1}
    People = {p1}
    Budget = 3
SYMMETRY RequestSymmetry
INVARIANTS WithinAuthorization MoneyAccounted LedgerIsSound RemittancesAreSound PayrollAddsUp
PROPERTIES CustomersAreSound
CHECK_DEADLOCK FALSE
