----------------------------- MODULE BackOffice ------------------------------
(***************************************************************************)
(* The services that keep the company's money and people: payments, the    *)
(* ledger, tax, payroll and customers.  None of them calls another one or   *)
(* shares a table with it, so what one of them does is independent of the   *)
(* others: a behaviour of this module is a behaviour of one service, picked *)
(* in the initial state, and the rest of the state does not move.           *)
(***************************************************************************)
EXTENDS Payments, FiniteSets

CONSTANTS
    Accounts, Entries, Cent,
    Rates, Jurisdictions, Baskets, Days, Nobody,
    Departments, Employees, Contracts, Periods,
    People,
    Budget      \* how many requests the customer service gets

VARIABLES
    service,
    accounts, lines, posting,
    collected, today, filing, reported,
    departments, staff, runs, paying,
    registered, tags, preferences, cards, tickets, messages, activity, serving, alone,
    shared

paymentsVars == <<txn, req, taken, returned, overlapped>>
ledgerVars == <<accounts, lines, posting>>
taxVars == <<collected, today, filing, reported>>
payrollVars == <<departments, staff, runs, paying>>
customersVars ==
    <<registered, tags, preferences, cards, tickets, messages, activity, serving, alone>>

Ledger == INSTANCE Ledger
TaxService == INSTANCE Tax
Payroll == INSTANCE Payroll
Customers == INSTANCE Customers

ASSUME BackOfficeAssumption ==
    /\ Ledger!LedgerAssumption
    /\ TaxService!TaxAssumption
    /\ Payroll!PayrollAssumption
    /\ Customers!CustomersAssumption

BackOfficeInit ==
    /\ service \in {"payments", "ledger", "tax", "payroll", "customers"}
    /\ Init /\ Ledger!Init /\ TaxService!Init /\ Payroll!Init /\ Customers!Init

BackOfficeNext ==
    /\ UNCHANGED service
    /\ \/ /\ service = "payments" /\ Next
          /\ UNCHANGED <<ledgerVars, taxVars, payrollVars, customersVars, shared>>
       \/ /\ service = "ledger" /\ Ledger!Next
          /\ UNCHANGED <<paymentsVars, taxVars, payrollVars, customersVars>>
       \/ /\ service = "tax" /\ TaxService!Next
          /\ UNCHANGED <<paymentsVars, ledgerVars, payrollVars, customersVars>>
       \/ /\ service = "payroll" /\ Payroll!Next
          /\ UNCHANGED <<paymentsVars, ledgerVars, taxVars, customersVars>>
       \/ /\ service = "customers" /\ Customers!Next
          /\ UNCHANGED <<paymentsVars, ledgerVars, taxVars, payrollVars, shared>>

backOfficeVars ==
    <<service, paymentsVars, ledgerVars, taxVars, payrollVars, customersVars, shared>>

BackOfficeSpec == BackOfficeInit /\ [][BackOfficeNext]_backOfficeVars

-----------------------------------------------------------------------------
(* However entries overlap and die, a balance is the sum of whole entries, and until two      *)
(* overlap the books balance, each to what rounding does to amounts that are not whole cents    *)
(* (create_journal_entry).                                                                       *)
LedgerIsSound ==
    Ledger!TypeOK /\ Ledger!BalancesAreWholeEntries /\ Ledger!BooksBalance

(* Remitted tax is exactly what was reported, however remittances overlap, and until two do no *)
(* tax is remitted twice (remit_tax).                                                            *)
RemittancesAreSound ==
    TaxService!TypeOK /\ TaxService!RemittedIsReported /\ TaxService!RemittedOnce

(* Every cent of a payroll run is accounted for (run_payroll). *)
PayrollAddsUp == Payroll!TypeOK /\ Payroll!PayrollAddsUp

(* MongoDB follows PostgreSQL unless a request died, what has ended is dated, a request that    *)
(* makes a row the default and runs alone leaves one, and what customers chose stays             *)
(* (customers.py).                                                                               *)
CustomersAreSound ==
    /\ [](Customers!TypeOK /\ Customers!DocumentsFollowRows /\ Customers!EndedIsDated)
    /\ Customers!LoneDefaultWins /\ Customers!ChoicesStick
=============================================================================
