------------------------------- MODULE Payroll -------------------------------
(***************************************************************************)
(* The HR and payroll service (hr_payroll_service): departments and        *)
(* employees with unique keys, and payroll runs with a pay stub for every  *)
(* employee.  Keys are looked up as the client spelled them and stored     *)
(* normalised, so a lookup may miss a key that the unique index then        *)
(* refuses.  Nothing compares the period of a run with earlier runs.        *)
(***************************************************************************)
EXTENDS Integers, Functions

CONSTANTS
    Departments, \* normalised department codes
    Employees,  \* normalised e-mail addresses
    Contracts,  \* pay of an employee: annual salary, hourly rate, in cents
    Periods,    \* pay periods
    Requests,   \* HTTP requests; each is issued at most once
    Nobody      \* no department

None == -1

Contract == [salary : Nat \cup {None}, hourly : Nat \cup {None}]

PayrollAssumption ==
    /\ Contracts \subseteq Contract
    /\ Nobody \notin Departments

VARIABLES
    departments,    \* the codes of the departments rows
    staff,      \* staff[e]: whether employee e is stored, department and contract
    runs,       \* the payroll_runs rows with their stubs
    paying,     \* paying[r]: how far the handler of request r has come
    shared      \* history: whether a handler has started beside another one

vars == <<departments, staff, runs, paying, shared>>

Idle == {"new", "done", "failed"}

Employee == [hired : BOOLEAN, contract : Contract, department : Departments \cup {Nobody}]

Nothing == [hired |-> FALSE, contract |-> [salary |-> None, hourly |-> None],
            department |-> Nobody]

Stub == [employee : Employees, gross : Nat, deductions : Nat, net : Nat]

Run == [by : Requests, period : Periods, stubs : SUBSET Stub, gross : Nat, net : Nat]

NoTask == [stage |-> "new", keys |-> {}, row |-> Nothing, periods |-> {}]

TypeOK ==
    /\ departments \subseteq Departments
    /\ staff \in [Employees -> Employee]
    /\ runs \subseteq Run
    /\ paying \in [Requests -> [stage : Idle \cup {"founding", "hiring", "paying"},
                                keys : SUBSET (Departments \cup Employees),
                                row : Employee, periods : SUBSET Periods]]
    /\ shared \in BOOLEAN

Init ==
    /\ departments = {}
    /\ staff = [e \in Employees |-> Nothing]
    /\ runs = {}
    /\ paying = [r \in Requests |-> NoTask]
    /\ shared = FALSE

-----------------------------------------------------------------------------
Begin(r, task) ==
    /\ paying[r].stage = "new"
    /\ paying' = [paying EXCEPT ![r] = task]
    /\ shared' = (shared \/ \E q \in Requests : paying[q].stage \notin Idle)

Finish(r, final) == paying' = [paying EXCEPT ![r] = [NoTask EXCEPT !.stage = final]]

(* The lookup before an insert finds a stored key if it is spelled as stored.   *)
Found(stored, spelling) == stored /\ spelling = "normalised"

(* create_department: 409 if the code is found.                                  *)
DepartmentCheck(r, d, spelling) ==
    /\ ~Found(d \in departments, spelling)
    /\ Begin(r, [NoTask EXCEPT !.stage = "founding", !.keys = {d}])
    /\ UNCHANGED <<departments, staff, runs>>

(* create_employee: 409 if the address is found.                                 *)
HireCheck(r, e, spelling, contract, d) ==
    /\ ~Found(staff[e].hired, spelling)
    /\ Begin(r, [NoTask EXCEPT !.stage = "hiring", !.keys = {e},
                    !.row = [hired |-> TRUE, contract |-> contract, department |-> d]])
    /\ UNCHANGED <<departments, staff, runs>>

(* The insert: refused by the unique index if the key is stored, and by the      *)
(* foreign key if the department is not.                                          *)
DepartmentCommit(r) ==
    /\ paying[r].stage = "founding"
    /\ departments' = departments \cup paying[r].keys
    /\ Finish(r, IF paying[r].keys \subseteq departments THEN "failed" ELSE "done")
    /\ UNCHANGED <<staff, runs, shared>>

HireCommit(r) ==
    \E e \in Employees :
        /\ paying[r].stage = "hiring" /\ e \in paying[r].keys
        /\ IF staff[e].hired \/ paying[r].row.department \notin departments \cup {Nobody}
           THEN Finish(r, "failed") /\ UNCHANGED staff
           ELSE staff' = [staff EXCEPT ![e] = paying[r].row] /\ Finish(r, "done")
        /\ UNCHANGED <<departments, runs, shared>>

-----------------------------------------------------------------------------
(* n / d to the nearest integer, ties to the even one (Decimal.quantize).        *)
HalfEven(n, d) ==
    LET q == n \div d
        twice == 2 * (n % d) IN
    IF twice > d \/ (twice = d /\ q % 2 = 1) THEN q + 1 ELSE q

(* _biweekly_gross *)
BiweeklyGross(contract) ==
    IF contract.salary # None THEN HalfEven(contract.salary, 26)
    ELSE IF contract.hourly # None THEN contract.hourly * 80
    ELSE 0

(* _calculate_deductions: 22 % federal tax and 7.65 % FICA by default.           *)
Deductions(gross) == HalfEven(gross * 2965, 10000)

(* A plausible slip: the net pay is a share of its own, cut to cents. *)
NetOfShare(gross) == (gross * 7035) \div 10000

NetOf(gross) == gross - Deductions(gross)

StubOf(e) ==
    LET gross == BiweeklyGross(staff[e].contract) IN
    [employee |-> e, gross |-> gross, deductions |-> Deductions(gross), net |-> NetOf(gross)]

Hired == {e \in Employees : staff[e].hired}

(* run_payroll: 400 if nobody is employed.                                        *)
RunStart(r, period) ==
    /\ Hired # {}
    /\ Begin(r, [NoTask EXCEPT !.stage = "paying", !.keys = Hired, !.periods = {period}])
    /\ UNCHANGED <<departments, staff, runs>>

TotalGross(stubs) == SumFunctionOnSet([s \in stubs |-> s.gross], stubs)

TotalNet(stubs) == SumFunctionOnSet([s \in stubs |-> s.net], stubs)

Withheld(stubs) == SumFunctionOnSet([s \in stubs |-> s.deductions], stubs)

RunCommit(r) ==
    LET stubs == {StubOf(e) : e \in paying[r].keys} IN
    /\ paying[r].stage = "paying"
    /\ runs' = runs \cup
          {[by |-> r, period |-> period, stubs |-> stubs,
            gross |-> TotalGross(stubs), net |-> TotalNet(stubs)] : period \in paying[r].periods}
    /\ Finish(r, "done")
    /\ UNCHANGED <<departments, staff, shared>>

(* The process dies or a statement fails: the transaction is rolled back.         *)
Fail(r) ==
    /\ paying[r].stage \notin Idle
    /\ Finish(r, "failed")
    /\ UNCHANGED <<departments, staff, runs, shared>>

Next ==
    \E r \in Requests :
        \/ \E d \in Departments, spelling \in {"normalised", "other"} :
               DepartmentCheck(r, d, spelling)
        \/ \E e \in Employees, spelling \in {"normalised", "other"}, contract \in Contracts,
              d \in Departments \cup {Nobody} : HireCheck(r, e, spelling, contract, d)
        \/ DepartmentCommit(r) \/ HireCommit(r)
        \/ \E period \in Periods : RunStart(r, period)
        \/ RunCommit(r)
        \/ Fail(r)

Spec == Init /\ [][Next]_vars

-----------------------------------------------------------------------------
(* Properties. *)

Near(a, b, half) == -half <= a - b /\ a - b <= half

(* Every cent of a run is accounted for, in spite of two roundings per employee:   *)
(* the totals differ by exactly what was withheld, what was withheld is within half  *)
(* a cent of 29.65 %, and a fortnight's pay is within half a cent of the salary's      *)
(* share, for everybody who is employed and is paid.                                    *)
PayrollAddsUp ==
    \A run \in runs :
        /\ run.gross - run.net = Withheld(run.stubs)
        /\ \A s \in run.stubs :
               /\ s.employee \in Hired
               /\ Near(10000 * s.deductions, 2965 * s.gross, 5000)
               /\ LET contract == staff[s.employee].contract IN
                  contract.salary # None => Near(26 * s.gross, contract.salary, 13)

(* "Distributed Locks: Payroll run lock" (README.md): two runs never pay the same     *)
(* period at the same time, or everybody employed gets two stubs for it.                *)
RunsAreLocked ==
    \A q, r \in Requests :
        (/\ paying[q].stage = "paying" /\ paying[r].stage = "paying"
         /\ paying[q].periods = paying[r].periods) => q = r
=============================================================================
