----------------------------- MODULE MCPayroll -------------------------------
(* Payroll alone: one salaried employee is enough for two runs.                *)
EXTENDS Payroll

MCContracts == {[salary |-> 5200000, hourly |-> None]}
=============================================================================
