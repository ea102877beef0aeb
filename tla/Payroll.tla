------------------------------- MODULE Payroll -------------------------------
(***************************************************************************)
(* The payroll run with its payslips: PayrollRuns says whose payslips are  *)
(* stored, Payslip what one of them says for a month.  What the employee's *)
(* month holds is a parameter: the sheet and the leaves, the components in *)
(* the catalogue and their assignments in the order they are read.         *)
(***************************************************************************)
EXTENDS PayrollRuns, Payslip

CONSTANTS
  Salaries,     \* base salaries, in cents
  Months,       \* first and last day
  Sheets,       \* the attendance rows of a month, a function of the day
  LeaveSets,    \* approved leaves of one employee
  Minutes,      \* overtime of a month
  Catalogues,   \* salary components of a company
  Lists         \* assignments to one employee, in the order they are read

Month == [from : Int, to : Int]
Leave == [from : Int, to : Int, paid : BOOLEAN]
Component == [id : Nat, type : {"ADDITION", "DEDUCTION"}, percent : BOOLEAN, value : Int,
              all : BOOLEAN, active : BOOLEAN]

\* An open end is a day beyond every date.
Assignment == [comp : Nat, from : Int, to : Int, overrides : BOOLEAN, value : Int]

\* The id is the primary key.
Catalogue(components) ==
  /\ IsFiniteSet(components) /\ components \subseteq Component
  /\ \A c, d \in components : c.id = d.id => c = d

ASSUME PayslipAssumption ==
  /\ Salaries \subseteq Int /\ Months \subseteq Month /\ Minutes \subseteq Int
  /\ \A sheet \in Sheets : DOMAIN sheet \subseteq Int
  /\ \A leaves \in LeaveSets : IsFiniteSet(leaves) /\ leaves \subseteq Leave
  /\ \A components \in Catalogues : Catalogue(components)
  /\ Lists \subseteq Seq(Assignment)

MonthsExplained ==
  \A base \in Salaries, sheet \in Sheets, leaves \in LeaveSets, month \in Months :
    DaysExplained(base, sheet, leaves, month)

\* The components add to a payslip whatever its days came to.
ComponentsInForce ==
  \A base \in Salaries, month \in Months, minutes \in Minutes,
     components \in Catalogues, list \in Lists :
    ComponentsExplained(base, Stats(<<>>, minutes, {}, month), components, list, month.from)

\* A stored payslip, whatever month and components its employee had, pays what the
\* days and the components explain.
NetExplained ==
  \A e \in Employees : items[e] # NoOne => MonthsExplained /\ ComponentsInForce
=============================================================================
