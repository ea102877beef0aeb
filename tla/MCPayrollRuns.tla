---------------------------- MODULE MCPayrollRuns ----------------------------
(* Instances of Payroll for TLC: payslips computed for every small month,   *)
(* Thursday to Monday, with leaves that reach beyond it.                    *)
EXTENDS Payroll, TLC

CONSTANTS r1, r2, r3, e1, e2

Symmetry == Permutations(Requests)

OneSalary == {100001}
ShortMonth == {[from |-> 3, to |-> 7]}
SomeSheets == UNION {[S -> {"PRESENT", "HALF_DAY", "ABSENT"}] : S \in SUBSET {3, 4, 5, 7}}

\* At most two leaves.
SomeLeaves ==
  LET leaves == {l \in [from : {1, 3, 4, 7}, to : {3, 5, 7, 9}, paid : BOOLEAN] : l.from <= l.to}
  IN  {{}} \cup {{l, m} : l \in leaves, m \in leaves}

OneOvertime == {50}

TwoComponents ==
  {{[id |-> 1, type |-> "ADDITION", percent |-> FALSE, value |-> 5000, all |-> a, active |-> b],
    [id |-> 2, type |-> "DEDUCTION", percent |-> TRUE, value |-> 333, all |-> c, active |-> d]} :
     a \in BOOLEAN, b \in BOOLEAN, c \in BOOLEAN, d \in BOOLEAN}

\* At most two assignments, that end before, cover or begin after the first of the month.
SomeLists ==
  LET assignments ==
        {[comp |-> c, from |-> w, to |-> w + 1, overrides |-> o, value |-> 700 + w] :
           c \in {1, 2}, w \in {1, 2, 3, 4}, o \in BOOLEAN}
  IN  UNION {[1 .. n -> assignments] : n \in 0 .. 2}
=============================================================================
