------------------------------- MODULE Payslip -------------------------------
(***************************************************************************)
(* What one payslip says: calculatePayslip, gatherEmployeeMonthData and    *)
(* resolveComponents of backend/src/services/payroll_engine.service.js.    *)
(*                                                                         *)
(* Dates are numbers of days, a multiple of 7 is a Monday.  Money is in    *)
(* cents, a percentage in hundredths, days worked or absent in half days.  *)
(* toFixed(2) rounds to the nearest cent; which way the floating point     *)
(* value of an exact half goes is not modelled, it goes up.                *)
(***************************************************************************)
EXTENDS Integers, Sequences, FiniteSets, FiniteSetsExt

Rounded(n, d) == (2 * n + d) \div (2 * d)

Least(a, b) == IF a < b THEN a ELSE b
Greatest(a, b) == IF a < b THEN b ELSE a

\* Monday to Friday, whatever the company's week is.
Weekdays(from, to) == {d \in from .. to : d % 7 < 5}
CountWeekdays(from, to) == Cardinality(Weekdays(from, to))

-----------------------------------------------------------------------------
(* The month of one employee.  The sheet has at most one record a day      *)
(* (unique index): sheet[d] is its status, minutes[d] its overtime; leaves *)
(* are the approved requests.                                              *)

Recorded(sheet, month, statuses) ==
  {d \in DOMAIN sheet : month.from <= d /\ d <= month.to /\ sheet[d] \in statuses}

\* Mutant: a half day is worked as a whole one.
ActualHalvesWhole(sheet, month) ==
  2 * Cardinality(Recorded(sheet, month, {"PRESENT", "LATE", "HALF_DAY"}))

ActualHalves(sheet, month) ==
  2 * Cardinality(Recorded(sheet, month, {"PRESENT", "LATE"}))
    + Cardinality(Recorded(sheet, month, {"HALF_DAY"}))

\* A leave is clipped to the month.
LeaveDays(leaves, month, paid) ==
  MapThenSumSet(LAMBDA l : CountWeekdays(Greatest(l.from, month.from), Least(l.to, month.to)),
                {l \in leaves : l.paid = paid /\ l.from <= month.to /\ l.to >= month.from})

Stats(sheet, overtime, leaves, month) ==
  LET working == CountWeekdays(month.from, month.to)
      actual == ActualHalves(sheet, month)
      paid == LeaveDays(leaves, month, TRUE)
      unpaid == LeaveDays(leaves, month, FALSE)
  IN [working |-> working, actual |-> actual, paid |-> paid, unpaid |-> unpaid,
      absent |-> Greatest(0, 2 * (working - paid - unpaid) - actual), overtime |-> overtime]

-----------------------------------------------------------------------------
(* The salary components in force on the first of the month.  Assignments  *)
(* are a sequence: of two for one component the later read wins.           *)

InForce(a, date) == a.from <= date /\ date <= a.to

\* An inactive component is skipped with its assignments.
Assigned(comps, assignments, date) ==
  {i \in DOMAIN assignments :
     InForce(assignments[i], date) /\ assignments[i].comp \in {c.id : c \in comps}}

Value(c, assignments, S) ==
  LET own == {i \in S : assignments[i].comp = c.id} IN
  IF own = {} THEN c.value
  ELSE LET a == assignments[CHOOSE i \in own : \A j \in own : j <= i] IN
       IF a.overrides THEN a.value ELSE c.value

Resolved(components, assignments, date) ==
  LET active == {c \in components : c.active}
      S == Assigned(active, assignments, date)
  IN {[c EXCEPT !.value = Value(c, assignments, S)] :
        c \in {x \in active : x.all \/ \E i \in S : assignments[i].comp = x.id}}

-----------------------------------------------------------------------------
(* The calculation.                                                        *)

\* A part of the salary, none in a month without working days.
Share(base, part, whole) == IF whole = 0 THEN 0 ELSE Rounded(base * part, whole)

Absence(base, s) == Share(base, s.absent, 2 * s.working)
UnpaidLeave(base, s) == Share(base, s.unpaid, s.working)

\* By default eight hours a day, an hour of overtime paid one and a half times.
Overtime(base, s) == Share(3 * base, s.overtime, 2 * 60 * 8 * s.working)

Amount(base, c) == IF c.percent THEN Rounded(base * c.value, 10000) ELSE c.value

Total(base, comps, type) ==
  MapThenSumSet(LAMBDA c : Amount(base, c), {c \in comps : c.type = type})

Additions(base, s, comps) == Overtime(base, s) + Total(base, comps, "ADDITION")
Deductions(base, s, comps) ==
  Absence(base, s) + UnpaidLeave(base, s) + Total(base, comps, "DEDUCTION")

Net(base, s, comps) == base + Additions(base, s, comps) - Deductions(base, s, comps)

-----------------------------------------------------------------------------
(* The same, day by day and component by component.                        *)

\* Half days of the month for which nothing is due.
Unearned(d, sheet, leaves) ==
  LET worked == IF d \notin DOMAIN sheet THEN 0
                ELSE IF sheet[d] \in {"PRESENT", "LATE"} THEN 2
                ELSE IF sheet[d] = "HALF_DAY" THEN 1 ELSE 0
      paid == \E l \in leaves : l.paid /\ d \in l.from .. l.to
  IN IF paid THEN 0 ELSE 2 - worked

UnearnedHalves(sheet, leaves, month) ==
  MapThenSumSet(LAMBDA d : Unearned(d, sheet, leaves), Weekdays(month.from, month.to))

\* No day has two reasons to be paid or not: no work on weekends or on leave,
\* no two leaves at once.
CountedOnce(sheet, leaves) ==
  /\ \A d \in DOMAIN sheet : sheet[d] \in {"PRESENT", "LATE", "HALF_DAY"} =>
       d % 7 < 5 /\ ~\E l \in leaves : d \in l.from .. l.to
  /\ \A l, m \in leaves : l # m => l.from .. l.to \cap m.from .. m.to = {}

\* Half days absent for which there is neither a record nor a leave.
Missed(sheet, leaves, month) ==
  UnearnedHalves(sheet, {[l EXCEPT !.paid = TRUE] : l \in leaves}, month)

\* A month's payslip deducts what was neither worked nor on paid leave, to a cent
\* for each of its two lines; and where a day is counted twice the engine never
\* finds more absence than there was ("working days not accounted for by attendance
\* or approved leave", payroll_engine.service.js:331).
DaysExplained(base, sheet, leaves, month) ==
  LET s == Stats(sheet, 0, leaves, month)
      halves == UnearnedHalves(sheet, leaves, month)
      off == 2 * s.working * Net(base, s, {}) - base * (2 * s.working - halves)
  IN /\ CountedOnce(sheet, leaves) => -2 * s.working <= off /\ off <= 2 * s.working
     /\ s.absent <= Missed(sheet, leaves, month)

\* The amount of a component for the employee: the assignments are read one after
\* another, each one of the component that is in force at the date replaces what was
\* read before, and a component nobody assigned is due from everybody or nobody.
Due(base, c, assignments, date) ==
  LET read[i \in 0 .. Len(assignments)] ==
        IF i = 0 THEN [assigned |-> c.all, value |-> c.value]
        ELSE LET a == assignments[i] IN
             IF a.comp = c.id /\ InForce(a, date)
             THEN [assigned |-> TRUE, value |-> IF a.overrides THEN a.value ELSE c.value]
             ELSE read[i - 1]
      last == read[Len(assignments)]
      amount == Amount(base, [c EXCEPT !.value = last.value])
  IN IF ~c.active \/ ~last.assigned THEN 0
     ELSE IF c.type = "ADDITION" THEN amount ELSE -amount

\* What the components of the catalogue come to for the employee.
DueFor(base, components, assignments, date) ==
  MapThenSumSet(LAMBDA c : Due(base, c, assignments, date), components)

ComponentsExplained(base, s, components, assignments, date) ==
  Net(base, s, Resolved(components, assignments, date)) - Net(base, s, {})
    = DueFor(base, components, assignments, date)

=============================================================================
