----------------------------- MODULE MCPunchDay -----------------------------
(* Instances of PunchDay for TLC: a day shift with separate windows, one    *)
(* whose windows overlap, a night shift, one without windows, and none.     *)
EXTENDS PunchDay

Window(from, to) == [from |-> from, to |-> to]

DayShift ==
  [start |-> 10, end |-> 20, checkin |-> Window(8, 12), checkout |-> Window(18, 25),
   standard |-> 8, grace |-> 1, threshold |-> 1]

Overlapping == [DayShift EXCEPT !.checkin = Window(8, 16), !.checkout = Window(12, 25)]

Night ==
  [start |-> 20, end |-> 10, checkin |-> Window(18, 25), checkout |-> Window(22, 11),
   standard |-> 8, grace |-> 0, threshold |-> 0]

NoWindows == [DayShift EXCEPT !.checkin = NoWindow, !.checkout = NoWindow]

\* NoShift: an employee for whom no shift is found.
All == {DayShift, Overlapping, Night, NoWindows, NoShift}
=============================================================================
