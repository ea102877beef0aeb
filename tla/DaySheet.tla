------------------------------ MODULE DaySheet ------------------------------
(***************************************************************************)
(* What an attendance record promises to the employee and to payroll: the  *)
(* check-in and the check-out are each entered once, the check-out after a *)
(* check-in is known, and the minutes worked are those between the two.    *)
(***************************************************************************)
EXTENDS Integers

CONSTANTS
  Times,   \* moments of the day
  NoTime   \* nothing entered

VARIABLES
  sheet,    \* the times entered and the minutes between them
  settled   \* the promise holds; a correction voids it

vars == <<sheet, settled>>

Blank == [in |-> NoTime, out |-> NoTime, total |-> NoTime]

Init == sheet = Blank /\ settled = TRUE

EnterIn ==
  /\ settled /\ sheet = Blank
  /\ \E t \in Times : sheet' = [in |-> t, out |-> NoTime, total |-> NoTime]
  /\ UNCHANGED settled

\* A check-out request sent before the check-in counts no minutes.
EnterOut ==
  /\ settled /\ sheet.in # NoTime /\ sheet.out = NoTime
  /\ \E t \in Times :
       sheet' = [in |-> sheet.in, out |-> t,
                 total |-> IF t < sheet.in THEN 0 ELSE t - sheet.in]
  /\ UNCHANGED settled

\* The device's punches of a day may come together.
EnterBoth ==
  /\ settled /\ sheet = Blank
  /\ \E t, u \in Times : t < u /\ sheet' = [in |-> t, out |-> u, total |-> u - t]
  /\ UNCHANGED settled

Void == settled' = FALSE /\ sheet' = Blank

Next == EnterIn \/ EnterOut \/ EnterBoth \/ Void

Spec == Init /\ [][Next]_vars
=============================================================================
