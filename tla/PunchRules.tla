----------------------------- MODULE PunchRules -----------------------------
(***************************************************************************)
(* The pure rules of attendance_processor.service.js that turn the punches *)
(* of one employee and one work date into a day: dedupeRapidPunches,       *)
(* isWithinWindow, resolveAttendancePunches and computeMetrics.            *)
(*                                                                         *)
(* Times are minutes of the work date.  A log is [type, time]; the logs of *)
(* a day come as a sequence in the order of their times, ties in any order *)
(* (the query orders by event_time only).  VERIFY and ALARM events are     *)
(* treated like OTHER and stand under that name.                           *)
(***************************************************************************)
EXTENDS Integers, Sequences, FiniteSets, SequencesExt

CONSTANTS
  NoTime,    \* null in check_in, check_out, total_minutes
  NoShift,   \* the employee has no shift and the company no default
  NoWindow   \* the shift leaves this window unset

EventTypes == {"CHECK_IN", "CHECK_OUT", "OTHER"}

DayLength == 24 * 60

\* windowSeconds = 60, both ends included.
RapidWindow == 1

\* One turn of dedupeRapidPunches: a punch close behind the last kept one is ignored, also
\* when it is of another type (its comment speaks of punches "of the same type").
Keep(kept, log) ==
  IF kept # <<>> /\ log.time - Last(kept).time <= RapidWindow THEN kept ELSE Append(kept, log)

Dedupe(logs) ==
  LET kept[i \in 0 .. Len(logs)] == IF i = 0 THEN <<>> ELSE Keep(kept[i - 1], logs[i])
  IN  kept[Len(logs)]

\* isWithinWindow for a window the shift has set (overnight windows wrap), FALSE when unset.
Within(t, window) ==
  /\ window # NoWindow
  /\ IF window.to < window.from THEN t >= window.from \/ t <= window.to
                                ELSE t >= window.from /\ t <= window.to

\* The end of the shift as a time of the work date; overnight shifts end on the next day.
ShiftEnd(shift) == IF shift.end < shift.start THEN shift.end + DayLength ELSE shift.end

\* Later than the middle of the shift.
PastMiddle(t, shift) == 2 * t > shift.start + ShiftEnd(shift)

\* Which side of the day a punch counts for.  With a shift only the windows decide, the
\* event type is not looked at; without one only the event type does.
Side(log, shift) ==
  IF shift = NoShift
  THEN IF log.type = "CHECK_OUT" THEN "out" ELSE "in"
  ELSE LET in == Within(log.time, shift.checkin)
           out == Within(log.time, shift.checkout)
       IN  CASE in /\ ~out -> "in"
             [] out /\ ~in -> "out"
             [] in /\ out  -> IF PastMiddle(log.time, shift) THEN "out" ELSE "in"
             [] OTHER      -> "ignored"

\* What is kept is in order and more than a minute apart: from here on a set says as much as
\* the list, its first is its least and its last its greatest time.
TimesOf(logs) == {l.time : l \in logs}

OnSide(logs, shift, side) == TimesOf({l \in logs : Side(l, shift) = side})

\* Mutant: the last punch of the check-in side counts.
LastCheckIn(logs, shift) ==
  LET ins == OnSide(logs, shift, "in") IN IF ins # {} THEN Max(ins) ELSE NoTime

\* first_checkin of resolveAttendancePunches.
FirstCheckIn(logs, shift) ==
  LET ins == OnSide(logs, shift, "in") IN IF ins # {} THEN Min(ins) ELSE NoTime

\* last_checkout: without a punch on the check-out side the last of at least two punches
\* stands in, whichever side it is on.
LastCheckOut(logs, shift) ==
  LET outs == OnSide(logs, shift, "out")
  IN  CASE outs # {} -> Max(outs)
        [] outs = {} /\ Cardinality(logs) > 1 -> Max(TimesOf(logs))
        [] OTHER     -> NoTime

AtLeastZero(n) == IF n < 0 THEN 0 ELSE n

\* computeMetrics: total_minutes ...
Worked(in, out) ==
  IF in # NoTime /\ out # NoTime /\ out > in THEN out - in ELSE NoTime

\* ... late_minutes ...
Late(in, shift) ==
  IF in # NoTime /\ shift # NoShift THEN AtLeastZero(in - shift.start - shift.grace) ELSE 0

StandardMinutes(shift) == IF shift # NoShift THEN shift.standard ELSE 8 * 60

\* ... overtime_minutes ...
Overtime(total, shift) ==
  IF total # NoTime /\ shift # NoShift
  THEN AtLeastZero(total - StandardMinutes(shift) - shift.threshold) ELSE 0

\* ... and status.
Status(in, out, shift) ==
  LET total == Worked(in, out)
  IN  CASE in = NoTime -> "ABSENT"
        [] in # NoTime /\ total # NoTime /\ 2 * total < StandardMinutes(shift) -> "HALF_DAY"
        [] OTHER -> IF Late(in, shift) > 0 THEN "LATE" ELSE "PRESENT"

Metrics(in, out, shift) ==
  [total    |-> Worked(in, out),
   late     |-> Late(in, shift),
   overtime |-> Overtime(Worked(in, out), shift),
   status   |-> Status(in, out, shift)]
=============================================================================
