------------------------------ MODULE PunchDay ------------------------------
(***************************************************************************)
(* One employee and one work date, computed again from all punches each    *)
(* time a punch arrives, in the order of the device clock.  The names say  *)
(* Day, so that proofs can look at this module beside DeviceLogs.          *)
(***************************************************************************)
EXTENDS PunchRules

CONSTANTS
  Times,      \* times of the punches
  Shifts,     \* shifts the employee may have, NoShift among them
  MaxPunches  \* bound: punches of the day

ASSUME PunchAssumption ==
  /\ Times \subseteq 0 .. DayLength - 1
  /\ MaxPunches \in Nat
  /\ NoTime \notin Nat
  /\ \A s \in Shifts \ {NoShift} : {s.start, s.grace, s.standard, s.threshold} \subseteq Nat

VARIABLES
  shift,  \* the shift resolveShift finds
  logs,   \* the eligible punches so far
  today   \* what processEmployeeDate computes from them

dayVars == <<shift, logs, today>>

\* processEmployeeDate on the punches ls of a day without a record.
DayOf(s, ls) ==
  LET kept == Range(Dedupe(ls))
      in == FirstCheckIn(kept, s)
      out == LastCheckOut(kept, s)
  IN  [in |-> in, out |-> out, metrics |-> Metrics(in, out, s)]

DayInit ==
  /\ shift \in Shifts
  /\ logs = <<>>
  /\ today = DayOf(shift, logs)

Punch(type, time) ==
  /\ Len(logs) < MaxPunches
  /\ logs # <<>> => Last(logs).time <= time
  /\ logs' = Append(logs, [type |-> type, time |-> time])
  /\ today' = DayOf(shift, logs')
  /\ UNCHANGED shift

DayNext == \E type \in EventTypes, time \in Times : Punch(type, time)

DaySpec == DayInit /\ [][DayNext]_dayVars
-----------------------------------------------------------------------------
(* Properties.                                                             *)

\* What the code drops, of whatever type: exactly the punches within a minute of an earlier
\* one that was not dropped.  (Proved of the code in DeviceLogs_proofs; it is not what the
\* comment of dedupeRapidPunches promises, which drops repeats of the same type only.)
DedupeExact ==
  \E K \in SUBSET DOMAIN logs :
    /\ \A i \in DOMAIN logs :
         i \in K <=> \A j \in K : j < i => logs[i].time - logs[j].time > RapidWindow
    /\ Len(Dedupe(logs)) = Cardinality(K)
    /\ \A i \in K : logs[i] \in Range(Dedupe(logs))

\* As punches arrive in order the day only moves forward: the check-in stays, the check-out
\* and the worked time grow, nobody becomes absent again or loses lateness or overtime.
DayForward ==
  [][LET m == today.metrics
         n == today'.metrics
     IN  /\ today.in # NoTime => today'.in = today.in
         /\ today.out # NoTime => today'.out # NoTime /\ today'.out >= today.out
         /\ m.total # NoTime => n.total # NoTime /\ n.total >= m.total
         /\ n.overtime >= m.overtime /\ n.late >= m.late
         /\ m.status # "ABSENT" => n.status # "ABSENT"
         /\ m.status = "LATE" => n.status \in {"LATE", "HALF_DAY"}]_dayVars
=============================================================================
