----------------------------- MODULE WorkShifts -----------------------------
(***************************************************************************)
(* The work shifts of a company and which of them is the default           *)
(* (createShift, updateShift, deactivateShift and setDefaultShift of       *)
(* backend/src/services/attendance_processor.service.js).                  *)
(*                                                                         *)
(* Every handler loads a row and then updates the columns that differ from *)
(* what it loaded: a value equal to the loaded one is not written.         *)
(***************************************************************************)
EXTENDS Handlers, Sequences

CONSTANTS
  MaxShifts,  \* bound: rows
  None

ASSUME ShiftsAssumption == MaxShifts \in Nat

VARIABLES
  shifts,  \* work_shifts: is_default and is_active of the rows, never deleted
  single,  \* history: see AtMostOneDefault
  kept     \* history: see DefaultThere

shiftVars == <<shifts, single, kept>>

Shift == [default : BOOLEAN, active : BOOLEAN]

InitShifts == shifts = <<>> /\ single = TRUE /\ kept = TRUE

\* Handlers that are about to make a shift the default.
Choosing(h) ==
  Others(h, {"clear", "mark"}) \cup {g \in Others(h, {"insertShift"}) : op[g].first}

\* createShift counts the rows ...
CountShifts(h, active, wizard) ==
  /\ Len(shifts) < MaxShifts
  /\ Do(h, [at |-> "insertShift", first |-> shifts = <<>>, active |-> active, wizard |-> wizard])
  /\ single' = (single /\ (shifts = <<>> => Choosing(h) = {}))
  /\ kept' = (kept /\ (shifts = <<>> => active))
  /\ UNCHANGED shifts

\* ... and inserts one, the default when there was none.
InsertShift(h) ==
  /\ Len(shifts) < MaxShifts
  /\ shifts' = Append(shifts, [default |-> op[h].first, active |-> op[h].active])
  /\ UNCHANGED <<single, kept>>

\* updateShift drops is_default from the payload, not is_active.
LoadToUpdate(h, i, active, wizard) ==
  /\ Do(h, [at |-> "writeShift", id |-> i, was |-> shifts[i].active, active |-> active,
            wizard |-> wizard])
  /\ kept' = (kept /\ (~active => ~shifts[i].default /\ ~\E g \in Handlers : op[g].at \in {"clear", "mark"}))
  /\ UNCHANGED <<shifts, single>>

\* Mutant: the default may be deactivated.
DeactivateAnyShift(h, i) ==
  /\ Do(h, [at |-> "writeShift", id |-> i, was |-> shifts[i].active, active |-> FALSE,
            wizard |-> None])
  /\ kept' = (kept /\ ~\E g \in Handlers : op[g].at \in {"clear", "mark"})
  /\ UNCHANGED <<shifts, single>>

DeactivateShift(h, i) ==
  /\ ~shifts[i].default
  /\ LoadToUpdate(h, i, FALSE, None)

WriteShift(h) ==
  /\ shifts' = IF op[h].was = op[h].active THEN shifts
               ELSE [shifts EXCEPT ![op[h].id].active = op[h].active]
  /\ UNCHANGED <<single, kept>>

\* setDefaultShift loads the shift, which must be active ...
LoadToDefault(h, i) ==
  /\ shifts[i].active
  /\ Do(h, [at |-> "clear", id |-> i, was |-> shifts[i].default, wizard |-> None])
  /\ single' = (single /\ Choosing(h) = {})
  /\ kept' = (kept /\ ~shifts[i].default
              /\ ~\E g \in Others(h, {"writeShift"}) : ~op[g].active)
  /\ UNCHANGED shifts

\* Mutant: only active shifts lose the flag.
ClearActiveDefaults(h) ==
  /\ shifts' = [i \in DOMAIN shifts |->
                  IF shifts[i].active THEN [shifts[i] EXCEPT !.default = FALSE] ELSE shifts[i]]
  /\ Do(h, [op[h] EXCEPT !.at = "mark"])
  /\ UNCHANGED <<single, kept>>

\* ... takes the flag from every shift ...
ClearDefaults(h) ==
  /\ shifts' = [i \in DOMAIN shifts |-> [shifts[i] EXCEPT !.default = FALSE]]
  /\ Do(h, [op[h] EXCEPT !.at = "mark"])
  /\ UNCHANGED <<single, kept>>

\* ... and gives it to the one, unless the row was loaded with the flag: then
\* nothing differs, nothing is written and no shift is the default.
MarkDefault(h) ==
  /\ shifts' = IF op[h].was THEN shifts ELSE [shifts EXCEPT ![op[h].id].default = TRUE]
  /\ UNCHANGED <<single, kept>>

Defaults == {i \in DOMAIN shifts : shifts[i].default}
=============================================================================
