----------------------------- MODULE Onboarding -----------------------------
(***************************************************************************)
(* The guided setup of a company: working hours, a device, employees, and  *)
(* completion, over the tables the stages fill                             *)
(* (backend/src/services/setup.service.js, createDevice and                *)
(* deactivateDevice of device.service.js).  Work shifts and devices are    *)
(* changed outside the wizard as well.                                     *)
(*                                                                         *)
(* A wizard request loads the company first and writes the step it has     *)
(* reached last, from what it loaded.                                      *)
(***************************************************************************)
EXTENDS WorkShifts, FiniteSets

CONSTANTS Serials  \* serial numbers devices answer with, or that are made up for silent ones

VARIABLES
  company,  \* onboarding_last_step, and whether onboarding_completed_at is set
  devices,  \* serial numbers of the company's devices
  done,     \* history: stages that some request has finished
  removed   \* history: a device has been deleted

vars == <<server, shiftVars, company, devices, done, removed>>

Stages == 1 .. 4
Wizard == [cur : 0 .. 4, stage : Stages]
Ops ==
  {Idle}
    \cup [at : {"hours", "import", "bump", "finish"}, wizard : Wizard, serial : {None}]
    \cup [at : {"device", "insertDevice"}, wizard : Wizard, serial : Serials]
    \cup [at : {"insertShift"}, first : BOOLEAN, active : BOOLEAN, wizard : Wizard \cup {None}]
    \cup [at : {"writeShift"}, id : 1 .. MaxShifts, was : BOOLEAN, active : BOOLEAN,
          wizard : Wizard \cup {None}]
    \cup [at : {"clear", "mark"}, id : 1 .. MaxShifts, was : BOOLEAN, wizard : {None}]

TypeOK ==
  /\ op \in [Handlers -> Ops]
  /\ requests \in 0 .. MaxRequests /\ deaths \in 0 .. MaxDeaths
  /\ shifts \in Seq(Shift) /\ Len(shifts) <= MaxShifts
  /\ company \in [step : 0 .. 4, completed : BOOLEAN]
  /\ devices \subseteq Serials
  /\ done \subseteq Stages
  /\ single \in BOOLEAN /\ kept \in BOOLEAN /\ removed \in BOOLEAN

Init ==
  /\ InitHandlers /\ InitShifts
  /\ company = [step |-> 0, completed |-> FALSE]
  /\ devices = {} /\ done = {} /\ removed = FALSE

table == <<company, devices, done, removed>>

\* A request outside the wizard is answered, one of the wizard has to write its step.
AfterWork(h) ==
  Do(h, IF op[h].wizard = None THEN Idle
        ELSE [at |-> "bump", wizard |-> op[h].wizard, serial |-> None])

-----------------------------------------------------------------------------
(* The wizard.                                                             *)

\* loadCompany and assertOnboardingIncomplete.
Enter(h, at, stage, serial) ==
  /\ Arrive(h) /\ ~company.completed
  /\ Do(h, [at |-> at, wizard |-> [cur |-> company.step, stage |-> stage], serial |-> serial])

SaveWorkHours(h) == Enter(h, "hours", 1, None) /\ UNCHANGED <<shiftVars, table>>

\* The default shift is changed and made active, or one is created.
SaveSchedule(h) ==
  /\ At(h, "hours")
  /\ \/ \E i \in Defaults : LoadToUpdate(h, i, TRUE, op[h].wizard)
     \/ Defaults = {} /\ CountShifts(h, TRUE, op[h].wizard)
  /\ UNCHANGED table

\* The device is asked for its serial number, one is made up when it does not answer.
SaveDevice(h, serial) == Enter(h, "device", 2, serial) /\ UNCHANGED <<shiftVars, table>>

\* A registered device is updated; otherwise createDevice looks again and inserts.
FindDevice(h) ==
  /\ At(h, "device")
  /\ IF op[h].serial \in devices THEN AfterWork(h)
     ELSE Do(h, [op[h] EXCEPT !.at = "insertDevice"])
  /\ UNCHANGED <<shiftVars, table>>

\* The unique index on the serial number refuses a second row.
InsertDevice(h) ==
  /\ At(h, "insertDevice")
  /\ IF op[h].serial \in devices
     THEN Do(h, Idle) /\ UNCHANGED devices
     ELSE AfterWork(h) /\ devices' = devices \cup {op[h].serial}
  /\ UNCHANGED <<shiftVars, company, done, removed>>

\* Employees are imported from a device, or the stage is skipped.
ImportEmployees(h, skip) ==
  /\ skip \/ devices # {}
  /\ Enter(h, IF skip THEN "bump" ELSE "import", 3, None)
  /\ UNCHANGED <<shiftVars, table>>

\* The import of the users succeeds, whatever became of each of them, or throws.
Import(h) ==
  /\ At(h, "import")
  /\ AfterWork(h) \/ Do(h, Idle)
  /\ UNCHANGED <<shiftVars, table>>

\* Mutant: the next stage instead of the one that was finished.
BumpToNext(h) ==
  LET w == op[h].wizard IN
  /\ At(h, "bump")
  /\ company' = [company EXCEPT !.step = w.cur + 1]
  /\ done' = done \cup {w.stage}
  /\ Do(h, Idle)
  /\ UNCHANGED <<shiftVars, devices, removed>>

\* bumpStep: the larger of the stage and the step that was loaded, if they differ.
Bump(h) ==
  LET w == op[h].wizard IN
  /\ At(h, "bump")
  /\ company' = [company EXCEPT !.step = IF w.stage > w.cur THEN w.stage ELSE @]
  /\ done' = done \cup {w.stage}
  /\ Do(h, Idle)
  /\ UNCHANGED <<shiftVars, devices, removed>>

Complete(h) ==
  /\ company.step >= 3
  /\ Enter(h, "finish", 4, None)
  /\ UNCHANGED <<shiftVars, table>>

Finish(h) ==
  /\ At(h, "finish")
  /\ company' = [step |-> 4, completed |-> TRUE]
  /\ done' = done \cup {4}
  /\ Do(h, Idle)
  /\ UNCHANGED <<shiftVars, devices, removed>>

-----------------------------------------------------------------------------
(* Outside the wizard.                                                     *)

ShiftRequest(h) ==
  /\ Arrive(h)
  /\ \/ \E active \in BOOLEAN : CountShifts(h, active, None)
     \/ \E i \in DOMAIN shifts :
          \/ \E active \in BOOLEAN : LoadToUpdate(h, i, active, None)
          \/ DeactivateShift(h, i)
          \/ LoadToDefault(h, i)
  /\ UNCHANGED table

ShiftStep(h) ==
  /\ \/ At(h, "insertShift") /\ InsertShift(h) /\ AfterWork(h)
     \/ At(h, "writeShift") /\ WriteShift(h) /\ AfterWork(h)
     \/ At(h, "clear") /\ ClearDefaults(h)
     \/ At(h, "mark") /\ MarkDefault(h) /\ Do(h, Idle)
  /\ UNCHANGED table

\* createDevice and deactivateDevice from the device pages.
DeviceRequest(h) ==
  /\ Arrive(h)
  /\ \E s \in Serials :
       \/ s \notin devices /\ devices' = devices \cup {s} /\ UNCHANGED removed
       \/ s \in devices /\ devices' = devices \ {s} /\ removed' = TRUE
  /\ UNCHANGED <<op, shiftVars, company, done>>

\* A process that dies between the two statements of setDefaultShift leaves no default.
DieIn(h) ==
  /\ Die(h)
  /\ kept' = (kept /\ op[h].at # "mark")
  /\ UNCHANGED <<shifts, single, table>>

-----------------------------------------------------------------------------
Next ==
  \E h \in Handlers :
    \/ SaveWorkHours(h) \/ SaveSchedule(h)
    \/ \E s \in Serials : SaveDevice(h, s)
    \/ FindDevice(h) \/ InsertDevice(h)
    \/ \E skip \in BOOLEAN : ImportEmployees(h, skip)
    \/ Import(h) \/ Bump(h) \/ Complete(h) \/ Finish(h)
    \/ ShiftRequest(h) \/ ShiftStep(h) \/ DeviceRequest(h)
    \/ DieIn(h)

Spec == Init /\ [][Next]_vars

-----------------------------------------------------------------------------
(* Properties.                                                             *)

\* "Only one shift per company should have is_default = 1"
\* (work_shift.model.js:56): as long as no two requests that choose the default
\* overlap there are never two, whatever else overlaps or dies.
AtMostOneDefault == single => Cardinality(Defaults) <= 1

\* The engine finds a default that is active (attendance_processor.service.js:
\* 294) from the first shift on, except between the two statements of
\* setDefaultShift, unless the default was chosen again, switched off by PUT or
\* created inactive, switched off while it was being chosen, or the process died
\* between the two.
DefaultThere ==
  kept /\ shifts # <<>> /\ ~(\E h \in Handlers : op[h].at = "mark")
    => \E i \in Defaults : shifts[i].active

\* "Last finished wizard stage (persisted for resume)" (company.model.js:80): the
\* step of the company is a stage that somebody finished, with its schedule and
\* its device in the tables, although requests write it from what they loaded
\* and one that is late can take it back.
StageFinished ==
  /\ company.step \in done \cup {0}
  /\ company.completed => {3, 4} \subseteq done
  /\ 1 \in done => shifts # <<>>
  /\ 2 \in done /\ ~removed => devices # {}
=============================================================================
