------------------------- MODULE Onboarding_proofs -------------------------
(***************************************************************************)
(* Proofs about Onboarding, for any number of requests at once, deaths,    *)
(* work shifts and devices: which work shift is the default, and what the  *)
(* step of the wizard says.                                                *)
(***************************************************************************)
EXTENDS Onboarding, FiniteSetTheorems, SequenceTheorems, TLAPS

-----------------------------------------------------------------------------
(* The inductive invariants.                                               *)

Chooses(o) == o.at \in {"clear", "mark"} \/ (o.at = "insertShift" /\ o.first)

\* A row that was found is still there, and so are the ones that were counted.
RowsThere ==
  \A h \in Handlers :
    /\ op[h].at \in {"writeShift", "clear", "mark"} => op[h].id \in DOMAIN shifts
    /\ op[h].at = "insertShift" /\ ~op[h].first => shifts # <<>>

\* One request chooses at a time, and when it comes to set the flag nobody has it.
OneChooser ==
  single =>
    /\ \A i, j \in Defaults : i = j
    /\ \A g, h \in Handlers : Chooses(op[g]) /\ Chooses(op[h]) => g = h
    /\ \A h \in Handlers :
         op[h].at = "mark" \/ (op[h].at = "insertShift" /\ op[h].first) => Defaults = {}

\* The shift that is being chosen is active and gets the flag, nobody is about
\* to switch it off, and what is being switched off is not the default.
ChoiceSound ==
  kept =>
    /\ \A h \in Handlers :
         /\ op[h].at \in {"clear", "mark"} => shifts[op[h].id].active /\ ~op[h].was
         /\ op[h].at = "insertShift" /\ op[h].first => op[h].active
         /\ op[h].at = "writeShift" /\ ~op[h].active => ~shifts[op[h].id].default
    /\ \A g, h \in Handlers :
         op[g].at \in {"clear", "mark"} => ~(op[h].at = "writeShift" /\ ~op[h].active)

\* Inductive together with TypeOK.
ShiftTable == RowsThere /\ OneChooser /\ ChoiceSound /\ DefaultThere

\* What a request of the wizard carries: the step it loaded is a stage somebody
\* finished, and when it comes to write its own stage, what that stage puts in
\* the tables is there.
OfWizard(o) ==
  \/ o.at \in {"hours", "device", "insertDevice", "import", "bump", "finish"}
  \/ o.at \in {"insertShift", "writeShift"} /\ o.wizard # None

CarriesStage(o) ==
  OfWizard(o) =>
    /\ o.wizard.cur \in done \cup {0}
    /\ o.at \in {"hours", "insertShift", "writeShift"} => o.wizard.stage = 1
    /\ o.at \in {"device", "insertDevice"} => o.wizard.stage = 2
    /\ o.at = "import" => o.wizard.stage = 3
    /\ o.at = "bump" => /\ o.wizard.stage \in 1 .. 3
                        /\ o.wizard.stage = 1 => shifts # <<>>
                        /\ o.wizard.stage = 2 => removed \/ devices # {}
    /\ o.at = "finish" => 3 \in done

\* Inductive together with TypeOK and ShiftTable.
StageTable ==
  /\ StageFinished
  /\ 4 \in done => company.completed
  /\ \A h \in Handlers : CarriesStage(op[h])

-----------------------------------------------------------------------------
(* What a handler under way carries, and what a statement does to the rows. *)

LEMMA Carried ==
  ASSUME NEW o \in Ops
  PROVE  /\ o.at \in {"idle", "hours", "import", "bump", "finish", "device", "insertDevice",
                      "insertShift", "writeShift", "clear", "mark"}
         /\ o.at \in {"hours", "import", "bump", "finish", "device", "insertDevice"} =>
              o.wizard \in Wizard
         /\ o.at \in {"device", "insertDevice"} =>
              o \in [at : {"device", "insertDevice"}, wizard : Wizard, serial : Serials]
         /\ o.at \in {"insertShift", "writeShift"} => o.wizard \in Wizard \cup {None}
         /\ o.at = "insertShift" => o.first \in BOOLEAN /\ o.active \in BOOLEAN
         /\ o.at = "writeShift" => o.was \in BOOLEAN /\ o.active \in BOOLEAN
         /\ o.at \in {"clear", "mark"} =>
              o \in [at : {"clear", "mark"}, id : 1 .. MaxShifts, was : BOOLEAN, wizard : {None}]
BY DEF Ops, Idle

LEMMA DoType ==
  ASSUME op \in [Handlers -> Ops], NEW h \in Handlers, NEW what \in Ops, Do(h, what)
  PROVE  /\ op' \in [Handlers -> Ops]
         /\ op'[h] = what
         /\ \A g \in Handlers \ {h} : op'[g] = op[g]
BY DEF Do

LEMMA IdleType == Idle \in Ops
BY DEF Ops

LEMMA BumpType ==
  ASSUME NEW w \in Wizard
  PROVE  [at |-> "bump", wizard |-> w, serial |-> None] \in Ops
BY DEF Ops

LEMMA AfterWorkType ==
  ASSUME op \in [Handlers -> Ops], NEW h \in Handlers, AfterWork(h),
         op[h].wizard \in Wizard \cup {None}
  PROVE  /\ op' \in [Handlers -> Ops]
         /\ \A g \in Handlers \ {h} : op'[g] = op[g]
         /\ \/ op[h].wizard = None /\ op'[h] = Idle
            \/ /\ op[h].wizard # None
               /\ op'[h] = [at |-> "bump", wizard |-> op[h].wizard, serial |-> None]
<1>1. CASE op[h].wizard = None
  BY <1>1, IdleType DEF AfterWork, Do
<1>2. CASE op[h].wizard # None
  <2>1. [at |-> "bump", wizard |-> op[h].wizard, serial |-> None] \in Ops
    BY <1>2, BumpType
  <2> QED
    BY <1>2, <2>1 DEF AfterWork, Do
<1> QED
  BY <1>1, <1>2

LEMMA ShiftRow ==
  ASSUME shifts \in Seq(Shift), NEW i \in DOMAIN shifts
  PROVE  /\ shifts[i] \in Shift /\ shifts[i].default \in BOOLEAN /\ shifts[i].active \in BOOLEAN
         /\ shifts # <<>> /\ i \in 1 .. Len(shifts) /\ Len(shifts) \in Nat
<1>1. shifts \in [1 .. Len(shifts) -> Shift] /\ Len(shifts) \in Nat
  BY LenProperties
<1> QED
  BY <1>1 DEF Shift

LEMMA InsertEffect ==
  ASSUME TypeOK, NEW h \in Handlers, op[h].at = "insertShift", InsertShift(h)
  PROVE  /\ shifts' \in Seq(Shift) /\ Len(shifts') <= MaxShifts
         /\ DOMAIN shifts' = DOMAIN shifts \cup {Len(shifts) + 1} /\ shifts' # <<>>
         /\ \A i \in DOMAIN shifts : shifts'[i] = shifts[i]
         /\ Len(shifts) + 1 \notin DOMAIN shifts
         /\ shifts'[Len(shifts) + 1] = [default |-> op[h].first, active |-> op[h].active]
<1>1. op[h].first \in BOOLEAN /\ op[h].active \in BOOLEAN
  BY Carried DEF TypeOK
<1> DEFINE row == [default |-> op[h].first, active |-> op[h].active]
<1>2. row \in Shift
  BY <1>1 DEF Shift
<1>3. shifts \in Seq(Shift) /\ Len(shifts) \in Nat /\ DOMAIN shifts = 1 .. Len(shifts)
  BY LenProperties DEF TypeOK
<1>4. shifts' = Append(shifts, row) /\ Len(shifts) < MaxShifts
  BY DEF InsertShift
<1> HIDE DEF row
<1>5. /\ shifts' \in Seq(Shift) /\ Len(shifts') = Len(shifts) + 1
      /\ \A i \in 1 .. Len(shifts) : shifts'[i] = shifts[i]
      /\ shifts'[Len(shifts) + 1] = row
  BY <1>2, <1>3, <1>4, AppendProperties
<1>6. DOMAIN shifts' = 1 .. Len(shifts) + 1
  BY <1>3, <1>5, LenProperties
<1>7. shifts' # <<>>
  BY <1>3, <1>5, EmptySeq
<1>8. DOMAIN shifts' = DOMAIN shifts \cup {Len(shifts) + 1} /\ Len(shifts) + 1 \notin DOMAIN shifts
  BY <1>3, <1>6
<1>9. Len(shifts') <= MaxShifts
  BY <1>3, <1>4, <1>5, ShiftsAssumption
<1> QED
  BY <1>3, <1>5, <1>7, <1>8, <1>9 DEF row

\* The statements that update rows: how many there are does not change.
LEMMA UpdateEffect ==
  ASSUME shifts \in Seq(Shift), shifts' \in [DOMAIN shifts -> Shift]
  PROVE  /\ shifts' \in Seq(Shift) /\ Len(shifts') = Len(shifts)
         /\ DOMAIN shifts' = DOMAIN shifts /\ (shifts' = <<>> <=> shifts = <<>>)
<1>1. Len(shifts) \in Nat /\ DOMAIN shifts = 1 .. Len(shifts)
  BY LenProperties
<1>2. shifts' \in Seq(Shift)
  BY <1>1, SeqDef
<1>3. DOMAIN shifts' = 1 .. Len(shifts') /\ Len(shifts') \in Nat
  BY <1>2, LenProperties
<1>4. Len(shifts') = Len(shifts)
  BY <1>1, <1>3
<1>5. shifts' = <<>> <=> shifts = <<>>
  BY <1>2, <1>4, EmptySeq
<1> QED
  BY <1>1, <1>2, <1>3, <1>4, <1>5

LEMMA WriteEffect ==
  ASSUME TypeOK, NEW h \in Handlers, op[h].at = "writeShift", WriteShift(h)
  PROVE  /\ shifts' \in [DOMAIN shifts -> Shift]
         /\ \A i \in DOMAIN shifts :
              /\ shifts'[i].default = shifts[i].default
              /\ i # op[h].id => shifts'[i] = shifts[i]
              /\ op[h].active => (shifts[i].active => shifts'[i].active)
<1>1. op[h].active \in BOOLEAN
  BY Carried DEF TypeOK
<1>2. shifts \in [DOMAIN shifts -> Shift]
  BY LenProperties DEF TypeOK
<1> QED
  BY <1>1, <1>2 DEF WriteShift, Shift

LEMMA ClearEffect ==
  ASSUME TypeOK, NEW h \in Handlers, op[h].at = "clear", ClearDefaults(h)
  PROVE  /\ shifts' \in [DOMAIN shifts -> Shift]
         /\ \A i \in DOMAIN shifts : ~shifts'[i].default /\ shifts'[i].active = shifts[i].active
         /\ op' \in [Handlers -> Ops]
         /\ \A g \in Handlers \ {h} : op'[g] = op[g]
         /\ op'[h].at = "mark" /\ op'[h].id = op[h].id /\ op'[h].was = op[h].was
<1>1. op[h] \in [at : {"clear", "mark"}, id : 1 .. MaxShifts, was : BOOLEAN, wizard : {None}]
  BY Carried DEF TypeOK
<1>2. shifts \in [DOMAIN shifts -> Shift]
  BY LenProperties DEF TypeOK
<1>3. [op[h] EXCEPT !.at = "mark"]
        \in [at : {"clear", "mark"}, id : 1 .. MaxShifts, was : BOOLEAN, wizard : {None}]
  BY <1>1
<1>4. [op[h] EXCEPT !.at = "mark"] \in Ops
  BY <1>3 DEF Ops
<1>5. op' \in [Handlers -> Ops] /\ op'[h] = [op[h] EXCEPT !.at = "mark"]
      /\ \A g \in Handlers \ {h} : op'[g] = op[g]
  BY <1>4, DoType DEF TypeOK, ClearDefaults
<1>6. op'[h].at = "mark" /\ op'[h].id = op[h].id /\ op'[h].was = op[h].was
  BY <1>1, <1>5
<1>7. /\ shifts' \in [DOMAIN shifts -> Shift]
      /\ \A i \in DOMAIN shifts : ~shifts'[i].default /\ shifts'[i].active = shifts[i].active
  BY <1>2 DEF ClearDefaults, Shift
<1> QED
  BY <1>5, <1>6, <1>7

LEMMA MarkEffect ==
  ASSUME TypeOK, NEW h \in Handlers, op[h].at = "mark", MarkDefault(h)
  PROVE  /\ shifts' \in [DOMAIN shifts -> Shift]
         /\ \A i \in DOMAIN shifts :
              /\ shifts'[i].active = shifts[i].active
              /\ i # op[h].id => shifts'[i] = shifts[i]
              /\ i = op[h].id /\ ~op[h].was => shifts'[i].default
<1>1. op[h].was \in BOOLEAN
  BY Carried DEF TypeOK
<1>2. shifts \in [DOMAIN shifts -> Shift]
  BY LenProperties DEF TypeOK
<1> QED
  BY <1>1, <1>2 DEF MarkDefault, Shift

-----------------------------------------------------------------------------
(* Type correctness.                                                       *)

LEMMA TypeInit == Init => TypeOK
<1> SUFFICES ASSUME Init PROVE TypeOK
  OBVIOUS
<1>1. <<>> \in Seq(Shift) /\ Len(<<>>) = 0
  BY EmptySeq
<1>2. shifts = <<>>
  BY DEF Init, InitShifts
<1>3. shifts \in Seq(Shift) /\ Len(shifts) = 0
  BY <1>1, <1>2
<1>4. op \in [Handlers -> Ops]
  BY IdleType DEF Init, InitHandlers
<1>5. requests \in 0 .. MaxRequests /\ deaths \in 0 .. MaxDeaths
  BY HandlersAssumption DEF Init, InitHandlers
<1>6. single \in BOOLEAN /\ kept \in BOOLEAN
  BY DEF Init, InitShifts
<1>7. company \in [step : 0 .. 4, completed : BOOLEAN]
  BY DEF Init
<1>8. Len(shifts) <= MaxShifts
  BY <1>3, ShiftsAssumption
<1>9. devices \subseteq Serials /\ done \subseteq Stages /\ removed \in BOOLEAN
  BY DEF Init
<1> QED
  BY <1>3, <1>4, <1>5, <1>6, <1>7, <1>8, <1>9 DEF TypeOK

LEMMA EnterType ==
  ASSUME TypeOK, NEW h \in Handlers, NEW at, NEW stage \in Stages, NEW serial,
         Enter(h, at, stage, serial),
         \/ at \in {"hours", "import", "bump", "finish"} /\ serial = None
         \/ at = "device" /\ serial \in Serials
  PROVE  /\ op' \in [Handlers -> Ops] /\ requests' \in 0 .. MaxRequests /\ deaths' = deaths
         /\ \A g \in Handlers \ {h} : op'[g] = op[g]
         /\ op'[h].at = at /\ op'[h].wizard = [cur |-> company.step, stage |-> stage]
         /\ op[h].at = "idle"
<1> DEFINE what == [at |-> at, wizard |-> [cur |-> company.step, stage |-> stage], serial |-> serial]
<1>1. [cur |-> company.step, stage |-> stage] \in Wizard
  BY DEF TypeOK, Wizard
<1>2. what \in Ops
  BY <1>1 DEF Ops
<1>3. op' \in [Handlers -> Ops] /\ op'[h] = what /\ \A g \in Handlers \ {h} : op'[g] = op[g]
  BY <1>2, DoType DEF Enter, TypeOK
<1>4. op'[h].at = at /\ op'[h].wizard = [cur |-> company.step, stage |-> stage]
  BY <1>3
<1> QED
  BY <1>3, <1>4, HandlersAssumption DEF Enter, Arrive, TypeOK, Idle

LEMMA CountShiftsType ==
  ASSUME TypeOK, NEW h \in Handlers, NEW active \in BOOLEAN, NEW wizard \in Wizard \cup {None},
         CountShifts(h, active, wizard)
  PROVE  /\ op' \in [Handlers -> Ops] /\ single' \in BOOLEAN /\ kept' \in BOOLEAN
         /\ \A g \in Handlers \ {h} : op'[g] = op[g]
         /\ op'[h] = [at |-> "insertShift", first |-> shifts = <<>>, active |-> active, wizard |-> wizard]
<1> DEFINE what ==
      [at |-> "insertShift", first |-> shifts = <<>>, active |-> active, wizard |-> wizard]
<1>1. what \in [at : {"insertShift"}, first : BOOLEAN, active : BOOLEAN, wizard : Wizard \cup {None}]
  OBVIOUS
<1>2. what \in Ops
  BY <1>1 DEF Ops
<1>3. op' \in [Handlers -> Ops] /\ op'[h] = what /\ \A g \in Handlers \ {h} : op'[g] = op[g]
  BY <1>2, DoType DEF CountShifts, TypeOK
<1> QED
  BY <1>3 DEF CountShifts, TypeOK

LEMMA LoadToUpdateType ==
  ASSUME TypeOK, NEW h \in Handlers, NEW i \in DOMAIN shifts, NEW active \in BOOLEAN,
         NEW wizard \in Wizard \cup {None}, LoadToUpdate(h, i, active, wizard)
  PROVE  /\ op' \in [Handlers -> Ops] /\ kept' \in BOOLEAN
         /\ \A g \in Handlers \ {h} : op'[g] = op[g]
         /\ op'[h] = [at |-> "writeShift", id |-> i, was |-> shifts[i].active, active |-> active,
                      wizard |-> wizard]
<1> DEFINE what == [at |-> "writeShift", id |-> i, was |-> shifts[i].active, active |-> active,
                    wizard |-> wizard]
<1>1. shifts[i].active \in BOOLEAN /\ i \in 1 .. MaxShifts
  BY ShiftRow, ShiftsAssumption DEF TypeOK
<1>2. what \in [at : {"writeShift"}, id : 1 .. MaxShifts, was : BOOLEAN, active : BOOLEAN,
                wizard : Wizard \cup {None}]
  BY <1>1
<1>3. what \in Ops
  BY <1>2 DEF Ops
<1>4. op' \in [Handlers -> Ops] /\ op'[h] = what /\ \A g \in Handlers \ {h} : op'[g] = op[g]
  BY <1>3, DoType DEF LoadToUpdate, TypeOK
<1> QED
  BY <1>4 DEF LoadToUpdate, TypeOK

LEMMA LoadToDefaultType ==
  ASSUME TypeOK, NEW h \in Handlers, NEW i \in DOMAIN shifts, LoadToDefault(h, i)
  PROVE  /\ op' \in [Handlers -> Ops] /\ single' \in BOOLEAN /\ kept' \in BOOLEAN
         /\ \A g \in Handlers \ {h} : op'[g] = op[g]
         /\ op'[h] = [at |-> "clear", id |-> i, was |-> shifts[i].default, wizard |-> None]
<1> DEFINE what == [at |-> "clear", id |-> i, was |-> shifts[i].default, wizard |-> None]
<1>1. shifts[i].default \in BOOLEAN /\ i \in 1 .. MaxShifts
  BY ShiftRow, ShiftsAssumption DEF TypeOK
<1>2. what \in [at : {"clear", "mark"}, id : 1 .. MaxShifts, was : BOOLEAN, wizard : {None}]
  BY <1>1
<1>3. what \in Ops
  BY <1>2 DEF Ops
<1>4. op' \in [Handlers -> Ops] /\ op'[h] = what /\ \A g \in Handlers \ {h} : op'[g] = op[g]
  BY <1>3, DoType DEF LoadToDefault, TypeOK
<1> QED
  BY <1>4 DEF LoadToDefault, TypeOK

LEMMA TypeStep == TypeOK /\ [Next]_vars => TypeOK'
<1> SUFFICES ASSUME TypeOK, [Next]_vars PROVE TypeOK'
  OBVIOUS
<1> USE DEF server, shiftVars, table
<1> 1 \in Stages /\ 2 \in Stages /\ 3 \in Stages /\ 4 \in Stages
  BY DEF Stages
<1>1. ASSUME NEW h \in Handlers, SaveWorkHours(h) PROVE TypeOK'
  <2>1. Enter(h, "hours", 1, None) /\ UNCHANGED <<shiftVars, table>>
    BY <1>1 DEF SaveWorkHours
  <2>2. op' \in [Handlers -> Ops] /\ requests' \in 0 .. MaxRequests /\ deaths' = deaths
    BY <2>1, EnterType
  <2> QED
    BY <2>1, <2>2 DEF TypeOK
<1>2. ASSUME NEW h \in Handlers, SaveSchedule(h) PROVE TypeOK'
  <2>1. op[h].wizard \in Wizard
    BY <1>2, Carried DEF TypeOK, SaveSchedule, At
  <2>2. ASSUME NEW i \in Defaults, LoadToUpdate(h, i, TRUE, op[h].wizard) PROVE TypeOK'
    BY <1>2, <2>1, <2>2, LoadToUpdateType DEF TypeOK, SaveSchedule, At, LoadToUpdate, Defaults
  <2>3. CASE CountShifts(h, TRUE, op[h].wizard)
    BY <1>2, <2>1, <2>3, CountShiftsType DEF TypeOK, SaveSchedule, At, CountShifts
  <2> QED
    BY <1>2, <2>2, <2>3 DEF SaveSchedule
<1>3. ASSUME NEW h \in Handlers, NEW s \in Serials, SaveDevice(h, s) PROVE TypeOK'
  <2>1. Enter(h, "device", 2, s) /\ UNCHANGED <<shiftVars, table>>
    BY <1>3 DEF SaveDevice
  <2>2. op' \in [Handlers -> Ops] /\ requests' \in 0 .. MaxRequests /\ deaths' = deaths
    BY <2>1, EnterType
  <2> QED
    BY <2>1, <2>2 DEF TypeOK
<1>4. ASSUME NEW h \in Handlers, FindDevice(h) PROVE TypeOK'
  <2>1. op[h] \in [at : {"device", "insertDevice"}, wizard : Wizard, serial : Serials]
    BY <1>4, Carried DEF TypeOK, FindDevice, At
  <2>2. [op[h] EXCEPT !.at = "insertDevice"] \in Ops
    BY <2>1 DEF Ops
  <2>3. op' \in [Handlers -> Ops]
    BY <1>4, <2>1, <2>2, DoType, AfterWorkType DEF TypeOK, FindDevice
  <2> QED
    BY <1>4, <2>3 DEF TypeOK, FindDevice, At
<1>5. ASSUME NEW h \in Handlers, InsertDevice(h) PROVE TypeOK'
  <2>1. op[h] \in [at : {"device", "insertDevice"}, wizard : Wizard, serial : Serials]
    BY <1>5, Carried DEF TypeOK, InsertDevice, At
  <2>2. op' \in [Handlers -> Ops]
    BY <1>5, <2>1, IdleType, DoType, AfterWorkType DEF TypeOK, InsertDevice
  <2> QED
    BY <1>5, <2>1, <2>2 DEF TypeOK, InsertDevice, At
<1>6. ASSUME NEW h \in Handlers, NEW skip \in BOOLEAN, ImportEmployees(h, skip) PROVE TypeOK'
  <2>1. Enter(h, "bump", 3, None) \/ Enter(h, "import", 3, None)
    BY <1>6 DEF ImportEmployees
  <2>2. op' \in [Handlers -> Ops] /\ requests' \in 0 .. MaxRequests /\ deaths' = deaths
    BY <2>1, EnterType
  <2> QED
    BY <1>6, <2>2 DEF TypeOK, ImportEmployees
<1>7. ASSUME NEW h \in Handlers, Import(h) PROVE TypeOK'
  <2>1. op[h].wizard \in Wizard
    BY <1>7, Carried DEF TypeOK, Import, At
  <2>2. op' \in [Handlers -> Ops]
    BY <1>7, <2>1, IdleType, DoType, AfterWorkType DEF TypeOK, Import
  <2> QED
    BY <1>7, <2>2 DEF TypeOK, Import, At
<1>8. ASSUME NEW h \in Handlers, Bump(h) PROVE TypeOK'
  <2>1. op[h].wizard \in Wizard
    BY <1>8, Carried DEF TypeOK, Bump, At
  <2>2. op' \in [Handlers -> Ops]
    BY <1>8, IdleType, DoType DEF TypeOK, Bump
  <2> QED
    BY <1>8, <2>1, <2>2 DEF TypeOK, Bump, At, Wizard, Stages
<1>9. ASSUME NEW h \in Handlers, Complete(h) PROVE TypeOK'
  <2>1. Enter(h, "finish", 4, None) /\ UNCHANGED <<shiftVars, table>>
    BY <1>9 DEF Complete
  <2>2. op' \in [Handlers -> Ops] /\ requests' \in 0 .. MaxRequests /\ deaths' = deaths
    BY <2>1, EnterType
  <2> QED
    BY <2>1, <2>2 DEF TypeOK
<1>10. ASSUME NEW h \in Handlers, Finish(h) PROVE TypeOK'
  <2>1. op' \in [Handlers -> Ops]
    BY <1>10, IdleType, DoType DEF TypeOK, Finish
  <2> QED
    BY <1>10, <2>1 DEF TypeOK, Finish, At, Stages
<1>11. ASSUME NEW h \in Handlers, ShiftRequest(h) PROVE TypeOK'
  <2>1. requests' \in 0 .. MaxRequests /\ UNCHANGED deaths /\ UNCHANGED table
    BY <1>11, HandlersAssumption DEF ShiftRequest, Arrive, TypeOK
  <2>2. ASSUME NEW active \in BOOLEAN, CountShifts(h, active, None) PROVE TypeOK'
    BY <2>1, <2>2, CountShiftsType DEF TypeOK, CountShifts
  <2>3. ASSUME NEW i \in DOMAIN shifts, NEW active \in BOOLEAN, LoadToUpdate(h, i, active, None)
        PROVE  TypeOK'
    BY <2>1, <2>3, LoadToUpdateType DEF TypeOK, LoadToUpdate
  <2>4. ASSUME NEW i \in DOMAIN shifts, LoadToDefault(h, i) PROVE TypeOK'
    BY <2>1, <2>4, LoadToDefaultType DEF TypeOK, LoadToDefault
  <2> QED
    BY <1>11, <2>2, <2>3, <2>4 DEF ShiftRequest, DeactivateShift
<1>12. ASSUME NEW h \in Handlers, ShiftStep(h) PROVE TypeOK'
  <2>1. CASE At(h, "insertShift") /\ InsertShift(h) /\ AfterWork(h)
    <3>1. op[h].wizard \in Wizard \cup {None}
      BY <2>1, Carried DEF TypeOK, At
    <3>2. op' \in [Handlers -> Ops]
      BY <2>1, <3>1, AfterWorkType DEF TypeOK
    <3> QED
      BY <1>12, <2>1, <3>2, InsertEffect DEF TypeOK, ShiftStep, At, InsertShift
  <2>2. CASE At(h, "writeShift") /\ WriteShift(h) /\ AfterWork(h)
    <3>1. op[h].wizard \in Wizard \cup {None}
      BY <2>2, Carried DEF TypeOK, At
    <3>2. op' \in [Handlers -> Ops]
      BY <2>2, <3>1, AfterWorkType DEF TypeOK
    <3>3. shifts' \in Seq(Shift) /\ Len(shifts') = Len(shifts)
      BY <2>2, WriteEffect, UpdateEffect DEF TypeOK, At
    <3> QED
      BY <1>12, <2>2, <3>2, <3>3 DEF TypeOK, ShiftStep, At, WriteShift
  <2>3. CASE At(h, "clear") /\ ClearDefaults(h)
    <3>1. op' \in [Handlers -> Ops]
      BY <2>3, ClearEffect DEF At
    <3>2. shifts' \in Seq(Shift) /\ Len(shifts') = Len(shifts)
      BY <2>3, ClearEffect, UpdateEffect DEF TypeOK, At
    <3> QED
      BY <1>12, <2>3, <3>1, <3>2 DEF TypeOK, ShiftStep, At, ClearDefaults
  <2>4. CASE At(h, "mark") /\ MarkDefault(h) /\ Do(h, Idle)
    <3>1. op' \in [Handlers -> Ops]
      BY <2>4, IdleType, DoType DEF TypeOK
    <3>2. shifts' \in Seq(Shift) /\ Len(shifts') = Len(shifts)
      BY <2>4, MarkEffect, UpdateEffect DEF TypeOK, At
    <3> QED
      BY <1>12, <2>4, <3>1, <3>2 DEF TypeOK, ShiftStep, At, MarkDefault
  <2> QED
    BY <1>12, <2>1, <2>2, <2>3, <2>4 DEF ShiftStep
<1>13. ASSUME NEW h \in Handlers, DeviceRequest(h) PROVE TypeOK'
  <2>1. /\ requests' \in 0 .. MaxRequests
        /\ UNCHANGED <<op, deaths, shifts, single, kept, company, done>>
    BY <1>13, HandlersAssumption DEF TypeOK, DeviceRequest, Arrive
  <2>2. devices' \subseteq Serials /\ removed' \in BOOLEAN
    BY <1>13 DEF TypeOK, DeviceRequest
  <2> QED
    BY <2>1, <2>2 DEF TypeOK
<1>14. ASSUME NEW h \in Handlers, DieIn(h) PROVE TypeOK'
  <2>1. op' \in [Handlers -> Ops]
    BY <1>14, IdleType, DoType DEF TypeOK, DieIn, Die
  <2> QED
    BY <1>14, <2>1, HandlersAssumption DEF TypeOK, DieIn, Die
<1>15. CASE UNCHANGED vars
  BY <1>15 DEF TypeOK, vars
<1> QED
  BY <1>1, <1>2, <1>3, <1>4, <1>5, <1>6, <1>7, <1>8, <1>9, <1>10, <1>11, <1>12, <1>13,
     <1>14, <1>15 DEF Next

\* Every variable keeps its type, for every value of the constants.
THEOREM TypeCorrect == Spec => []TypeOK
BY TypeInit, TypeStep, PTL DEF Spec

-----------------------------------------------------------------------------
(* The default shift.  Only the statements on work_shifts, and a request   *)
(* that dies between two of them, can disturb ShiftTable.                  *)

LEMMA ShiftInit == Init => ShiftTable
<1> SUFFICES ASSUME Init PROVE ShiftTable
  OBVIOUS
<1>1. Defaults = {} /\ shifts = <<>> /\ \A h \in Handlers : op[h].at = "idle"
  BY DEF Init, InitShifts, InitHandlers, Idle, Defaults
<1> QED
  BY <1>1 DEF ShiftTable, RowsThere, OneChooser, Chooses, ChoiceSound, DefaultThere

\* A request that leaves work_shifts alone, or ends without having cleared the flags.
LEMMA QuietShift ==
  ASSUME TypeOK, ShiftTable, NEW h \in Handlers,
         \A g \in Handlers \ {h} : op'[g] = op[g],
         op'[h].at \notin {"insertShift", "writeShift", "clear", "mark"},
         UNCHANGED <<shifts, single>>, kept' => kept /\ op[h].at # "mark"
  PROVE  ShiftTable'
<1>1. Defaults' = Defaults
  BY DEF Defaults
<1>2. RowsThere'
  BY DEF ShiftTable, RowsThere
<1>3. OneChooser'
  BY <1>1 DEF ShiftTable, OneChooser, Chooses
<1>4. ChoiceSound'
  BY DEF ShiftTable, ChoiceSound
<1>5. DefaultThere'
  BY <1>1 DEF ShiftTable, DefaultThere
<1> QED
  BY <1>2, <1>3, <1>4, <1>5 DEF ShiftTable

LEMMA CountShiftsStep ==
  ASSUME TypeOK, ShiftTable, NEW h \in Handlers, op[h].at # "mark", NEW active \in BOOLEAN,
         NEW wizard \in Wizard \cup {None}, CountShifts(h, active, wizard)
  PROVE  ShiftTable'
<1> op'[h] = [at |-> "insertShift", first |-> shifts = <<>>, active |-> active, wizard |-> wizard]
  BY CountShiftsType
<1>1. /\ \A g \in Handlers \ {h} : op'[g] = op[g]
      /\ op'[h].at = "insertShift" /\ op'[h].first = (shifts = <<>>) /\ op'[h].active = active
  BY CountShiftsType
<1>2. UNCHANGED shifts /\ Defaults' = Defaults
  BY DEF CountShifts, Defaults
<1>3. shifts = <<>> => Defaults = {}
  BY DEF Defaults
<1>4. RowsThere'
  BY <1>1, <1>2 DEF ShiftTable, RowsThere
<1>5. OneChooser'
  <2>1. CASE shifts = <<>>
    <3>1. single' => single /\ \A g \in Handlers \ {h} : ~Chooses(op[g])
      BY <2>1 DEF CountShifts, Choosing, Others, Chooses
    <3> QED
      BY <1>1, <1>2, <1>3, <2>1, <3>1 DEF ShiftTable, OneChooser, Chooses
  <2>2. CASE shifts # <<>>
    <3>1. (single' => single) /\ ~Chooses(op'[h])
      BY <1>1, <2>2 DEF CountShifts, Chooses
    <3> QED
      BY <1>1, <1>2, <2>2, <3>1 DEF ShiftTable, OneChooser, Chooses
  <2> QED
    BY <2>1, <2>2
<1>6. ChoiceSound'
  BY <1>1, <1>2 DEF ShiftTable, ChoiceSound, CountShifts
<1>7. DefaultThere'
  BY <1>1, <1>2 DEF ShiftTable, DefaultThere, CountShifts
<1> QED
  BY <1>4, <1>5, <1>6, <1>7 DEF ShiftTable

LEMMA LoadToUpdateStep ==
  ASSUME TypeOK, ShiftTable, NEW h \in Handlers, op[h].at # "mark", NEW i \in DOMAIN shifts,
         NEW active \in BOOLEAN, NEW wizard \in Wizard \cup {None},
         LoadToUpdate(h, i, active, wizard)
  PROVE  ShiftTable'
<1> op'[h] = [at |-> "writeShift", id |-> i, was |-> shifts[i].active, active |-> active,
              wizard |-> wizard]
  BY LoadToUpdateType
<1>1. /\ \A g \in Handlers \ {h} : op'[g] = op[g]
      /\ op'[h].at = "writeShift" /\ op'[h].id = i /\ op'[h].active = active
  BY LoadToUpdateType
<1>2. UNCHANGED <<shifts, single>> /\ Defaults' = Defaults
  BY DEF LoadToUpdate, Defaults
<1>4. RowsThere'
  BY <1>1, <1>2 DEF ShiftTable, RowsThere
<1>5. OneChooser'
  BY <1>1, <1>2 DEF ShiftTable, OneChooser, Chooses
<1>6. ChoiceSound'
  BY <1>1, <1>2 DEF ShiftTable, ChoiceSound, LoadToUpdate
<1>7. DefaultThere'
  BY <1>1, <1>2 DEF ShiftTable, DefaultThere, LoadToUpdate
<1> QED
  BY <1>4, <1>5, <1>6, <1>7 DEF ShiftTable

LEMMA LoadToDefaultStep ==
  ASSUME TypeOK, ShiftTable, NEW h \in Handlers, op[h].at # "mark", NEW i \in DOMAIN shifts,
         LoadToDefault(h, i)
  PROVE  ShiftTable'
<1> op'[h] = [at |-> "clear", id |-> i, was |-> shifts[i].default, wizard |-> None]
  BY LoadToDefaultType
<1>1. /\ \A g \in Handlers \ {h} : op'[g] = op[g]
      /\ op'[h].at = "clear" /\ op'[h].id = i /\ op'[h].was = shifts[i].default
  BY LoadToDefaultType
<1>2. UNCHANGED shifts /\ Defaults' = Defaults /\ shifts[i].active
  BY DEF LoadToDefault, Defaults
<1>4. RowsThere'
  BY <1>1, <1>2 DEF ShiftTable, RowsThere
<1>5. OneChooser'
  BY <1>1, <1>2 DEF ShiftTable, OneChooser, Chooses, LoadToDefault, Choosing, Others
<1>6. ChoiceSound'
  BY <1>1, <1>2 DEF ShiftTable, ChoiceSound, LoadToDefault, Others
<1>7. DefaultThere'
  BY <1>1, <1>2 DEF ShiftTable, DefaultThere, LoadToDefault
<1> QED
  BY <1>4, <1>5, <1>6, <1>7 DEF ShiftTable

LEMMA InsertStep ==
  ASSUME TypeOK, ShiftTable, NEW h \in Handlers, op[h].at = "insertShift", InsertShift(h),
         \A g \in Handlers \ {h} : op'[g] = op[g], op'[h].at \in {"idle", "bump"}
  PROVE  ShiftTable'
<1> DEFINE new == Len(shifts) + 1
<1>0. /\ DOMAIN shifts' = DOMAIN shifts \cup {new} /\ new \notin DOMAIN shifts
      /\ \A i \in DOMAIN shifts : shifts'[i] = shifts[i]
      /\ shifts' # <<>>
      /\ shifts'[new] = [default |-> op[h].first, active |-> op[h].active]
  BY InsertEffect
<1>1. shifts'[new].default = op[h].first /\ shifts'[new].active = op[h].active
  BY <1>0
<1> HIDE DEF new
<1>2. op[h].first \in BOOLEAN /\ op[h].active \in BOOLEAN /\ UNCHANGED <<single, kept>>
  BY Carried DEF TypeOK, InsertShift
<1>3. Defaults' = Defaults \cup (IF op[h].first THEN {new} ELSE {})
  BY <1>0, <1>1, <1>2 DEF Defaults
<1>4. RowsThere'
  BY <1>0 DEF ShiftTable, RowsThere
<1>5. OneChooser'
  BY <1>2, <1>3 DEF ShiftTable, OneChooser, Chooses
<1>6. ChoiceSound'
  BY <1>0, <1>2 DEF ShiftTable, ChoiceSound, RowsThere
<1>7. DefaultThere'
  <2> SUFFICES ASSUME kept, ~\E g \in Handlers : op'[g].at = "mark"
               PROVE  \E i \in Defaults' : shifts'[i].active
    BY <1>2 DEF DefaultThere
  <2>1. ~\E g \in Handlers : op[g].at = "mark"
    OBVIOUS
  <2>2. CASE shifts = <<>>
    <3>1. op[h].first /\ op[h].active
      BY <1>2, <2>2 DEF ShiftTable, RowsThere, ChoiceSound
    <3> QED
      BY <1>1, <1>3, <3>1
  <2>3. CASE shifts # <<>>
    <3>1. PICK i \in Defaults : shifts[i].active
      BY <2>1, <2>3 DEF ShiftTable, DefaultThere
    <3> QED
      BY <1>0, <1>3, <3>1 DEF Defaults
  <2> QED
    BY <2>2, <2>3
<1> QED
  BY <1>4, <1>5, <1>6, <1>7 DEF ShiftTable

LEMMA WriteStep ==
  ASSUME TypeOK, ShiftTable, NEW h \in Handlers, op[h].at = "writeShift", WriteShift(h),
         \A g \in Handlers \ {h} : op'[g] = op[g], op'[h].at \in {"idle", "bump"}
  PROVE  ShiftTable'
<1>1. /\ DOMAIN shifts' = DOMAIN shifts /\ (shifts' = <<>> <=> shifts = <<>>)
      /\ \A i \in DOMAIN shifts :
           /\ shifts'[i].default = shifts[i].default
           /\ i # op[h].id => shifts'[i] = shifts[i]
           /\ op[h].active => (shifts[i].active => shifts'[i].active)
  BY WriteEffect, UpdateEffect DEF TypeOK
<1>2. op[h].active \in BOOLEAN /\ UNCHANGED <<single, kept>>
  BY Carried DEF TypeOK, WriteShift
<1>3. Defaults' = Defaults
  BY <1>1 DEF Defaults
<1>4. RowsThere'
  BY <1>1 DEF ShiftTable, RowsThere
<1>5. OneChooser'
  BY <1>2, <1>3 DEF ShiftTable, OneChooser, Chooses
<1>6. ChoiceSound'
  BY <1>1, <1>2 DEF ShiftTable, ChoiceSound, RowsThere
<1>7. DefaultThere'
  BY <1>1, <1>2, <1>3 DEF ShiftTable, DefaultThere, ChoiceSound, Defaults
<1> QED
  BY <1>4, <1>5, <1>6, <1>7 DEF ShiftTable

LEMMA ClearStep ==
  ASSUME TypeOK, ShiftTable, NEW h \in Handlers, op[h].at = "clear", ClearDefaults(h)
  PROVE  ShiftTable'
<1>1. /\ DOMAIN shifts' = DOMAIN shifts /\ (shifts' = <<>> <=> shifts = <<>>)
      /\ \A i \in DOMAIN shifts : ~shifts'[i].default /\ shifts'[i].active = shifts[i].active
      /\ \A g \in Handlers \ {h} : op'[g] = op[g]
      /\ op'[h].at = "mark" /\ op'[h].id = op[h].id /\ op'[h].was = op[h].was
  BY ClearEffect, UpdateEffect DEF TypeOK
<1>2. UNCHANGED <<single, kept>>
  BY DEF ClearDefaults
<1>3. Defaults' = {}
  BY <1>1 DEF Defaults
<1>4. RowsThere'
  BY <1>1 DEF ShiftTable, RowsThere
<1>5. OneChooser'
  BY <1>1, <1>2, <1>3 DEF ShiftTable, OneChooser, Chooses
<1>6. ChoiceSound'
  BY <1>1, <1>2 DEF ShiftTable, ChoiceSound, RowsThere
<1>7. DefaultThere'
  BY <1>1 DEF DefaultThere
<1> QED
  BY <1>4, <1>5, <1>6, <1>7 DEF ShiftTable

LEMMA MarkStep ==
  ASSUME TypeOK, ShiftTable, NEW h \in Handlers, op[h].at = "mark", MarkDefault(h), Do(h, Idle)
  PROVE  ShiftTable'
<1>1. /\ DOMAIN shifts' = DOMAIN shifts /\ (shifts' = <<>> <=> shifts = <<>>)
      /\ \A i \in DOMAIN shifts :
           /\ shifts'[i].active = shifts[i].active
           /\ i # op[h].id => shifts'[i] = shifts[i]
           /\ i = op[h].id /\ ~op[h].was => shifts'[i].default
  BY MarkEffect, UpdateEffect DEF TypeOK
<1>2. UNCHANGED <<single, kept>> /\ op'[h].at = "idle" /\ \A g \in Handlers \ {h} : op'[g] = op[g]
  BY DoType, IdleType DEF MarkDefault, TypeOK, Idle
<1>3. Defaults' \subseteq Defaults \cup {op[h].id}
  BY <1>1 DEF Defaults
<1>4. RowsThere'
  BY <1>1, <1>2 DEF ShiftTable, RowsThere
<1>5. OneChooser'
  BY <1>2, <1>3 DEF ShiftTable, OneChooser, Chooses
<1>6. ChoiceSound'
  BY <1>1, <1>2 DEF ShiftTable, ChoiceSound, RowsThere
<1>7. DefaultThere'
  BY <1>1, <1>2 DEF ShiftTable, DefaultThere, ChoiceSound, RowsThere, Defaults
<1> QED
  BY <1>4, <1>5, <1>6, <1>7 DEF ShiftTable

\* What h does next to its own state when it does not touch work_shifts.
LEMMA LeavesShifts ==
  ASSUME TypeOK, NEW h \in Handlers, UNCHANGED shiftVars,
         \/ \E s \in Serials : SaveDevice(h, s)
         \/ \E skip \in BOOLEAN : ImportEmployees(h, skip)
         \/ SaveWorkHours(h) \/ FindDevice(h) \/ InsertDevice(h)
         \/ Import(h) \/ Bump(h) \/ Complete(h) \/ Finish(h)
  PROVE  /\ \A g \in Handlers \ {h} : op'[g] = op[g]
         /\ op'[h].at \in {"idle", "hours", "device", "insertDevice", "import", "bump", "finish"}
         /\ op[h].at # "mark"
<1> 1 \in Stages /\ 2 \in Stages /\ 3 \in Stages /\ 4 \in Stages
  BY DEF Stages
<1>1. ASSUME NEW s \in Serials, SaveDevice(h, s) PROVE op'[h].at = "device" /\ op[h].at = "idle"
  <2>1. Enter(h, "device", 2, s)
    BY <1>1 DEF SaveDevice
  <2> QED
    BY <2>1, EnterType
<1>2. ASSUME NEW skip \in BOOLEAN, ImportEmployees(h, skip)
      PROVE  op'[h].at \in {"bump", "import"} /\ op[h].at = "idle"
  <2>1. Enter(h, "bump", 3, None) \/ Enter(h, "import", 3, None)
    BY <1>2 DEF ImportEmployees
  <2> QED
    BY <2>1, EnterType
<1>3. ASSUME SaveWorkHours(h) PROVE op'[h].at = "hours" /\ op[h].at = "idle"
  <2>1. Enter(h, "hours", 1, None)
    BY <1>3 DEF SaveWorkHours
  <2> QED
    BY <2>1, EnterType
<1>4. ASSUME Complete(h) PROVE op'[h].at = "finish" /\ op[h].at = "idle"
  <2>1. Enter(h, "finish", 4, None)
    BY <1>4 DEF Complete
  <2> QED
    BY <2>1, EnterType
<1>5. ASSUME AfterWork(h) PROVE op'[h].at \in {"idle", "bump"}
  BY <1>5 DEF AfterWork, Do, TypeOK, Idle
<1>6. ASSUME FindDevice(h)
      PROVE  op'[h].at \in {"idle", "bump", "insertDevice"} /\ op[h].at = "device"
  <2>1. op[h] \in [at : {"device", "insertDevice"}, wizard : Wizard, serial : Serials]
    BY <1>6, Carried DEF FindDevice, At, TypeOK
  <2> QED
    BY <1>5, <1>6, <2>1 DEF FindDevice, At, Do, TypeOK
<1>7. ASSUME InsertDevice(h) \/ Import(h)
      PROVE  op'[h].at \in {"idle", "bump"} /\ op[h].at # "mark"
  BY <1>5, <1>7 DEF InsertDevice, Import, At, Do, TypeOK, Idle
<1>8. ASSUME Bump(h) \/ Finish(h) PROVE op'[h].at = "idle" /\ op[h].at # "mark"
  BY <1>8 DEF Bump, Finish, At, Do, TypeOK, Idle
<1>9. \A g \in Handlers \ {h} : op'[g] = op[g]
  BY DEF SaveDevice, ImportEmployees, SaveWorkHours, Complete, Enter, FindDevice, InsertDevice,
         Import, Bump, Finish, AfterWork, Do, TypeOK
<1> QED
  BY <1>1, <1>2, <1>3, <1>4, <1>6, <1>7, <1>8, <1>9

LEMMA ShiftTableStep == TypeOK /\ TypeOK' /\ ShiftTable /\ [Next]_vars => ShiftTable'
<1> SUFFICES ASSUME TypeOK, TypeOK', ShiftTable, [Next]_vars PROVE ShiftTable'
  OBVIOUS
<1>1. ASSUME NEW h \in Handlers, UNCHANGED shiftVars,
             \/ \E s \in Serials : SaveDevice(h, s)
             \/ \E skip \in BOOLEAN : ImportEmployees(h, skip)
             \/ SaveWorkHours(h) \/ FindDevice(h) \/ InsertDevice(h)
             \/ Import(h) \/ Bump(h) \/ Complete(h) \/ Finish(h)
      PROVE  ShiftTable'
  <2>1. /\ \A g \in Handlers \ {h} : op'[g] = op[g]
        /\ op'[h].at \in {"idle", "hours", "device", "insertDevice", "import", "bump", "finish"}
        /\ op[h].at # "mark"
    BY <1>1, LeavesShifts, Zenon
  <2> QED
    BY <1>1, <2>1, QuietShift DEF shiftVars
<1>2. ASSUME NEW h \in Handlers, SaveSchedule(h) PROVE ShiftTable'
  <2>1. op[h].wizard \in Wizard /\ op[h].at # "mark"
    BY <1>2, Carried DEF TypeOK, SaveSchedule, At
  <2> QED
    BY <1>2, <2>1, LoadToUpdateStep, CountShiftsStep DEF SaveSchedule, Defaults
<1>3. ASSUME NEW h \in Handlers, ShiftRequest(h) PROVE ShiftTable'
  <2>1. op[h].at # "mark"
    BY <1>3 DEF ShiftRequest, Arrive, Idle
  <2> QED
    BY <1>3, <2>1, LoadToUpdateStep, CountShiftsStep, LoadToDefaultStep
       DEF ShiftRequest, DeactivateShift
<1>4. ASSUME NEW h \in Handlers, ShiftStep(h) PROVE ShiftTable'
  <2>1. ASSUME AfterWork(h)
        PROVE  (\A g \in Handlers \ {h} : op'[g] = op[g]) /\ op'[h].at \in {"idle", "bump"}
    BY <2>1 DEF AfterWork, Do, TypeOK, Idle
  <2> QED
    BY <1>4, <2>1, InsertStep, WriteStep, ClearStep, MarkStep DEF ShiftStep, At
<1>5. ASSUME NEW h \in Handlers, DieIn(h) PROVE ShiftTable'
  <2>1. op'[h].at = "idle" /\ \A g \in Handlers \ {h} : op'[g] = op[g]
    BY <1>5, IdleType, DoType DEF DieIn, Die, TypeOK, Idle
  <2>2. UNCHANGED <<shifts, single>> /\ (kept' => kept /\ op[h].at # "mark")
    BY <1>5 DEF DieIn
  <2> QED
    BY <2>1, <2>2, QuietShift
<1>6. ASSUME UNCHANGED <<op, shifts, single, kept>> PROVE ShiftTable'
  BY <1>6 DEF ShiftTable, RowsThere, OneChooser, Chooses, ChoiceSound, DefaultThere, Defaults
<1>7. ASSUME NEW h \in Handlers, DeviceRequest(h) PROVE ShiftTable'
  BY <1>6, <1>7 DEF DeviceRequest, shiftVars
<1>8. CASE UNCHANGED vars
  BY <1>6, <1>8 DEF vars, server, shiftVars
<1> QED
  BY <1>1, <1>2, <1>3, <1>4, <1>5, <1>7, <1>8
     DEF Next, SaveWorkHours, SaveDevice, FindDevice, InsertDevice, ImportEmployees, Import, Bump,
         Complete, Finish

LEMMA ShiftCorrect == Spec => []ShiftTable
BY TypeInit, TypeStep, TypeCorrect, ShiftInit, ShiftTableStep, PTL DEF Spec

\* However requests overlap and die, two shifts are the default only if two
\* requests that choose the default overlapped.
THEOREM OneDefault == Spec => []AtMostOneDefault
<1>1. ShiftTable => AtMostOneDefault
  <2> SUFFICES ASSUME ShiftTable, single PROVE Cardinality(Defaults) <= 1
    BY DEF AtMostOneDefault
  <2>1. \A i, j \in Defaults : i = j
    BY DEF ShiftTable, OneChooser
  <2>2. CASE Defaults = {}
    BY <2>2, FS_EmptySet
  <2>3. CASE Defaults # {}
    <3>1. PICK i : Defaults = {i}
      BY <2>1, <2>3
    <3> QED
      BY <3>1, FS_Singleton
  <2> QED
    BY <2>2, <2>3
<1> QED
  BY <1>1, ShiftCorrect, PTL

\* The engine finds an active default, but for the cases DefaultThere names.
THEOREM ActiveDefault == Spec => []DefaultThere
<1>1. ShiftTable => DefaultThere
  BY DEF ShiftTable
<1> QED
  BY <1>1, ShiftCorrect, PTL

-----------------------------------------------------------------------------
(* The stages of the wizard.                                               *)

LEMMA StageInit == Init => StageTable
<1> SUFFICES ASSUME Init PROVE StageTable
  OBVIOUS
<1>1. done = {} /\ company.step = 0 /\ ~company.completed /\ \A h \in Handlers : op[h].at = "idle"
  BY DEF Init, InitHandlers, Idle
<1> QED
  BY <1>1 DEF StageTable, StageFinished, CarriesStage, OfWizard

\* A step that finishes no stage and leaves what finished stages put in the tables.
LEMMA StageStep0 ==
  ASSUME StageTable, NEW h \in Handlers, \A g \in Handlers \ {h} : op'[g] = op[g],
         CarriesStage(op[h])',
         UNCHANGED <<company, done>>, shifts # <<>> => shifts' # <<>>,
         removed => removed', devices # {} /\ ~removed' => devices' # {}
  PROVE  StageTable'
<1>1. StageFinished'
  BY DEF StageTable, StageFinished
<1>2. ASSUME NEW g \in Handlers \ {h} PROVE CarriesStage(op[g])'
  BY <1>2 DEF StageTable, CarriesStage, OfWizard
<1> QED
  BY <1>1, <1>2 DEF StageTable

\* A request of the wizard loads the company.
LEMMA EnterStage ==
  ASSUME TypeOK, StageTable, NEW h \in Handlers, NEW at, NEW stage \in Stages, NEW serial,
         Enter(h, at, stage, serial), UNCHANGED <<shiftVars, table>>,
         \/ at = "hours" /\ stage = 1 /\ serial = None
         \/ at = "device" /\ stage = 2 /\ serial \in Serials
         \/ at \in {"import", "bump"} /\ stage = 3 /\ serial = None
         \/ at = "finish" /\ stage = 4 /\ serial = None /\ company.step >= 3
  PROVE  StageTable'
<1>1. /\ \A g \in Handlers \ {h} : op'[g] = op[g]
      /\ op'[h].at = at /\ op'[h].wizard = [cur |-> company.step, stage |-> stage]
  BY EnterType
<1>2. op'[h].wizard.cur = company.step /\ op'[h].wizard.stage = stage
  BY <1>1
<1>3. company.step \in done \cup {0} /\ company.step \in 0 .. 4 /\ ~company.completed
  BY DEF StageTable, StageFinished, TypeOK, Enter
<1>4. company.step >= 3 => 3 \in done
  BY <1>3 DEF StageTable
<1>5. CarriesStage(op[h])'
  BY <1>1, <1>2, <1>3, <1>4 DEF CarriesStage, table
<1> QED
  BY <1>1, <1>5, StageStep0 DEF shiftVars, table

\* The work of a stage is done, its step is still to be written.
LEMMA AfterWorkStage ==
  ASSUME TypeOK, StageTable, NEW h \in Handlers, AfterWork(h),
         op[h].at \in {"device", "insertDevice", "import", "insertShift", "writeShift"},
         op[h].at \in {"device", "insertDevice"} => devices' # {},
         op[h].at \in {"insertShift", "writeShift"} => shifts' # <<>>,
         UNCHANGED <<company, done, removed>>,
         shifts # <<>> => shifts' # <<>>, devices # {} => devices' # {}
  PROVE  StageTable'
<1>1. op[h].wizard \in Wizard \cup {None}
  BY Carried DEF TypeOK
<1>2. /\ \A g \in Handlers \ {h} : op'[g] = op[g]
      /\ \/ op[h].wizard = None /\ op'[h] = Idle
         \/ /\ op[h].wizard # None
            /\ op'[h] = [at |-> "bump", wizard |-> op[h].wizard, serial |-> None]
  BY <1>1, AfterWorkType DEF TypeOK
<1>3. CarriesStage(op[h])'
  <2>1. CASE op'[h] = Idle
    BY <2>1 DEF CarriesStage, OfWizard, Idle
  <2>2. CASE /\ op[h].wizard # None
             /\ op'[h] = [at |-> "bump", wizard |-> op[h].wizard, serial |-> None]
    <3>1. op'[h].at = "bump" /\ op'[h].wizard = op[h].wizard
      BY <2>2
    <3>2. OfWizard(op[h]) /\ CarriesStage(op[h])
      BY <2>2 DEF StageTable, OfWizard
    <3> QED
      BY <3>1, <3>2 DEF CarriesStage
  <2> QED
    BY <1>2, <2>1, <2>2
<1> QED
  BY <1>2, <1>3, StageStep0

\* The request ends, or has died.
LEMMA EndStage ==
  ASSUME TypeOK, StageTable, NEW h \in Handlers, Do(h, Idle),
         UNCHANGED <<company, done>>, shifts # <<>> => shifts' # <<>>,
         UNCHANGED <<devices, removed>>
  PROVE  StageTable'
<1>1. op'[h].at = "idle" /\ \A g \in Handlers \ {h} : op'[g] = op[g]
  BY DEF Do, TypeOK, Idle
<1>2. CarriesStage(op[h])'
  BY <1>1 DEF CarriesStage, OfWizard
<1> QED
  BY <1>1, <1>2, StageStep0

\* A request has found or counted the shifts, for the wizard or not.
LEMMA ScheduleStage ==
  ASSUME TypeOK, StageTable, NEW h \in Handlers, NEW wizard \in Wizard \cup {None},
         wizard # None => op[h].at = "hours" /\ wizard = op[h].wizard,
         NEW active \in BOOLEAN, UNCHANGED table,
         \/ CountShifts(h, active, wizard)
         \/ \E i \in DOMAIN shifts : LoadToUpdate(h, i, active, wizard)
  PROVE  StageTable'
<1>1. /\ \A g \in Handlers \ {h} : op'[g] = op[g]
      /\ op'[h].at \in {"insertShift", "writeShift"} /\ op'[h].wizard = wizard
  <2>1. CASE CountShifts(h, active, wizard)
    <3>1. op'[h] = [at |-> "insertShift", first |-> shifts = <<>>, active |-> active, wizard |-> wizard]
      BY <2>1, CountShiftsType
    <3> QED
      BY <2>1, <3>1, CountShiftsType
  <2>2. ASSUME NEW i \in DOMAIN shifts, LoadToUpdate(h, i, active, wizard)
        PROVE  /\ \A g \in Handlers \ {h} : op'[g] = op[g]
               /\ op'[h].at = "writeShift" /\ op'[h].wizard = wizard
    <3>1. op'[h] = [at |-> "writeShift", id |-> i, was |-> shifts[i].active, active |-> active,
                    wizard |-> wizard]
      BY <2>2, LoadToUpdateType
    <3> QED
      BY <2>2, <3>1, LoadToUpdateType
  <2> QED
    BY <2>1, <2>2
<1>2. wizard # None => CarriesStage(op[h]) /\ OfWizard(op[h])
  BY DEF StageTable, OfWizard
<1>3. CarriesStage(op[h])'
  BY <1>1, <1>2 DEF CarriesStage, OfWizard, table
<1>4. UNCHANGED shifts
  BY DEF CountShifts, LoadToUpdate
<1> QED
  BY <1>1, <1>3, <1>4, StageStep0 DEF table

LEMMA StageStep == TypeOK /\ ShiftTable /\ StageTable /\ [Next]_vars => StageTable'
<1> SUFFICES ASSUME TypeOK, ShiftTable, StageTable, [Next]_vars PROVE StageTable'
  OBVIOUS
<1> 1 \in Stages /\ 2 \in Stages /\ 3 \in Stages /\ 4 \in Stages
  BY DEF Stages
<1>1. ASSUME NEW h \in Handlers, SaveWorkHours(h) PROVE StageTable'
  BY <1>1, EnterStage DEF SaveWorkHours
<1>2. ASSUME NEW h \in Handlers, SaveSchedule(h) PROVE StageTable'
  <2>1. op[h].wizard \in Wizard /\ op[h].at = "hours" /\ UNCHANGED table
    BY <1>2, Carried DEF TypeOK, SaveSchedule, At
  <2>2. \/ CountShifts(h, TRUE, op[h].wizard)
        \/ \E i \in DOMAIN shifts : LoadToUpdate(h, i, TRUE, op[h].wizard)
    BY <1>2 DEF SaveSchedule, Defaults
  <2> QED
    BY <2>1, <2>2, ScheduleStage
<1>3. ASSUME NEW h \in Handlers, NEW s \in Serials, SaveDevice(h, s) PROVE StageTable'
  BY <1>3, EnterStage DEF SaveDevice
<1>4. ASSUME NEW h \in Handlers, FindDevice(h) PROVE StageTable'
  <2>1. /\ op[h].at = "device" /\ UNCHANGED <<shiftVars, table>>
        /\ op[h] \in [at : {"device", "insertDevice"}, wizard : Wizard, serial : Serials]
    BY <1>4, Carried DEF TypeOK, FindDevice, At
  <2>2. CASE AfterWork(h) /\ op[h].serial \in devices
    BY <2>1, <2>2, AfterWorkStage DEF shiftVars, table
  <2>3. CASE Do(h, [op[h] EXCEPT !.at = "insertDevice"])
    <3>1. /\ op'[h].at = "insertDevice" /\ op'[h].wizard = op[h].wizard
          /\ \A g \in Handlers \ {h} : op'[g] = op[g]
      BY <2>1, <2>3 DEF Do, TypeOK
    <3>2. CarriesStage(op[h])'
      BY <2>1, <3>1 DEF StageTable, CarriesStage, OfWizard, table
    <3> QED
      BY <2>1, <3>1, <3>2, StageStep0 DEF shiftVars, table
  <2> QED
    BY <1>4, <2>2, <2>3 DEF FindDevice
<1>5. ASSUME NEW h \in Handlers, InsertDevice(h) PROVE StageTable'
  <2>1. CASE Do(h, Idle) /\ UNCHANGED devices
    BY <1>5, <2>1, EndStage DEF InsertDevice, shiftVars
  <2>2. CASE AfterWork(h) /\ devices' = devices \cup {op[h].serial}
    BY <1>5, <2>2, AfterWorkStage DEF InsertDevice, At, shiftVars
  <2> QED
    BY <1>5, <2>1, <2>2 DEF InsertDevice
<1>6. ASSUME NEW h \in Handlers, NEW skip \in BOOLEAN, ImportEmployees(h, skip) PROVE StageTable'
  <2>1. Enter(h, "bump", 3, None) \/ Enter(h, "import", 3, None)
    BY <1>6 DEF ImportEmployees
  <2> QED
    BY <1>6, <2>1, EnterStage DEF ImportEmployees
<1>7. ASSUME NEW h \in Handlers, Import(h) PROVE StageTable'
  <2>1. CASE Do(h, Idle)
    BY <1>7, <2>1, EndStage DEF Import, shiftVars, table
  <2>2. CASE AfterWork(h)
    BY <1>7, <2>2, AfterWorkStage DEF Import, At, shiftVars, table
  <2> QED
    BY <1>7, <2>1, <2>2 DEF Import
<1>8. ASSUME NEW h \in Handlers, Bump(h) PROVE StageTable'
  <2> DEFINE w == op[h].wizard
  <2>1. /\ w \in Wizard /\ op[h].at = "bump" /\ UNCHANGED <<shiftVars, devices, removed>>
        /\ company' = [company EXCEPT !.step = IF w.stage > w.cur THEN w.stage ELSE @]
        /\ done' = done \cup {w.stage}
        /\ op'[h].at = "idle" /\ \A g \in Handlers \ {h} : op'[g] = op[g]
    BY <1>8, Carried DEF TypeOK, Bump, At, Do, Idle
  <2>2. /\ w.stage \in 1 .. 3 /\ (w.stage = 1 => shifts # <<>>)
        /\ (w.stage = 2 => removed \/ devices # {})
    BY <2>1 DEF StageTable, CarriesStage, OfWizard
  <2> HIDE DEF w
  <2>3. /\ company'.step \in {company.step, w.stage} /\ company'.completed = company.completed
    BY <2>1 DEF TypeOK
  <2>4. StageFinished'
    BY <2>1, <2>2, <2>3 DEF StageTable, StageFinished, shiftVars
  <2>5. ASSUME NEW g \in Handlers PROVE CarriesStage(op[g])'
    BY <2>1, <2>5 DEF StageTable, CarriesStage, OfWizard, shiftVars
  <2>6. (4 \in done => company.completed)'
    BY <2>1, <2>2, <2>3 DEF StageTable
  <2> QED
    BY <2>4, <2>5, <2>6 DEF StageTable
<1>9. ASSUME NEW h \in Handlers, Complete(h) PROVE StageTable'
  BY <1>9, EnterStage DEF Complete
<1>10. ASSUME NEW h \in Handlers, Finish(h) PROVE StageTable'
  <2>1. /\ op[h].at = "finish" /\ UNCHANGED <<shiftVars, devices, removed>>
        /\ company'.step = 4 /\ company'.completed /\ done' = done \cup {4}
        /\ op'[h].at = "idle" /\ \A g \in Handlers \ {h} : op'[g] = op[g]
    BY <1>10 DEF TypeOK, Finish, At, Do, Idle
  <2>2. 3 \in done
    BY <2>1 DEF StageTable, CarriesStage, OfWizard
  <2>3. StageFinished'
    BY <2>1, <2>2 DEF StageTable, StageFinished, shiftVars
  <2>4. ASSUME NEW g \in Handlers PROVE CarriesStage(op[g])'
    BY <2>1, <2>4 DEF StageTable, CarriesStage, OfWizard, shiftVars
  <2> QED
    BY <2>1, <2>3, <2>4 DEF StageTable
<1>11. ASSUME NEW h \in Handlers, ShiftRequest(h) PROVE StageTable'
  <2>1. UNCHANGED table
    BY <1>11 DEF ShiftRequest
  <2>2. ASSUME NEW active \in BOOLEAN,
               \/ CountShifts(h, active, None)
               \/ \E i \in DOMAIN shifts : LoadToUpdate(h, i, active, None)
        PROVE  StageTable'
    BY <2>1, <2>2, ScheduleStage
  <2>3. ASSUME NEW i \in DOMAIN shifts, LoadToDefault(h, i) PROVE StageTable'
    <3> op'[h] = [at |-> "clear", id |-> i, was |-> shifts[i].default, wizard |-> None]
      BY <2>3, LoadToDefaultType
    <3>1. op'[h].at = "clear" /\ \A g \in Handlers \ {h} : op'[g] = op[g]
      BY <2>3, LoadToDefaultType
    <3>2. CarriesStage(op[h])'
      BY <3>1 DEF CarriesStage, OfWizard
    <3> QED
      BY <2>1, <2>3, <3>1, <3>2, StageStep0 DEF LoadToDefault, table
  <2> QED
    BY <1>11, <2>2, <2>3 DEF ShiftRequest, DeactivateShift
<1>12. ASSUME NEW h \in Handlers, ShiftStep(h) PROVE StageTable'
  <2>1. UNCHANGED table
    BY <1>12 DEF ShiftStep
  <2>2. CASE At(h, "insertShift") /\ InsertShift(h) /\ AfterWork(h)
    BY <2>1, <2>2, InsertEffect, AfterWorkStage DEF table, At
  <2>3. CASE At(h, "writeShift") /\ WriteShift(h) /\ AfterWork(h)
    <3>1. shifts' = <<>> <=> shifts = <<>>
      BY <2>3, WriteEffect, UpdateEffect DEF TypeOK, At
    <3>2. op[h].id \in DOMAIN shifts /\ shifts # <<>>
      BY <2>3, ShiftRow DEF ShiftTable, RowsThere, At, TypeOK
    <3> QED
      BY <2>1, <2>3, <3>1, <3>2, AfterWorkStage DEF table, At
  <2>4. CASE At(h, "clear") /\ ClearDefaults(h)
    <3>1. /\ shifts' = <<>> <=> shifts = <<>>
          /\ op'[h].at = "mark" /\ \A g \in Handlers \ {h} : op'[g] = op[g]
      BY <2>4, ClearEffect, UpdateEffect DEF TypeOK, At
    <3>2. CarriesStage(op[h])'
      BY <3>1 DEF CarriesStage, OfWizard
    <3> QED
      BY <2>1, <3>1, <3>2, StageStep0 DEF table
  <2>5. CASE At(h, "mark") /\ MarkDefault(h) /\ Do(h, Idle)
    <3>1. shifts' = <<>> <=> shifts = <<>>
      BY <2>5, MarkEffect, UpdateEffect DEF TypeOK, At
    <3> QED
      BY <2>1, <2>5, <3>1, EndStage DEF table
  <2> QED
    BY <1>12, <2>2, <2>3, <2>4, <2>5 DEF ShiftStep
<1>13. ASSUME NEW h \in Handlers, DeviceRequest(h) PROVE StageTable'
  <2>1. /\ UNCHANGED <<op, shifts, company, done>> /\ (removed => removed')
        /\ (devices # {} /\ ~removed' => devices' # {})
    BY <1>13 DEF DeviceRequest, shiftVars
  <2>2. CarriesStage(op[h])'
    BY <2>1 DEF StageTable, CarriesStage, OfWizard
  <2> QED
    BY <2>1, <2>2, StageStep0
<1>14. ASSUME NEW h \in Handlers, DieIn(h) PROVE StageTable'
  BY <1>14, EndStage DEF DieIn, Die, table
<1>15. CASE UNCHANGED vars
  BY <1>15 DEF vars, server, shiftVars, StageTable, StageFinished, CarriesStage, OfWizard
<1> QED
  BY <1>1, <1>2, <1>3, <1>4, <1>5, <1>6, <1>7, <1>8, <1>9, <1>10, <1>11, <1>12, <1>13,
     <1>14, <1>15 DEF Next

\* The step of a company is a stage that was finished and whose tables are filled.
THEOREM StageOnRecord == Spec => []StageFinished
<1>1. StageTable => StageFinished
  BY DEF StageTable
<1> QED
  BY <1>1, TypeCorrect, ShiftCorrect, StageInit, StageStep, PTL DEF Spec
=============================================================================
