----------------------------- MODULE DeviceLogs -----------------------------
(***************************************************************************)
(* From device punches to attendance records, for one company, one device  *)
(* and one work date:                                                      *)
(*   device.service.js                pushLogs, markForReprocess,          *)
(*                                    reResolveUnresolvedLogs              *)
(*   device-proxy.service.js          the import of a pulled device buffer *)
(*   attendance_processor.service.js  processEmployeeDate, processBulk,    *)
(*                                    reprocess                            *)
(*   attendance.service.js            the writes of HR to the same records *)
(* Several requests run at once; each await is a point where the others    *)
(* may go on, and a request may die at any of them (Die).                  *)
(*                                                                         *)
(* Rapid repeats and shift windows are also the subject of PunchDay, which *)
(* looks at one day more closely.                                          *)
(***************************************************************************)
EXTENDS PunchRules

CONSTANTS
  Punches,      \* keys (device, card, event type, event time) of the unique index
  Employees,
  EmpOf,        \* the employee whose number is on the card
  LogOf,        \* [type, time] of each punch
  Window,       \* punches whose time is inside the surprise event
  OnDay,        \* punches whose event_time is, for the database, on the work date
  Keyed,        \* punches an import keys to the work date, in the company's time zone
  Shift,        \* what resolveShift finds for every employee
  Requests,     \* names for requests being handled
  HrTime,       \* a check_in entered by HR
  MaxRequests,  \* bound: requests of a behaviour
  MaxChanges,   \* bound: changes of settings and corrections by HR
  MaxDeaths,    \* bound: requests that die
  NoRow, NoEmp

ASSUME LogsAssumption ==
  /\ EmpOf \in [Punches -> Employees]
  /\ LogOf \in [Punches -> [type : EventTypes, time : Nat]]
  /\ Window \subseteq Punches /\ OnDay \subseteq Punches /\ Keyed \subseteq Punches
  /\ MaxRequests \in Nat /\ MaxChanges \in Nat /\ MaxDeaths \in Nat
  /\ NoEmp \notin Employees /\ NoTime \notin Nat
  /\ HrTime \in Nat /\ IsFiniteSet(Punches) /\ IsFiniteSet(Employees)

VARIABLES
  rows,      \* device_logs: [Punches -> a row or NoRow]
  day,       \* attendance: [Employees -> the record of the work date or NoRecord]
  req,       \* [Requests -> the request handled under that name]
  known,     \* employees whose number HR has entered
  verify,    \* the device is in VERIFY_ONLY mode
  surprise,  \* a surprise event is active
  requests, changes, deaths,  \* counters for the bounds
  manual,    \* history: employees whose record HR created and nobody was told to replace
  corrected, \* history: employees whose record HR changed or deleted
  failed,    \* history: employees each request has counted as an error (summary.errors)
  owed,      \* history: punches each import with auto_process is to forward
  accounted  \* history: punches that were marked processed or duplicate at some time

counters == <<requests, changes, deaths>>
history  == <<manual, corrected, failed, owed, accounted>>
settings == <<known, verify, surprise>>
vars == <<rows, day, req, settings, counters, history>>

Idle == [stage |-> "idle"]

\* No attendance row for the work date; a row that was read and deleted since.
NoRecord == [source |-> "none"]
Gone == [source |-> "gone"]

Row == [emp : Employees \cup {NoEmp}, duplicate : BOOLEAN, verifyOnly : BOOLEAN,
        processed : BOOLEAN, surprise : BOOLEAN]
ASSUME NoRowAssumption == NoRow \notin Row

Fields == {"in", "out", "total", "late", "overtime", "status", "surprise", "source"}

TypeOK ==
  /\ rows \in [Punches -> Row \cup {NoRow}]
  /\ \A e \in Employees : day[e] # NoRecord =>
       /\ DOMAIN day[e] = Fields
       /\ day[e].in \in Nat \cup {NoTime} /\ day[e].out \in Nat \cup {NoTime}
       /\ day[e].total \in Nat \cup {NoTime}
       /\ day[e].source \in {"MANUAL", "DEVICE"} /\ day[e].surprise \in BOOLEAN
       /\ day[e].status \in {"ABSENT", "HALF_DAY", "LATE", "PRESENT"}
  /\ \A r \in Requests :
       req[r].stage \in {"idle", "push", "select", "next", "read", "write", "mark"}
  /\ known \subseteq Employees /\ manual \subseteq Employees
  /\ corrected \subseteq Employees /\ accounted \subseteq Punches
  /\ failed \in [Requests -> SUBSET Employees]
  /\ owed \in [Requests -> SUBSET Punches]

Init ==
  /\ rows = [k \in Punches |-> NoRow]
  /\ day = [e \in Employees |-> NoRecord]
  /\ req = [r \in Requests |-> Idle]
  /\ known \in SUBSET Employees
  /\ verify = FALSE
  /\ surprise = FALSE
  /\ requests = 0 /\ changes = 0 /\ deaths = 0
  /\ manual = {} /\ corrected = {} /\ accounted = {}
  /\ failed = [r \in Requests |-> {}]
  /\ owed = [r \in Requests |-> {}]

Stored == {k \in Punches : rows[k] # NoRow}
-----------------------------------------------------------------------------
(* pushLogs, and the import that calls it.                                 *)

\* A request arrives and takes what it reads before the first insert: the device's mode,
\* the active surprise event and the employees its cards belong to.  An import goes on to
\* processBulk of the work date when that is among its dates (auto).
StartPush(r, batch, auto, overwrite) ==
  /\ req[r] = Idle
  /\ requests < MaxRequests
  /\ requests' = requests + 1
  /\ req' = [req EXCEPT ![r] =
       [stage |-> "push", todo |-> batch, marking |-> {}, verify |-> verify,
        surprise |-> surprise, known |-> known, auto |-> auto, overwrite |-> overwrite]]
  /\ owed' = [owed EXCEPT ![r] = IF auto /\ overwrite /\ ~verify
                                  THEN {k \in batch \cap OnDay : EmpOf[k] \in known} ELSE {}]
  /\ failed' = [failed EXCEPT ![r] = {}]
  /\ UNCHANGED <<rows, day, settings, changes, deaths, manual, corrected, accounted>>

\* The row a request inserts.
NewRow(q, k) ==
  [emp |-> IF EmpOf[k] \in q.known THEN EmpOf[k] ELSE NoEmp,
   duplicate |-> FALSE, verifyOnly |-> q.verify, processed |-> FALSE,
   surprise |-> q.surprise /\ k \in Window]

\* findOrCreate on the unique index: of two requests that push the same punch one inserts.
Ingest(r, k) ==
  /\ req[r].stage = "push"
  /\ k \in req[r].todo
  /\ \/ /\ rows[k] = NoRow
        /\ rows' = [rows EXCEPT ![k] = NewRow(req[r], k)]
        /\ req' = [req EXCEPT ![r].todo = @ \ {k}]
     \/ /\ rows[k] # NoRow
        /\ req' = [req EXCEPT ![r].todo = @ \ {k}, ![r].marking = @ \cup {k}]
        /\ UNCHANGED rows
  /\ UNCHANGED <<day, settings, counters, history>>

\* markDuplicateRow: there is no second row, the one that is there is marked.
MarkDuplicate(r, k) ==
  /\ req[r].stage = "push"
  /\ k \in req[r].marking
  /\ rows' = [rows EXCEPT ![k].duplicate = TRUE]
  /\ req' = [req EXCEPT ![r].marking = @ \ {k}]
  /\ accounted' = accounted \cup {k}
  /\ UNCHANGED <<day, settings, counters, manual, corrected, failed, owed>>

PushDone(r) ==
  /\ req[r].stage = "push"
  /\ req[r].todo = {} /\ req[r].marking = {}
  /\ req' = [req EXCEPT ![r] =
       IF req[r].auto THEN [stage |-> "select", overwrite |-> req[r].overwrite] ELSE Idle]
  /\ UNCHANGED <<rows, day, settings, counters, history>>
-----------------------------------------------------------------------------
(* processBulk, reprocess and processEmployeeDate.                         *)

\* Mutant: verify-only rows are forwarded too.
EligibleWithVerify(e) == {k \in Stored \cap OnDay : rows[k].emp = e /\ ~rows[k].duplicate}

\* The rows the attendance of the work date is computed from: DATE(event_time) = work_date.
Eligible(e) ==
  {k \in Stored \cap OnDay : rows[k].emp = e /\ ~rows[k].duplicate /\ ~rows[k].verifyOnly}

\* POST /process, for the whole day or one employee.
StartProcess(r, S, overwrite) ==
  /\ req[r] = Idle
  /\ requests < MaxRequests
  /\ requests' = requests + 1
  /\ req' = [req EXCEPT ![r] =
       IF S = Employees THEN [stage |-> "select", overwrite |-> overwrite]
                        ELSE [stage |-> "next", overwrite |-> overwrite, todo |-> S]]
  /\ owed' = [owed EXCEPT ![r] = {}]
  /\ failed' = [failed EXCEPT ![r] = {}]
  /\ UNCHANGED <<rows, day, settings, changes, deaths, manual, corrected, accounted>>

\* POST /process/reprocess: the processed flag goes first.
StartReprocess(r, S) ==
  /\ req[r] = Idle
  /\ requests < MaxRequests
  /\ requests' = requests + 1
  /\ rows' = [k \in Punches |->
       IF \E e \in S : k \in Eligible(e) THEN [rows[k] EXCEPT !.processed = FALSE] ELSE rows[k]]
  /\ req' = [req EXCEPT ![r] =
       IF S = Employees THEN [stage |-> "select", overwrite |-> TRUE]
                        ELSE [stage |-> "next", overwrite |-> TRUE, todo |-> S]]
  /\ owed' = [owed EXCEPT ![r] = {}]
  /\ failed' = [failed EXCEPT ![r] = {}]
  /\ UNCHANGED <<day, settings, changes, deaths, manual, corrected, accounted>>

\* processBulk discovers the employees of the day.
Select(r) ==
  /\ req[r].stage = "select"
  /\ req' = [req EXCEPT ![r] = [stage |-> "next", overwrite |-> req[r].overwrite,
                                todo |-> {e \in Employees : Eligible(e) # {}}]]
  /\ UNCHANGED <<rows, day, settings, counters, history>>

\* Mutant: a record of HR is only skipped when it is complete.
SkippedIfComplete(r, e) ==
  day[e] # NoRecord /\ day[e].source # "DEVICE" /\ day[e].out # NoTime /\ ~req[r].overwrite

\* The guard for manually entered records.
Skipped(r, e) == day[e] # NoRecord /\ day[e].source # "DEVICE" /\ ~req[r].overwrite

\* Mutant: errors are caught and forgotten.
ReportNothing(r, e) == UNCHANGED failed

\* results.errors of processBulk, of which an import's answer has the number (summary.errors);
\* a single-employee request answers with the error.
Report(r, e) == failed' = [failed EXCEPT ![r] = @ \cup {e}]

\* processEmployeeDate reads the existing record; an employee not in HR is an error.
ReadRecord(r, e) ==
  /\ req[r].stage = "next"
  /\ e \in req[r].todo
  /\ LET rest == req[r].todo \ {e}
     IN  \/ /\ e \notin known \/ Skipped(r, e)
            /\ req' = [req EXCEPT ![r].todo = rest]
            /\ IF e \notin known THEN Report(r, e) ELSE UNCHANGED failed
         \/ /\ e \in known /\ ~Skipped(r, e)
            /\ req' = [req EXCEPT ![r] = [stage |-> "read", todo |-> rest, emp |-> e,
                 overwrite |-> req[r].overwrite, seen |-> day[e]]]
            /\ UNCHANGED failed
  /\ UNCHANGED <<rows, day, settings, counters, manual, corrected, owed, accounted>>

\* What the query takes of a row.
LogRow(k) == [type |-> LogOf[k].type, time |-> LogOf[k].time, surprise |-> rows[k].surprise]

\* Mutant: the rows are marked as soon as they are read.
ReadLogsAndMark(r) ==
  /\ req[r].stage = "read"
  /\ LET read == Eligible(req[r].emp)
     IN  /\ req' = [req EXCEPT ![r] = [stage |-> "write", todo |-> req[r].todo,
              emp |-> req[r].emp, overwrite |-> req[r].overwrite, seen |-> req[r].seen,
              read |-> read, logs |-> {LogRow(k) : k \in read}]]
         /\ rows' = [k \in Punches |->
              IF k \in read THEN [rows[k] EXCEPT !.processed = TRUE] ELSE rows[k]]
  /\ UNCHANGED <<day, settings, counters, history>>

ReadLogs(r) ==
  /\ req[r].stage = "read"
  /\ LET read == Eligible(req[r].emp)
     IN  req' = [req EXCEPT ![r] = [stage |-> "write", todo |-> req[r].todo,
              emp |-> req[r].emp, overwrite |-> req[r].overwrite, seen |-> req[r].seen,
              read |-> read, logs |-> {LogRow(k) : k \in read}]]
  /\ UNCHANGED <<rows, day, settings, counters, history>>

\* In the order of their times, ties in any order.
InOrder(logs) ==
  CHOOSE s \in SetToSeqs(logs) : \A i, j \in DOMAIN s : i < j => s[i].time <= s[j].time

OrElse(t, old) == IF t = NoTime THEN old ELSE t

\* The record computed from the rows read and the record seen before: a side of the day
\* without a punch keeps what was there.  Surprise punches suppress rapid repeats but do not
\* count themselves.
Payload(q) ==
  LET logs == {l \in Range(Dedupe(InOrder(q.logs))) : ~l.surprise}
      old == q.seen # NoRecord
      in == OrElse(FirstCheckIn(logs, Shift), IF old THEN q.seen.in ELSE NoTime)
      out == OrElse(LastCheckOut(logs, Shift), IF old THEN q.seen.out ELSE NoTime)
      m == Metrics(in, out, Shift)
  IN  [in |-> in, out |-> out, total |-> m.total, late |-> m.late, overtime |-> m.overtime,
       status |-> m.status, surprise |-> (\E l \in q.logs : l.surprise) \/ (old /\ q.seen.surprise),
       source |-> "DEVICE"]

\* Instance.update of a record read earlier writes the fields that differ from what was read.
Update(now, seen, payload) ==
  [f \in Fields |-> IF payload[f] = seen[f] THEN now[f] ELSE payload[f]]

\* The upsert.  It fails, and the employee is reported, when a record was created in the
\* meantime (unique index) or the one that was read is gone (reload).
WriteRecord(r) ==
  /\ req[r].stage = "write"
  /\ LET q == req[r]
         e == q.emp
     IN  \/ /\ \/ q.seen = NoRecord /\ day[e] # NoRecord
               \/ q.seen = Gone
            /\ req' = [req EXCEPT ![r] = [stage |-> "next", todo |-> q.todo,
                                          overwrite |-> q.overwrite]]
            /\ Report(r, e)
            /\ UNCHANGED <<day, manual>>
         \/ /\ \/ /\ q.seen = NoRecord /\ day[e] = NoRecord
                  /\ day' = [day EXCEPT ![e] = Payload(q)]
               \/ /\ q.seen \notin {NoRecord, Gone}
                  /\ day' = [day EXCEPT ![e] = Update(@, q.seen, Payload(q))]
            /\ manual' = IF q.overwrite THEN manual \ {e} ELSE manual
            /\ req' = [req EXCEPT ![r] = [stage |-> "mark", todo |-> q.todo,
                                          overwrite |-> q.overwrite, read |-> q.read]]
            /\ UNCHANGED failed
  /\ UNCHANGED <<rows, settings, counters, corrected, owed, accounted>>

MarkProcessed(r) ==
  /\ req[r].stage = "mark"
  /\ rows' = [k \in Punches |->
       IF k \in req[r].read THEN [rows[k] EXCEPT !.processed = TRUE] ELSE rows[k]]
  /\ req' = [req EXCEPT ![r] = [stage |-> "next", todo |-> req[r].todo,
                                overwrite |-> req[r].overwrite]]
  /\ accounted' = accounted \cup req[r].read
  /\ UNCHANGED <<day, settings, counters, manual, corrected, failed, owed>>

ProcessDone(r) ==
  /\ req[r].stage = "next"
  /\ req[r].todo = {}
  /\ req' = [req EXCEPT ![r] = Idle]
  /\ UNCHANGED <<rows, day, settings, counters, history>>

\* The process or the platform ends the request between two of its awaits.
Die(r) ==
  /\ req[r] # Idle
  /\ deaths < MaxDeaths
  /\ deaths' = deaths + 1
  /\ req' = [req EXCEPT ![r] = Idle]
  /\ UNCHANGED <<rows, day, settings, requests, changes, history>>
-----------------------------------------------------------------------------
(* Settings, corrections by HR.                                            *)

Change == changes < MaxChanges /\ changes' = changes + 1

\* The employee is created or imported; reResolveUnresolvedLogs then finds them.
AddEmployee(e) ==
  /\ Change
  /\ e \notin known
  /\ known' = known \cup {e}
  /\ UNCHANGED <<rows, day, req, verify, surprise, requests, deaths, history>>

\* One turn of the loop of reResolveUnresolvedLogs.
ResolveRow(k) ==
  /\ k \in Stored
  /\ rows[k].emp = NoEmp
  /\ EmpOf[k] \in known
  /\ rows' = [rows EXCEPT ![k].emp = EmpOf[k]]
  /\ UNCHANGED <<day, req, settings, counters, history>>

\* markForReprocess: the only way a duplicate mark goes away.
MarkForReprocess(k) ==
  /\ Change
  /\ k \in Stored
  /\ ~rows[k].verifyOnly
  /\ rows' = [rows EXCEPT ![k].processed = FALSE, ![k].duplicate = FALSE]
  /\ UNCHANGED <<day, req, settings, requests, deaths, history>>

SwitchMode ==
  /\ Change
  /\ verify' = ~verify
  /\ UNCHANGED <<rows, day, req, known, surprise, requests, deaths, history>>

SwitchSurprise ==
  /\ Change
  /\ surprise' = ~surprise
  /\ UNCHANGED <<rows, day, req, known, verify, requests, deaths, history>>

\* HR enters a record.
HrCreate(e) ==
  /\ Change
  /\ e \in known
  /\ day[e] = NoRecord
  /\ day' = [day EXCEPT ![e] =
       [in |-> HrTime, out |-> NoTime, total |-> NoTime, late |-> 0, overtime |-> 0,
        status |-> "PRESENT", surprise |-> FALSE, source |-> "MANUAL"]]
  /\ manual' = manual \cup {e}
  /\ corrected' = corrected \cup {e}
  /\ UNCHANGED <<rows, req, settings, requests, deaths, failed, owed, accounted>>

\* HR corrects the check-in; the source column stays unless the form sends it.
HrUpdate(e) ==
  /\ Change
  /\ day[e] # NoRecord
  /\ \E s \in {day[e].source, "MANUAL"}, t \in {HrTime, NoTime} :
       day' = [day EXCEPT ![e].in = t, ![e].source = s]
  /\ manual' = manual \ {e}
  /\ corrected' = corrected \cup {e}
  /\ UNCHANGED <<rows, req, settings, requests, deaths, failed, owed, accounted>>

\* HR deletes the record; a request that has read it will not find it again.
HrRemove(e) ==
  /\ Change
  /\ day[e] # NoRecord
  /\ day' = [day EXCEPT ![e] = NoRecord]
  /\ req' = [r \in Requests |->
       IF req[r].stage \in {"read", "write"} /\ req[r].emp = e /\ req[r].seen # NoRecord
       THEN [req[r] EXCEPT !.seen = Gone] ELSE req[r]]
  /\ manual' = manual \ {e}
  /\ corrected' = corrected \cup {e}
  /\ UNCHANGED <<rows, settings, requests, deaths, failed, owed, accounted>>
-----------------------------------------------------------------------------
Step(r) ==
  \/ \E k \in Punches : Ingest(r, k) \/ MarkDuplicate(r, k)
  \/ PushDone(r) \/ Select(r) \/ ReadLogs(r) \/ WriteRecord(r)
  \/ \E e \in Employees : ReadRecord(r, e)
  \/ MarkProcessed(r) \/ ProcessDone(r)

\* An import processes the dates its punches are keyed to, unless auto_process is off or the
\* date is not among the last 21: never a date none of them is keyed to.
Arrive(r) ==
  \/ \E S \in SUBSET Punches \ {{}}, a, o \in BOOLEAN :
       (a => S \cap Keyed # {}) /\ (o => a) /\ StartPush(r, S, a, o)
  \/ \E S \in {Employees} \cup {{e} : e \in Employees} :
       StartReprocess(r, S) \/ \E o \in BOOLEAN : StartProcess(r, S, o)

Admin ==
  \/ \E e \in Employees : AddEmployee(e) \/ HrCreate(e) \/ HrUpdate(e) \/ HrRemove(e)
  \/ \E k \in Punches : ResolveRow(k) \/ MarkForReprocess(k)
  \/ SwitchMode \/ SwitchSurprise

Next == Admin \/ \E r \in Requests : Arrive(r) \/ Step(r) \/ Die(r)

Spec == Init /\ [][Next]_vars
-----------------------------------------------------------------------------
(* Properties.                                                             *)

\* The times in a record come from punches of that employee that may count (never from a
\* verify-only or surprise punch) or from HR, however requests overlap.
OwnPunches ==
  \A e \in Employees : day[e] # NoRecord =>
    {day[e].in, day[e].out} \subseteq {NoTime, HrTime} \cup
      {LogOf[k].time : k \in {l \in Stored : /\ rows[l].emp = e /\ EmpOf[l] = e
                                             /\ ~rows[l].verifyOnly /\ ~rows[l].surprise}}

\* No other punch of the employee is so close that one may be taken for a repeat.
Apart(k) ==
  \A l \in Punches \ {k} : EmpOf[l] = EmpOf[k] =>
    \/ LogOf[k].time - LogOf[l].time > RapidWindow
    \/ LogOf[l].time - LogOf[k].time > RapidWindow

\* A processed check-in has counted: overlapping requests, deaths in the middle of a request
\* and later duplicate marks never leave the employee without check-in (unless HR did).
ProcessedCounts ==
  \A k \in Stored :
    /\ rows[k].processed /\ Apart(k)
    /\ ~rows[k].surprise /\ Side(LogOf[k], Shift) = "in"
    /\ rows[k].emp \notin corrected
    => day[rows[k].emp] # NoRecord /\ day[rows[k].emp].in # NoTime

\* A record HR created stays as HR made it until a request is told to overwrite: the check
\* of the source and the unique index together leave no gap.
ManualKept ==
  \A e \in manual : day[e] # NoRecord /\ day[e].source = "MANUAL" /\ day[e].in = HrTime

\* The employees with a punch owed by a request that was neither forwarded nor marked as a
\* duplicate.
LeftBehind(r) == {EmpOf[k] : k \in owed[r] \ accounted}

\* The numbers in an import's answer own up to what was left behind: when it processed the
\* work date, no more employees have a punch of that day that was neither forwarded nor
\* marked as a duplicate than summary.errors counts, whatever ran beside it.  (It says
\* nothing of a work date the import did not list, of which its answer tells nothing.)
Forwarded ==
  [][\A r \in Requests : ProcessDone(r) =>
       Cardinality(LeftBehind(r)) <= Cardinality(failed[r])]_vars
=============================================================================
