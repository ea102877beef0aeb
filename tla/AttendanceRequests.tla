------------------------- MODULE AttendanceRequests -------------------------
(***************************************************************************)
(* One employee's day: the attendance record, the self check-in and        *)
(* check-out, the check-in and check-out requests with their photos, their *)
(* reviews, the runs of the attendance processor over the device's punches *)
(* and the corrections HR makes to the record                              *)
(* (backend/src/services/attendance.service.js,                            *)
(* attendance_request.service.js and attendance_processor.service.js).     *)
(*                                                                         *)
(* No handler uses a transaction.  Each loads a row, checks what it loaded *)
(* and updates the row by its id; other handlers come in between, and a    *)
(* handler may die with its process.  A row that was deleted in between is *)
(* not updated.                                                            *)
(***************************************************************************)
EXTENDS Integers, FiniteSets

CONSTANTS
  Requests,   \* attendance requests of the day
  Kind,       \* [Requests -> "CHECK_IN" or "CHECK_OUT"]
  Handlers,   \* requests to the server handled at once
  DayEnd,     \* last moment of the work date
  PhotoTTL,   \* PENDING_PHOTO_TTL_MS, longer than the day
  MaxTime,    \* bound: the clock
  MaxEdits,   \* bound: changes made by HR
  MaxChanges, \* bound: changes made by HR, runs of the processor and deaths, together
  MaxDeaths,  \* bound: handlers that die half way
  NoTime      \* the null of a time column

ASSUME RequestsAssumption ==
  /\ Kind \in [Requests -> {"CHECK_IN", "CHECK_OUT"}]
  /\ DayEnd \in Nat /\ PhotoTTL \in Nat /\ MaxTime \in Nat
  /\ DayEnd < PhotoTTL
  /\ MaxEdits \in Nat /\ MaxChanges \in Nat /\ MaxDeaths \in Nat
  /\ NoTime \notin Int /\ NoTime \notin Requests

VARIABLES
  now,     \* the clock of the server
  rec,     \* the attendance row of the employee and date
  req,     \* the attendance_requests rows
  op,      \* what each handler is doing
  edits, changes, deaths,
  clean    \* history: no time entered or removed by HR, no time that a run of the processor replaces
           \* or enters out of order, no two handlers at the same column or request, no check-out
           \* approved without a record

vars == <<now, rec, req, op, edits, changes, deaths, clean>>

Times == 0 .. MaxTime
NullTimes == Times \cup {NoTime}
RequestStatus == {"none", "PENDING", "APPROVED", "REJECTED"}
Idle == [step |-> "idle"]

\* IMPORT, which only HR enters, is treated like MANUAL.
Sources == {"MANUAL", "DEVICE"}

\* id tells a row from the one that was deleted before it.
Records == [exists : BOOLEAN, id : Nat, in : NullTimes, out : NullTimes,
            total : NullTimes, source : Sources]
RequestRows == [status : RequestStatus, time : NullTimes, photo : BOOLEAN]

Ops ==
  {Idle}
    \cup [step : {"in", "out"}, id : Nat, in : NullTimes, time : Times, req : Requests \cup {NoTime}]
    \cup [step : {"approve", "approved", "reject", "strip"}, req : Requests]
    \cup [step : {"purge"}, ids : SUBSET Requests]
    \cup [step : {"day"}, new : BOOLEAN, id : Nat, in : NullTimes, out : NullTimes,
          total : NullTimes, source : Sources, columns : SUBSET {"in", "out", "total"}]

\* No row, after the one with this id.
NoRow(id) ==
  [exists |-> FALSE, id |-> id, in |-> NoTime, out |-> NoTime, total |-> NoTime, source |-> "MANUAL"]

TypeOK ==
  /\ now \in Times
  /\ rec \in Records
  /\ req \in [Requests -> RequestRows]
  /\ op \in [Handlers -> Ops]
  /\ edits \in 0 .. MaxEdits /\ changes \in 0 .. MaxChanges /\ deaths \in 0 .. MaxDeaths
  /\ clean \in BOOLEAN

Init ==
  /\ now = 0
  /\ rec = NoRow(0)
  /\ req = [r \in Requests |-> [status |-> "none", time |-> NoTime, photo |-> FALSE]]
  /\ op = [h \in Handlers |-> Idle]
  /\ edits = 0 /\ changes = 0 /\ deaths = 0
  /\ clean = TRUE

Do(h, what) == op' = [op EXCEPT ![h] = what]

\* Attendance.findOrCreate with a new row: the unique index on company,
\* employee and date keeps it to one row.
Created(in, out, total, source) ==
  [exists |-> TRUE, id |-> rec.id + 1, in |-> in, out |-> out, total |-> total, source |-> source]

\* The handlers that have loaded the row and are about to write its column.
Writing(column) ==
  {h \in Handlers : \/ op[h].step = column
                    \/ op[h].step = "day" /\ ~op[h].new /\ column \in op[h].columns}

-----------------------------------------------------------------------------
(* checkIn and checkOut, the employee's own.                               *)

\* Writes are by the id of the row that was loaded.
ToWrite(h, column, time, r) ==
  Do(h, [step |-> column, id |-> rec.id, in |-> rec.in, time |-> time, req |-> r])

\* A row without a check-in is updated in a second statement.
CheckIn(h) ==
  /\ op[h] = Idle /\ now <= DayEnd
  /\ \/ /\ ~rec.exists
        /\ rec' = Created(now, NoTime, NoTime, "MANUAL")
        /\ UNCHANGED op
     \/ /\ rec.exists /\ rec.in = NoTime
        /\ ToWrite(h, "in", now, NoTime)
        /\ UNCHANGED rec
  /\ clean' = (clean /\ Writing("in") = {})
  /\ UNCHANGED <<now, req, edits, changes, deaths>>

CheckOut(h) ==
  /\ op[h] = Idle /\ now <= DayEnd
  /\ rec.exists /\ rec.in # NoTime /\ rec.out = NoTime
  /\ ToWrite(h, "out", now, NoTime)
  /\ clean' = (clean /\ Writing("out") = {})
  /\ UNCHANGED <<now, rec, req, edits, changes, deaths>>

\* Math.max(0, ...) when a request is approved; the employee's own check-out is never early.
Minutes(o) ==
  IF o.req # NoTime /\ o.time < o.in THEN 0 ELSE o.time - o.in

\* What follows a write: an approval goes on to the request, a check-in or
\* check-out by the employee is answered.
AfterWrite(o) ==
  IF o.req = NoTime THEN Idle ELSE [step |-> "approved", req |-> o.req]

WriteIn(h) ==
  /\ op[h].step = "in"
  /\ rec' = IF rec.exists /\ rec.id = op[h].id THEN [rec EXCEPT !.in = op[h].time] ELSE rec
  /\ Do(h, AfterWrite(op[h]))
  /\ UNCHANGED <<now, req, edits, changes, deaths, clean>>

\* Mutant: the check-out is written without the minutes.
WriteOutOnly(h) ==
  /\ op[h].step = "out"
  /\ rec' = IF rec.exists /\ rec.id = op[h].id THEN [rec EXCEPT !.out = op[h].time] ELSE rec
  /\ Do(h, AfterWrite(op[h]))
  /\ UNCHANGED <<now, req, edits, changes, deaths, clean>>

WriteOut(h) ==
  /\ op[h].step = "out"
  /\ rec' = IF rec.exists /\ rec.id = op[h].id
            THEN [rec EXCEPT !.out = op[h].time, !.total = Minutes(op[h])] ELSE rec
  /\ Do(h, AfterWrite(op[h]))
  /\ UNCHANGED <<now, req, edits, changes, deaths, clean>>

-----------------------------------------------------------------------------
(* Requests, their photos and their reviews.                               *)

\* submitRequest; the purge it begins with reaches requests of earlier days only.
Submit(h, r) ==
  /\ op[h] = Idle /\ req[r].status = "none" /\ now <= DayEnd
  /\ req' = [req EXCEPT ![r] = [status |-> "PENDING", time |-> now, photo |-> TRUE]]
  /\ UNCHANGED <<now, rec, op, edits, changes, deaths, clean>>

\* purgeExpiredPendingPhotos, with which a later submitRequest or listRequests begins.
Expired == {r \in Requests : req[r].status = "PENDING" /\ now - req[r].time > PhotoTTL}

StartPurge(h) ==
  /\ op[h] = Idle /\ Expired # {}
  /\ Do(h, [step |-> "purge", ids |-> Expired])
  /\ UNCHANGED <<now, rec, req, edits, changes, deaths, clean>>

\* stripAttendanceRequestPhoto of each of them; the last one ends the purge.
Purge(h) ==
  /\ op[h].step = "purge"
  /\ \E r \in op[h].ids :
       /\ req' = [req EXCEPT ![r].photo = FALSE]
       /\ Do(h, IF op[h].ids = {r} THEN Idle ELSE [op[h] EXCEPT !.ids = @ \ {r}])
  /\ UNCHANGED <<now, rec, edits, changes, deaths, clean>>

InReview(r) ==
  {h \in Handlers : /\ op[h].step \in {"in", "out", "approve", "approved", "reject", "strip"}
                    /\ op[h].req = r}

\* reviewRequest loads the request, which must be pending.
Review(h, r, step) ==
  /\ op[h] = Idle /\ req[r].status = "PENDING"
  /\ Do(h, [step |-> step, req |-> r])
  /\ clean' = (clean /\ InReview(r) = {})
  /\ UNCHANGED <<now, rec, req, edits, changes, deaths>>

\* An approval on a day without a record creates it with the request's time and
\* then refuses: the check-in it finds is the one it has just stored, and a
\* check-out finds no check-in.  The request stays pending and the record stays.
ApproveCreates(h) ==
  LET r == op[h].req IN
  /\ op[h].step = "approve" /\ ~rec.exists
  /\ rec' =
       IF Kind[r] = "CHECK_IN" THEN Created(req[r].time, NoTime, NoTime, "MANUAL")
            ELSE Created(NoTime, req[r].time, NoTime, "MANUAL")
  /\ Do(h, Idle)
  /\ clean' = (clean /\ Kind[r] = "CHECK_IN")
  /\ UNCHANGED <<now, req, edits, changes, deaths>>

\* What an approval asks of the record it found.
Allowed(r) ==
  IF Kind[r] = "CHECK_IN" THEN rec.in = NoTime ELSE rec.in # NoTime /\ rec.out = NoTime

\* An approval on an existing record goes on to write it, or refuses and stays pending.
ApproveFound(h) ==
  LET r == op[h].req
      column == IF Kind[r] = "CHECK_IN" THEN "in" ELSE "out"
  IN
  /\ op[h].step = "approve" /\ rec.exists
  /\ IF Allowed(r)
     THEN /\ ToWrite(h, column, req[r].time, r)
          /\ clean' = (clean /\ Writing(column) = {})
     ELSE Do(h, Idle) /\ UNCHANGED clean
  /\ UNCHANGED <<now, rec, req, edits, changes, deaths>>

\* Mutant: a rejection leaves the photo.
DecideStrippingApproved(h) ==
  \E st \in {"APPROVED", "REJECTED"} :
    /\ op[h].step = (IF st = "APPROVED" THEN "approved" ELSE "reject")
    /\ req' = [req EXCEPT ![op[h].req].status = st]
    /\ Do(h, IF st = "APPROVED" THEN [step |-> "strip", req |-> op[h].req] ELSE Idle)
    /\ UNCHANGED <<now, rec, edits, changes, deaths, clean>>

\* reqRow.update with the decision, whatever the row says by now.
Decide(h) ==
  \E st \in {"APPROVED", "REJECTED"} :
    /\ op[h].step = (IF st = "APPROVED" THEN "approved" ELSE "reject")
    /\ req' = [req EXCEPT ![op[h].req].status = st]
    /\ Do(h, [step |-> "strip", req |-> op[h].req])
    /\ UNCHANGED <<now, rec, edits, changes, deaths, clean>>

Strip(h) ==
  /\ op[h].step = "strip"
  /\ req' = [req EXCEPT ![op[h].req].photo = FALSE]
  /\ Do(h, Idle)
  /\ UNCHANGED <<now, rec, edits, changes, deaths, clean>>

-----------------------------------------------------------------------------
(* processEmployeeDate: a run over the device's punches of the day, on its *)
(* own, after an import, or for the whole company.                         *)

\* When the day's punches may have been; devices punch in the past.
Punches == {t \in Times : t <= now /\ t <= DayEnd}

\* computeMetrics: no minutes unless the check-out is after the check-in.
DayMinutes(in, out) == IF in # NoTime /\ out # NoTime /\ in < out THEN out - in ELSE NoTime

\* existing.update writes the columns whose value is not the one that was read.
Changed(in, out) ==
  {c \in {"in", "out", "total"} :
     \/ c = "in" /\ in # rec.in
     \/ c = "out" /\ out # rec.out
     \/ c = "total" /\ DayMinutes(in, out) # rec.total}

\* Every time it changes was missing, is in order and is written by no other handler.
Adds(in, out) ==
  /\ \A c \in Changed(in, out) : Writing(c) = {}
  /\ "in" \in Changed(in, out) => rec.in = NoTime
  /\ "out" \in Changed(in, out) => rec.out = NoTime /\ in # NoTime /\ in < out
  /\ "total" \in Changed(in, out) => rec.total = NoTime

DayOf(in, out) ==
  [step |-> "day", new |-> ~rec.exists, id |-> rec.id, in |-> in, out |-> out,
   total |-> DayMinutes(in, out), source |-> rec.source, columns |-> Changed(in, out)]

\* A record that no device made is skipped, unless the caller overwrites.  The
\* check-in and the check-out are punches of the day, each that has none keeps
\* the time of the record.
ReadDay(h, overwrite) ==
  /\ op[h] = Idle /\ changes < MaxChanges /\ changes' = changes + 1
  /\ rec.exists => rec.source = "DEVICE" \/ overwrite
  /\ \E in \in Punches \cup {rec.in}, out \in Punches \cup {rec.out} :
       Do(h, DayOf(in, out)) /\ clean' = (clean /\ Adds(in, out))
  /\ UNCHANGED <<now, rec, req, edits, deaths>>

\* Mutant: every column is written, as it was read.
WriteDayAll(h) ==
  /\ op[h].step = "day"
  /\ rec' =
       IF op[h].new
       THEN IF rec.exists THEN rec ELSE Created(op[h].in, op[h].out, op[h].total, "DEVICE")
       ELSE IF rec.exists /\ rec.id = op[h].id
            THEN [rec EXCEPT !.in = op[h].in, !.out = op[h].out, !.total = op[h].total, !.source = "DEVICE"]
            ELSE rec
  /\ Do(h, Idle)
  /\ UNCHANGED <<now, req, edits, changes, deaths, clean>>

\* A row that came in between fails the create at its unique index.
WriteDay(h) ==
  LET o == op[h] IN
  /\ o.step = "day"
  /\ rec' =
       IF o.new
       THEN IF rec.exists THEN rec ELSE Created(o.in, o.out, o.total, "DEVICE")
       ELSE IF rec.exists /\ rec.id = o.id
            THEN [rec EXCEPT !.in = IF "in" \in o.columns THEN o.in ELSE @,
                             !.out = IF "out" \in o.columns THEN o.out ELSE @,
                             !.total = IF "total" \in o.columns THEN o.total ELSE @,
                             !.source = IF o.source # "DEVICE" THEN "DEVICE" ELSE @]
            ELSE rec
  /\ Do(h, Idle)
  /\ UNCHANGED <<now, req, edits, changes, deaths, clean>>

-----------------------------------------------------------------------------
(* create, update and remove by HR, the clock, and processes that die.     *)

HrUpdate ==
  /\ rec.exists
  /\ \E in \in {NoTime, rec.in, now}, out \in {NoTime, rec.out, now} :
       \E source \in Sources : rec' = [rec EXCEPT !.in = in, !.out = out, !.source = source]

HrEdit ==
  /\ edits < MaxEdits /\ edits' = edits + 1
  /\ changes < MaxChanges /\ changes' = changes + 1
  /\ \/ /\ ~rec.exists
        /\ \E in, out \in {NoTime, now}, source \in Sources :
             /\ rec' = Created(in, out, NoTime, source)
             /\ clean' = (clean /\ in = NoTime /\ out = NoTime)
     \/ HrUpdate /\ clean' = FALSE
     \/ rec.exists /\ rec' = NoRow(rec.id) /\ clean' = FALSE
  /\ UNCHANGED <<now, req, op, deaths>>

Tick ==
  /\ now < MaxTime /\ now' = now + 1
  /\ UNCHANGED <<rec, req, op, edits, changes, deaths, clean>>

Die(h) ==
  /\ deaths < MaxDeaths /\ deaths' = deaths + 1
  /\ changes < MaxChanges /\ changes' = changes + 1
  /\ op[h] # Idle /\ Do(h, Idle)
  /\ UNCHANGED <<now, rec, req, edits, clean>>

-----------------------------------------------------------------------------
Next ==
  \/ \E h \in Handlers :
       \/ CheckIn(h) \/ CheckOut(h) \/ WriteIn(h) \/ WriteOut(h)
       \/ \E r \in Requests : Submit(h, r)
       \/ \E r \in Requests : Review(h, r, "approve") \/ Review(h, r, "reject")
       \/ ApproveCreates(h) \/ ApproveFound(h) \/ Decide(h) \/ Strip(h)
       \/ StartPurge(h) \/ Purge(h)
       \/ \E overwrite \in BOOLEAN : ReadDay(h, overwrite)
       \/ WriteDay(h)
       \/ Die(h)
  \/ HrEdit
  \/ Tick

Spec == Init /\ [][Next]_vars

-----------------------------------------------------------------------------
(* Properties.                                                             *)

\* An approved request is on the record: its column holds the time of the
\* request, although the record is written before the request is decided, other
\* requests are reviewed, the employee checks in and out, and runs of the
\* processor that read the row before the approval write it afterwards
\* (attendance_request.service.js:194-209, attendance_processor.service.js:355-388).
\* Not promised once a run has a punch of its own for the approved column: it
\* replaces the time, as clean says.
ApprovedOnRecord ==
  clean => \A r \in Requests :
    req[r].status = "APPROVED"
      => /\ rec.exists
         /\ req[r].time = IF Kind[r] = "CHECK_IN" THEN rec.in ELSE rec.out

\* "Short-lived image bytes (cleared on approve/reject ...)"
\* (attendance_request.model.js): no decided request keeps its photo once its
\* review is over, also when two reviewers decide it at once or a purge runs;
\* only a handler that died before the last statement leaves one behind.
PhotoGone ==
  deaths = 0 => \A r \in Requests :
    req[r].status \in {"APPROVED", "REJECTED"} /\ InReview(r) = {} => ~req[r].photo

\* The record keeps the promise of DaySheet (each time is entered once, the
\* minutes are those between them) until HR corrects it, a run of the processor
\* replaces a time or enters a check-out that is not after a check-in, two
\* handlers that loaded the same column write it, two reviewers decide the same
\* request, or a check-out request is approved on a day without a record.
Sheet == INSTANCE DaySheet WITH
  settled <- clean,
  sheet <- IF clean THEN [in |-> rec.in, out |-> rec.out, total |-> rec.total]
           ELSE [in |-> NoTime, out |-> NoTime, total |-> NoTime]

SheetPromise == Sheet!Spec
=============================================================================
