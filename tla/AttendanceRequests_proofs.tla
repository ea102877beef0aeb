--------------------- MODULE AttendanceRequests_proofs ---------------------
(***************************************************************************)
(* Proofs about AttendanceRequests, for any number of handlers, requests,  *)
(* corrections and deaths and any clock: what was approved is on the       *)
(* record, decided requests lose their photo, and the record keeps the     *)
(* promise of DaySheet.                                                    *)
(***************************************************************************)
EXTENDS AttendanceRequests, TLAPS

-----------------------------------------------------------------------------
(* The inductive invariants.                                               *)

\* Nothing was entered or sent in the future.
Dated ==
  /\ rec.in # NoTime => rec.in <= now
  /\ \A r \in Requests : req[r].status # "none" => req[r].time \in Times /\ req[r].time <= now

\* What handler h has loaded is a request that was sent and, for a check-out, a
\* check-in that the employee's own check-out is not before.
Loaded(h) ==
  LET o == op[h] IN
  /\ o.step \in {"approve", "approved", "reject", "strip"} => req[o.req].status # "none"
  /\ o.step \in {"in", "out"} =>
       /\ o.time <= now
       /\ o.req # NoTime => /\ req[o.req].status # "none" /\ o.time = req[o.req].time
                            /\ o.step = IF Kind[o.req] = "CHECK_IN" THEN "in" ELSE "out"
  /\ o.step = "out" => o.in \in Times /\ (o.req = NoTime => o.in <= o.time)
  /\ o.step = "day" => (o.in # NoTime => o.in <= now) /\ o.total = DayMinutes(o.in, o.out)

Sane == TypeOK /\ Dated /\ \A h \in Handlers : Loaded(h)

\* A decided request that still has its photo is about to lose it.
BeingStripped ==
  deaths = 0 => \A r \in Requests :
    req[r].status \in {"APPROVED", "REJECTED"} /\ req[r].photo
      => \E h \in Handlers : op[h].step = "strip" /\ op[h].req = r

OnRecord(r) ==
  rec.exists /\ req[r].time = IF Kind[r] = "CHECK_IN" THEN rec.in ELSE rec.out

\* Handler h has loaded a row and is about to write its column c.
ToPut(h, c) ==
  \/ op[h].step = c
  \/ op[h].step = "day" /\ ~op[h].new /\ c \in op[h].columns

\* A run of the processor that is about to write: it enters missing times in
\* order, in the row it has read or in a new one.
RunKept(h) ==
  LET o == op[h] IN
  /\ "in" \in o.columns => o.in # NoTime
  /\ "out" \in o.columns => o.in # NoTime /\ o.out # NoTime /\ o.in < o.out
  /\ "out" \in o.columns <=> "total" \in o.columns
  /\ o.new => /\ "in" \notin o.columns => o.in = NoTime
              /\ "out" \notin o.columns => o.out = NoTime /\ o.total = NoTime
  /\ ~o.new =>
       /\ o.columns # {} => rec.exists /\ rec.id = o.id
       /\ "in" \in o.columns => rec.in = NoTime
       /\ "out" \in o.columns => rec.out = NoTime /\ ("in" \notin o.columns => rec.in = o.in)

\* A check-in or an approval that is about to write finds its column empty, and
\* one that has written is on the record.
WriterKept(h) ==
  /\ op[h].step \in {"in", "out"} => rec.exists /\ rec.id = op[h].id
  /\ op[h].step = "in" => rec.in = NoTime
  /\ op[h].step = "out" => rec.in = op[h].in /\ rec.out = NoTime
  /\ op[h].step = "approved" => OnRecord(op[h].req)

RowKept ==
  /\ ~rec.exists => rec.in = NoTime
  /\ rec.in = NoTime => rec.out = NoTime
  /\ rec.out = NoTime <=> rec.total = NoTime

\* What holds of the record until HR, an overlap, a run of the processor or a
\* check-out request without a record spoils it: one handler writes a column,
\* which is still empty, of the row it has loaded, and an approval that has
\* written is on the record.
Undisturbed ==
  clean =>
    /\ RowKept
    /\ \A h \in Handlers : WriterKept(h) /\ (op[h].step = "day" => RunKept(h))
    /\ \A g, h \in Handlers, c \in {"in", "out"} : ToPut(g, c) /\ ToPut(h, c) => g = h
    /\ \A r \in Requests : req[r].status = "APPROVED" => OnRecord(r)

-----------------------------------------------------------------------------
(* What a handler carries and what its next statement makes of it.         *)

Writes == [step : {"in", "out"}, id : Nat, in : NullTimes, time : Times, req : Requests \cup {NoTime}]
Reviews == [step : {"approve", "approved", "reject", "strip"}, req : Requests]
Days == [step : {"day"}, new : BOOLEAN, id : Nat, in : NullTimes, out : NullTimes,
         total : NullTimes, source : Sources, columns : SUBSET {"in", "out", "total"}]

LEMMA Carried ==
  ASSUME NEW o \in Ops
  PROVE  /\ o.step \in {"idle", "in", "out", "approve", "approved", "reject", "strip", "purge", "day"}
         /\ o.step = "idle" => o = Idle
         /\ o.step \in {"in", "out"} => o \in Writes
         /\ o.step \in {"approve", "approved", "reject", "strip"} => o \in Reviews
         /\ o.step = "purge" => o \in [step : {"purge"}, ids : SUBSET Requests]
         /\ o.step = "day" => o \in Days
BY DEF Ops, Idle, Writes, Reviews, Days

LEMMA OpsTypes ==
  /\ Idle \in Ops
  /\ \A o \in Writes : o \in Ops
  /\ \A o \in Reviews : o \in Ops
  /\ \A o \in Days : o \in Ops
  /\ \A ids \in SUBSET Requests : [step |-> "purge", ids |-> ids] \in Ops
BY DEF Ops, Writes, Reviews, Days

LEMMA DoEffect ==
  ASSUME op \in [Handlers -> Ops], NEW h \in Handlers, NEW what \in Ops, Do(h, what)
  PROVE  /\ op' \in [Handlers -> Ops] /\ op'[h] = what
         /\ \A g \in Handlers \ {h} : op'[g] = op[g]
BY DEF Do

LEMMA TimeTypes ==
  /\ \A t \in Times : t \in Int /\ t \in NullTimes /\ t # NoTime
  /\ \A t \in NullTimes : t # NoTime => t \in Times
  /\ NoTime \in NullTimes /\ NoTime \notin Requests
BY RequestsAssumption DEF Times, NullTimes

\* The row that is about to be updated is the one that was loaded.
LEMMA ToWriteEffect ==
  ASSUME TypeOK, NEW h \in Handlers, NEW column \in {"in", "out"}, NEW time \in Times,
         NEW r \in Requests \cup {NoTime}, ToWrite(h, column, time, r)
  PROVE  /\ op' \in [Handlers -> Ops] /\ \A g \in Handlers \ {h} : op'[g] = op[g]
         /\ op'[h].step = column /\ op'[h].id = rec.id /\ op'[h].in = rec.in
         /\ op'[h].time = time /\ op'[h].req = r
<1> DEFINE what == [step |-> column, id |-> rec.id, in |-> rec.in, time |-> time, req |-> r]
<1>1. what \in Writes
  BY DEF TypeOK, Records, Writes
<1>2. what \in Ops
  BY <1>1, OpsTypes
<1>3. op' \in [Handlers -> Ops] /\ op'[h] = what /\ \A g \in Handlers \ {h} : op'[g] = op[g]
  BY <1>2, DoEffect DEF ToWrite, TypeOK
<1> QED
  BY <1>3

LEMMA AfterWriteEffect ==
  ASSUME TypeOK, NEW h \in Handlers, op[h].step \in {"in", "out"}, Do(h, AfterWrite(op[h]))
  PROVE  /\ op' \in [Handlers -> Ops] /\ \A g \in Handlers \ {h} : op'[g] = op[g]
         /\ \/ op[h].req = NoTime /\ op'[h] = Idle /\ op'[h].step = "idle"
            \/ /\ op[h].req \in Requests
               /\ op'[h].step = "approved" /\ op'[h].req = op[h].req
<1>1. op[h].req \in Requests \cup {NoTime}
  BY Carried DEF TypeOK, Writes
<1>2. CASE op[h].req = NoTime
  BY <1>2, OpsTypes, DoEffect DEF AfterWrite, TypeOK, Idle
<1>3. CASE op[h].req # NoTime
  <2> DEFINE what == [step |-> "approved", req |-> op[h].req]
  <2>1. what \in Reviews
    BY <1>1, <1>3 DEF Reviews
  <2>2. op' \in [Handlers -> Ops] /\ op'[h] = what /\ \A g \in Handlers \ {h} : op'[g] = op[g]
    BY <1>3, <2>1, OpsTypes, DoEffect DEF AfterWrite, TypeOK
  <2> QED
    BY <1>1, <1>3, <2>2
<1> QED
  BY <1>2, <1>3

LEMMA ReviewEffect ==
  ASSUME TypeOK, NEW h \in Handlers, NEW r \in Requests,
         NEW step \in {"approve", "approved", "reject", "strip"}, Do(h, [step |-> step, req |-> r])
  PROVE  /\ op' \in [Handlers -> Ops] /\ \A g \in Handlers \ {h} : op'[g] = op[g]
         /\ op'[h].step = step /\ op'[h].req = r
<1> DEFINE what == [step |-> step, req |-> r]
<1>1. what \in Reviews
  BY DEF Reviews
<1>2. op' \in [Handlers -> Ops] /\ op'[h] = what /\ \A g \in Handlers \ {h} : op'[g] = op[g]
  BY <1>1, OpsTypes, DoEffect DEF TypeOK
<1> QED
  BY <1>2

LEMMA IdleEffect ==
  ASSUME TypeOK, NEW h \in Handlers, Do(h, Idle)
  PROVE  /\ op' \in [Handlers -> Ops] /\ \A g \in Handlers \ {h} : op'[g] = op[g]
         /\ op'[h].step = "idle"
BY OpsTypes, DoEffect DEF TypeOK, Idle

LEMMA PurgeEffect ==
  ASSUME TypeOK, NEW h \in Handlers, NEW ids \in SUBSET Requests,
         Do(h, [step |-> "purge", ids |-> ids])
  PROVE  /\ op' \in [Handlers -> Ops] /\ \A g \in Handlers \ {h} : op'[g] = op[g]
         /\ op'[h].step = "purge"
<1> DEFINE what == [step |-> "purge", ids |-> ids]
<1>1. op' \in [Handlers -> Ops] /\ op'[h] = what /\ \A g \in Handlers \ {h} : op'[g] = op[g]
  BY OpsTypes, DoEffect DEF TypeOK
<1> QED
  BY <1>1

LEMMA MinutesType ==
  ASSUME NEW in \in NullTimes, NEW out \in NullTimes
  PROVE  /\ DayMinutes(in, out) \in NullTimes
         /\ in = NoTime \/ out = NoTime => DayMinutes(in, out) = NoTime
         /\ in # NoTime /\ out # NoTime /\ in < out =>
              DayMinutes(in, out) = out - in /\ DayMinutes(in, out) # NoTime
<1>1. CASE in # NoTime /\ out # NoTime /\ in < out
  <2>1. in \in Times /\ out \in Times
    BY <1>1, TimeTypes
  <2>2. out - in \in Times
    BY <1>1, <2>1, RequestsAssumption DEF Times
  <2> QED
    BY <1>1, <2>2, TimeTypes DEF DayMinutes
<1>2. CASE ~(in # NoTime /\ out # NoTime /\ in < out)
  BY <1>2, TimeTypes DEF DayMinutes
<1> QED
  BY <1>1, <1>2

LEMMA DayEffect ==
  ASSUME TypeOK, NEW h \in Handlers, NEW in \in NullTimes, NEW out \in NullTimes, Do(h, DayOf(in, out))
  PROVE  /\ op' \in [Handlers -> Ops] /\ \A g \in Handlers \ {h} : op'[g] = op[g]
         /\ op'[h].step = "day" /\ op'[h].new = ~rec.exists /\ op'[h].id = rec.id
         /\ op'[h].in = in /\ op'[h].out = out /\ op'[h].total = DayMinutes(in, out)
         /\ op'[h].columns = Changed(in, out)
<1>1. DayOf(in, out) \in Days
  <2>1. Changed(in, out) \in SUBSET {"in", "out", "total"}
    BY DEF Changed
  <2> QED
    BY <2>1, MinutesType DEF TypeOK, Records, Days, DayOf
<1>2. DayOf(in, out) \in Ops
  BY <1>1, OpsTypes
<1>3. op' \in [Handlers -> Ops] /\ op'[h] = DayOf(in, out) /\ \A g \in Handlers \ {h} : op'[g] = op[g]
  BY <1>2, DoEffect DEF TypeOK
<1> QED
  BY <1>3 DEF DayOf

\* The times a run may find.
LEMMA FoundTimes ==
  ASSUME TypeOK, NEW t \in Punches \cup {rec.in, rec.out}
  PROVE  t \in NullTimes
BY TimeTypes DEF TypeOK, Records, Punches

LEMMA CreatedType ==
  ASSUME TypeOK, NEW in \in NullTimes, NEW out \in NullTimes, NEW total \in NullTimes,
         NEW source \in Sources
  PROVE  /\ Created(in, out, total, source) \in Records /\ Created(in, out, total, source).exists
         /\ Created(in, out, total, source).in = in /\ Created(in, out, total, source).out = out
         /\ Created(in, out, total, source).total = total
BY TimeTypes DEF TypeOK, Records, Created

LEMMA NoRowType ==
  ASSUME NEW id \in Nat
  PROVE  NoRow(id) \in Records /\ ~NoRow(id).exists /\ NoRow(id).in = NoTime
         /\ NoRow(id).out = NoTime /\ NoRow(id).total = NoTime
BY TimeTypes DEF Records, NoRow, Sources

-----------------------------------------------------------------------------
(* Type correctness, with the facts about loaded times it needs.           *)

LEMMA SaneInit == Init => Sane
<1> SUFFICES ASSUME Init PROVE Sane
  OBVIOUS
<1>1. TypeOK
  <2>1. op \in [Handlers -> Ops]
    BY OpsTypes DEF Init
  <2>2. req \in [Requests -> RequestRows] /\ rec \in Records
    BY TimeTypes, NoRowType DEF Init, RequestRows, RequestStatus
  <2>3. now \in Times /\ edits \in 0 .. MaxEdits /\ changes \in 0 .. MaxChanges /\ deaths \in 0 .. MaxDeaths /\ clean \in BOOLEAN
    BY RequestsAssumption DEF Init, Times
  <2> QED
    BY <2>1, <2>2, <2>3 DEF TypeOK
<1>2. \A h \in Handlers : op[h].step = "idle"
  BY DEF Init, Idle
<1>3. Dated
  BY NoRowType DEF Init, Dated
<1> QED
  BY <1>1, <1>2, <1>3 DEF Sane, Loaded

\* A step of one handler.
LEMMA SaneFrame ==
  ASSUME Sane, NEW h \in Handlers,
         op' \in [Handlers -> Ops], \A g \in Handlers \ {h} : op'[g] = op[g], Loaded(h)',
         rec' \in Records, rec'.in # NoTime => rec'.in <= now,
         req' \in [Requests -> RequestRows],
         \A r \in Requests :
           /\ req[r].status # "none" => req'[r].status # "none" /\ req'[r].time = req[r].time
           /\ req[r].status = "none" => req'[r].status = "none" \/ req'[r].time = now,
         deaths' \in 0 .. MaxDeaths, changes' \in 0 .. MaxChanges, clean' \in BOOLEAN,
         UNCHANGED <<now, edits>>
  PROVE  Sane'
<1>1. TypeOK'
  BY DEF Sane, TypeOK
<1>2. Dated'
  BY DEF Sane, TypeOK, Dated, Times
<1>3. ASSUME NEW g \in Handlers, g # h PROVE Loaded(g)'
  <2>1. op'[g] = op[g] /\ op[g] \in Ops /\ Loaded(g)
    BY <1>3 DEF Sane, TypeOK
  <2>2. op[g].step \in {"in", "out"} => op[g].req \in Requests \cup {NoTime}
    BY <2>1, Carried DEF Writes
  <2>3. op[g].step \in {"approve", "approved", "reject", "strip"} => op[g].req \in Requests
    BY <2>1, Carried DEF Reviews
  <2> QED
    BY <2>1, <2>2, <2>3 DEF Loaded
<1> QED
  BY <1>1, <1>2, <1>3 DEF Sane

LEMMA SaneStep == Sane /\ [Next]_vars => Sane'
<1> SUFFICES ASSUME Sane, [Next]_vars PROVE Sane'
  OBVIOUS
<1> /\ TypeOK /\ Dated /\ now \in Times /\ rec \in Records /\ req \in [Requests -> RequestRows]
    /\ op \in [Handlers -> Ops] /\ deaths \in 0 .. MaxDeaths /\ changes \in 0 .. MaxChanges
    /\ clean \in BOOLEAN
  BY DEF Sane, TypeOK
<1> rec.in \in NullTimes /\ (rec.in # NoTime => rec.in \in Times /\ rec.in <= now)
  BY TimeTypes DEF Dated, Records
<1>1. ASSUME NEW h \in Handlers, CheckIn(h) PROVE Sane'
  <2>1. CASE ~rec.exists /\ rec' = Created(now, NoTime, NoTime, "MANUAL") /\ UNCHANGED op
    <3>1. rec' \in Records /\ rec'.in = now
      BY <2>1, CreatedType, TimeTypes DEF Sources
    <3>2. Loaded(h)'
      BY <1>1, <2>1 DEF CheckIn, Loaded, Idle
    <3> QED
      BY <1>1, <2>1, <3>1, <3>2, SaneFrame, TimeTypes DEF CheckIn, Times
  <2>2. CASE ToWrite(h, "in", now, NoTime) /\ UNCHANGED rec
    <3>1. /\ op' \in [Handlers -> Ops] /\ \A g \in Handlers \ {h} : op'[g] = op[g]
          /\ op'[h].step = "in" /\ op'[h].time = now /\ op'[h].req = NoTime
      BY <2>2, ToWriteEffect
    <3>2. Loaded(h)'
      BY <1>1, <3>1 DEF CheckIn, Loaded, Times
    <3> QED
      BY <1>1, <2>2, <3>1, <3>2, SaneFrame DEF CheckIn
  <2> QED
    BY <1>1, <2>1, <2>2 DEF CheckIn
<1>2. ASSUME NEW h \in Handlers, CheckOut(h) PROVE Sane'
  <2>1. /\ op' \in [Handlers -> Ops] /\ \A g \in Handlers \ {h} : op'[g] = op[g]
        /\ op'[h].step = "out" /\ op'[h].time = now /\ op'[h].req = NoTime /\ op'[h].in = rec.in
    BY <1>2, ToWriteEffect DEF CheckOut
  <2>2. Loaded(h)'
    BY <1>2, <2>1 DEF CheckOut, Loaded, Times
  <2> QED
    BY <1>2, <2>1, <2>2, SaneFrame DEF CheckOut
<1>3. ASSUME NEW h \in Handlers, WriteIn(h) \/ WriteOut(h) PROVE Sane'
  <2>1. /\ op' \in [Handlers -> Ops] /\ \A g \in Handlers \ {h} : op'[g] = op[g]
        /\ \/ op[h].req = NoTime /\ op'[h] = Idle /\ op'[h].step = "idle"
           \/ /\ op[h].req \in Requests
              /\ op'[h].step = "approved" /\ op'[h].req = op[h].req
    BY <1>3, AfterWriteEffect DEF WriteIn, WriteOut
  <2>2. op[h] \in Writes /\ Loaded(h)
    BY <1>3, Carried DEF WriteIn, WriteOut, Sane
  <2>3. Loaded(h)'
    <3>1. CASE op'[h].step = "idle"
      BY <3>1 DEF Loaded
    <3>2. CASE op[h].req \in Requests /\ op'[h].step = "approved" /\ op'[h].req = op[h].req
      BY <1>3, <2>2, <3>2, TimeTypes DEF WriteIn, WriteOut, Loaded
    <3> QED
      BY <2>1, <3>1, <3>2
  <2>4. op[h].time \in Times /\ op[h].time \in NullTimes /\ op[h].time <= now
    BY <1>3, <2>2, TimeTypes DEF WriteIn, WriteOut, Loaded, Writes
  <2>5. op[h].step = "out" => Minutes(op[h]) \in NullTimes
    <3> SUFFICES ASSUME op[h].step = "out" PROVE Minutes(op[h]) \in NullTimes
      OBVIOUS
    <3>1. op[h].in \in Times /\ (op[h].req = NoTime => op[h].in <= op[h].time)
      BY <2>2 DEF Loaded
    <3>2. Minutes(op[h]) \in Times
      BY <2>4, <3>1, RequestsAssumption DEF Minutes, Times
    <3> QED
      BY <3>2, TimeTypes
  <2>6. rec' \in Records /\ (rec'.in # NoTime => rec'.in <= now)
    BY <1>3, <2>4, <2>5 DEF WriteIn, WriteOut, Records
  <2> QED
    BY <1>3, <2>1, <2>3, <2>6, SaneFrame DEF WriteIn, WriteOut
<1>4. ASSUME NEW h \in Handlers, NEW r \in Requests, Submit(h, r) PROVE Sane'
  <2>1. /\ req' \in [Requests -> RequestRows]
        /\ \A s \in Requests \ {r} : req'[s] = req[s]
        /\ req[r].status = "none" /\ req'[r].time = now
    BY <1>4, TimeTypes DEF Submit, RequestRows, RequestStatus
  <2>2. Loaded(h)'
    BY <1>4 DEF Submit, Loaded, Idle
  <2> QED
    BY <1>4, <2>1, <2>2, SaneFrame DEF Submit
<1>5. ASSUME NEW h \in Handlers, NEW r \in Requests,
             Review(h, r, "approve") \/ Review(h, r, "reject")
      PROVE  Sane'
  <2>1. /\ op' \in [Handlers -> Ops] /\ \A g \in Handlers \ {h} : op'[g] = op[g]
        /\ op'[h].step \in {"approve", "reject"} /\ op'[h].req = r
    BY <1>5, ReviewEffect DEF Review
  <2>2. Loaded(h)'
    BY <1>5, <2>1 DEF Review, Loaded
  <2> QED
    BY <1>5, <2>1, <2>2, SaneFrame DEF Review
<1>6. ASSUME NEW h \in Handlers, ApproveCreates(h) PROVE Sane'
  <2>1. op[h].req \in Requests /\ Loaded(h)
    BY <1>6, Carried DEF ApproveCreates, Reviews, Sane
  <2>2. req[op[h].req].time \in Times /\ req[op[h].req].time <= now
    BY <1>6, <2>1 DEF ApproveCreates, Loaded, Dated
  <2>3. rec' \in Records /\ (rec'.in # NoTime => rec'.in <= now)
    BY <1>6, <2>2, CreatedType, TimeTypes DEF Sources, ApproveCreates
  <2>4. /\ op' \in [Handlers -> Ops] /\ \A g \in Handlers \ {h} : op'[g] = op[g]
        /\ op'[h].step = "idle"
    BY <1>6, IdleEffect DEF ApproveCreates
  <2>5. Loaded(h)'
    BY <2>4 DEF Loaded
  <2> QED
    BY <1>6, <2>3, <2>4, <2>5, SaneFrame DEF ApproveCreates
<1>7. ASSUME NEW h \in Handlers, ApproveFound(h) PROVE Sane'
  <2>1. op[h].req \in Requests /\ Loaded(h)
    BY <1>7, Carried DEF ApproveFound, Reviews, Sane
  <2>2. /\ req[op[h].req].time \in Times /\ req[op[h].req].time <= now
        /\ req[op[h].req].status # "none"
    BY <1>7, <2>1 DEF ApproveFound, Loaded, Dated
  <2>3. CASE Do(h, Idle) /\ UNCHANGED clean
    <3>1. /\ op' \in [Handlers -> Ops] /\ \A g \in Handlers \ {h} : op'[g] = op[g]
          /\ op'[h].step = "idle"
      BY <2>3, IdleEffect
    <3>2. Loaded(h)'
      BY <3>1 DEF Loaded
    <3> QED
      BY <1>7, <3>1, <3>2, SaneFrame DEF ApproveFound
  <2>4. ASSUME NEW column \in {"in", "out"}, Allowed(op[h].req),
               column = IF Kind[op[h].req] = "CHECK_IN" THEN "in" ELSE "out",
               ToWrite(h, column, req[op[h].req].time, op[h].req)
        PROVE  Sane'
    <3>1. /\ op' \in [Handlers -> Ops] /\ \A g \in Handlers \ {h} : op'[g] = op[g]
          /\ op'[h].step = column /\ op'[h].time = req[op[h].req].time
          /\ op'[h].req = op[h].req /\ op'[h].in = rec.in
      BY <2>1, <2>2, <2>4, ToWriteEffect
    <3>2. Loaded(h)'
      BY <1>7, <2>1, <2>2, <2>4, <3>1, TimeTypes DEF ApproveFound, Allowed, Loaded
    <3> QED
      BY <1>7, <3>1, <3>2, SaneFrame DEF ApproveFound
  <2> QED
    BY <1>7, <2>3, <2>4 DEF ApproveFound
<1>8. ASSUME NEW h \in Handlers, Decide(h) \/ Strip(h) \/ Purge(h) PROVE Sane'
  <2>1. /\ req' \in [Requests -> RequestRows]
        /\ \A r \in Requests :
             /\ req'[r].time = req[r].time
             /\ req[r].status # "none" => req'[r].status # "none"
             /\ req[r].status = "none" => req'[r].status = "none"
    <3>1. ASSUME NEW r, req' = [req EXCEPT ![r].photo = FALSE]
          PROVE  /\ req' \in [Requests -> RequestRows]
                 /\ \A q \in Requests : req'[q].time = req[q].time /\ req'[q].status = req[q].status
      BY <3>1 DEF RequestRows
    <3>2. CASE Decide(h)
      <4>1. op[h].req \in Requests /\ req[op[h].req].status # "none"
        BY <3>2, Carried DEF Decide, Reviews, Sane, Loaded
      <4> QED
        BY <3>2, <4>1 DEF Decide, RequestRows, RequestStatus
    <3> QED
      BY <1>8, <3>1, <3>2 DEF Strip, Purge
  <2>2. /\ op' \in [Handlers -> Ops] /\ \A g \in Handlers \ {h} : op'[g] = op[g]
        /\ \/ op'[h].step \in {"idle", "purge"}
           \/ op'[h].step = "strip" /\ op[h].step \in {"approved", "reject"} /\ op'[h].req = op[h].req
    <3>1. CASE Strip(h)
      BY <3>1, IdleEffect DEF Strip
    <3>2. CASE Decide(h)
      <4>1. op[h].req \in Requests /\ op[h].step \in {"approved", "reject"}
        BY <3>2, Carried DEF Decide, Reviews
      <4> QED
        BY <3>2, <4>1, ReviewEffect DEF Decide
    <3>3. CASE Purge(h)
      <4>1. PICK r \in op[h].ids :
              Do(h, IF op[h].ids = {r} THEN Idle ELSE [op[h] EXCEPT !.ids = @ \ {r}])
        BY <3>3 DEF Purge
      <4>2. op[h] \in [step : {"purge"}, ids : SUBSET Requests]
        BY <3>3, Carried DEF Purge
      <4>3. [op[h] EXCEPT !.ids = @ \ {r}] = [step |-> "purge", ids |-> op[h].ids \ {r}]
        BY <4>2
      <4>4. op[h].ids \ {r} \in SUBSET Requests
        BY <4>2
      <4> QED
        BY <4>1, <4>3, <4>4, IdleEffect, PurgeEffect
    <3> QED
      BY <1>8, <3>1, <3>2, <3>3
  <2>3. Loaded(h)'
    <3>1. CASE op'[h].step \in {"idle", "purge"}
      BY <3>1 DEF Loaded
    <3>2. CASE op'[h].step = "strip" /\ op[h].step \in {"approved", "reject"} /\ op'[h].req = op[h].req
      <4>1. op[h].req \in Requests /\ req[op[h].req].status # "none"
        BY <3>2, Carried DEF Reviews, Sane, Loaded
      <4> QED
        BY <2>1, <3>2, <4>1 DEF Loaded
    <3> QED
      BY <2>2, <3>1, <3>2
  <2> QED
    BY <1>8, <2>1, <2>2, <2>3, SaneFrame DEF Decide, Strip, Purge
<1>9. ASSUME NEW h \in Handlers, StartPurge(h) PROVE Sane'
  <2>1. Expired \in SUBSET Requests
    BY DEF Expired
  <2>2. /\ op' \in [Handlers -> Ops] /\ \A g \in Handlers \ {h} : op'[g] = op[g]
        /\ op'[h].step = "purge"
    BY <1>9, <2>1, PurgeEffect DEF StartPurge
  <2>3. Loaded(h)'
    BY <2>2 DEF Loaded
  <2> QED
    BY <1>9, <2>2, <2>3, SaneFrame DEF StartPurge
<1>10. ASSUME NEW h \in Handlers, Die(h) PROVE Sane'
  <2>1. /\ op' \in [Handlers -> Ops] /\ \A g \in Handlers \ {h} : op'[g] = op[g]
        /\ op'[h].step = "idle"
    BY <1>10, IdleEffect DEF Die
  <2>2. Loaded(h)'
    BY <2>1 DEF Loaded
  <2>3. deaths' \in 0 .. MaxDeaths /\ changes' \in 0 .. MaxChanges
    BY <1>10, RequestsAssumption DEF Die
  <2> QED
    BY <1>10, <2>1, <2>2, <2>3, SaneFrame DEF Die
<1>11. ASSUME HrEdit PROVE Sane'
  <2>1. rec' \in Records /\ (rec'.in # NoTime => rec'.in <= now) /\ clean' \in BOOLEAN
    <3>1. ASSUME NEW in \in {NoTime, now}, NEW out \in {NoTime, now}, NEW source \in Sources,
                 rec' = Created(in, out, NoTime, source)
          PROVE  rec' \in Records /\ (rec'.in # NoTime => rec'.in <= now)
      BY <3>1, CreatedType, TimeTypes DEF Sources, Times
    <3>2. ASSUME HrUpdate PROVE rec' \in Records /\ (rec'.in # NoTime => rec'.in <= now)
      <4>1. PICK in \in {NoTime, rec.in, now}, out \in {NoTime, rec.out, now}, source \in Sources :
              rec' = [rec EXCEPT !.in = in, !.out = out, !.source = source]
        BY <3>2 DEF HrUpdate
      <4>2. in \in NullTimes /\ out \in NullTimes /\ (in # NoTime => in <= now)
        BY TimeTypes DEF Records, Times
      <4> QED
        BY <4>1, <4>2 DEF Records
    <3>3. ASSUME rec' = NoRow(rec.id)
          PROVE  rec' \in Records /\ (rec'.in # NoTime => rec'.in <= now)
      BY <3>3, NoRowType DEF Records
    <3>4. clean' \in BOOLEAN
      BY <1>11 DEF HrEdit
    <3> QED
      BY <1>11, <3>1, <3>2, <3>3, <3>4 DEF HrEdit
  <2>2. TypeOK'
    BY <1>11, <2>1, RequestsAssumption DEF HrEdit, Sane, TypeOK
  <2> QED
    BY <1>11, <2>1, <2>2 DEF HrEdit, Sane, Dated, Loaded
<1>12. ASSUME Tick PROVE Sane'
  <2>1. now' \in Times /\ \A t \in Times : t <= now => t <= now'
    BY <1>12, RequestsAssumption DEF Tick, Times
  <2>2. TypeOK' /\ Dated'
    BY <1>12, <2>1 DEF Tick, Sane, TypeOK, Dated
  <2>3. ASSUME NEW h \in Handlers PROVE Loaded(h)'
    <3>1. /\ Loaded(h) /\ (op[h].step \in {"in", "out"} => op[h].time \in Times)
          /\ op[h].step = "day" /\ op[h].in # NoTime => op[h].in \in Times
      BY Carried, TimeTypes DEF Sane, Writes, Days
    <3> QED
      BY <1>12, <2>1, <3>1 DEF Tick, Loaded
  <2> QED
    BY <2>2, <2>3 DEF Sane
<1>13. ASSUME NEW h \in Handlers, NEW overwrite \in BOOLEAN, ReadDay(h, overwrite) PROVE Sane'
  <2>1. PICK in \in Punches \cup {rec.in}, out \in Punches \cup {rec.out} :
          Do(h, DayOf(in, out)) /\ clean' = (clean /\ Adds(in, out))
    BY <1>13 DEF ReadDay
  <2>2. in \in NullTimes /\ out \in NullTimes
    BY FoundTimes
  <2>3. /\ op' \in [Handlers -> Ops] /\ \A g \in Handlers \ {h} : op'[g] = op[g]
        /\ op'[h].step = "day" /\ op'[h].in = in /\ op'[h].out = out
        /\ op'[h].total = DayMinutes(in, out)
    BY <2>1, <2>2, DayEffect
  <2>4. in # NoTime => in <= now
    BY DEF Punches
  <2>5. UNCHANGED <<now, rec, req, edits, deaths>> /\ changes' \in 0 .. MaxChanges /\ clean' \in BOOLEAN
    BY <1>13, <2>1, RequestsAssumption DEF ReadDay
  <2>6. Loaded(h)'
    BY <2>3, <2>4, <2>5 DEF Loaded, DayMinutes
  <2> QED
    BY <2>3, <2>5, <2>6, SaneFrame
<1>14. ASSUME NEW h \in Handlers, WriteDay(h) PROVE Sane'
  <2>1. op[h] \in Days /\ Loaded(h)
    BY <1>14, Carried DEF WriteDay, Sane
  <2>2. rec' \in Records /\ (rec'.in # NoTime => rec'.in <= now)
    <3>1. CASE rec' = rec
      BY <3>1
    <3>2. CASE rec' = Created(op[h].in, op[h].out, op[h].total, "DEVICE")
      BY <1>14, <2>1, <3>2, CreatedType DEF Sources, WriteDay, Days, Loaded
    <3>3. CASE rec' = [rec EXCEPT !.in = IF "in" \in op[h].columns THEN op[h].in ELSE @,
                                  !.out = IF "out" \in op[h].columns THEN op[h].out ELSE @,
                                  !.total = IF "total" \in op[h].columns THEN op[h].total ELSE @,
                                  !.source = IF op[h].source # "DEVICE" THEN "DEVICE" ELSE @]
      <4>1. /\ rec'.in = IF "in" \in op[h].columns THEN op[h].in ELSE rec.in
            /\ rec' \in Records
        BY <2>1, <3>3 DEF Days, Records, Sources
      <4> QED
        BY <1>14, <2>1, <4>1 DEF WriteDay, Loaded
    <3> QED
      BY <1>14, <3>1, <3>2, <3>3 DEF WriteDay
  <2>3. /\ op' \in [Handlers -> Ops] /\ \A g \in Handlers \ {h} : op'[g] = op[g]
        /\ op'[h].step = "idle"
    BY <1>14, IdleEffect DEF WriteDay
  <2>4. Loaded(h)'
    BY <2>3 DEF Loaded
  <2> QED
    BY <1>14, <2>2, <2>3, <2>4, SaneFrame DEF WriteDay
<1>15. CASE UNCHANGED vars
  BY <1>15 DEF vars, Sane, TypeOK, Dated, Loaded
<1> QED
  BY <1>1, <1>2, <1>3, <1>4, <1>5, <1>6, <1>7, <1>8, <1>9, <1>10, <1>11, <1>12, <1>13, <1>14, <1>15
     DEF Next

\* Every variable keeps its type; in particular no negative minutes are stored.
THEOREM TypeCorrect == Spec => []TypeOK
<1>1. Sane => TypeOK
  BY DEF Sane
<1> QED
  BY <1>1, SaneInit, SaneStep, PTL DEF Spec

-----------------------------------------------------------------------------
(* Photos.                                                                 *)

\* A step that decides nothing and strips nothing.
LEMMA PhotoFrame ==
  ASSUME BeingStripped, NEW h \in Handlers, op[h].step # "strip",
         \A g \in Handlers \ {h} : op'[g] = op[g], UNCHANGED <<req, deaths>>
  PROVE  BeingStripped'
BY DEF BeingStripped

LEMMA PhotoStep == Sane /\ BeingStripped /\ [Next]_vars => BeingStripped'
<1> SUFFICES ASSUME Sane, BeingStripped, [Next]_vars PROVE BeingStripped'
  OBVIOUS
<1> TypeOK /\ req \in [Requests -> RequestRows] /\ op \in [Handlers -> Ops]
  BY DEF Sane, TypeOK
<1>1. ASSUME NEW h \in Handlers,
             \/ CheckIn(h) \/ CheckOut(h) \/ WriteIn(h) \/ WriteOut(h)
             \/ \E r \in Requests : Review(h, r, "approve") \/ Review(h, r, "reject")
             \/ ApproveCreates(h) \/ ApproveFound(h) \/ StartPurge(h) \/ WriteDay(h)
             \/ \E overwrite \in BOOLEAN : ReadDay(h, overwrite)
      PROVE  BeingStripped'
  <2>1. UNCHANGED <<req, deaths>> /\ op[h].step # "strip"
    <3>1. CASE CheckIn(h) \/ CheckOut(h) \/ StartPurge(h)
      BY <3>1 DEF CheckIn, CheckOut, StartPurge, Idle
    <3>2. CASE WriteIn(h) \/ WriteOut(h)
      BY <3>2 DEF WriteIn, WriteOut
    <3>3. ASSUME NEW r, NEW step, Review(h, r, step)
          PROVE  UNCHANGED <<req, deaths>> /\ op[h].step # "strip"
      BY <3>3 DEF Review, Idle
    <3>4. CASE ApproveCreates(h) \/ ApproveFound(h) \/ WriteDay(h)
      BY <3>4 DEF ApproveCreates, ApproveFound, WriteDay
    <3>5. ASSUME NEW overwrite, ReadDay(h, overwrite)
          PROVE  UNCHANGED <<req, deaths>> /\ op[h].step # "strip"
      BY <3>5 DEF ReadDay, Idle
    <3> QED
      BY <1>1, <3>1, <3>2, <3>3, <3>4, <3>5
  <2>2. \A g \in Handlers \ {h} : op'[g] = op[g]
    BY <1>1 DEF CheckIn, CheckOut, WriteIn, WriteOut, Review, ApproveCreates, ApproveFound,
                StartPurge, ReadDay, WriteDay, ToWrite, Do
  <2> QED
    BY <2>1, <2>2, PhotoFrame
<1>2. ASSUME NEW h \in Handlers, NEW r \in Requests, Submit(h, r) PROVE BeingStripped'
  BY <1>2 DEF Submit, BeingStripped, RequestRows
<1>3. ASSUME NEW h \in Handlers, Decide(h) PROVE BeingStripped'
  <2>1. op[h].req \in Requests /\ op[h].step \in {"approved", "reject"}
    BY <1>3, Carried DEF Decide, Reviews
  <2>2. /\ \A g \in Handlers \ {h} : op'[g] = op[g]
        /\ op'[h].step = "strip" /\ op'[h].req = op[h].req
    BY <1>3, <2>1, ReviewEffect DEF Decide
  <2>3. /\ \A r \in Requests \ {op[h].req} : req'[r] = req[r]
        /\ UNCHANGED deaths
    BY <1>3 DEF Decide
  <2> QED
    BY <2>1, <2>2, <2>3 DEF BeingStripped
<1>4. ASSUME NEW h \in Handlers, Strip(h) PROVE BeingStripped'
  <2>1. op[h].req \in Requests /\ \A g \in Handlers \ {h} : op'[g] = op[g]
    BY <1>4, IdleEffect, Carried DEF Strip, Reviews
  <2>2. /\ \A r \in Requests \ {op[h].req} : req'[r] = req[r]
        /\ ~req'[op[h].req].photo /\ UNCHANGED deaths
    BY <1>4, <2>1 DEF Strip, RequestRows
  <2> QED
    BY <2>1, <2>2 DEF BeingStripped
<1>5. ASSUME NEW h \in Handlers, Purge(h) PROVE BeingStripped'
  <2>1. \A g \in Handlers \ {h} : op'[g] = op[g]
    BY <1>5 DEF Purge, Do
  <2>2. /\ \A r \in Requests : req'[r].status = req[r].status /\ (req'[r].photo => req[r].photo)
        /\ UNCHANGED deaths /\ op[h].step # "strip"
    BY <1>5 DEF Purge, RequestRows
  <2> QED
    BY <2>1, <2>2 DEF BeingStripped
<1>6. ASSUME NEW h \in Handlers, Die(h) PROVE BeingStripped'
  BY <1>6, RequestsAssumption DEF Die, BeingStripped, Sane, TypeOK
<1>7. CASE HrEdit \/ Tick \/ UNCHANGED vars
  BY <1>7 DEF HrEdit, Tick, vars, BeingStripped
<1> QED
  BY <1>1, <1>2, <1>3, <1>4, <1>5, <1>6, <1>7 DEF Next

\* Unless a handler died, no decided request keeps its photo once no review of
\* it is under way.
THEOREM PhotosGone == Spec => []PhotoGone
<1>1. Init => BeingStripped
  BY DEF Init, BeingStripped
<1>2. BeingStripped => PhotoGone
  BY DEF BeingStripped, PhotoGone, InReview
<1> QED
  BY <1>1, <1>2, SaneInit, SaneStep, PhotoStep, PTL DEF Spec

-----------------------------------------------------------------------------
(* The record.  The history variable clean goes from TRUE to FALSE only.   *)

LEMMA RecordInit == Init => Undisturbed
<1> SUFFICES ASSUME Init PROVE Undisturbed
  OBVIOUS
<1>1. \A h \in Handlers : op[h].step = "idle"
  BY DEF Init, Idle
<1>2. RowKept
  BY NoRowType DEF Init, RowKept
<1> QED
  BY <1>1, <1>2 DEF Init, Undisturbed, WriterKept, ToPut

\* A time that is on the record stays there.
Grows ==
  /\ rec.exists => rec'.exists /\ rec'.id = rec.id
  /\ rec.in # NoTime => rec'.in = rec.in
  /\ rec.out # NoTime => rec'.out = rec.out

\* What handler g is about to write, or rests on, is left.
Spared(g) ==
  /\ ToPut(g, "in") => rec'.in = rec.in
  /\ ToPut(g, "out") => rec'.in = rec.in /\ rec'.out = rec.out

LEMMA NoWriters ==
  ASSUME Undisturbed, clean, ~rec.exists, NEW g \in Handlers, NEW c \in {"in", "out"}
  PROVE  ~ToPut(g, c)
<1>1. WriterKept(g) /\ (op[g].step = "day" => RunKept(g))
  BY DEF Undisturbed
<1> QED
  BY <1>1 DEF WriterKept, RunKept, ToPut

LEMMA OutNeedsIn ==
  ASSUME Sane, Undisturbed, clean, NEW g \in Handlers, ToPut(g, "out"), ~ToPut(g, "in")
  PROVE  rec.in # NoTime
<1>1. WriterKept(g) /\ (op[g].step = "day" => RunKept(g)) /\ Loaded(g)
  BY DEF Undisturbed, Sane
<1>2. CASE op[g].step = "out"
  BY <1>1, <1>2, TimeTypes DEF WriterKept, Loaded
<1>3. CASE op[g].step = "day" /\ ~op[g].new /\ "out" \in op[g].columns
  BY <1>1, <1>3 DEF RunKept, ToPut
<1> QED
  BY <1>2, <1>3 DEF ToPut

LEMMA StaysOnRecord ==
  ASSUME Sane, Grows, NEW r \in Requests, req[r].status # "none", OnRecord(r), req'[r].time = req[r].time
  PROVE  OnRecord(r)'
<1>1. req[r].time # NoTime
  BY TimeTypes DEF Sane, Dated
<1> QED
  BY <1>1 DEF Grows, OnRecord

LEMMA OthersKept ==
  ASSUME Sane, Undisturbed, clean, NEW g \in Handlers, op'[g] = op[g], Grows, Spared(g),
         \A r \in Requests : req[r].status # "none" => req'[r].time = req[r].time
  PROVE  WriterKept(g)' /\ (op'[g].step = "day" => RunKept(g)')
<1>1. WriterKept(g) /\ (op[g].step = "day" => RunKept(g)) /\ Loaded(g) /\ op[g] \in Ops
  BY DEF Undisturbed, Sane, TypeOK
<1>2. op[g].step = "approved" => OnRecord(op[g].req)'
  <2> SUFFICES ASSUME op[g].step = "approved" PROVE OnRecord(op[g].req)'
    OBVIOUS
  <2>1. op[g].req \in Requests
    BY <1>1, Carried DEF Reviews
  <2>2. req[op[g].req].status # "none" /\ OnRecord(op[g].req)
    BY <1>1 DEF WriterKept, Loaded
  <2>3. OnRecord(op[g].req)' <=> rec'.exists /\ req'[op[g].req].time = IF Kind[op[g].req] = "CHECK_IN" THEN rec'.in ELSE rec'.out
    BY DEF OnRecord
  <2>4. req[op[g].req].time # NoTime /\ req'[op[g].req].time = req[op[g].req].time
    BY <2>1, <2>2, TimeTypes DEF Sane, Dated
  <2> QED
    BY <2>2, <2>4 DEF Grows, OnRecord
<1>3. WriterKept(g)'
  BY <1>1, <1>2 DEF WriterKept, Grows, Spared, ToPut, OnRecord
<1>4. op'[g].step = "day" => RunKept(g)'
  <2> SUFFICES ASSUME op[g].step = "day" PROVE RunKept(g)'
    OBVIOUS
  <2>1. RunKept(g) /\ op[g] \in Days
    BY <1>1, Carried
  <2>2. CASE op[g].new
    BY <2>1, <2>2 DEF RunKept
  <2>3. CASE ~op[g].new
    <3>1. op[g].columns # {} => rec'.exists /\ rec'.id = op[g].id
      BY <2>1, <2>3 DEF RunKept, Grows
    <3>2. "in" \in op[g].columns => rec'.in = NoTime
      BY <2>1, <2>3 DEF RunKept, Spared, ToPut
    <3>3. "out" \in op[g].columns => rec'.out = NoTime /\ rec'.in = rec.in
      BY <2>1, <2>3 DEF RunKept, Spared, ToPut
    <3> QED
      BY <2>1, <2>3, <3>1, <3>2, <3>3 DEF RunKept
  <2> QED
    BY <2>2, <2>3
<1> QED
  BY <1>3, <1>4

\* A step of handler h.
LEMMA Rebuild ==
  ASSUME Sane, Undisturbed, clean, NEW h \in Handlers, \A g \in Handlers \ {h} : op'[g] = op[g],
         Grows, RowKept', \A g \in Handlers \ {h} : Spared(g),
         WriterKept(h)', op'[h].step = "day" => RunKept(h)',
         \A g \in Handlers \ {h}, c \in {"in", "out"} : ToPut(h, c)' => ~ToPut(g, c),
         \A r \in Requests : req[r].status # "none" => req'[r].time = req[r].time,
         \A r \in Requests :
           req'[r].status = "APPROVED" => req[r].status = "APPROVED" \/ OnRecord(r)'
  PROVE  Undisturbed'
<1>1. ASSUME NEW g \in Handlers PROVE WriterKept(g)' /\ (op'[g].step = "day" => RunKept(g)')
  <2>1. CASE g = h
    BY <2>1
  <2>2. CASE g # h
    BY <2>2, OthersKept
  <2> QED
    BY <2>1, <2>2
<1>2. ASSUME NEW f \in Handlers, NEW g \in Handlers, NEW c \in {"in", "out"},
             ToPut(f, c)', ToPut(g, c)'
      PROVE  f = g
  <2>1. \A k \in Handlers \ {h} : ToPut(k, c)' => ToPut(k, c)
    BY DEF ToPut
  <2> QED
    BY <1>2, <2>1 DEF Undisturbed
<1>3. ASSUME NEW r \in Requests, req'[r].status = "APPROVED" PROVE OnRecord(r)'
  <2>1. CASE req[r].status = "APPROVED"
    BY <2>1, StaysOnRecord DEF Undisturbed
  <2> QED
    BY <1>3, <2>1
<1> QED
  BY <1>1, <1>2, <1>3 DEF Undisturbed

\* A step that writes neither the record nor a request, and begins no write.
LEMMA RecordFrame ==
  ASSUME Sane, Undisturbed, NEW h \in Handlers, \A g \in Handlers \ {h} : op'[g] = op[g],
         op'[h].step \notin {"in", "out", "approved", "day"}, UNCHANGED rec, clean' => clean,
         \A r \in Requests :
           /\ req[r].status # "none" => req'[r].time = req[r].time
           /\ req'[r].status = "APPROVED" => req[r].status = "APPROVED"
  PROVE  Undisturbed'
<1> SUFFICES ASSUME clean', clean PROVE Undisturbed'
  BY DEF Undisturbed
<1>1. Grows /\ RowKept' /\ \A g \in Handlers : Spared(g)
  BY DEF Undisturbed, Grows, RowKept, Spared
<1>2. WriterKept(h)' /\ \A c \in {"in", "out"} : ~ToPut(h, c)'
  BY DEF WriterKept, ToPut
<1> QED
  BY <1>1, <1>2, Rebuild

\* What a step does to an undisturbed record: nothing, or it enters the first
\* time, or the check-out with the minutes, or both together.
SameTimes == rec'.in = rec.in /\ rec'.out = rec.out /\ rec'.total = rec.total

Empty == rec.in = NoTime /\ rec.out = NoTime /\ rec.total = NoTime

FirstIn == Empty /\ rec'.in \in Times /\ rec'.out = NoTime /\ rec'.total = NoTime

ThenOut ==
  /\ rec.in # NoTime /\ rec.out = NoTime /\ rec'.in = rec.in /\ rec'.out \in Times
  /\ rec'.total = IF rec'.out < rec.in THEN 0 ELSE rec'.out - rec.in

Both ==
  /\ Empty /\ rec'.in \in Times /\ rec'.out \in Times /\ rec'.in < rec'.out
  /\ rec'.total = rec'.out - rec'.in

\* A run of the processor that adds to the record.
LEMMA RunAdds ==
  ASSUME Sane, Undisturbed, clean, NEW h \in Handlers, WriteDay(h)
  PROVE  /\ SameTimes \/ FirstIn \/ ThenOut \/ Both
         /\ rec'.exists \/ rec' = rec
         /\ rec.exists => rec'.exists /\ rec'.id = rec.id
         /\ rec'.in # rec.in => ToPut(h, "in") \/ ~rec.exists
         /\ rec'.out # rec.out => ToPut(h, "out") \/ ~rec.exists
<1> DEFINE o == op[h]
<1>1. o \in Days /\ Loaded(h) /\ RunKept(h) /\ o.step = "day" /\ RowKept /\ TypeOK /\ rec \in Records
  BY Carried DEF WriteDay, Sane, TypeOK, Undisturbed
<1>2. /\ o.in \in NullTimes /\ o.out \in NullTimes /\ o.total \in NullTimes /\ o.new \in BOOLEAN
      /\ o.total = DayMinutes(o.in, o.out)
  BY <1>1 DEF Days, Loaded
<1>3. o.in = NoTime \/ o.out = NoTime => o.total = NoTime
  BY <1>2, MinutesType
<1>4. o.in # NoTime /\ o.out # NoTime /\ o.in < o.out =>
        o.in \in Times /\ o.out \in Times /\ o.total = o.out - o.in
  BY <1>2, MinutesType, TimeTypes
<1>5. CASE rec' = rec
  BY <1>5 DEF SameTimes
<1>6. CASE o.new /\ ~rec.exists /\ rec' = Created(o.in, o.out, o.total, "DEVICE")
  <2>1. rec'.exists /\ rec'.in = o.in /\ rec'.out = o.out /\ rec'.total = o.total
    BY <1>1, <1>2, <1>6, CreatedType DEF Sources
  <2>2. Empty
    BY <1>1, <1>6 DEF RowKept, Empty
  <2>3. CASE "out" \in o.columns
    BY <1>1, <1>4, <1>6, <2>1, <2>2, <2>3 DEF RunKept, Both
  <2>4. CASE "out" \notin o.columns /\ "in" \in o.columns
    BY <1>1, <1>2, <1>6, <2>1, <2>2, <2>4, TimeTypes DEF RunKept, FirstIn
  <2>5. CASE "out" \notin o.columns /\ "in" \notin o.columns
    BY <1>1, <1>6, <2>1, <2>2, <2>5 DEF RunKept, SameTimes, Empty
  <2> QED
    BY <1>6, <2>1, <2>3, <2>4, <2>5
<1>7. CASE /\ ~o.new /\ rec.exists /\ rec.id = o.id
           /\ rec' = [rec EXCEPT !.in = IF "in" \in o.columns THEN o.in ELSE @,
                                 !.out = IF "out" \in o.columns THEN o.out ELSE @,
                                 !.total = IF "total" \in o.columns THEN o.total ELSE @,
                                 !.source = IF o.source # "DEVICE" THEN "DEVICE" ELSE @]
  <2>1. /\ rec'.exists /\ rec'.id = rec.id
        /\ rec'.in = IF "in" \in o.columns THEN o.in ELSE rec.in
        /\ rec'.out = IF "out" \in o.columns THEN o.out ELSE rec.out
        /\ rec'.total = IF "total" \in o.columns THEN o.total ELSE rec.total
    BY <1>1, <1>7 DEF Records
  <2>2. \A c \in {"in", "out"} : c \in o.columns => ToPut(h, c)
    BY <1>1, <1>7 DEF ToPut
  <2>3. CASE "out" \in o.columns /\ "in" \in o.columns
    <3>1. Empty
      BY <1>1, <1>7, <2>3 DEF RunKept, RowKept, Empty
    <3> QED
      BY <1>1, <1>4, <2>1, <2>2, <2>3, <3>1 DEF RunKept, Both
  <2>4. CASE "out" \in o.columns /\ "in" \notin o.columns
    <3>1. rec.in = o.in /\ rec.out = NoTime /\ o.in # NoTime /\ o.out # NoTime /\ o.in < o.out
          /\ "total" \in o.columns
      BY <1>1, <1>7, <2>4 DEF RunKept
    <3>2. rec'.in = rec.in /\ rec'.out = o.out /\ rec'.total = o.out - o.in
      BY <1>4, <2>1, <2>4, <3>1
    <3>3. ~(o.out < o.in)
      BY <1>4, <3>1 DEF Times
    <3> QED
      BY <1>4, <2>1, <2>2, <3>1, <3>2, <3>3, <2>4 DEF ThenOut
  <2>5. CASE "out" \notin o.columns /\ "in" \in o.columns
    <3>1. Empty /\ o.in # NoTime /\ "total" \notin o.columns
      BY <1>1, <1>7, <2>5 DEF RunKept, RowKept, Empty
    <3> QED
      BY <1>2, <2>1, <2>2, <2>5, <3>1, TimeTypes DEF FirstIn, Empty
  <2>6. CASE "out" \notin o.columns /\ "in" \notin o.columns
    BY <1>1, <2>1, <2>6 DEF RunKept, SameTimes
  <2> QED
    BY <2>3, <2>4, <2>5, <2>6
<1> QED
  BY <1>5, <1>6, <1>7 DEF WriteDay

LEMMA RecordStep == Sane /\ Sane' /\ Undisturbed /\ [Next]_vars => Undisturbed'
<1> SUFFICES ASSUME Sane, Sane', Undisturbed, [Next]_vars PROVE Undisturbed'
  OBVIOUS
<1> /\ TypeOK /\ rec \in Records /\ req \in [Requests -> RequestRows] /\ op \in [Handlers -> Ops]
  BY DEF Sane, TypeOK
<1>a. ASSUME NEW g \in Handlers
      PROVE  /\ op[g].step \in {"in", "out"} => op[g] \in Writes
             /\ op[g].step \in {"approve", "approved", "reject", "strip"} => op[g] \in Reviews
  BY Carried
<1>b. ASSUME clean
      PROVE  /\ RowKept /\ \A g \in Handlers : WriterKept(g)
             /\ \A g, k \in Handlers, c \in {"in", "out"} : ToPut(g, c) /\ ToPut(k, c) => g = k
  BY <1>b DEF Undisturbed
<1>c. ASSUME UNCHANGED rec, clean PROVE Grows /\ RowKept' /\ \A g \in Handlers : Spared(g)
  BY <1>c, <1>b DEF Grows, RowKept, Spared
\* A first row, of a check-in.
<1>d. ASSUME clean, ~rec.exists, rec'.exists, rec'.in # NoTime, rec'.out = NoTime, rec'.total = NoTime
      PROVE  Grows /\ RowKept' /\ \A g \in Handlers : Spared(g)
  BY <1>b, <1>d, NoWriters DEF Grows, RowKept, Spared
<1>1. ASSUME NEW h \in Handlers, CheckIn(h) PROVE Undisturbed'
  <2> SUFFICES ASSUME clean', clean PROVE Undisturbed'
    BY <1>1 DEF Undisturbed, CheckIn
  <2>1. CASE ~rec.exists /\ rec' = Created(now, NoTime, NoTime, "MANUAL") /\ UNCHANGED op
    <3>1. rec'.exists /\ rec'.in = now /\ rec'.out = NoTime /\ rec'.total = NoTime /\ now # NoTime
      BY <2>1, CreatedType, TimeTypes DEF TypeOK, Sources
    <3>2. UNCHANGED <<op, req>> /\ ~rec.exists /\ op'[h].step = "idle"
      BY <1>1, <2>1 DEF CheckIn, Idle
    <3>3. WriterKept(h)' /\ \A c \in {"in", "out"} : ~ToPut(h, c)'
      BY <3>2 DEF WriterKept, ToPut
    <3> QED
      BY <1>d, <3>1, <3>2, <3>3, Rebuild
  <2>2. CASE rec.exists /\ rec.in = NoTime /\ ToWrite(h, "in", now, NoTime) /\ UNCHANGED rec
    <3>1. /\ \A g \in Handlers \ {h} : op'[g] = op[g]
          /\ op'[h].step = "in" /\ op'[h].id = rec.id
      BY <2>2, ToWriteEffect DEF TypeOK
    <3>2. \A g \in Handlers : ~ToPut(g, "in")
      BY <1>1 DEF CheckIn, Writing, ToPut
    <3>3. UNCHANGED req
      BY <1>1 DEF CheckIn
    <3>4. WriterKept(h)' /\ ~ToPut(h, "out")'
      BY <2>2, <3>1 DEF WriterKept, ToPut
    <3> QED
      BY <1>c, <2>2, <3>1, <3>2, <3>3, <3>4, Rebuild
  <2> QED
    BY <1>1, <2>1, <2>2 DEF CheckIn
<1>2. ASSUME NEW h \in Handlers, CheckOut(h) PROVE Undisturbed'
  <2> SUFFICES ASSUME clean', clean PROVE Undisturbed'
    BY <1>2 DEF Undisturbed, CheckOut
  <2>1. /\ \A g \in Handlers \ {h} : op'[g] = op[g]
        /\ op'[h].step = "out" /\ op'[h].id = rec.id /\ op'[h].in = rec.in
    BY <1>2, ToWriteEffect DEF CheckOut, TypeOK
  <2>2. \A g \in Handlers : ~ToPut(g, "out")
    BY <1>2 DEF CheckOut, Writing, ToPut
  <2>3. UNCHANGED <<rec, req>> /\ rec.exists /\ rec.out = NoTime
    BY <1>2 DEF CheckOut
  <2>4. WriterKept(h)' /\ ~ToPut(h, "in")'
    BY <2>1, <2>3 DEF WriterKept, ToPut
  <2> QED
    BY <1>c, <2>1, <2>2, <2>3, <2>4, Rebuild
<1>3. ASSUME NEW h \in Handlers, WriteIn(h) PROVE Undisturbed'
  <2> SUFFICES ASSUME clean', clean PROVE Undisturbed'
    BY <1>3 DEF Undisturbed, WriteIn
  <2>1. op[h] \in Writes /\ op[h].step = "in" /\ rec.exists /\ rec.id = op[h].id /\ rec.in = NoTime
        /\ rec.out = NoTime /\ rec.total = NoTime
    BY <1>3, <1>a, <1>b DEF WriteIn, WriterKept, RowKept
  <2>2. /\ rec'.in = op[h].time /\ rec'.exists /\ rec'.id = rec.id /\ rec'.out = NoTime
        /\ rec'.total = NoTime /\ op[h].time # NoTime /\ UNCHANGED req
    BY <1>3, <2>1, TimeTypes DEF WriteIn, Records, Writes
  <2>3. /\ \A g \in Handlers \ {h} : op'[g] = op[g]
        /\ \/ op'[h].step = "idle"
           \/ op[h].req \in Requests /\ op'[h].step = "approved" /\ op'[h].req = op[h].req
    BY <1>3, AfterWriteEffect DEF WriteIn
  <2>4. op'[h].step = "approved" => OnRecord(op[h].req)'
    <3> SUFFICES ASSUME op'[h].step = "approved" PROVE OnRecord(op[h].req)'
      OBVIOUS
    <3>1. op[h].req \in Requests /\ op'[h].req = op[h].req /\ op[h].req # NoTime
      BY <2>3, TimeTypes
    <3>2. /\ op[h].time = req[op[h].req].time
          /\ op[h].step = IF Kind[op[h].req] = "CHECK_IN" THEN "in" ELSE "out"
      BY <2>1, <3>1 DEF Sane, Loaded
    <3> QED
      BY <2>1, <2>2, <3>1, <3>2 DEF OnRecord
  <2>5. ASSUME NEW g \in Handlers \ {h} PROVE Spared(g)
    <3>1. ~ToPut(g, "in")
      BY <1>b, <2>1 DEF ToPut
    <3>2. ~ToPut(g, "out")
      BY <2>1, <3>1, OutNeedsIn
    <3> QED
      BY <3>1, <3>2 DEF Spared
  <2>6. Grows /\ RowKept'
    BY <2>1, <2>2 DEF Grows, RowKept
  <2>7. WriterKept(h)' /\ \A c \in {"in", "out"} : ~ToPut(h, c)'
    BY <2>3, <2>4 DEF WriterKept, ToPut, OnRecord
  <2> QED
    BY <2>2, <2>3, <2>5, <2>6, <2>7, Rebuild
<1>4. ASSUME NEW h \in Handlers, WriteOut(h) PROVE Undisturbed'
  <2> SUFFICES ASSUME clean', clean PROVE Undisturbed'
    BY <1>4 DEF Undisturbed, WriteOut
  <2>1. op[h] \in Writes /\ op[h].step = "out" /\ rec.exists /\ rec.id = op[h].id
        /\ rec.in = op[h].in /\ rec.in # NoTime /\ rec.out = NoTime
    BY <1>4, <1>a, <1>b, TimeTypes DEF WriteOut, WriterKept, Sane, Loaded
  <2>m. Minutes(op[h]) # NoTime
    <3>1. op[h].in \in Times /\ op[h].time \in Times /\ (op[h].req = NoTime => op[h].in <= op[h].time)
      BY <2>1 DEF Sane, Loaded, Writes
    <3>2. Minutes(op[h]) \in Int
      BY <3>1 DEF Minutes, Times
    <3> QED
      BY <3>2, RequestsAssumption
  <2>2. /\ rec'.out = op[h].time /\ rec'.exists /\ rec'.id = rec.id /\ rec'.in = rec.in
        /\ rec'.total = Minutes(op[h]) /\ op[h].time # NoTime /\ UNCHANGED req
    BY <1>4, <2>1, TimeTypes DEF WriteOut, Records, Writes
  <2>3. /\ \A g \in Handlers \ {h} : op'[g] = op[g]
        /\ \/ op'[h].step = "idle"
           \/ op[h].req \in Requests /\ op'[h].step = "approved" /\ op'[h].req = op[h].req
    BY <1>4, AfterWriteEffect DEF WriteOut
  <2>4. op'[h].step = "approved" => OnRecord(op[h].req)'
    <3> SUFFICES ASSUME op'[h].step = "approved" PROVE OnRecord(op[h].req)'
      OBVIOUS
    <3>1. op[h].req \in Requests /\ op'[h].req = op[h].req /\ op[h].req # NoTime
      BY <2>3, TimeTypes
    <3>2. /\ op[h].time = req[op[h].req].time
          /\ op[h].step = IF Kind[op[h].req] = "CHECK_IN" THEN "in" ELSE "out"
      BY <2>1, <3>1 DEF Sane, Loaded
    <3> QED
      BY <2>1, <2>2, <3>1, <3>2 DEF OnRecord
  <2>5. ASSUME NEW g \in Handlers \ {h} PROVE Spared(g)
    <3>1. ~ToPut(g, "out")
      BY <1>b, <2>1 DEF ToPut
    <3> QED
      BY <2>2, <3>1 DEF Spared
  <2>6. Grows /\ RowKept'
    BY <2>1, <2>2, <2>m DEF Grows, RowKept
  <2>7. WriterKept(h)' /\ \A c \in {"in", "out"} : ~ToPut(h, c)'
    BY <2>3, <2>4 DEF WriterKept, ToPut, OnRecord
  <2> QED
    BY <2>2, <2>3, <2>5, <2>6, <2>7, Rebuild
<1>5. ASSUME NEW h \in Handlers, NEW r \in Requests, Submit(h, r) PROVE Undisturbed'
  <2>1. /\ UNCHANGED <<rec, op, clean>> /\ req[r].status = "none" /\ req'[r].status = "PENDING"
        /\ \A q \in Requests \ {r} : req'[q] = req[q]
        /\ op'[h].step = "idle"
    BY <1>5 DEF Submit, Idle
  <2> QED
    BY <2>1, RecordFrame
<1>6. ASSUME NEW h \in Handlers, NEW r \in Requests,
             Review(h, r, "approve") \/ Review(h, r, "reject")
      PROVE  Undisturbed'
  <2>1. /\ \A g \in Handlers \ {h} : op'[g] = op[g]
        /\ op'[h].step \in {"approve", "reject"}
    BY <1>6, ReviewEffect DEF Review
  <2> QED
    BY <1>6, <2>1, RecordFrame DEF Review
<1>7. ASSUME NEW h \in Handlers, ApproveCreates(h) PROVE Undisturbed'
  <2> SUFFICES ASSUME clean', clean PROVE Undisturbed'
    BY <1>7 DEF Undisturbed, ApproveCreates
  <2>1. op[h].req \in Requests /\ req[op[h].req].time \in Times
    BY <1>7, <1>a DEF ApproveCreates, Reviews, Sane, Loaded, Dated
  <2>2. /\ rec'.exists /\ rec'.in = req[op[h].req].time /\ rec'.in # NoTime
        /\ rec'.out = NoTime /\ rec'.total = NoTime /\ ~rec.exists /\ UNCHANGED req
    <3>1. rec' = Created(req[op[h].req].time, NoTime, NoTime, "MANUAL") /\ ~rec.exists /\ UNCHANGED req
      BY <1>7 DEF ApproveCreates
    <3> QED
      BY <2>1, <3>1, CreatedType, TimeTypes DEF Sources
  <2>3. op'[h].step = "idle" /\ \A g \in Handlers \ {h} : op'[g] = op[g]
    BY <1>7, IdleEffect DEF ApproveCreates
  <2>4. WriterKept(h)' /\ \A c \in {"in", "out"} : ~ToPut(h, c)'
    BY <2>3 DEF WriterKept, ToPut
  <2> QED
    BY <1>d, <2>2, <2>3, <2>4, Rebuild
<1>8. ASSUME NEW h \in Handlers, ApproveFound(h) PROVE Undisturbed'
  <2>1. CASE Do(h, Idle) /\ UNCHANGED clean
    <3>1. op'[h].step = "idle" /\ \A g \in Handlers \ {h} : op'[g] = op[g]
      BY <2>1, IdleEffect
    <3> QED
      BY <1>8, <2>1, <3>1, RecordFrame DEF ApproveFound
  <2>2. ASSUME NEW column \in {"in", "out"}, Allowed(op[h].req),
               column = IF Kind[op[h].req] = "CHECK_IN" THEN "in" ELSE "out",
               ToWrite(h, column, req[op[h].req].time, op[h].req),
               clean' = (clean /\ Writing(column) = {})
        PROVE  Undisturbed'
    <3> SUFFICES ASSUME clean', clean PROVE Undisturbed'
      BY <2>2 DEF Undisturbed
    <3>1. op[h].req \in Requests /\ req[op[h].req].time \in Times
      BY <1>8, <1>a DEF ApproveFound, Reviews, Sane, Loaded, Dated
    <3>2. /\ \A g \in Handlers \ {h} : op'[g] = op[g]
          /\ op'[h].step = column /\ op'[h].id = rec.id /\ op'[h].in = rec.in
      BY <2>2, <3>1, ToWriteEffect
    <3>3. \A g \in Handlers : ~ToPut(g, column)
      BY <2>2 DEF Writing, ToPut
    <3>4. rec.exists /\ UNCHANGED <<rec, req>>
      BY <1>8 DEF ApproveFound
    <3>5. column = "in" => rec.in = NoTime
      BY <2>2 DEF Allowed
    <3>6. column = "out" => rec.out = NoTime
      BY <2>2 DEF Allowed
    <3>7. WriterKept(h)'
      BY <3>2, <3>4, <3>5, <3>6 DEF WriterKept
    <3>8. \A c \in {"in", "out"} : ToPut(h, c)' => c = column
      BY <3>2 DEF ToPut
    <3> QED
      BY <1>c, <3>2, <3>3, <3>4, <3>7, <3>8, Rebuild
  <2> QED
    BY <1>8, <2>1, <2>2 DEF ApproveFound
<1>9. ASSUME NEW h \in Handlers, Decide(h) PROVE Undisturbed'
  <2> SUFFICES ASSUME clean', clean PROVE Undisturbed'
    BY <1>9 DEF Undisturbed, Decide
  <2> DEFINE r == op[h].req
  <2>1. r \in Requests /\ op[h].step \in {"approved", "reject"}
    BY <1>9, <1>a DEF Decide, Reviews
  <2>2. op'[h].step = "strip" /\ \A g \in Handlers \ {h} : op'[g] = op[g]
    BY <1>9, <2>1, ReviewEffect DEF Decide
  <2>3. /\ \A q \in Requests : req'[q].time = req[q].time
        /\ \A q \in Requests \ {r} : req'[q].status = req[q].status
        /\ req'[r].status = "APPROVED" => op[h].step = "approved"
        /\ UNCHANGED rec
    BY <1>9, <2>1 DEF Decide, RequestRows
  <2>4. op[h].step = "approved" => OnRecord(r)
    BY <1>b DEF WriterKept
  <2> HIDE DEF r
  <2>5. ASSUME NEW q \in Requests, req'[q].status = "APPROVED"
        PROVE  req[q].status = "APPROVED" \/ OnRecord(q)'
    <3>1. CASE q = r
      BY <2>3, <2>4, <2>5, <3>1 DEF OnRecord
    <3> QED
      BY <2>3, <2>5, <3>1
  <2>6. WriterKept(h)' /\ \A c \in {"in", "out"} : ~ToPut(h, c)'
    BY <2>2 DEF WriterKept, ToPut
  <2> QED
    BY <1>c, <2>2, <2>3, <2>5, <2>6, Rebuild
<1>10. ASSUME NEW h \in Handlers, Strip(h) \/ Purge(h) PROVE Undisturbed'
  <2>1. /\ \A q \in Requests : req'[q].time = req[q].time /\ req'[q].status = req[q].status
        /\ UNCHANGED <<rec, clean>>
    <3>1. ASSUME NEW r, req' = [req EXCEPT ![r].photo = FALSE]
          PROVE  \A q \in Requests : req'[q].time = req[q].time /\ req'[q].status = req[q].status
      BY <3>1 DEF RequestRows
    <3> QED
      BY <1>10, <3>1 DEF Strip, Purge
  <2>2. op'[h].step \in {"idle", "purge"} /\ \A g \in Handlers \ {h} : op'[g] = op[g]
    <3>1. CASE Strip(h)
      BY <3>1, IdleEffect DEF Strip
    <3>2. CASE Purge(h)
      <4>1. PICK r \in op[h].ids :
              Do(h, IF op[h].ids = {r} THEN Idle ELSE [op[h] EXCEPT !.ids = @ \ {r}])
        BY <3>2 DEF Purge
      <4>2. op[h] \in [step : {"purge"}, ids : SUBSET Requests]
        BY <3>2, Carried DEF Purge
      <4> QED
        BY <4>1, <4>2 DEF Do, Idle
    <3> QED
      BY <1>10, <3>1, <3>2
  <2> QED
    BY <2>1, <2>2, RecordFrame
<1>11. ASSUME NEW h \in Handlers, StartPurge(h) \/ Die(h) PROVE Undisturbed'
  <2>1. op'[h].step \in {"idle", "purge"} /\ \A g \in Handlers \ {h} : op'[g] = op[g]
    BY <1>11 DEF StartPurge, Die, Do, Idle
  <2> QED
    BY <1>11, <2>1, RecordFrame DEF StartPurge, Die
<1>12. ASSUME HrEdit PROVE Undisturbed'
  <2> SUFFICES ASSUME clean', clean PROVE Undisturbed'
    BY <1>12 DEF Undisturbed, HrEdit
  <2>1. PICK source \in Sources :
          ~rec.exists /\ rec' = Created(NoTime, NoTime, NoTime, source) /\ UNCHANGED <<req, op>>
    BY <1>12 DEF HrEdit
  <2>2. rec'.exists /\ rec'.in = NoTime /\ rec'.out = NoTime /\ rec'.total = NoTime
    BY <2>1, CreatedType, TimeTypes
  <2>3. Grows /\ RowKept' /\ \A g \in Handlers : Spared(g)
    BY <1>b, <2>1, <2>2 DEF Grows, RowKept, Spared
  <2>4. \A r \in Requests : req[r].status # "none" => req'[r].time = req[r].time
    BY <2>1
  <2>5. ASSUME NEW g \in Handlers PROVE WriterKept(g)' /\ (op'[g].step = "day" => RunKept(g)')
    BY <2>1, <2>3, <2>4, OthersKept
  <2>6. ASSUME NEW r \in Requests, req'[r].status = "APPROVED" PROVE OnRecord(r)'
    BY <2>1, <2>3, <2>6, StaysOnRecord DEF Undisturbed
  <2>7. \A g, k \in Handlers, c \in {"in", "out"} : ToPut(g, c)' /\ ToPut(k, c)' => g = k
    BY <1>b, <2>1 DEF ToPut
  <2> QED
    BY <2>3, <2>5, <2>6, <2>7 DEF Undisturbed
<1>13. ASSUME NEW h \in Handlers, NEW overwrite \in BOOLEAN, ReadDay(h, overwrite) PROVE Undisturbed'
  <2> SUFFICES ASSUME clean', clean PROVE Undisturbed'
    BY <1>13 DEF Undisturbed, ReadDay
  <2>1. PICK in \in Punches \cup {rec.in}, out \in Punches \cup {rec.out} :
          Do(h, DayOf(in, out)) /\ Adds(in, out)
    BY <1>13 DEF ReadDay
  <2>2. in \in NullTimes /\ out \in NullTimes
    BY FoundTimes
  <2>3. /\ \A g \in Handlers \ {h} : op'[g] = op[g]
        /\ op'[h].step = "day" /\ op'[h].new = ~rec.exists /\ op'[h].id = rec.id
        /\ op'[h].in = in /\ op'[h].out = out /\ op'[h].columns = Changed(in, out)
        /\ op'[h].total = DayMinutes(in, out)
    BY <2>1, <2>2, DayEffect
  <2>4. UNCHANGED <<rec, req>>
    BY <1>13 DEF ReadDay
  <2>5. \A c \in {"in", "out"} : ToPut(h, c)' => \A g \in Handlers : ~ToPut(g, c)
    BY <2>1, <2>3 DEF ToPut, Adds, Writing
  <2>6. in = NoTime \/ out = NoTime => DayMinutes(in, out) = NoTime
    BY <2>2, MinutesType
  <2>7. in # NoTime /\ out # NoTime /\ in < out => DayMinutes(in, out) # NoTime
    BY <2>2, MinutesType
  <2>8. RunKept(h)'
    <3>1. /\ "in" \in Changed(in, out) <=> in # rec.in
          /\ "out" \in Changed(in, out) <=> out # rec.out
          /\ "total" \in Changed(in, out) <=> DayMinutes(in, out) # rec.total
      BY DEF Changed
    <3>2. /\ in # rec.in => rec.in = NoTime
          /\ out # rec.out => rec.out = NoTime /\ in # NoTime /\ in < out
          /\ DayMinutes(in, out) # rec.total => rec.total = NoTime
      BY <2>1, <3>1 DEF Adds
    <3>3. out # rec.out <=> DayMinutes(in, out) # rec.total
      <4>1. CASE out # rec.out
        BY <1>b, <2>7, <3>2, <4>1 DEF RowKept
      <4>2. CASE out = rec.out
        BY <1>b, <2>6, <3>2, <4>2 DEF RowKept
      <4> QED
        BY <4>1, <4>2
    <3>4. ~rec.exists => rec.in = NoTime /\ rec.out = NoTime /\ rec.total = NoTime
      BY <1>b DEF RowKept
    <3> HIDE DEF DayMinutes, Changed
    <3> QED
      BY <2>3, <2>4, <2>6, <3>1, <3>2, <3>3, <3>4 DEF RunKept
  <2>9. WriterKept(h)'
    BY <2>3 DEF WriterKept
  <2> QED
    BY <1>c, <2>3, <2>4, <2>5, <2>8, <2>9, Rebuild
<1>14. ASSUME NEW h \in Handlers, WriteDay(h) PROVE Undisturbed'
  <2> SUFFICES ASSUME clean', clean PROVE Undisturbed'
    BY <1>14 DEF Undisturbed, WriteDay
  <2>1. /\ SameTimes \/ FirstIn \/ ThenOut \/ Both
        /\ rec'.exists \/ rec' = rec
        /\ rec.exists => rec'.exists /\ rec'.id = rec.id
        /\ rec'.in # rec.in => ToPut(h, "in") \/ ~rec.exists
        /\ rec'.out # rec.out => ToPut(h, "out") \/ ~rec.exists
    BY <1>14, RunAdds
  <2>2. /\ \A g \in Handlers \ {h} : op'[g] = op[g]
        /\ op'[h].step = "idle" /\ UNCHANGED req
    BY <1>14, IdleEffect DEF WriteDay
  <2>3. Grows
    BY <1>b, <2>1, TimeTypes DEF Grows, SameTimes, FirstIn, ThenOut, Both, Empty, RowKept
  <2>4. RowKept'
    <3>1. CASE SameTimes \/ FirstIn \/ Both
      <4>1. \A t, u \in Times : u - t # NoTime
        BY RequestsAssumption DEF Times
      <4> QED
        BY <1>b, <2>1, <3>1, <4>1, TimeTypes DEF SameTimes, FirstIn, Both, Empty, RowKept
    <3>2. CASE ThenOut
      <4>1. rec.in \in Times /\ rec'.out \in Times
        BY <3>2, TimeTypes DEF ThenOut, Records
      <4>2. rec'.total \in Int
        BY <3>2, <4>1 DEF ThenOut, Times
      <4> QED
        BY <2>1, <3>2, <4>2, RequestsAssumption, TimeTypes, <1>b DEF ThenOut, RowKept
    <3> QED
      BY <2>1, <3>1, <3>2
  <2>5. ASSUME NEW g \in Handlers \ {h} PROVE Spared(g)
    <3>1. CASE ~rec.exists
      BY <3>1, NoWriters DEF Spared
    <3>2. CASE rec.exists
      <4>1. ToPut(g, "in") => rec'.in = rec.in
        BY <1>b, <2>1, <3>2
      <4>2. ToPut(g, "out") => rec'.out = rec.out
        BY <1>b, <2>1, <3>2
      <4>3. ASSUME ToPut(g, "out"), rec'.in # rec.in PROVE FALSE
        <5>1. ~ToPut(g, "in")
          BY <4>1, <4>3
        <5>2. rec.in # NoTime
          BY <4>3, <5>1, OutNeedsIn
        <5> QED
          BY <2>3, <4>3, <5>2 DEF Grows
      <4> QED
        BY <4>1, <4>2, <4>3 DEF Spared
    <3> QED
      BY <3>1, <3>2
  <2>6. WriterKept(h)' /\ \A c \in {"in", "out"} : ~ToPut(h, c)'
    BY <2>2 DEF WriterKept, ToPut
  <2> QED
    BY <2>2, <2>3, <2>4, <2>5, <2>6, Rebuild
<1>15. CASE Tick \/ UNCHANGED vars
  <2> SUFFICES ASSUME clean', clean PROVE Undisturbed'
    BY <1>15 DEF Undisturbed, Tick, vars
  <2>1. UNCHANGED <<rec, req, op>>
    BY <1>15 DEF Tick, vars
  <2>2. ASSUME NEW g \in Handlers PROVE WriterKept(g)' /\ (op'[g].step = "day" => RunKept(g)')
    BY <1>c, <2>1, OthersKept
  <2>3. ASSUME NEW f \in Handlers, NEW g \in Handlers, NEW c \in {"in", "out"},
               ToPut(f, c)', ToPut(g, c)'
        PROVE  f = g
    BY <1>b, <2>1, <2>3 DEF ToPut
  <2>4. ASSUME NEW r \in Requests, req'[r].status = "APPROVED" PROVE OnRecord(r)'
    BY <2>1, <2>4 DEF Undisturbed, OnRecord
  <2>5. RowKept'
    BY <1>c, <2>1
  <2> QED
    BY <2>2, <2>3, <2>4, <2>5 DEF Undisturbed
<1> QED
  BY <1>1, <1>2, <1>3, <1>4, <1>5, <1>6, <1>7, <1>8, <1>9, <1>10, <1>11, <1>12, <1>13, <1>14, <1>15
     DEF Next

\* However requests, reviews, the employee's own punches and runs of the
\* processor interleave, what was approved is on the record, until HR corrects
\* the record, a run puts its own time in place of one, or two handlers meet at
\* the same column or request.
THEOREM Approved == Spec => []ApprovedOnRecord
<1>1. Undisturbed => ApprovedOnRecord
  BY DEF Undisturbed, ApprovedOnRecord, OnRecord
<1> QED
  BY <1>1, SaneInit, SaneStep, RecordInit, RecordStep, PTL DEF Spec

-----------------------------------------------------------------------------
(* The record implements DaySheet.                                         *)

LEMMA CleanForGood == Sane /\ [Next]_vars => clean' \in BOOLEAN /\ (clean' => clean)
<1> SUFFICES ASSUME Sane, [Next]_vars PROVE clean' \in BOOLEAN /\ (clean' => clean)
  OBVIOUS
<1>1. Sane' /\ TypeOK
  BY SaneStep DEF Sane
<1>2. clean' \in BOOLEAN
  BY <1>1 DEF Sane, TypeOK
<1>3. clean' => clean
  <2>1. ASSUME NEW h \in Handlers,
               \/ CheckIn(h) \/ CheckOut(h) \/ WriteIn(h) \/ WriteOut(h)
               \/ ApproveCreates(h) \/ Decide(h) \/ Strip(h) \/ StartPurge(h) \/ Purge(h) \/ Die(h)
               \/ WriteDay(h) \/ \E overwrite \in BOOLEAN : ReadDay(h, overwrite)
        PROVE  clean' => clean
    BY <2>1 DEF CheckIn, CheckOut, WriteIn, WriteOut, ApproveCreates, Decide, Strip, StartPurge,
                Purge, Die, ReadDay, WriteDay
  <2>2. ASSUME NEW h \in Handlers, ApproveFound(h) PROVE clean' => clean
    BY <2>2 DEF ApproveFound
  <2>3. ASSUME NEW h \in Handlers, NEW r \in Requests,
               Submit(h, r) \/ Review(h, r, "approve") \/ Review(h, r, "reject")
        PROVE  clean' => clean
    BY <2>3 DEF Submit, Review
  <2>4. CASE HrEdit \/ Tick \/ UNCHANGED vars
    BY <1>1, <2>4 DEF HrEdit, Tick, vars, TypeOK
  <2> QED
    BY <2>1, <2>2, <2>3, <2>4 DEF Next
<1> QED
  BY <1>2, <1>3

LEMMA TimesEntered ==
  ASSUME Sane, Undisturbed, [Next]_vars, clean, clean'
  PROVE  SameTimes \/ FirstIn \/ ThenOut \/ Both
<1> /\ TypeOK /\ rec \in Records /\ op \in [Handlers -> Ops] /\ now \in Times
  BY DEF Sane, TypeOK
<1>1. RowKept /\ (~rec.exists => Empty)
  BY DEF Undisturbed, RowKept, Empty
<1>2. ASSUME UNCHANGED rec PROVE SameTimes
  BY <1>2 DEF SameTimes
<1>3. ASSUME NEW h \in Handlers, CheckIn(h) PROVE SameTimes \/ FirstIn
  <2>1. CASE ~rec.exists /\ rec' = Created(now, NoTime, NoTime, "MANUAL")
    BY <1>1, <2>1, CreatedType, TimeTypes DEF Sources, FirstIn
  <2> QED
    BY <1>2, <1>3, <2>1 DEF CheckIn
<1>4. ASSUME NEW h \in Handlers, WriteIn(h) PROVE FirstIn
  <2>1. op[h] \in Writes /\ rec.exists /\ rec.id = op[h].id /\ rec.in = NoTime
        /\ Empty
    BY <1>4, <1>1, Carried DEF WriteIn, Undisturbed, WriterKept, RowKept, Empty
  <2>2. rec'.in = op[h].time /\ rec'.out = rec.out /\ rec'.total = rec.total /\ op[h].time \in Times
    BY <1>4, <2>1 DEF WriteIn, Records, Writes
  <2> QED
    BY <2>1, <2>2 DEF FirstIn, Empty
<1>5. ASSUME NEW h \in Handlers, WriteOut(h) PROVE ThenOut
  <2>1. op[h] \in Writes /\ rec.exists /\ rec.id = op[h].id /\ rec.in = op[h].in /\ rec.out = NoTime
    BY <1>5, Carried DEF WriteOut, Undisturbed, WriterKept
  <2>2. op[h].in \in Times /\ op[h].time \in Times /\ (op[h].req = NoTime => op[h].in <= op[h].time)
    BY <1>5, <2>1 DEF WriteOut, Sane, Loaded, Writes
  <2>3. rec'.in = rec.in /\ rec'.out = op[h].time /\ rec'.total = Minutes(op[h])
    BY <1>5, <2>1 DEF WriteOut, Records
  <2>4. Minutes(op[h]) = IF op[h].time < op[h].in THEN 0 ELSE op[h].time - op[h].in
    BY <2>2 DEF Minutes, Times
  <2> QED
    BY <2>1, <2>2, <2>3, <2>4, TimeTypes DEF ThenOut
<1>6. ASSUME NEW h \in Handlers, ApproveCreates(h) PROVE FirstIn
  <2>1. req[op[h].req].time \in Times
    BY <1>6, Carried DEF ApproveCreates, Reviews, Sane, Loaded, Dated
  <2>2. rec' = Created(req[op[h].req].time, NoTime, NoTime, "MANUAL") /\ ~rec.exists
    BY <1>6 DEF ApproveCreates
  <2> QED
    BY <1>1, <2>1, <2>2, CreatedType, TimeTypes DEF Sources, FirstIn
<1>7. ASSUME HrEdit PROVE SameTimes
  <2>1. PICK source \in Sources : rec' = Created(NoTime, NoTime, NoTime, source) /\ ~rec.exists
    BY <1>7 DEF HrEdit
  <2> QED
    BY <1>1, <2>1, CreatedType, TimeTypes DEF SameTimes, Empty
<1>8. ASSUME NEW h \in Handlers,
             \/ CheckOut(h) \/ ApproveFound(h) \/ Decide(h) \/ Strip(h) \/ StartPurge(h) \/ Purge(h)
             \/ Die(h)
             \/ \E r \in Requests : Submit(h, r) \/ Review(h, r, "approve") \/ Review(h, r, "reject")
             \/ \E overwrite \in BOOLEAN : ReadDay(h, overwrite)
      PROVE  UNCHANGED rec
  BY <1>8 DEF CheckOut, ApproveFound, Decide, Strip, StartPurge, Purge, Die, Submit, Review, ReadDay
<1>9. CASE Tick \/ UNCHANGED vars
  BY <1>2, <1>9 DEF Tick, vars
<1>10. ASSUME NEW h \in Handlers, WriteDay(h) PROVE SameTimes \/ FirstIn \/ ThenOut \/ Both
  BY <1>10, RunAdds
<1> QED
  BY <1>2, <1>3, <1>4, <1>5, <1>6, <1>7, <1>8, <1>9, <1>10 DEF Next

LEMMA SheetInit == Init => Sheet!Init
BY NoRowType DEF Init, Sheet!Init, Sheet!Blank

LEMMA SheetStep == Sane /\ Undisturbed /\ [Next]_vars => [Sheet!Next]_(Sheet!vars)
<1> SUFFICES ASSUME Sane, Undisturbed, [Next]_vars PROVE [Sheet!Next]_(Sheet!vars)
  OBVIOUS
<1>0. clean \in BOOLEAN /\ clean' \in BOOLEAN /\ (clean' => clean)
  BY CleanForGood DEF Sane, TypeOK
<1>1. CASE ~clean
  BY <1>0, <1>1 DEF Sheet!vars
<1>2. CASE clean /\ ~clean'
  BY <1>0, <1>2 DEF Sheet!Next, Sheet!Void, Sheet!Blank
<1>3. CASE clean /\ clean'
  <2>1. CASE SameTimes
    BY <1>0, <1>3, <2>1 DEF SameTimes, Sheet!vars
  <2>2. CASE FirstIn
    BY <1>0, <1>3, <2>2 DEF FirstIn, Empty, Sheet!Next, Sheet!EnterIn, Sheet!Blank
  <2>3. CASE ThenOut
    BY <1>0, <1>3, <2>3 DEF ThenOut, Sheet!Next, Sheet!EnterOut
  <2>4. CASE Both
    BY <1>0, <1>3, <2>4 DEF Both, Empty, Sheet!Next, Sheet!EnterBoth, Sheet!Blank
  <2> QED
    BY <1>3, <2>1, <2>2, <2>3, <2>4, TimesEntered
<1> QED
  BY <1>0, <1>1, <1>2, <1>3

\* The attendance handlers implement DaySheet: each time is entered once and
\* the minutes are those between the two, until the promise is void.
THEOREM Refinement == Spec => SheetPromise
BY SaneInit, SaneStep, RecordInit, RecordStep, SheetInit, SheetStep, PTL
   DEF Spec, SheetPromise, Sheet!Spec
=============================================================================
