----------------------------- MODULE PayrollRuns -----------------------------
(***************************************************************************)
(* One month's payroll run of one company: backend/src/services/           *)
(* payroll_engine.service.js (runPayrollEngine) and payroll.service.js     *)
(* (createRun, updateRunStatus, deleteRun), as handled by concurrent HTTP  *)
(* requests over one connection pool.                                      *)
(*                                                                         *)
(* The engine works in one transaction, READ COMMITTED as PostgreSQL runs  *)
(* it: other requests see its deletes and inserts only when it commits;    *)
(* writers of the same row, or of the same key of the unique index         *)
(* (company, run, employee), wait for each other.  What a payslip says is  *)
(* abstracted to the request that computed it, and the header's money      *)
(* totals to the request whose payslips they add up.                       *)
(***************************************************************************)
EXTENDS Naturals, FiniteSets

CONSTANTS
  Requests,    \* POST /payroll/runs/:id/process requests
  Employees,   \* employee rows of the company
  Permanent,   \* employees that are ACTIVE whenever a request reads them
  PoolMax,     \* connections of the pool (DB_POOL_MAX)
  MaxRuns,     \* bound: run rows created
  MaxPending,  \* bound: status changes and deletions under way at once
  MaxFaults,   \* bound: database errors and killed processes
  NoOne        \* no request, or no employee

ASSUME PayrollAssumption ==
  /\ Permanent \subseteq Employees
  /\ Permanent # {}
  /\ NoOne \notin Requests
  /\ NoOne \notin Employees
  /\ PoolMax \in Nat \ {0}
  /\ MaxRuns \in Nat /\ MaxPending \in Nat /\ MaxFaults \in Nat

VARIABLES
  run,      \* the payroll_runs row: id, status ("GONE" = no row), by (totals)
  items,    \* committed payroll_items of that row: who computed each, or NoOne
  pc,       \* where each process request stands
  rid,      \* the run id it loaded
  saw,      \* the status it loaded
  staff,    \* the ACTIVE employees it read
  prior,    \* the payslip rows its transaction found (employee, maker)
  todo,     \* employees it has still to insert a payslip for
  cur,      \* the employee whose payslip it is about to insert
  pending,  \* status changes and deletions checked but not written yet
  faults    \* faults so far

local == <<rid, saw, staff, prior, todo, cur>>
vars == <<run, items, pc, local, pending, faults>>

Open == {"begun", "clearing", "gathering", "inserting"}
Stages == Open \cup {"idle", "found", "marked", "staffed", "broken",
                     "done", "failed", "refused"}
Statuses == {"DRAFT", "PROCESSING", "APPROVED", "PAID", "CANCELLED"}

TypeOK ==
  /\ run \in [id : Nat, status : Statuses \cup {"GONE"}, by : Requests \cup {NoOne}]
  /\ items \in [Employees -> Requests \cup {NoOne}]
  /\ pc \in [Requests -> Stages]
  /\ rid \in [Requests -> Nat]
  /\ saw \in [Requests -> Statuses]
  /\ staff \in [Requests -> SUBSET Employees]
  /\ prior \in [Requests -> SUBSET (Employees \X Requests)]
  /\ todo \in [Requests -> SUBSET Employees]
  /\ cur \in [Requests -> Employees \cup {NoOne}]
  /\ pending \subseteq [id : Nat, to : Statuses \cup {"GONE"}]
  /\ faults \in 0 .. MaxFaults

Init ==
  /\ run = [id |-> 0, status |-> "GONE", by |-> NoOne]
  /\ items = [e \in Employees |-> NoOne]
  /\ pc = [r \in Requests |-> "idle"]
  /\ rid = [r \in Requests |-> 0]
  /\ saw = [r \in Requests |-> "DRAFT"]
  /\ staff = [r \in Requests |-> {}]
  /\ prior = [r \in Requests |-> {}]
  /\ todo = [r \in Requests |-> {}]
  /\ cur = [r \in Requests |-> NoOne]
  /\ pending = {}
  /\ faults = 0

-----------------------------------------------------------------------------
(* The pool and the database's locks.                                      *)

\* A transaction keeps its connection; a query outside it needs another one.
Connected == Cardinality({r \in Requests : pc[r] \in Open}) < PoolMax

Fault == faults < MaxFaults /\ faults' = faults + 1

Row(e) == <<e, items[e]>>
Rows == {Row(e) : e \in {x \in Employees : items[x] # NoOne}}

Exists(id) == run.id = id /\ run.status # "GONE"

\* Uncommitted work of a transaction, whose locks it holds.
Writing(r) == pc[r] \in {"gathering", "inserting"}
Inserted(r) == IF Writing(r) THEN staff[r] \ todo[r] ELSE {}
Cleared(r) == IF Writing(r) THEN prior[r] ELSE {}

\* r's next statement waits for s: a row s deleted, or a key s inserted or deleted.
Waits(r, s) ==
  /\ s # r
  /\ \/ pc[r] = "clearing" /\ prior[r] \cap Cleared(s) \cap Rows # {}
     \/ pc[r] = "inserting" /\ (cur[r] \in Inserted(s) \/ Row(cur[r]) \in Cleared(s) \cap Rows)
Blocked(r) == \E s \in Requests : Waits(r, s)

\* UPDATE payroll_runs SET status WHERE id: no row, no effect.
WriteStatus(id, to) ==
  run' = IF Exists(id) THEN [id |-> id, status |-> to, by |-> run.by] ELSE run

-----------------------------------------------------------------------------
(* runPayrollEngine.                                                       *)

FindRun(r) ==
  /\ pc[r] = "idle" /\ Connected
  /\ IF run.status \in {"DRAFT", "PROCESSING"}
     THEN /\ pc' = [pc EXCEPT ![r] = "found"]
          /\ rid' = [rid EXCEPT ![r] = run.id]
          /\ saw' = [saw EXCEPT ![r] = run.status]
     ELSE /\ pc' = [pc EXCEPT ![r] = "refused"]
          /\ UNCHANGED <<rid, saw>>
  /\ UNCHANGED <<run, items, staff, prior, todo, cur, pending, faults>>

\* Sequelize writes the columns that differ from the loaded row: a status that
\* was loaded as PROCESSING is not written again.
MarkProcessing(r) ==
  /\ pc[r] = "found" /\ Connected
  /\ IF saw[r] = "DRAFT" THEN WriteStatus(rid[r], "PROCESSING") ELSE UNCHANGED run
  /\ pc' = [pc EXCEPT ![r] = "marked"]
  /\ UNCHANGED <<items, local, pending, faults>>

ReadStaff(r) ==
  /\ pc[r] = "marked" /\ Connected
  /\ \E S \in SUBSET Employees : Permanent \subseteq S /\ staff' = [staff EXCEPT ![r] = S]
  /\ pc' = [pc EXCEPT ![r] = "staffed"]
  /\ UNCHANGED <<run, items, rid, saw, prior, todo, cur, pending, faults>>

BeginTransaction(r) ==
  /\ pc[r] = "staffed" /\ Connected
  /\ pc' = [pc EXCEPT ![r] = "begun"]
  /\ UNCHANGED <<run, items, local, pending, faults>>

FindPrior(r) ==
  /\ pc[r] = "begun"
  /\ prior' = [prior EXCEPT ![r] = IF Exists(rid[r]) THEN Rows ELSE {}]
  /\ pc' = [pc EXCEPT ![r] = "clearing"]
  /\ UNCHANGED <<run, items, rid, saw, staff, todo, cur, pending, faults>>

DestroyPrior(r) ==
  /\ pc[r] = "clearing" /\ ~Blocked(r)
  /\ todo' = [todo EXCEPT ![r] = staff[r]]
  /\ pc' = [pc EXCEPT ![r] = "gathering"]
  /\ UNCHANGED <<run, items, rid, saw, staff, prior, cur, pending, faults>>

\* gatherEmployeeMonthData and resolveComponents run outside the transaction.
Gather(r) ==
  /\ pc[r] = "gathering" /\ Connected
  /\ \E e \in todo[r] : cur' = [cur EXCEPT ![r] = e]
  /\ pc' = [pc EXCEPT ![r] = "inserting"]
  /\ UNCHANGED <<run, items, rid, saw, staff, prior, todo, pending, faults>>

\* Mutant: the payslips are written without the unique index.
KeyFreeWithoutIndex(r) == TRUE

\* The unique index and the foreign key to the run both let the insert through.
KeyFree(r) == items[cur[r]] = NoOne \/ Row(cur[r]) \in prior[r]

CreateItem(r) ==
  /\ pc[r] = "inserting" /\ ~Blocked(r)
  /\ Exists(rid[r]) /\ KeyFree(r)
  /\ todo' = [todo EXCEPT ![r] = @ \ {cur[r]}]
  /\ pc' = [pc EXCEPT ![r] = "gathering"]
  /\ UNCHANGED <<run, items, rid, saw, staff, prior, cur, pending, faults>>

\* The header update and the commit.  The status is PROCESSING on the instance
\* already, so only the totals reach the row.
Commit(r) ==
  /\ pc[r] = "gathering" /\ todo[r] = {}
  /\ items' = [e \in Employees |-> IF e \in staff[r] THEN r
                                   ELSE IF Row(e) \in prior[r] THEN NoOne
                                   ELSE items[e]]
  /\ run' = IF Exists(rid[r]) THEN [id |-> run.id, status |-> run.status, by |-> r] ELSE run
  /\ pc' = [pc EXCEPT ![r] = "done"]
  /\ UNCHANGED <<local, pending, faults>>

\* Mutant: the pool waits for a connection for ever.
ThrowsWithoutTimeout(r) ==
  \/ pc[r] = "inserting" /\ ~Blocked(r) /\ ~(Exists(rid[r]) /\ KeyFree(r))
  \/ \E s \in Requests : Waits(r, s) /\ Blocked(s)

\* A statement of the transaction throws: the pool's acquire timeout, a unique
\* or foreign key violation, or the database chose it as a deadlock's victim.
\* The transaction is rolled back.
Throws(r) ==
  \/ pc[r] = "gathering" /\ todo[r] # {} /\ ~Connected
  \/ pc[r] = "inserting" /\ ~Blocked(r) /\ ~(Exists(rid[r]) /\ KeyFree(r))
  \/ \E s \in Requests : Waits(r, s) /\ Blocked(s)

Rollback(r) ==
  /\ pc[r] \in Open
  /\ Throws(r) /\ UNCHANGED faults
  /\ pc' = [pc EXCEPT ![r] = "broken"]
  /\ UNCHANGED <<run, items, local, pending>>

RollbackOnFault(r) ==
  /\ pc[r] \in Open /\ Fault
  /\ pc' = [pc EXCEPT ![r] = "broken"]
  /\ UNCHANGED <<run, items, local, pending>>

\* Before and after the try block an error has nothing more to undo; the
\* reset's own error is swallowed.
GiveUp(r) ==
  /\ pc[r] \in {"found", "marked", "staffed", "broken"}
  /\ \/ ~Connected /\ UNCHANGED faults
     \/ Fault
  /\ pc' = [pc EXCEPT ![r] = "failed"]
  /\ UNCHANGED <<run, items, local, pending>>

\* Reset run to DRAFT so it can be retried.
ResetToDraft(r) ==
  /\ pc[r] = "broken" /\ Connected
  /\ WriteStatus(rid[r], "DRAFT")
  /\ pc' = [pc EXCEPT ![r] = "failed"]
  /\ UNCHANGED <<items, local, pending, faults>>

\* The process dies: the database rolls its transaction back, nothing resets the run.
Kill(r) ==
  /\ pc[r] \in Open /\ Fault
  /\ pc' = [pc EXCEPT ![r] = "failed"]
  /\ UNCHANGED <<run, items, local, pending>>

-----------------------------------------------------------------------------
(* createRun, updateRunStatus and deleteRun.                               *)

\* The unique index lets one of two racing creations through.
CreateRun ==
  /\ run.status = "GONE" /\ run.id < MaxRuns /\ Connected
  /\ run' = [id |-> run.id + 1, status |-> "DRAFT", by |-> NoOne]
  /\ UNCHANGED <<items, pc, local, pending, faults>>

\* From which statuses a request may move the run; "GONE" stands for deleteRun.
Allowed == [to \in {"APPROVED", "PAID", "CANCELLED", "GONE"} |->
  CASE to = "APPROVED"  -> {"PROCESSING"}
    [] to = "PAID"      -> {"APPROVED"}
    [] to = "CANCELLED" -> {"DRAFT", "PROCESSING", "APPROVED"}
    [] to = "GONE"      -> {"DRAFT"}]

\* Both handlers load the row and check it, then write in a second statement.
Decide(to) ==
  /\ Cardinality(pending) < MaxPending /\ Connected
  /\ run.status \in Allowed[to]
  /\ pending' = pending \cup {[id |-> run.id, to |-> to]}
  /\ UNCHANGED <<run, items, pc, local, faults>>

UpdateStatus(d) ==
  /\ d.to # "GONE" /\ Connected
  /\ pending' = pending \ {d}
  /\ WriteStatus(d.id, d.to)
  /\ UNCHANGED <<items, pc, local, faults>>

\* The payslips go with the row; one inserted under it keeps it locked.
Destroy(d) ==
  /\ d.to = "GONE" /\ Connected
  /\ \A r \in Requests : Inserted(r) = {}
  /\ pending' = pending \ {d}
  /\ IF Exists(d.id)
     THEN /\ run' = [id |-> run.id, status |-> "GONE", by |-> NoOne]
          /\ items' = [e \in Employees |-> NoOne]
     ELSE UNCHANGED <<run, items>>
  /\ UNCHANGED <<pc, local, faults>>

-----------------------------------------------------------------------------
Advance(r) ==
  \/ MarkProcessing(r) \/ ReadStaff(r) \/ BeginTransaction(r) \/ FindPrior(r)
  \/ DestroyPrior(r) \/ Gather(r) \/ CreateItem(r) \/ Commit(r)
  \/ Rollback(r) \/ ResetToDraft(r) \/ GiveUp(r)

Next ==
  \/ \E r \in Requests : FindRun(r) \/ Advance(r) \/ RollbackOnFault(r) \/ Kill(r)
  \/ CreateRun
  \/ \E to \in DOMAIN Allowed : Decide(to)
  \/ \E d \in pending : UpdateStatus(d) \/ Destroy(d)

Spec == Init /\ [][Next]_vars

\* A request under way is served to its end, and the acquire timer runs out.
FairSpec == Spec /\ \A r \in Requests : WF_vars(Advance(r))

-----------------------------------------------------------------------------
(* Properties.                                                             *)

\* The payslips of one engine request; none for NoOne.
Payslips(r) ==
  [e \in Employees |-> IF r # NoOne /\ e \in staff[r] THEN r ELSE NoOne]

\* The stored payslips are the complete result of one engine request, and the
\* header's totals are that request's, whatever requests overlap, fail, retry
\* or delete the run: "wraps everything in a single transaction"
\* (payroll_engine.service.js:424).  The unique index is what keeps two
\* overlapping requests from leaving a mixture.
OneSnapshot == items = Payslips(run.by)

\* Every request that passed the status check is answered: requests that wait
\* for each other's rows, keys or connections are released.
Answered == \A r \in Requests : pc[r] = "found" ~> pc[r] \in {"done", "failed"}

=============================================================================
