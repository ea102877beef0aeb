-------------------------- MODULE PayrollRuns_proofs --------------------------
(***************************************************************************)
(* Proofs about PayrollRuns, for any number of concurrent requests,        *)
(* employees, connections, runs and faults: the stored payslips are always *)
(* one request's complete result.                                          *)
(*                                                                         *)
(* About LeaveLedger, for any number of leaves and handlers: the balance   *)
(* always says what the leaves and the statements under way say.           *)
(*                                                                         *)
(* And about Payslip, for every month, attendance, set of leaves and       *)
(* components: the lines of a payslip are what its days and components     *)
(* explain.  Leaves and payslips share the lemmas on sums of finite sets.  *)
(***************************************************************************)
EXTENDS Payroll, LeaveLedger, FiniteSetTheorems, WellFoundedInduction, TLAPS

-----------------------------------------------------------------------------
(* Type correctness.                                                       *)

LEMMA TypeInit == Init => TypeOK
BY PayrollAssumption DEF Init, TypeOK, Statuses, Stages

LEMMA WriteStatusType ==
  ASSUME TypeOK, NEW id \in Nat, NEW st \in Statuses, WriteStatus(id, st)
  PROVE  run' \in [id : Nat, status : Statuses \cup {"GONE"}, by : Requests \cup {NoOne}]
BY DEF TypeOK, WriteStatus, Exists

LEMMA FaultType == ASSUME TypeOK, Fault PROVE faults' \in 0 .. MaxFaults
BY PayrollAssumption DEF TypeOK, Fault

LEMMA TypeStep == TypeOK /\ [Next]_vars => TypeOK'
<1> SUFFICES ASSUME TypeOK, [Next]_vars PROVE TypeOK'
  OBVIOUS
<1> USE DEF local
<1>1. ASSUME NEW r \in Requests, FindRun(r) PROVE TypeOK'
  BY <1>1 DEF TypeOK, FindRun, Stages, Statuses
<1>2. ASSUME NEW r \in Requests, MarkProcessing(r) PROVE TypeOK'
  <2>1. run' \in [id : Nat, status : Statuses \cup {"GONE"}, by : Requests \cup {NoOne}]
    BY <1>2, WriteStatusType DEF TypeOK, MarkProcessing, Statuses
  <2> QED
    BY <1>2, <2>1 DEF TypeOK, MarkProcessing, Stages
<1>3. ASSUME NEW r \in Requests, ReadStaff(r) PROVE TypeOK'
  BY <1>3 DEF TypeOK, ReadStaff, Stages
<1>4. ASSUME NEW r \in Requests, BeginTransaction(r) PROVE TypeOK'
  BY <1>4 DEF TypeOK, BeginTransaction, Stages, Open
<1>5. ASSUME NEW r \in Requests, FindPrior(r) PROVE TypeOK'
  <2>1. Rows \in SUBSET (Employees \X Requests)
    BY DEF TypeOK, Rows, Row
  <2> QED
    BY <1>5, <2>1 DEF TypeOK, FindPrior, Stages, Open
<1>6. ASSUME NEW r \in Requests, DestroyPrior(r) PROVE TypeOK'
  BY <1>6 DEF TypeOK, DestroyPrior, Stages, Open
<1>7. ASSUME NEW r \in Requests, Gather(r) PROVE TypeOK'
  BY <1>7 DEF TypeOK, Gather, Stages, Open
<1>8. ASSUME NEW r \in Requests, CreateItem(r) PROVE TypeOK'
  BY <1>8 DEF TypeOK, CreateItem, Stages, Open
<1>9. ASSUME NEW r \in Requests, Commit(r) PROVE TypeOK'
  BY <1>9 DEF TypeOK, Commit, Stages
<1>10. ASSUME NEW r \in Requests, Rollback(r) PROVE TypeOK'
  BY <1>10 DEF TypeOK, Rollback, Stages
<1>11. ASSUME NEW r \in Requests, RollbackOnFault(r) PROVE TypeOK'
  BY <1>11, FaultType DEF TypeOK, RollbackOnFault, Stages
<1>12. ASSUME NEW r \in Requests, GiveUp(r) PROVE TypeOK'
  BY <1>12, FaultType DEF TypeOK, GiveUp, Stages
<1>13. ASSUME NEW r \in Requests, ResetToDraft(r) PROVE TypeOK'
  <2>1. run' \in [id : Nat, status : Statuses \cup {"GONE"}, by : Requests \cup {NoOne}]
    BY <1>13, WriteStatusType DEF TypeOK, ResetToDraft, Statuses
  <2> QED
    BY <1>13, <2>1 DEF TypeOK, ResetToDraft, Stages
<1>14. ASSUME NEW r \in Requests, Kill(r) PROVE TypeOK'
  BY <1>14, FaultType DEF TypeOK, Kill, Stages
<1>15. ASSUME CreateRun PROVE TypeOK'
  BY <1>15 DEF TypeOK, CreateRun, Statuses
<1>16. ASSUME NEW to \in DOMAIN Allowed, Decide(to) PROVE TypeOK'
  <2>1. to \in Statuses \cup {"GONE"}
    BY DEF Allowed, Statuses
  <2>2. [id |-> run.id, to |-> to] \in [id : Nat, to : Statuses \cup {"GONE"}]
    BY <2>1 DEF TypeOK
  <2> QED
    BY <1>16, <2>2 DEF TypeOK, Decide
<1>17. ASSUME NEW d \in pending, UpdateStatus(d) PROVE TypeOK'
  <2>1. d.id \in Nat /\ d.to \in Statuses
    BY <1>17 DEF TypeOK, UpdateStatus
  <2>2. run' \in [id : Nat, status : Statuses \cup {"GONE"}, by : Requests \cup {NoOne}]
    BY <1>17, <2>1, WriteStatusType DEF UpdateStatus
  <2> QED
    BY <1>17, <2>2 DEF TypeOK, UpdateStatus
<1>18. ASSUME NEW d \in pending, Destroy(d) PROVE TypeOK'
  BY <1>18 DEF TypeOK, Destroy
<1>19. CASE UNCHANGED vars
  BY <1>19 DEF TypeOK, vars
<1> QED
  BY <1>1, <1>2, <1>3, <1>4, <1>5, <1>6, <1>7, <1>8, <1>9, <1>10, <1>11, <1>12,
     <1>13, <1>14, <1>15, <1>16, <1>17, <1>18, <1>19 DEF Next, Advance

\* Every variable keeps its type, for every value of the constants.
THEOREM TypeCorrect == Spec => []TypeOK
BY TypeInit, TypeStep, PTL DEF Spec

-----------------------------------------------------------------------------
(* One snapshot.  Overlapping transactions share no key they inserted, and *)
(* every request inserts a permanent employee's payslip: so at most one of *)
(* them gets anything in, and whoever commits has cleared what it found.   *)

\* The payslip rows of request m; none for NoOne.
RowsOf(m) == IF m = NoOne THEN {} ELSE staff[m] \X {m}

\* Whoever made the stored payslips has ended, so its staff will not change.
MakerDone == run.by # NoOne => pc[run.by] = "done"

GoneEmpty == run.status = "GONE" => run.by = NoOne

StaffRead(r) == pc[r] \in Open \cup {"staffed", "done"} => Permanent \subseteq staff[r]

\* What a transaction found was one request's snapshot.
PriorWhole(r) ==
  pc[r] \in {"clearing", "gathering", "inserting"} =>
    \E m \in Requests \cup {NoOne} : (m # NoOne => pc[m] = "done") /\ prior[r] = RowsOf(m)

\* A key of the unique index belongs to one transaction at a time.
KeysDisjoint == \A r, s \in Requests : r # s => Inserted(r) \cap Inserted(s) = {}

\* What a transaction wrote over is gone, or is its own to delete.
KeysFree(r) == \A e \in Inserted(r) : items[e] = NoOne \/ Row(e) \in prior[r]

\* An inserted payslip keeps the run's row from being deleted.
RunLocked(r) == Inserted(r) # {} => Exists(rid[r])

IInv ==
  /\ TypeOK /\ OneSnapshot /\ MakerDone /\ GoneEmpty /\ KeysDisjoint
  /\ \A r \in Requests : StaffRead(r) /\ PriorWhole(r) /\ KeysFree(r) /\ RunLocked(r)

LEMMA SnapshotInit == Init => IInv
BY TypeInit, PayrollAssumption
   DEF Init, IInv, OneSnapshot, Payslips, MakerDone, GoneEmpty, KeysDisjoint,
       StaffRead, PriorWhole, KeysFree, RunLocked, Inserted, Writing, Open

\* A step that moves one request between stages in which it has written
\* nothing, and touches no payslip and no staff list of others, keeps the invariant.
LEMMA QuietStep ==
  ASSUME IInv, TypeOK', NEW r \in Requests,
         pc[r] # "done", pc' = [pc EXCEPT ![r] = pc'[r]],
         pc'[r] \notin {"gathering", "inserting", "done"},
         pc'[r] \in {"staffed", "begun", "clearing"} => Permanent \subseteq staff'[r],
         pc'[r] = "clearing" => 
           \E m \in Requests \cup {NoOne} : (m # NoOne => pc[m] = "done") /\ prior'[r] = RowsOf(m),
         \A s \in Requests \ {r} : /\ staff'[s] = staff[s] /\ prior'[s] = prior[s]
                                   /\ todo'[s] = todo[s] /\ rid'[s] = rid[s],
         items' = items, run'.id = run.id, run'.by = run.by,
         run'.status = "GONE" <=> run.status = "GONE"
  PROVE  IInv'
<1>1. Inserted(r)' = {}
  BY DEF IInv, TypeOK, Inserted, Writing
<1>2. ASSUME NEW s \in Requests, s # r
      PROVE  pc'[s] = pc[s] /\ Inserted(s)' = Inserted(s)
  BY <1>2 DEF IInv, TypeOK, Inserted, Writing
<1>3. \A m \in Requests \cup {NoOne} : (m # NoOne => pc[m] = "done")
        => RowsOf(m)' = RowsOf(m) /\ (m # NoOne => pc'[m] = "done")
  BY DEF IInv, TypeOK, RowsOf
<1>4. OneSnapshot' /\ MakerDone'
  BY <1>2 DEF IInv, TypeOK, OneSnapshot, MakerDone, Payslips
<1>5. GoneEmpty'
  BY DEF IInv, GoneEmpty
<1>6. KeysDisjoint'
  BY <1>1, <1>2 DEF IInv, KeysDisjoint
<1>7. ASSUME NEW s \in Requests
      PROVE  StaffRead(s)' /\ PriorWhole(s)' /\ KeysFree(s)' /\ RunLocked(s)'
  <2>1. CASE s = r
    <3>1. StaffRead(s)'
      BY <2>1 DEF IInv, TypeOK, StaffRead, Open
    <3>2. PriorWhole(s)'
      BY <2>1, <1>3 DEF IInv, TypeOK, PriorWhole
    <3> QED
      BY <1>1, <2>1, <3>1, <3>2 DEF KeysFree, RunLocked
  <2>2. CASE s # r
    <3>1. StaffRead(s)'
      BY <2>2, <1>2 DEF IInv, StaffRead
    <3>2. PriorWhole(s)'
      BY <2>2, <1>2, <1>3 DEF IInv, PriorWhole
    <3>3. KeysFree(s)'
      BY <2>2, <1>2 DEF IInv, KeysFree, Row
    <3>4. RunLocked(s)'
      BY <2>2, <1>2 DEF IInv, RunLocked, Exists
    <3> QED
      BY <3>1, <3>2, <3>3, <3>4
  <2> QED
    BY <2>1, <2>2
<1> QED
  BY <1>4, <1>5, <1>6, <1>7 DEF IInv

\* Steps of requests that leave every payslip, staff list and transaction alone.
LEMMA OtherStep ==
  ASSUME IInv, TypeOK', UNCHANGED <<items, pc, local>>,
         run'.by = run.by, run.id = run'.id, run'.status = "GONE" <=> run.status = "GONE"
  PROVE  IInv'
<1> USE DEF local
<1>1. \A m : RowsOf(m)' = RowsOf(m)
  BY DEF RowsOf
<1>2. \A r \in Requests : Inserted(r)' = Inserted(r)
  BY DEF Inserted, Writing
<1>3. OneSnapshot' /\ MakerDone' /\ GoneEmpty' /\ KeysDisjoint'
  BY <1>2 DEF IInv, OneSnapshot, Payslips, MakerDone, GoneEmpty, KeysDisjoint
<1>4. ASSUME NEW r \in Requests
      PROVE  StaffRead(r)' /\ PriorWhole(r)' /\ KeysFree(r)' /\ RunLocked(r)'
  <2>1. StaffRead(r)' /\ PriorWhole(r)'
    BY <1>1 DEF IInv, StaffRead, PriorWhole
  <2>2. KeysFree(r)' /\ RunLocked(r)'
    BY <1>2 DEF IInv, KeysFree, RunLocked, Row, Exists
  <2> QED
    BY <2>1, <2>2
<1> QED
  BY <1>3, <1>4 DEF IInv

LEMMA WriteStatusKeeps ==
  ASSUME TypeOK, NEW id \in Nat, NEW st \in Statuses, WriteStatus(id, st)
  PROVE  run'.by = run.by /\ run'.id = run.id /\ (run'.status = "GONE" <=> run.status = "GONE")
BY DEF TypeOK, WriteStatus, Exists, Statuses

\* Reading what is stored finds one request's snapshot.
LEMMA RowsWhole ==
  ASSUME IInv
  PROVE  \E m \in Requests \cup {NoOne} : (m # NoOne => pc[m] = "done") /\ Rows = RowsOf(m)
<1>1. run.by \in Requests \cup {NoOne} /\ (run.by # NoOne => pc[run.by] = "done")
  BY DEF IInv, TypeOK, MakerDone
<1>2. CASE run.by = NoOne
  BY <1>1, <1>2 DEF IInv, OneSnapshot, Payslips, Rows, RowsOf
<1>3. CASE run.by # NoOne
  <2>1. staff[run.by] \subseteq Employees
    BY <1>1, <1>3 DEF IInv, TypeOK
  <2>2. \A e \in Employees : items[e] = IF e \in staff[run.by] THEN run.by ELSE NoOne
    BY <1>3 DEF IInv, OneSnapshot, Payslips
  <2>3. {x \in Employees : items[x] # NoOne} = staff[run.by]
    BY <1>3, <2>1, <2>2
  <2>4. Rows = {<<e, run.by>> : e \in staff[run.by]}
    BY <2>1, <2>2, <2>3 DEF Rows, Row
  <2> QED
    BY <1>1, <1>3, <2>4 DEF RowsOf
<1> QED
  BY <1>2, <1>3

LEMMA QuietActions ==
  ASSUME IInv, TypeOK', NEW r \in Requests,
         \/ FindRun(r) \/ MarkProcessing(r) \/ ReadStaff(r) \/ BeginTransaction(r)
         \/ FindPrior(r) \/ Rollback(r) \/ RollbackOnFault(r) \/ GiveUp(r)
         \/ ResetToDraft(r) \/ Kill(r)
  PROVE  IInv'
<1> USE DEF local
<1> TypeOK
  BY DEF IInv
<1>1. CASE FindRun(r)
  BY <1>1, QuietStep DEF TypeOK, FindRun
<1>2. CASE MarkProcessing(r)
  <2>1. run'.by = run.by /\ run'.id = run.id /\ (run'.status = "GONE" <=> run.status = "GONE")
    BY <1>2, WriteStatusKeeps DEF TypeOK, MarkProcessing, Statuses
  <2> QED
    BY <1>2, <2>1, QuietStep DEF TypeOK, MarkProcessing
<1>3. CASE ReadStaff(r)
  <2>1. PICK S \in SUBSET Employees : Permanent \subseteq S /\ staff' = [staff EXCEPT ![r] = S]
    BY <1>3 DEF ReadStaff
  <2>2. staff'[r] = S /\ \A s \in Requests \ {r} : staff'[s] = staff[s]
    BY <2>1 DEF TypeOK
  <2>3. pc'[r] = "staffed" /\ pc' = [pc EXCEPT ![r] = pc'[r]] /\ pc[r] # "done"
    BY <1>3 DEF TypeOK, ReadStaff
  <2> QED
    BY <1>3, <2>1, <2>2, <2>3, QuietStep DEF ReadStaff
<1>4. CASE BeginTransaction(r)
  <2>1. Permanent \subseteq staff[r]
    BY <1>4 DEF IInv, StaffRead, BeginTransaction
  <2> QED
    BY <1>4, <2>1, QuietStep DEF TypeOK, BeginTransaction
<1>5. CASE FindPrior(r)
  <2>1. Permanent \subseteq staff[r]
    BY <1>5 DEF IInv, StaffRead, FindPrior, Open
  <2>2. \E m \in Requests \cup {NoOne} : (m # NoOne => pc[m] = "done") /\ prior'[r] = RowsOf(m)
    <3>1. CASE Exists(rid[r])
      BY <1>5, <3>1, RowsWhole DEF TypeOK, FindPrior
    <3>2. CASE ~Exists(rid[r])
      BY <1>5, <3>2 DEF TypeOK, FindPrior, RowsOf
    <3> QED
      BY <3>1, <3>2
  <2> QED
    BY <1>5, <2>1, <2>2, QuietStep DEF TypeOK, FindPrior
<1>6. CASE Rollback(r)
  BY <1>6, QuietStep DEF TypeOK, Rollback, Open
<1>7. CASE RollbackOnFault(r)
  BY <1>7, QuietStep DEF TypeOK, RollbackOnFault, Open
<1>8. CASE GiveUp(r)
  BY <1>8, QuietStep DEF TypeOK, GiveUp
<1>9. CASE ResetToDraft(r)
  <2>1. run'.by = run.by /\ run'.id = run.id /\ (run'.status = "GONE" <=> run.status = "GONE")
    BY <1>9, WriteStatusKeeps DEF TypeOK, ResetToDraft, Statuses
  <2> QED
    BY <1>9, <2>1, QuietStep DEF TypeOK, ResetToDraft
<1>10. CASE Kill(r)
  BY <1>10, QuietStep DEF TypeOK, Kill, Open
<1> QED
  BY <1>1, <1>2, <1>3, <1>4, <1>5, <1>6, <1>7, <1>8, <1>9, <1>10

\* A transaction that wrote nothing new and moves on inside its loop.
LEMMA LoopStep ==
  ASSUME IInv, TypeOK', NEW r \in Requests,
         UNCHANGED <<run, items, rid, staff, prior>>,
         pc[r] \in {"clearing", "gathering", "inserting"},
         pc' = [pc EXCEPT ![r] = pc'[r]],
         pc'[r] \in {"gathering", "inserting"},
         \A s \in Requests \ {r} : todo'[s] = todo[s],
         \A s \in Requests \ {r} : Inserted(r)' \cap Inserted(s) = {},
         \A e \in Inserted(r)' : items[e] = NoOne \/ Row(e) \in prior[r],
         Inserted(r)' # {} => Exists(rid[r])
  PROVE  IInv'
<1>1. ASSUME NEW s \in Requests, s # r
      PROVE  pc'[s] = pc[s] /\ Inserted(s)' = Inserted(s)
  BY <1>1 DEF IInv, TypeOK, Inserted, Writing
<1>2. \A m : RowsOf(m)' = RowsOf(m)
  BY DEF RowsOf
<1>3. \A m \in Requests : pc[m] = "done" => pc'[m] = "done"
  BY <1>1
<1>4. OneSnapshot' /\ MakerDone' /\ GoneEmpty'
  BY <1>3 DEF IInv, TypeOK, OneSnapshot, Payslips, MakerDone, GoneEmpty
<1>5. KeysDisjoint'
  BY <1>1 DEF IInv, KeysDisjoint
<1>6. ASSUME NEW s \in Requests
      PROVE  StaffRead(s)' /\ PriorWhole(s)' /\ KeysFree(s)' /\ RunLocked(s)'
  <2>1. StaffRead(s)' /\ PriorWhole(s)'
    BY <1>1, <1>2, <1>3 DEF IInv, StaffRead, PriorWhole, Open
  <2>2. KeysFree(s)' /\ RunLocked(s)'
    BY <1>1 DEF IInv, KeysFree, RunLocked, Row, Exists
  <2> QED
    BY <2>1, <2>2
<1> QED
  BY <1>4, <1>5, <1>6 DEF IInv

LEMMA LoopActions ==
  ASSUME IInv, TypeOK', NEW r \in Requests,
         DestroyPrior(r) \/ Gather(r) \/ CreateItem(r)
  PROVE  IInv'
<1> USE DEF local
<1> TypeOK
  BY DEF IInv
<1>1. CASE DestroyPrior(r)
  <2>1. Inserted(r)' = {}
    BY <1>1 DEF TypeOK, DestroyPrior, Inserted, Writing
  <2> QED
    BY <1>1, <2>1, LoopStep DEF TypeOK, DestroyPrior
<1>2. CASE Gather(r)
  <2>1. Inserted(r)' = Inserted(r)
    BY <1>2 DEF TypeOK, Gather, Inserted, Writing
  <2>2. /\ \A s \in Requests \ {r} : Inserted(r) \cap Inserted(s) = {}
        /\ KeysFree(r) /\ RunLocked(r)
    BY DEF IInv, KeysDisjoint
  <2> QED
    BY <1>2, <2>1, <2>2, LoopStep DEF TypeOK, Gather, KeysFree, RunLocked
<1>3. CASE CreateItem(r)
  <2>1. Inserted(r)' \subseteq Inserted(r) \cup {cur[r]}
    BY <1>3 DEF TypeOK, CreateItem, Inserted, Writing
  <2>2. \A s \in Requests \ {r} : Inserted(r) \cap Inserted(s) = {} /\ cur[r] \notin Inserted(s)
    BY <1>3 DEF IInv, KeysDisjoint, CreateItem, Blocked, Waits
  <2>3. \A e \in Inserted(r)' : items[e] = NoOne \/ Row(e) \in prior[r]
    BY <1>3, <2>1 DEF IInv, KeysFree, CreateItem, KeyFree
  <2>4. Exists(rid[r])
    BY <1>3 DEF CreateItem
  <2>5. \A s \in Requests \ {r} : Inserted(r)' \cap Inserted(s) = {} /\ todo'[s] = todo[s]
    BY <1>3, <2>1, <2>2 DEF TypeOK, CreateItem
  <2>6. /\ pc' = [pc EXCEPT ![r] = pc'[r]] /\ pc'[r] = "gathering" /\ pc[r] = "inserting"
        /\ UNCHANGED <<run, items, rid, staff, prior>>
    BY <1>3 DEF TypeOK, CreateItem
  <2> QED
    BY <2>3, <2>4, <2>5, <2>6, LoopStep
<1> QED
  BY <1>1, <1>2, <1>3

\* The request that commits has inserted a permanent employee's payslip: what
\* is stored besides its own payslips it found, and deletes.
LEMMA CommitReplaces ==
  ASSUME IInv, NEW r \in Requests, Commit(r)
  PROVE  /\ Exists(rid[r])
         /\ \A e \in Employees \ staff[r] : items'[e] = NoOne
<1>1. Inserted(r) = staff[r] /\ pc[r] = "gathering"
  BY DEF Commit, Inserted, Writing
<1>2. PICK p \in Permanent : TRUE
  BY PayrollAssumption
<1>3. p \in Employees /\ p \in Inserted(r)
  BY <1>1, <1>2, PayrollAssumption DEF IInv, StaffRead, Open
<1>4. Exists(rid[r])
  BY <1>3 DEF IInv, RunLocked
<1>5. ASSUME NEW e \in Employees \ staff[r], items[e] # NoOne
      PROVE  Row(e) \in prior[r]
  <2>1. run.by \in Requests /\ e \in staff[run.by] /\ items[e] = run.by /\ pc[run.by] = "done"
    BY <1>5 DEF IInv, TypeOK, OneSnapshot, Payslips, MakerDone
  <2>2. items[p] = run.by
    BY <1>2, <1>3, <2>1, PayrollAssumption DEF IInv, OneSnapshot, Payslips, StaffRead
  <2>3. <<p, run.by>> \in prior[r]
    BY <1>3, <2>1, <2>2, PayrollAssumption DEF IInv, KeysFree, Row
  <2>4. PICK m \in Requests \cup {NoOne} : prior[r] = RowsOf(m)
    BY <1>1 DEF IInv, PriorWhole
  <2>5. m = run.by /\ prior[r] = staff[run.by] \X {run.by}
    BY <2>3, <2>4 DEF RowsOf
  <2> QED
    BY <2>1, <2>5 DEF Row
<1> QED
  BY <1>4, <1>5 DEF Commit

LEMMA CommitStep ==
  ASSUME IInv, TypeOK', NEW r \in Requests, Commit(r)
  PROVE  IInv'
<1> USE DEF local
<1> TypeOK /\ pc[r] = "gathering" /\ r # NoOne
  BY PayrollAssumption DEF IInv, Commit
<1>1. run'.by = r /\ run'.id = run.id /\ run'.status = run.status /\ run.status # "GONE"
  BY CommitReplaces DEF Commit, Exists
<1>2. pc'[r] = "done" /\ \A s \in Requests \ {r} : pc'[s] = pc[s]
  BY DEF TypeOK, Commit
<1>3. Inserted(r) = staff[r] /\ Inserted(r)' = {}
  BY <1>2 DEF Commit, Inserted, Writing
<1>4. ASSUME NEW s \in Requests, s # r
      PROVE  Inserted(s)' = Inserted(s) /\ staff[r] \cap Inserted(s) = {}
  BY <1>2, <1>3, <1>4 DEF IInv, KeysDisjoint, Commit, Inserted, Writing
<1>5. OneSnapshot'
  <2>1. \A e \in Employees : items'[e] = IF e \in staff[r] THEN r ELSE NoOne
    BY CommitReplaces DEF Commit
  <2>2. items' = [e \in Employees |-> items'[e]]
    BY DEF TypeOK
  <2>3. Payslips(r)' = [e \in Employees |-> IF e \in staff[r] THEN r ELSE NoOne]
    BY DEF Payslips, Commit
  <2> QED
    BY <1>1, <2>1, <2>2, <2>3 DEF OneSnapshot, Payslips, Commit
<1>6. MakerDone' /\ GoneEmpty' /\ KeysDisjoint'
  BY <1>1, <1>2, <1>3, <1>4 DEF IInv, MakerDone, GoneEmpty, KeysDisjoint
<1>7. ASSUME NEW s \in Requests
      PROVE  StaffRead(s)' /\ PriorWhole(s)' /\ KeysFree(s)' /\ RunLocked(s)'
  <2>1. StaffRead(s)'
    BY <1>2 DEF IInv, StaffRead, Commit, Open
  <2>2. PriorWhole(s)'
    <3>1. \A m : RowsOf(m)' = RowsOf(m)
      BY DEF RowsOf, Commit
    <3> QED
      BY <1>2, <3>1 DEF IInv, PriorWhole, Commit
  <2>3. KeysFree(s)'
    <3>1. CASE s = r
      BY <1>3, <3>1 DEF KeysFree
    <3>2. CASE s # r
      <4>1. \A e \in Inserted(s) : e \in Employees /\ e \notin staff[r]
        BY <1>4, <3>2 DEF TypeOK, Inserted
      <4>2. \A e \in Inserted(s) : items'[e] = NoOne
        BY <4>1, CommitReplaces
      <4> QED
        BY <1>4, <3>2, <4>2 DEF KeysFree
    <3> QED
      BY <3>1, <3>2
  <2>4. RunLocked(s)'
    BY <1>1, <1>3, <1>4 DEF IInv, RunLocked, Exists, Commit
  <2> QED
    BY <2>1, <2>2, <2>3, <2>4
<1> QED
  BY <1>5, <1>6, <1>7 DEF IInv

\* While the run has no row, or its row is deleted, no transaction holds a key.
LEMMA RowlessStep ==
  ASSUME IInv, TypeOK', UNCHANGED <<pc, local>>,
         \A r \in Requests : Inserted(r) = {},
         items' = [e \in Employees |-> NoOne], run'.by = NoOne
  PROVE  IInv'
<1> USE DEF local
<1>1. \A m : RowsOf(m)' = RowsOf(m)
  BY DEF RowsOf
<1>2. \A r \in Requests : Inserted(r)' = {}
  BY DEF Inserted, Writing
<1>3. OneSnapshot' /\ MakerDone' /\ GoneEmpty' /\ KeysDisjoint'
  BY <1>2 DEF OneSnapshot, Payslips, MakerDone, GoneEmpty, KeysDisjoint
<1>4. ASSUME NEW r \in Requests
      PROVE  StaffRead(r)' /\ PriorWhole(r)' /\ KeysFree(r)' /\ RunLocked(r)'
  BY <1>1, <1>2 DEF IInv, StaffRead, PriorWhole, KeysFree, RunLocked
<1> QED
  BY <1>3, <1>4 DEF IInv

LEMMA SnapshotStep == IInv /\ [Next]_vars => IInv'
<1> SUFFICES ASSUME IInv, [Next]_vars PROVE IInv'
  OBVIOUS
<1> USE DEF local
<1> TypeOK /\ TypeOK'
  BY TypeStep DEF IInv
<1>1. ASSUME NEW r \in Requests, FindRun(r) \/ Advance(r) \/ RollbackOnFault(r) \/ Kill(r)
      PROVE  IInv'
  BY <1>1, QuietActions, LoopActions, CommitStep DEF Advance
<1>2. CASE CreateRun
  <2>1. \A r \in Requests : Inserted(r) = {}
    BY <1>2 DEF IInv, RunLocked, Exists, CreateRun
  <2>2. items' = [e \in Employees |-> NoOne] /\ run'.by = NoOne
    BY <1>2 DEF IInv, GoneEmpty, OneSnapshot, Payslips, CreateRun
  <2> QED
    BY <1>2, <2>1, <2>2, RowlessStep DEF CreateRun
<1>3. ASSUME NEW to \in DOMAIN Allowed, Decide(to) PROVE IInv'
  BY <1>3, OtherStep DEF Decide
<1>4. ASSUME NEW d \in pending, UpdateStatus(d) PROVE IInv'
  <2>1. d.id \in Nat /\ d.to \in Statuses
    BY <1>4 DEF TypeOK, UpdateStatus
  <2>2. run'.by = run.by /\ run'.id = run.id /\ (run'.status = "GONE" <=> run.status = "GONE")
    BY <1>4, <2>1, WriteStatusKeeps DEF UpdateStatus
  <2> QED
    BY <1>4, <2>2, OtherStep DEF UpdateStatus
<1>5. ASSUME NEW d \in pending, Destroy(d) PROVE IInv'
  <2>1. CASE Exists(d.id)
    BY <1>5, <2>1, RowlessStep DEF Destroy
  <2>2. CASE ~Exists(d.id)
    BY <1>5, <2>2, OtherStep DEF Destroy
  <2> QED
    BY <2>1, <2>2
<1>6. CASE UNCHANGED vars
  BY <1>6, OtherStep DEF vars
<1> QED
  BY <1>1, <1>2, <1>3, <1>4, <1>5, <1>6 DEF Next

THEOREM SnapshotInvariant == Spec => []IInv
BY SnapshotInit, SnapshotStep, PTL DEF Spec

\* The stored payslips are one request's complete result and the header's
\* totals are its own, however many requests overlap, fail, die or retry.
THEOREM PayslipsAreOneSnapshot == Spec => []OneSnapshot
<1>1. IInv => OneSnapshot
  BY DEF IInv
<1> QED
  BY <1>1, SnapshotInvariant, PTL

\* A transaction with nothing left to insert before its commit.
Ready(r) == Writing(r) /\ todo[r] = {}

\* Of the overlapping transactions at most one gets through to its commit:
\* the unique index of payroll_items stands in for the missing lock on the run.
OneReady == \A r, s \in Requests : Ready(r) /\ Ready(s) => r = s

\* Two process requests are never both about to commit.
THEOREM OneRequestCommits == Spec => []OneReady
<1>1. IInv => OneReady
  <2> SUFFICES ASSUME IInv, NEW r \in Requests, NEW s \in Requests,
                      Ready(r), Ready(s), r # s
               PROVE  FALSE
    BY DEF OneReady
  <2>1. Permanent \subseteq Inserted(r) /\ Permanent \subseteq Inserted(s)
    BY DEF IInv, StaffRead, Inserted, Writing, Open, Ready
  <2> QED
    BY <2>1, PayrollAssumption DEF IInv, KeysDisjoint
<1> QED
  BY <1>1, SnapshotInvariant, PTL

-----------------------------------------------------------------------------
(***************************************************************************)
(* Sums over finite sets: days of leaves, lines of a payslip.  A sum does  *)
(* not depend on the order it is taken in.  Each of these is proved by a   *)
(* smallest set for which it would fail.                                   *)
(***************************************************************************)

SumOf(w, S) == MapThenSumSet(LAMBDA x : w[x], S)

\* Of some subsets of a finite set one has none of the others within it.
LEMMA Smallest ==
  ASSUME NEW A, IsFiniteSet(A), NEW U, U \subseteq SUBSET A, U # {}
  PROVE  \E S \in U : \A T \in U : T \subseteq S => T = S
<1> DEFINE R == StrictSubsetOrdering(A)
<1>1. IsWellFoundedOn(R, FiniteSubsetsOf(A))
  BY FS_StrictSubsetOrderingWellFounded
<1>2. U \subseteq FiniteSubsetsOf(A)
  BY FS_Subset DEF FiniteSubsetsOf
<1>3. PICK S \in U : \A T \in U : ~(<<T, S>> \in R)
  <2> HIDE DEF R
  <2> QED
    BY <1>1, <1>2, WFMin
<1>4. \A T \in U : T \subseteq S => T = S
  BY <1>3 DEF StrictSubsetOrdering
<1> QED
  BY <1>4

\* The element the sum takes first, and the sums of all the sets within S.
First(S) == CHOOSE x \in S : TRUE
Sums(w, S, f) ==
  f = [T \in SUBSET S |-> IF T = {} THEN 0 ELSE w[First(T)] + f[T \ {First(T)}]]

LEMMA FirstIn ==
  ASSUME NEW S, S # {}
  PROVE  First(S) \in S
BY DEF First

LEMMA SumIs ==
  ASSUME NEW S, NEW w
  PROVE  SumOf(w, S) = (CHOOSE f : Sums(w, S, f))[S]
BY DEF SumOf, MapThenSumSet, MapThenFoldSet, Sums, First

LEMMA SumsTurn ==
  ASSUME NEW w, NEW S, NEW f, Sums(w, S, f), NEW T \in SUBSET S
  PROVE  f[T] = IF T = {} THEN 0 ELSE w[First(T)] + f[T \ {First(T)}]
BY DEF Sums

LEMMA SumsAgree ==
  ASSUME NEW L, IsFiniteSet(L), NEW w, NEW A \in SUBSET L, NEW B \in SUBSET L,
         NEW f, Sums(w, A, f), NEW g, Sums(w, B, g), NEW S, S \subseteq A, S \subseteq B
  PROVE  f[S] = g[S]
<1> DEFINE U == {T \in SUBSET L : T \subseteq A /\ T \subseteq B /\ f[T] # g[T]}
<1> SUFFICES ASSUME U # {}
             PROVE  FALSE
  OBVIOUS
<1>1. PICK T \in U : \A V \in U : V \subseteq T => V = T
  <2>1. U \subseteq SUBSET L
    OBVIOUS
  <2> HIDE DEF U
  <2> QED
    BY <2>1, Smallest
<1>2. /\ f[T] = IF T = {} THEN 0 ELSE w[First(T)] + f[T \ {First(T)}]
      /\ g[T] = IF T = {} THEN 0 ELSE w[First(T)] + g[T \ {First(T)}]
  <2>1. T \in SUBSET A /\ T \in SUBSET B
    OBVIOUS
  <2> HIDE DEF U
  <2>2. f[T] = IF T = {} THEN 0 ELSE w[First(T)] + f[T \ {First(T)}]
    BY <2>1, SumsTurn
  <2>3. g[T] = IF T = {} THEN 0 ELSE w[First(T)] + g[T \ {First(T)}]
    BY <2>1, SumsTurn
  <2> QED
    BY <2>2, <2>3
<1>3. T # {}
  BY <1>2
<1>4. First(T) \in T
  BY <1>3, FirstIn
<1>5. f[T \ {First(T)}] = g[T \ {First(T)}]
  BY <1>1, <1>4
<1> QED
  BY <1>2, <1>3, <1>5

LEMMA SumsThere ==
  ASSUME NEW L, IsFiniteSet(L), NEW w, NEW S \in SUBSET L
  PROVE  \E f : Sums(w, S, f)
<1> DEFINE U == {T \in SUBSET L : ~\E f : Sums(w, T, f)}
<1> SUFFICES ASSUME U # {}
             PROVE  FALSE
  OBVIOUS
<1>1. PICK T \in U : \A V \in U : V \subseteq T => V = T
  <2>1. U \subseteq SUBSET L
    OBVIOUS
  <2> HIDE DEF U
  <2> QED
    BY <2>1, Smallest
<1> DEFINE Rest(l) == T \ {l}
           Of(l) == CHOOSE f : Sums(w, Rest(l), f)
           f == [V \in SUBSET T |-> IF V = {} THEN 0
                                    ELSE w[First(V)] + Of(First(V))[V \ {First(V)}]]
<1>2. ASSUME NEW l \in T
      PROVE  Sums(w, Rest(l), Of(l)) /\ Rest(l) \in SUBSET L
  <2>1. \E h : Sums(w, Rest(l), h)
    BY <1>1
  <2> QED
    BY <1>1, <2>1
<1>3. \A V \in SUBSET T :
        f[V] = IF V = {} THEN 0 ELSE w[First(V)] + Of(First(V))[V \ {First(V)}]
  OBVIOUS
<1>4. f = [V \in SUBSET T |-> f[V]]
  OBVIOUS
<1> HIDE DEF U, f, Of
<1>5. ASSUME NEW l \in T, NEW W \in SUBSET Rest(l)
      PROVE  Of(l)[W] = IF W = {} THEN 0 ELSE w[First(W)] + Of(l)[W \ {First(W)}]
  <2> HIDE DEF Rest
  <2> QED
    BY <1>2, SumsTurn
<1>6. ASSUME NEW l \in T, NEW m \in T, NEW X, X \subseteq Rest(l), X \subseteq Rest(m)
      PROVE  Of(l)[X] = Of(m)[X]
  <2> HIDE DEF Rest
  <2> PICK A, B, g, h : A = Rest(l) /\ B = Rest(m) /\ g = Of(l) /\ h = Of(m)
    OBVIOUS
  <2>1. A \in SUBSET L /\ B \in SUBSET L /\ Sums(w, A, g) /\ Sums(w, B, h)
    BY <1>2
  <2>2. X \subseteq A /\ X \subseteq B
    BY <1>6
  <2>3. g[X] = h[X]
    BY <2>1, <2>2, SumsAgree
  <2> QED
    BY <2>3
<1>7. ASSUME NEW V \in SUBSET T, V # {}
      PROVE  Of(First(V))[V \ {First(V)}] = f[V \ {First(V)}]
  <2> PICK l, W : l = First(V) /\ W = V \ {l}
    OBVIOUS
  <2>1. l \in T /\ W \in SUBSET T /\ W \in SUBSET Rest(l)
    BY <1>7, FirstIn
  <2> HIDE DEF Rest
  <2>2. Of(l)[W] = IF W = {} THEN 0 ELSE w[First(W)] + Of(l)[W \ {First(W)}]
    BY <1>5, <2>1
  <2>3. f[W] = IF W = {} THEN 0 ELSE w[First(W)] + Of(First(W))[W \ {First(W)}]
    BY <1>3, <2>1
  <2>4. CASE W = {}
    BY <2>2, <2>3, <2>4
  <2>5. CASE W # {}
    <3> PICK m, X : m = First(W) /\ X = W \ {m}
      OBVIOUS
    <3>1. m \in T /\ X \subseteq Rest(l) /\ X \subseteq Rest(m)
      BY <2>1, <2>5, FirstIn DEF Rest
    <3>2. Of(l)[X] = Of(m)[X]
      BY <1>6, <2>1, <3>1
    <3> QED
      BY <2>2, <2>3, <2>5, <3>2
  <2> QED
    BY <2>4, <2>5
<1>8. \A V \in SUBSET T : f[V] = IF V = {} THEN 0 ELSE w[First(V)] + f[V \ {First(V)}]
  BY <1>3, <1>7
<1>9. Sums(w, T, f)
  BY <1>4, <1>8 DEF Sums
<1> QED
  BY <1>1, <1>9 DEF U

LEMMA SumTurn ==
  ASSUME NEW L, IsFiniteSet(L), NEW w, NEW S \in SUBSET L
  PROVE  SumOf(w, S) = IF S = {} THEN 0 ELSE w[First(S)] + SumOf(w, S \ {First(S)})
<1> PICK f : Sums(w, S, f) /\ SumOf(w, S) = f[S]
  BY SumsThere, SumIs
<1>1. f[S] = IF S = {} THEN 0 ELSE w[First(S)] + f[S \ {First(S)}]
  BY SumsTurn
<1>2. CASE S = {}
  BY <1>1, <1>2
<1>3. CASE S # {}
  <2> PICK T : T = S \ {First(S)} /\ T \in SUBSET L /\ T \subseteq S
    OBVIOUS
  <2> PICK g : Sums(w, T, g) /\ SumOf(w, T) = g[T]
    BY SumsThere, SumIs
  <2>1. f[T] = g[T]
    <3>1. ASSUME NEW V \in SUBSET L, V \subseteq S, NEW h, Sums(w, V, h)
          PROVE  f[V] = h[V]
      <4>1. V \subseteq V
        OBVIOUS
      <4> QED
        BY <3>1, <4>1, SumsAgree
    <3> QED
      BY <3>1
  <2> QED
    BY <1>1, <1>3, <2>1
<1> QED
  BY <1>2, <1>3

\* The number the fold of MapThenSumSet comes to, for any fold with the same turns.
LEMMA SumSame ==
  ASSUME NEW S, IsFiniteSet(S), NEW w, NEW f, Sums(w, S, f)
  PROVE  f[S] = SumOf(w, S)
<1> PICK g : Sums(w, S, g) /\ SumOf(w, S) = g[S]
  BY SumIs
<1> QED
  BY SumsAgree

LEMMA SumType ==
  ASSUME NEW L, IsFiniteSet(L), NEW w \in [L -> Int], NEW S \in SUBSET L
  PROVE  /\ SumOf(w, S) \in Int
         /\ (\A x \in S : 0 <= w[x]) => 0 <= SumOf(w, S)
<1> DEFINE Good(T) == SumOf(w, T) \in Int /\ ((\A x \in T : 0 <= w[x]) => 0 <= SumOf(w, T))
           U == {T \in SUBSET L : ~Good(T)}
<1> SUFFICES ASSUME U # {}
             PROVE  FALSE
  OBVIOUS
<1>1. PICK T \in U : \A V \in U : V \subseteq T => V = T
  <2>1. U \subseteq SUBSET L
    OBVIOUS
  <2> HIDE DEF U
  <2> QED
    BY <2>1, Smallest
<1>2. SumOf(w, T) = IF T = {} THEN 0 ELSE w[First(T)] + SumOf(w, T \ {First(T)})
  BY SumTurn
<1>3. T # {}
  BY <1>1, <1>2
<1> PICK x, V : x = First(T) /\ V = T \ {x}
  OBVIOUS
<1>4. x \in T /\ w[x] \in Int
  BY <1>3, FirstIn
<1>5. Good(V)
  BY <1>1, <1>4
<1>6. SumOf(w, T) = w[x] + SumOf(w, V)
  BY <1>2, <1>3
<1>7. Good(T)
  BY <1>4, <1>5, <1>6
<1> QED
  BY <1>1, <1>7

\* Any element may be taken first.
LEMMA SumOut ==
  ASSUME NEW L, IsFiniteSet(L), NEW w \in [L -> Int], NEW S \in SUBSET L, NEW l \in S
  PROVE  SumOf(w, S) = w[l] + SumOf(w, S \ {l})
<1> DEFINE U == {T \in SUBSET L : \E m \in T : SumOf(w, T) # w[m] + SumOf(w, T \ {m})}
<1> SUFFICES ASSUME U # {}
             PROVE  FALSE
  OBVIOUS
<1>1. PICK T \in U : \A V \in U : V \subseteq T => V = T
  <2>1. U \subseteq SUBSET L
    OBVIOUS
  <2> HIDE DEF U
  <2> QED
    BY <2>1, Smallest
<1>2. PICK m \in T : SumOf(w, T) # w[m] + SumOf(w, T \ {m})
  BY <1>1
<1> PICK k : k = First(T) /\ k \in T
  BY FirstIn
<1>3. SumOf(w, T) = w[k] + SumOf(w, T \ {k})
  BY SumTurn
<1>4. k # m
  BY <1>2, <1>3
<1> PICK A, B, C : A = T \ {k} /\ B = T \ {m} /\ C = T \ {k, m}
  OBVIOUS
<1>5. A \notin U /\ B \notin U
  BY <1>1
<1>6. A \in SUBSET L /\ B \in SUBSET L /\ m \in A /\ k \in B
      /\ A \ {m} = C /\ B \ {k} = C /\ C \in SUBSET L
  BY <1>4
<1>7. SumOf(w, A) = w[m] + SumOf(w, C) /\ SumOf(w, B) = w[k] + SumOf(w, C)
  BY <1>5, <1>6
<1>8. w[m] \in Int /\ w[k] \in Int /\ SumOf(w, C) \in Int
  BY <1>6, SumType
<1> QED
  BY <1>2, <1>3, <1>7, <1>8

LEMMA SumMore ==
  ASSUME NEW L, IsFiniteSet(L), NEW w \in [L -> Int], NEW S \in SUBSET L, NEW l \in L, l \notin S
  PROVE  SumOf(w, S \cup {l}) = SumOf(w, S) + w[l]
<1> PICK T : T = S \cup {l}
  OBVIOUS
<1>1. T \in SUBSET L /\ l \in T /\ T \ {l} = S
  OBVIOUS
<1>2. SumOf(w, T) = w[l] + SumOf(w, S)
  BY <1>1, SumOut
<1>3. w[l] \in Int /\ SumOf(w, S) \in Int
  BY SumType
<1> QED
  BY <1>2, <1>3

\* A set's sum is that of a part of it and that of the rest.
LEMMA SumSplit ==
  ASSUME NEW L, IsFiniteSet(L), NEW w \in [L -> Int], NEW A \in SUBSET L, NEW B \in SUBSET A
  PROVE  SumOf(w, A) = SumOf(w, B) + SumOf(w, A \ B)
<1> DEFINE U == {T \in SUBSET L : T \subseteq A /\ SumOf(w, A) # SumOf(w, T) + SumOf(w, A \ T)}
<1> SUFFICES ASSUME U # {}
             PROVE  FALSE
  OBVIOUS
<1>1. PICK T \in U : \A V \in U : V \subseteq T => V = T
  <2>1. U \subseteq SUBSET L
    OBVIOUS
  <2> HIDE DEF U
  <2> QED
    BY <2>1, Smallest
<1>2. T # {}
  <2>1. SumOf(w, {}) = 0
    BY SumTurn
  <2> PICK R : R = A \ T
    OBVIOUS
  <2>2. SumOf(w, A) # SumOf(w, T) + SumOf(w, R) /\ SumOf(w, A) \in Int
    BY <1>1, SumType
  <2> HIDE DEF U
  <2>3. ASSUME T = {}
        PROVE  FALSE
    <3> PICK a, b, d : a = SumOf(w, A) /\ b = SumOf(w, T) /\ d = SumOf(w, R)
      OBVIOUS
    <3>1. R = A /\ b = 0
      BY <2>1, <2>3
    <3>2. a # b + d /\ a \in Int
      BY <2>2
    <3>3. d = a
      BY <3>1
    <3> QED
      BY <3>1, <3>2, <3>3
  <2> QED
    BY <2>3
<1> PICK l : l \in T
  BY <1>2
<1> PICK V, W, X : V = T \ {l} /\ W = A \ T /\ X = A \ V
  OBVIOUS
<1>3. /\ V \in SUBSET L /\ W \in SUBSET L /\ V \subseteq A
      /\ l \in L /\ l \notin W /\ X = W \cup {l} /\ V \notin U
  BY <1>1
<1>4. SumOf(w, A) = SumOf(w, V) + SumOf(w, X)
  BY <1>3
<1>5. SumOf(w, X) = SumOf(w, W) + w[l]
  <2>1. W \in SUBSET L /\ l \in L /\ l \notin W
    BY <1>3
  <2>2. SumOf(w, W \cup {l}) = SumOf(w, W) + w[l]
    BY <2>1, SumMore
  <2> QED
    BY <1>3, <2>2
<1>6. SumOf(w, T) = w[l] + SumOf(w, V)
  BY SumOut
<1>7. w[l] \in Int /\ SumOf(w, V) \in Int /\ SumOf(w, W) \in Int
  BY <1>3, SumType
<1>8. SumOf(w, A) = SumOf(w, T) + SumOf(w, W)
  BY <1>4, <1>5, <1>6, <1>7
<1> QED
  BY <1>1, <1>8

LEMMA SumUnion ==
  ASSUME NEW L, IsFiniteSet(L), NEW w \in [L -> Nat], NEW A \in SUBSET L, NEW B \in SUBSET L
  PROVE  /\ SumOf(w, A \cup B) <= SumOf(w, A) + SumOf(w, B)
         /\ A \cap B = {} => SumOf(w, A \cup B) = SumOf(w, A) + SumOf(w, B)
         /\ A \subseteq B => SumOf(w, A) <= SumOf(w, B)
<1> PICK C, D, X : C = A \cup B /\ D = B \ A /\ X = B \cap A
  OBVIOUS
<1>1. /\ C \in SUBSET L /\ A \in SUBSET C /\ C \ A = D /\ D \in SUBSET B /\ B \ D = X
      /\ X \in SUBSET L /\ D \in SUBSET L
  OBVIOUS
<1>2. w \in [L -> Int] /\ \A x \in L : 0 <= w[x]
  OBVIOUS
<1>3. SumOf(w, C) = SumOf(w, A) + SumOf(w, D) /\ SumOf(w, B) = SumOf(w, D) + SumOf(w, X)
  BY <1>1, <1>2, SumSplit
<1>4. \A S \in SUBSET L : SumOf(w, S) \in Int /\ 0 <= SumOf(w, S)
  BY <1>2, SumType
<1>5. A \cap B = {} => D = B
  OBVIOUS
<1>6. A \subseteq B => X = A
  OBVIOUS
<1> QED
  BY <1>1, <1>3, <1>4, <1>5, <1>6

\* Sums are compared, and added, element by element.
LEMMA SumBelow ==
  ASSUME NEW L, IsFiniteSet(L), NEW v \in [L -> Int], NEW w \in [L -> Int],
         NEW S \in SUBSET L, \A x \in S : v[x] <= w[x]
  PROVE  SumOf(v, S) <= SumOf(w, S)
<1> DEFINE U == {T \in SUBSET S : ~(SumOf(v, T) <= SumOf(w, T))}
<1> SUFFICES ASSUME U # {}
             PROVE  FALSE
  OBVIOUS
<1>1. PICK T \in U : \A V \in U : V \subseteq T => V = T
  <2>1. U \subseteq SUBSET L
    OBVIOUS
  <2> HIDE DEF U
  <2> QED
    BY <2>1, Smallest
<1>2. T \in SUBSET L /\ T \subseteq S /\ ~(SumOf(v, T) <= SumOf(w, T))
  BY <1>1
<1>3. /\ SumOf(v, T) = IF T = {} THEN 0 ELSE v[First(T)] + SumOf(v, T \ {First(T)})
      /\ SumOf(w, T) = IF T = {} THEN 0 ELSE w[First(T)] + SumOf(w, T \ {First(T)})
  BY <1>2, SumTurn
<1>4. T # {}
  BY <1>2, <1>3
<1> PICK x, V : x = First(T) /\ V = T \ {x}
  OBVIOUS
<1>5. x \in T /\ v[x] <= w[x] /\ v[x] \in Int /\ w[x] \in Int /\ V \in SUBSET L
  BY <1>2, <1>4, FirstIn
<1>6. SumOf(v, V) <= SumOf(w, V)
  BY <1>1, <1>5
<1>7. SumOf(v, V) \in Int /\ SumOf(w, V) \in Int
  BY <1>5, SumType
<1>8. SumOf(v, T) = v[x] + SumOf(v, V) /\ SumOf(w, T) = w[x] + SumOf(w, V)
  BY <1>3, <1>4
<1> QED
  BY <1>2, <1>5, <1>6, <1>7, <1>8

LEMMA SumPlus ==
  ASSUME NEW L, IsFiniteSet(L), NEW u \in [L -> Int], NEW v \in [L -> Int], NEW w \in [L -> Int],
         NEW S \in SUBSET L, \A x \in S : w[x] = u[x] + v[x]
  PROVE  SumOf(w, S) = SumOf(u, S) + SumOf(v, S)
<1> DEFINE U == {T \in SUBSET S : SumOf(w, T) # SumOf(u, T) + SumOf(v, T)}
<1> SUFFICES ASSUME U # {}
             PROVE  FALSE
  OBVIOUS
<1>1. PICK T \in U : \A V \in U : V \subseteq T => V = T
  <2>1. U \subseteq SUBSET L
    OBVIOUS
  <2> HIDE DEF U
  <2> QED
    BY <2>1, Smallest
<1>2. T \in SUBSET L /\ T \subseteq S /\ SumOf(w, T) # SumOf(u, T) + SumOf(v, T)
  BY <1>1
<1>3. /\ SumOf(u, T) = IF T = {} THEN 0 ELSE u[First(T)] + SumOf(u, T \ {First(T)})
      /\ SumOf(v, T) = IF T = {} THEN 0 ELSE v[First(T)] + SumOf(v, T \ {First(T)})
      /\ SumOf(w, T) = IF T = {} THEN 0 ELSE w[First(T)] + SumOf(w, T \ {First(T)})
  BY <1>2, SumTurn
<1>4. T # {}
  BY <1>2, <1>3
<1> PICK x, V : x = First(T) /\ V = T \ {x}
  OBVIOUS
<1>5. /\ x \in T /\ w[x] = u[x] + v[x] /\ u[x] \in Int /\ v[x] \in Int /\ w[x] \in Int
      /\ V \in SUBSET L
  BY <1>2, <1>4, FirstIn
<1>6. SumOf(w, V) = SumOf(u, V) + SumOf(v, V)
  BY <1>1, <1>5
<1>7. SumOf(u, V) \in Int /\ SumOf(v, V) \in Int /\ SumOf(w, V) \in Int
  BY <1>5, SumType
<1>8. /\ SumOf(u, T) = u[x] + SumOf(u, V) /\ SumOf(v, T) = v[x] + SumOf(v, V)
      /\ SumOf(w, T) = w[x] + SumOf(w, V)
  BY <1>3, <1>4
<1> QED
  BY <1>2, <1>5, <1>6, <1>7, <1>8

\* Counting: so much for each member of a part.
LEMMA SumCount ==
  ASSUME NEW L, IsFiniteSet(L), NEW P \in SUBSET L, NEW c \in Int, NEW w \in [L -> Int],
         \A x \in L : w[x] = IF x \in P THEN c ELSE 0
  PROVE  SumOf(w, L) = c * Cardinality(P)
<1> DEFINE U == {T \in SUBSET L : SumOf(w, T) # c * Cardinality(T \cap P)}
<1>1. ASSUME U # {}
      PROVE  FALSE
  <2>1. PICK T \in U : \A V \in U : V \subseteq T => V = T
    <3>1. U \subseteq SUBSET L
      OBVIOUS
    <3> HIDE DEF U
    <3> QED
      BY <1>1, <3>1, Smallest
  <2>2. SumOf(w, T) = IF T = {} THEN 0 ELSE w[First(T)] + SumOf(w, T \ {First(T)})
    BY SumTurn
  <2>3. T # {}
    <3> SUFFICES ASSUME T = {}
                 PROVE  FALSE
      OBVIOUS
    <3>1. T \cap P = {} /\ Cardinality({}) = 0
      BY FS_EmptySet
    <3>2. Cardinality(T \cap P) = 0 /\ c * 0 = 0
      BY <3>1
    <3> QED
      BY <2>1, <2>2, <3>2
  <2> PICK x, V : x = First(T) /\ V = T \ {x}
    OBVIOUS
  <2>4. x \in T /\ x \in L /\ V \in SUBSET L /\ SumOf(w, V) = c * Cardinality(V \cap P)
    BY <2>1, <2>3, FirstIn
  <2>5. IsFiniteSet(T \cap P) /\ IsFiniteSet(V \cap P)
    BY <2>4, FS_Subset
  <2>6. CASE x \in P
    <3>1. V \cap P = (T \cap P) \ {x} /\ x \in T \cap P
      BY <2>4, <2>6
    <3>2. Cardinality(V \cap P) = Cardinality(T \cap P) - 1
      <4> PICK A : A = T \cap P
        OBVIOUS
      <4>1. IsFiniteSet(A) /\ x \in A /\ V \cap P = A \ {x}
        BY <2>5, <3>1
      <4>2. Cardinality(A \ {x}) = Cardinality(A) - 1
        BY <4>1, FS_RemoveElement
      <4> QED
        BY <4>1, <4>2
    <3>3. Cardinality(T \cap P) \in Int
      BY <2>5, FS_CardinalityType
    <3> PICK n : n = Cardinality(T \cap P)
      OBVIOUS
    <3>4. SumOf(w, T) = c + c * (n - 1)
      BY <2>2, <2>3, <2>4, <2>6, <3>2
    <3>5. c + c * (n - 1) = c * n
      BY <3>3
    <3> QED
      BY <2>1, <3>4, <3>5
  <2>7. CASE x \notin P
    <3>1. V \cap P = T \cap P
      BY <2>4, <2>7
    <3>2. Cardinality(T \cap P) \in Int
      BY <2>5, FS_CardinalityType
    <3>3. w[x] = 0 /\ SumOf(w, V) \in Int
      BY <2>4, <2>7, SumType
    <3>4. SumOf(w, T) = w[x] + SumOf(w, V)
      BY <2>2, <2>3
    <3>5. SumOf(w, V) = c * Cardinality(T \cap P)
      BY <2>4, <3>1
    <3>6. SumOf(w, T) = SumOf(w, V)
      BY <3>3, <3>4
    <3> QED
      BY <2>1, <3>5, <3>6
  <2> QED
    BY <2>6, <2>7
<1>2. L \notin U /\ L \cap P = P
  BY <1>1
<1> QED
  BY <1>2

\* Zeros do not count.
LEMMA SumPart ==
  ASSUME NEW L, IsFiniteSet(L), NEW w \in [L -> Int], NEW P \in SUBSET L,
         \A x \in L \ P : w[x] = 0
  PROVE  SumOf(w, L) = SumOf(w, P)
<1>0. PICK Z : Z = L \ P /\ Z \in SUBSET L
  OBVIOUS
<1>1. L \in SUBSET L
  OBVIOUS
<1>2. SumOf(w, L) = SumOf(w, P) + SumOf(w, L \ P)
  BY <1>1, SumSplit
<1>3. \A x \in Z : w[x] = w[x] + w[x]
  BY <1>0
<1>4. SumOf(w, Z) = SumOf(w, Z) + SumOf(w, Z)
  BY <1>0, <1>3, SumPlus
<1>5. SumOf(w, Z) \in Int /\ SumOf(w, P) \in Int
  BY <1>0, SumType
<1>6. \A n \in Int : n = n + n => n = 0
  OBVIOUS
<1>7. SumOf(w, Z) = 0
  BY <1>4, <1>5, <1>6
<1> QED
  BY <1>0, <1>2, <1>5, <1>7

\* The elements may be renamed.
Renames(h, Q, H) ==
  /\ \A c \in Q : h[c] \in H
  /\ \A y \in H : \E c \in Q : y = h[c]

LEMMA ImageFinite ==
  ASSUME NEW Q, IsFiniteSet(Q), NEW h, NEW H, Renames(h, Q, H)
  PROVE  IsFiniteSet(H)
<1> DEFINE f == [c \in Q |-> h[c]]
<1>1. f \in Surjection(Q, H)
  BY DEF Surjection, Renames
<1> HIDE DEF f
<1> QED
  BY <1>1, FS_Surjection

LEMMA SumImage ==
  ASSUME NEW Q, IsFiniteSet(Q), NEW h, \A c, d \in Q : h[c] = h[d] => c = d,
         NEW H, Renames(h, Q, H),
         NEW w \in [H -> Int], NEW v, \A c \in Q : v[c] = w[h[c]]
  PROVE  SumOf(w, H) = SumOf(v, Q)
<1> DEFINE I(T) == {h[c] : c \in T}
           U == {T \in SUBSET Q : SumOf(w, I(T)) # SumOf(v, T)}
<1>0. H = I(Q)
  BY DEF Renames
<1>1. IsFiniteSet(I(Q))
  BY <1>0, ImageFinite
<1>2. ASSUME U # {}
      PROVE  FALSE
  <2>1. PICK T \in U : \A V \in U : V \subseteq T => V = T
    <3>1. U \subseteq SUBSET Q
      OBVIOUS
    <3> HIDE DEF U
    <3> QED
      BY <1>2, <3>1, Smallest
  <2>2. T \in SUBSET Q /\ SumOf(w, I(T)) # SumOf(v, T)
    BY <2>1
  <2>3. SumOf(v, T) = IF T = {} THEN 0 ELSE v[First(T)] + SumOf(v, T \ {First(T)})
    BY <2>2, SumTurn
  <2>4. T # {}
    <3> SUFFICES ASSUME T = {}
                 PROVE  FALSE
      OBVIOUS
    <3>1. I(T) = {} /\ {} \in SUBSET I(Q)
      OBVIOUS
    <3> HIDE DEF I
    <3>2. SumOf(w, {}) = 0
      BY <1>1, <3>1, SumTurn
    <3> QED
      BY <2>2, <2>3, <3>1, <3>2
  <2> PICK x, V : x = First(T) /\ V = T \ {x}
    OBVIOUS
  <2>5. x \in T /\ x \in Q /\ V \in SUBSET Q /\ V \subseteq T /\ V # T
    BY <2>2, <2>4, FirstIn
  <2>6. SumOf(w, I(V)) = SumOf(v, V)
    BY <2>1, <2>5
  <2>7. I(T) = I(V) \cup {h[x]} /\ h[x] \notin I(V) /\ h[x] \in I(Q) /\ I(V) \in SUBSET I(Q)
    BY <2>2, <2>5
  <2>8. w \in [I(Q) -> Int] /\ v[x] = w[h[x]]
    BY <1>0, <2>5
  <2> HIDE DEF I, U
  <2> DEFINE a == h[x]
  <2>9. a \in I(Q) /\ a \notin I(V) /\ I(T) = I(V) \cup {a} /\ v[x] = w[a]
    BY <2>7, <2>8
  <2> HIDE DEF a
  <2>10. PICK M : M = I(V)
    OBVIOUS
  <2>11. IsFiniteSet(H) /\ M \in SUBSET H /\ a \in H /\ a \notin M
    BY <1>0, <1>1, <2>7, <2>9, <2>10
  <2>12. SumOf(w, M \cup {a}) = SumOf(w, M) + w[a]
    BY <2>11, SumMore
  <2>13. SumOf(w, M) \in Int /\ w[a] \in Int
    BY <2>11, SumType
  <2>14. SumOf(w, I(T)) = SumOf(w, M) + w[a]
    BY <2>9, <2>10, <2>12
  <2>15. SumOf(v, T) = w[a] + SumOf(w, M)
    BY <2>3, <2>4, <2>6, <2>9, <2>10
  <2>16. SumOf(w, I(T)) # SumOf(v, T)
    BY <2>2
  <2> HIDE DEF a
  <2> QED
    BY <2>13, <2>14, <2>15, <2>16
<1>3. SumOf(w, I(Q)) = SumOf(v, Q)
  BY <1>2
<1> QED
  BY <1>0, <1>3

LEMMA SumOfAll ==
  ASSUME NEW L, IsFiniteSet(L), NEW u, NEW v, NEW w,
         u \in [L -> Int] /\ v \in [L -> Int] /\ w \in [L -> Int],
         \A x \in L : w[x] = u[x] + v[x]
  PROVE  SumOf(w, L) = SumOf(u, L) + SumOf(v, L)
<1>1. L \in SUBSET L
  OBVIOUS
<1> QED
  BY <1>1, SumPlus

-----------------------------------------------------------------------------
(* Leave balances.  The days of a set of leaves are a sum.                 *)

LEMMA DaysOfIs ==
  ASSUME NEW S
  PROVE  DaysOf(S) = SumOf(Days, S)
BY DEF DaysOf, SumOf

LEMMA DaysAre == IsFiniteSet(Leaves) /\ Days \in [Leaves -> Nat] /\ Days \in [Leaves -> Int]
BY LeaveAssumption

LEMMA DaysTurn ==
  ASSUME NEW S \in SUBSET Leaves
  PROVE  DaysOf(S) = IF S = {} THEN 0 ELSE Days[First(S)] + DaysOf(S \ {First(S)})
BY DaysAre, DaysOfIs, SumTurn

LEMMA DaysType ==
  ASSUME NEW S \in SUBSET Leaves
  PROVE  DaysOf(S) \in Nat
<1>1. \A l \in S : 0 <= Days[l]
  BY DaysAre
<1>2. SumOf(Days, S) \in Int /\ 0 <= SumOf(Days, S)
  BY <1>1, DaysAre, SumType
<1> QED
  BY <1>2, DaysOfIs

\* Any leave may be taken first.
LEMMA DaysOut ==
  ASSUME NEW S \in SUBSET Leaves, NEW l \in S
  PROVE  DaysOf(S) = Days[l] + DaysOf(S \ {l})
BY DaysAre, DaysOfIs, SumOut

LEMMA DaysMore ==
  ASSUME NEW S \in SUBSET Leaves, NEW l \in Leaves, l \notin S
  PROVE  DaysOf(S \cup {l}) = DaysOf(S) + Days[l]
BY DaysAre, DaysOfIs, SumMore

\* A set's days are those of a part of it and those of the rest.
LEMMA DaysSplit ==
  ASSUME NEW A \in SUBSET Leaves, NEW B \in SUBSET A
  PROVE  DaysOf(A) = DaysOf(B) + DaysOf(A \ B)
BY DaysAre, DaysOfIs, SumSplit

LEMMA DaysUnion ==
  ASSUME NEW A \in SUBSET Leaves, NEW B \in SUBSET Leaves
  PROVE  /\ DaysOf(A \cup B) <= DaysOf(A) + DaysOf(B)
         /\ A \cap B = {} => DaysOf(A \cup B) = DaysOf(A) + DaysOf(B)
         /\ A \subseteq B => DaysOf(A) <= DaysOf(B)
<1>1. /\ SumOf(Days, A \cup B) <= SumOf(Days, A) + SumOf(Days, B)
      /\ A \cap B = {} => SumOf(Days, A \cup B) = SumOf(Days, A) + SumOf(Days, B)
      /\ A \subseteq B => SumOf(Days, A) <= SumOf(Days, B)
  <2>1. IsFiniteSet(Leaves) /\ Days \in [Leaves -> Nat]
    BY DaysAre
  <2> QED
    BY <2>1, SumUnion
<1>2. /\ DaysOf(A) = SumOf(Days, A) /\ DaysOf(B) = SumOf(Days, B)
      /\ DaysOf(A \cup B) = SumOf(Days, A \cup B)
  BY DaysOfIs
<1> QED
  BY <1>1, <1>2

-----------------------------------------------------------------------------
(***************************************************************************)
(* What the balance says at every moment.  A decision that was written and *)
(* has not moved the days yet owes them, and a leave may be decided before *)
(* the days of its submission are counted.                                 *)
(***************************************************************************)

Deciding(a, l) == op[a].step = "write" /\ op[a].leave = l
Using(a, l) == op[a].step = "used" /\ op[a].leave = l /\ op[a].to = "APPROVED"
Returning(a, l) == op[a].step = "used" /\ op[a].leave = l /\ op[a].to # "APPROVED"
Clearing(a, l) == (op[a].step = "pending" /\ op[a].leave = l) \/ Using(a, l)

OwesUse(l) == \E a \in Actors : Using(a, l)
OwesReturn(l) == \E a \in Actors : Returning(a, l)
OwesClear(l) == \E a \in Actors : Clearing(a, l)

\* used_days are the days of the leaves Taken less those Lent: returned before they were used.
Taken == {l \in Leaves : (status[l] = "APPROVED" \/ OwesReturn(l)) /\ ~OwesUse(l)}
Lent == {l \in Leaves : status[l] # "APPROVED" /\ OwesUse(l) /\ ~OwesReturn(l)}

\* pending_days are the days of the leaves Awaited less those cleared before they were counted.
Awaited == {l \in Leaves : stage[l] = "done" /\ (status[l] = "PENDING" \/ OwesClear(l))}
Early == {l \in Leaves : stage[l] = "stored" /\ status[l] # "PENDING" /\ ~OwesClear(l)}

\* Leaves the total has room for.
Allotted == {l \in Leaves : stage[l] = "checked" \/ status[l] \in {"PENDING", "APPROVED"}}

\* One decision is under way for a leave, one clears it, one returns it.
OneByOne ==
  \A l \in Leaves : \A a, b \in Actors :
    ( \/ Deciding(a, l) /\ Deciding(b, l)
      \/ Clearing(a, l) /\ Clearing(b, l)
      \/ Returning(a, l) /\ Returning(b, l) ) => a = b

\* The status is the one the decision was taken on, and then the one it wrote.
Stands ==
  \A l \in Leaves, a \in Actors :
    /\ Deciding(a, l) => op[a].was = status[l] /\ status[l] \in From(op[a].to)
    /\ Clearing(a, l) => status[l] \in {"APPROVED", "REJECTED", "CANCELLED"}
    /\ Using(a, l) => status[l] \in {"APPROVED", "CANCELLED"}
    /\ Returning(a, l) => status[l] = "CANCELLED"

Submitted == \A l \in Leaves : status[l] = "none" <=> stage[l] \in {"new", "found", "checked", "refused"}

\* As long as every leave is checked against it, the row is there before the first.
BalanceThere ==
  serial /\ ~balance.exists => \A l \in Leaves : stage[l] \in {"new", "found"}

\* The days moved so far, with a row and without one.
UsedInAll == balance.used + lost.used
PendInAll == balance.pend + lost.pend

Books ==
  /\ ~balance.exists => balance.used = 0 /\ balance.pend = 0
  /\ UsedInAll = DaysOf(Taken) - DaysOf(Lent)
  /\ PendInAll = DaysOf(Awaited) - DaysOf(Early)

Room ==
  serial => /\ lost.used = 0 /\ lost.pend = 0
            /\ balance.exists => DaysOf(Allotted) <= balance.total

Orderly == OneByOne /\ Stands /\ Submitted /\ BalanceThere
Accounts == Books /\ Room
LeaveInv == LeaveTypeOK /\ (clean => Orderly /\ Accounts)

-----------------------------------------------------------------------------
(* Type correctness of the leaves.                                         *)

BalanceType == [exists : BOOLEAN, total : Nat, used : Int, pend : Int]
LostType == [used : Int, pend : Int]

LEMMA OpFields ==
  ASSUME LeaveTypeOK, NEW a \in Actors, op[a].step # "idle"
  PROVE  /\ op[a] \in Decision /\ op[a].leave \in Leaves
         /\ op[a].step \in {"write", "used", "pending"}
         /\ op[a].to \in {"APPROVED", "REJECTED", "CANCELLED"}
         /\ op[a].was \in {"PENDING", "APPROVED"}
BY DEF LeaveTypeOK, Decision, Idle

LEMMA LeaveTypeInit == LeaveInit => LeaveTypeOK
<1> SUFFICES ASSUME LeaveInit
             PROVE  LeaveTypeOK
  OBVIOUS
<1>1. balance = [exists |-> FALSE, total |-> 0, used |-> 0, pend |-> 0]
  BY DEF LeaveInit, NewBalance
<1>2. balance \in [exists : BOOLEAN, total : Nat, used : Int, pend : Int]
  BY <1>1
<1>3. /\ status \in [Leaves -> LeaveStatuses]
      /\ stage \in [Leaves -> {"new", "found", "checked", "stored", "done", "refused"}]
      /\ op \in [Actors -> Decision \cup {Idle}]
      /\ active \in BOOLEAN /\ counted \in BOOLEAN /\ clean \in BOOLEAN /\ serial \in BOOLEAN
  BY DEF LeaveInit, LeaveStatuses
<1>4. edits \in 0 .. MaxEdits /\ deaths \in 0 .. MaxDeaths
  BY LeaveAssumption DEF LeaveInit
<1>5. /\ lost \in [used : Int, pend : Int] /\ limit \in [Leaves -> Nat]
      /\ entitlement \in Nat
  BY LeaveAssumption DEF LeaveInit
<1> QED
  BY <1>2, <1>3, <1>4, <1>5 DEF LeaveTypeOK

\* An increment leaves a balance a balance, and is either in it or lost.
LEMMA Increments ==
  ASSUME LeaveTypeOK, NEW n \in Int
  PROVE  /\ AddPending(n) => /\ balance' \in BalanceType /\ lost' \in LostType
                             /\ balance'.exists = balance.exists /\ balance'.total = balance.total
                             /\ UsedInAll' = UsedInAll /\ PendInAll' = PendInAll + n
                             /\ IF balance.exists THEN lost' = lost ELSE balance' = balance
         /\ AddUsed(n) => /\ balance' \in BalanceType /\ lost' \in LostType
                          /\ balance'.exists = balance.exists /\ balance'.total = balance.total
                          /\ UsedInAll' = UsedInAll + n /\ PendInAll' = PendInAll
                          /\ IF balance.exists THEN lost' = lost ELSE balance' = balance
<1> PICK b : b = balance /\ b \in BalanceType
  BY DEF LeaveTypeOK, BalanceType
<1> PICK g : g = lost /\ g \in LostType
  BY DEF LeaveTypeOK, LostType
<1> PICK c, d : c = [b EXCEPT !.pend = b.pend + n] /\ d = [b EXCEPT !.used = b.used + n]
  OBVIOUS
<1> PICK h, k : h = [g EXCEPT !.pend = g.pend + n] /\ k = [g EXCEPT !.used = g.used + n]
  OBVIOUS
<1>1. /\ c \in BalanceType
      /\ c.exists = b.exists /\ c.total = b.total /\ c.used = b.used /\ c.pend = b.pend + n
      /\ d \in BalanceType
      /\ d.exists = b.exists /\ d.total = b.total /\ d.pend = b.pend /\ d.used = b.used + n
  BY DEF BalanceType
<1>2. /\ h \in LostType /\ h.used = g.used /\ h.pend = g.pend + n
      /\ k \in LostType /\ k.pend = g.pend /\ k.used = g.used + n
  BY DEF LostType
<1>3. b.used \in Int /\ b.pend \in Int /\ g.used \in Int /\ g.pend \in Int
  BY DEF BalanceType, LostType
<1>4. /\ AddPending(n) => IF b.exists THEN balance' = c /\ lost' = g ELSE balance' = b /\ lost' = h
      /\ AddUsed(n) => IF b.exists THEN balance' = d /\ lost' = g ELSE balance' = b /\ lost' = k
  BY DEF AddPending, AddUsed
<1>5. ASSUME AddPending(n)
      PROVE  UsedInAll' = UsedInAll /\ PendInAll' = PendInAll + n
  <2>1. \/ balance'.used = b.used /\ balance'.pend = b.pend + n /\ lost'.used = g.used /\ lost'.pend = g.pend
        \/ balance'.used = b.used /\ balance'.pend = b.pend /\ lost'.used = g.used /\ lost'.pend = g.pend + n
    BY <1>1, <1>2, <1>4, <1>5
  <2>2. /\ balance.used = b.used /\ balance.pend = b.pend
        /\ lost.used = g.used /\ lost.pend = g.pend
    OBVIOUS
  <2> QED
    BY <1>3, <2>1, <2>2 DEF UsedInAll, PendInAll
<1>6. ASSUME AddUsed(n)
      PROVE  UsedInAll' = UsedInAll + n /\ PendInAll' = PendInAll
  <2>1. \/ balance'.used = b.used + n /\ balance'.pend = b.pend /\ lost'.used = g.used /\ lost'.pend = g.pend
        \/ balance'.used = b.used /\ balance'.pend = b.pend /\ lost'.used = g.used + n /\ lost'.pend = g.pend
    BY <1>1, <1>2, <1>4, <1>6
  <2>2. /\ balance.used = b.used /\ balance.pend = b.pend
        /\ lost.used = g.used /\ lost.pend = g.pend
    OBVIOUS
  <2> QED
    BY <1>3, <2>1, <2>2 DEF UsedInAll, PendInAll
<1> QED
  BY <1>1, <1>2, <1>4, <1>5, <1>6

LEMMA LeaveTypeStep == LeaveTypeOK /\ [LeaveNext]_leaveVars => LeaveTypeOK'
<1> SUFFICES ASSUME LeaveTypeOK, [LeaveNext]_leaveVars
             PROVE  LeaveTypeOK'
  OBVIOUS
<1> USE DEF LeaveTypeOK, BalanceType, LostType, typeVars
<1>1. ASSUME NEW l \in Leaves, CheckBalance(l)
      PROVE  LeaveTypeOK'
  <2>1. /\ NewBalance(limit[l]) \in [exists : BOOLEAN, total : Nat, used : Int, pend : Int]
        /\ balance' \in {balance, NewBalance(limit[l])}
    BY <1>1 DEF CheckBalance, NewBalance
  <2>2. stage' \in [Leaves -> {"new", "found", "checked", "stored", "done", "refused"}]
    BY <1>1 DEF CheckBalance
  <2>3. serial' \in BOOLEAN
    BY <1>1 DEF CheckBalance
  <2> QED
    BY <1>1, <2>1, <2>2, <2>3 DEF CheckBalance
<1>2. ASSUME NEW l \in Leaves, StoreRequest(l)
      PROVE  LeaveTypeOK'
  BY <1>2 DEF StoreRequest, LeaveStatuses
<1>3. ASSUME NEW l \in Leaves, CountPending(l)
      PROVE  LeaveTypeOK'
  <2>1. AddPending(Days[l])
    BY <1>3 DEF CountPending
  <2>2. Days[l] \in Int
    BY LeaveAssumption
  <2>3. balance' \in BalanceType /\ lost' \in LostType
    BY <2>1, <2>2, Increments
  <2> QED
    BY <1>3, <2>3 DEF CountPending
<1>4. ASSUME NEW a \in Actors, NEW l \in Leaves, NEW to \in {"APPROVED", "REJECTED", "CANCELLED"},
             DecideLeave(a, l, to)
      PROVE  LeaveTypeOK'
  <2>1. [step |-> "write", leave |-> l, to |-> to, was |-> status[l]] \in Decision
    BY <1>4 DEF DecideLeave, From, Decision
  <2>2. clean' \in BOOLEAN
    BY <1>4 DEF DecideLeave
  <2> QED
    BY <1>4, <2>1, <2>2 DEF DecideLeave
<1>5. ASSUME NEW a \in Actors, WriteDecision(a)
      PROVE  LeaveTypeOK'
  <2>1. op[a] \in Decision /\ op[a].leave \in Leaves /\ op[a].to \in LeaveStatuses
    BY <1>5, OpFields DEF WriteDecision, LeaveStatuses
  <2>2. \A step \in {"used", "pending"} : [op[a] EXCEPT !.step = step] \in Decision
    BY <2>1 DEF Decision
  <2>3. op' \in [Actors -> Decision \cup {Idle}]
    BY <1>5, <2>2 DEF WriteDecision
  <2> QED
    BY <1>5, <2>1, <2>3 DEF WriteDecision
<1>6. ASSUME NEW a \in Actors, MoveUsed(a)
      PROVE  LeaveTypeOK'
  <2>1. op[a] \in Decision /\ op[a].leave \in Leaves
    BY <1>6, OpFields DEF MoveUsed
  <2>2. [op[a] EXCEPT !.step = "pending"] \in Decision
    BY <2>1 DEF Decision
  <2>3. op' \in [Actors -> Decision \cup {Idle}]
    BY <1>6, <2>2 DEF MoveUsed
  <2> PICK n : n = IF op[a].to = "APPROVED" THEN Days[op[a].leave] ELSE -Days[op[a].leave]
    OBVIOUS
  <2>4. n \in Int /\ AddUsed(n)
    BY <1>6, <2>1, LeaveAssumption DEF MoveUsed
  <2>5. balance' \in BalanceType /\ lost' \in LostType
    BY <2>4, Increments
  <2> QED
    BY <1>6, <2>3, <2>5 DEF MoveUsed
<1>7. ASSUME NEW a \in Actors, MovePending(a)
      PROVE  LeaveTypeOK'
  <2> PICK n : n = -Days[op[a].leave]
    OBVIOUS
  <2>1. n \in Int /\ AddPending(n)
    BY <1>7, OpFields, LeaveAssumption DEF MovePending
  <2>2. balance' \in BalanceType /\ lost' \in LostType
    BY <2>1, Increments
  <2> QED
    BY <1>7, <2>2 DEF MovePending
<1>8. ASSUME NEW total \in Totals, NEW used \in {0} \cup {balance.used},
             NEW pend \in {0} \cup {balance.pend}, SetBalance(total, used, pend)
      PROVE  LeaveTypeOK'
  <2>1. total \in Nat /\ used \in Int /\ pend \in Int
    BY LeaveAssumption
  <2>2. edits' \in 0 .. MaxEdits
    BY <1>8, LeaveAssumption DEF SetBalance
  <2> QED
    BY <1>8, <2>1, <2>2 DEF SetBalance
<1>9. CASE CountForDeactivate \/ DeactivateType
  BY <1>9 DEF CountForDeactivate, DeactivateType
<1>10. CASE Die
  <2>1. deaths' \in 0 .. MaxDeaths
    BY <1>10, LeaveAssumption DEF Die
  <2>2. op' \in [Actors -> Decision \cup {Idle}]
    BY <1>10 DEF Die
  <2>3. stage' \in [Leaves -> {"new", "found", "checked", "stored", "done", "refused"}]
    BY <1>10 DEF Die
  <2> QED
    BY <1>10, <2>1, <2>2, <2>3 DEF Die
<1>11. CASE UNCHANGED leaveVars
  BY <1>11 DEF leaveVars
<1>12. ASSUME NEW l \in Leaves, FindType(l)
       PROVE  LeaveTypeOK'
  BY <1>12 DEF FindType
<1>13. ASSUME NEW on \in BOOLEAN, NEW n \in Limits, UpdateType(on, n)
       PROVE  LeaveTypeOK'
  <2>1. edits' \in 0 .. MaxEdits /\ n \in Nat
    BY <1>13, LeaveAssumption DEF UpdateType
  <2> QED
    BY <1>13, <2>1 DEF UpdateType
<1> QED
  BY <1>1, <1>2, <1>3, <1>4, <1>5, <1>6, <1>7, <1>8, <1>9, <1>10, <1>11, <1>12, <1>13 DEF LeaveNext

\* Every run of the leave requests keeps to its types.
THEOREM LeaveTypeCorrect == LeaveSpec => []LeaveTypeOK
BY LeaveTypeInit, LeaveTypeStep, PTL DEF LeaveSpec

-----------------------------------------------------------------------------
(* What each statement does to the decisions under way.                    *)

LEMMA DecideFacts ==
  ASSUME LeaveTypeOK, NEW a \in Actors, NEW l \in Leaves,
         NEW to \in {"APPROVED", "REJECTED", "CANCELLED"}, DecideLeave(a, l, to)
  PROVE  /\ \A b \in Actors, k \in Leaves :
              /\ Deciding(b, k)' <=> Deciding(b, k) \/ (b = a /\ k = l)
              /\ Using(b, k)' <=> Using(b, k)
              /\ Returning(b, k)' <=> Returning(b, k)
              /\ Clearing(b, k)' <=> Clearing(b, k)
              /\ b # a => op'[b] = op[b]
         /\ op'[a].was = status[l] /\ op'[a].to = to
<1>1. /\ op'[a] = [step |-> "write", leave |-> l, to |-> to, was |-> status[l]]
      /\ \A b \in Actors \ {a} : op'[b] = op[b]
      /\ op[a].step = "idle"
  BY DEF LeaveTypeOK, DecideLeave, Idle
<1> QED
  BY <1>1 DEF Deciding, Using, Returning, Clearing

LEMMA WriteFacts ==
  ASSUME LeaveTypeOK, NEW a \in Actors, WriteDecision(a), NEW l, l = op[a].leave
  PROVE  /\ l \in Leaves /\ Deciding(a, l)
         /\ \A b \in Actors, k \in Leaves :
              /\ Deciding(b, k)' <=> Deciding(b, k) /\ b # a
              /\ Using(b, k)' <=> Using(b, k) \/ (b = a /\ k = l /\ op[a].to = "APPROVED")
              /\ Returning(b, k)' <=>
                   \/ Returning(b, k)
                   \/ b = a /\ k = l /\ op[a].to # "APPROVED" /\ op[a].was = "APPROVED"
              /\ Clearing(b, k)' <=>
                   \/ Clearing(b, k)
                   \/ b = a /\ k = l /\ (op[a].to = "APPROVED" \/ op[a].was # "APPROVED")
              /\ b # a => op'[b] = op[b]
<1>1. op[a] \in Decision /\ l \in Leaves /\ op[a].step = "write"
  BY OpFields DEF WriteDecision
<1> PICK step : step = IF op[a].to = "APPROVED" \/ op[a].was = "APPROVED" THEN "used" ELSE "pending"
  OBVIOUS
<1>2. op'[a] = [op[a] EXCEPT !.step = step] /\ \A b \in Actors \ {a} : op'[b] = op[b]
  BY DEF LeaveTypeOK, WriteDecision
<1>3. op'[a].step = step /\ op'[a].leave = l /\ op'[a].to = op[a].to /\ op'[a].was = op[a].was
  BY <1>1, <1>2 DEF Decision
<1> QED
  BY <1>1, <1>2, <1>3 DEF Deciding, Using, Returning, Clearing

LEMMA UseFacts ==
  ASSUME LeaveTypeOK, NEW a \in Actors, MoveUsed(a), NEW l, l = op[a].leave
  PROVE  /\ l \in Leaves
         /\ IF op[a].to = "APPROVED" THEN Using(a, l) ELSE Returning(a, l)
         /\ \A b \in Actors, k \in Leaves :
              /\ Deciding(b, k)' <=> Deciding(b, k)
              /\ Using(b, k)' <=> Using(b, k) /\ b # a
              /\ Returning(b, k)' <=> Returning(b, k) /\ b # a
              /\ Clearing(b, k)' <=> Clearing(b, k)
              /\ b # a => op'[b] = op[b]
<1>1. op[a] \in Decision /\ l \in Leaves /\ op[a].step = "used"
  BY OpFields DEF MoveUsed
<1>2. \A b \in Actors \ {a} : op'[b] = op[b]
  BY DEF LeaveTypeOK, MoveUsed
<1>3. CASE op[a].to = "APPROVED"
  <2>1. op'[a] = [op[a] EXCEPT !.step = "pending"]
    BY <1>3 DEF LeaveTypeOK, MoveUsed
  <2>2. op'[a].step = "pending" /\ op'[a].leave = l
    BY <1>1, <2>1 DEF Decision
  <2> QED
    BY <1>1, <1>2, <1>3, <2>2 DEF Deciding, Using, Returning, Clearing
<1>4. CASE op[a].to # "APPROVED"
  <2>1. op'[a].step = "idle"
    BY <1>4 DEF LeaveTypeOK, MoveUsed, Idle
  <2> QED
    BY <1>1, <1>2, <1>4, <2>1 DEF Deciding, Using, Returning, Clearing
<1> QED
  BY <1>3, <1>4

LEMMA ClearFacts ==
  ASSUME LeaveTypeOK, NEW a \in Actors, MovePending(a), NEW l, l = op[a].leave
  PROVE  /\ l \in Leaves /\ Clearing(a, l)
         /\ \A b \in Actors, k \in Leaves :
              /\ Deciding(b, k)' <=> Deciding(b, k)
              /\ Using(b, k)' <=> Using(b, k)
              /\ Returning(b, k)' <=> Returning(b, k)
              /\ Clearing(b, k)' <=> Clearing(b, k) /\ b # a
              /\ b # a => op'[b] = op[b]
<1>1. op[a] \in Decision /\ l \in Leaves /\ op[a].step = "pending"
  BY OpFields DEF MovePending
<1>2. op'[a].step = "idle" /\ \A b \in Actors \ {a} : op'[b] = op[b]
  BY DEF LeaveTypeOK, MovePending, Idle
<1> QED
  BY <1>1, <1>2 DEF Deciding, Using, Returning, Clearing

-----------------------------------------------------------------------------
(* The balance keeps to the leaves.                                        *)

LEMMA SetsOfLeaves ==
  /\ Taken \in SUBSET Leaves /\ Lent \in SUBSET Leaves /\ Allotted \in SUBSET Leaves
  /\ Awaited \in SUBSET Leaves /\ Early \in SUBSET Leaves
BY DEF Taken, Lent, Allotted, Awaited, Early

LEMMA SameOp ==
  ASSUME op' = op
  PROVE  /\ \A b \in Actors, k \in Leaves :
              /\ Deciding(b, k)' <=> Deciding(b, k)
              /\ Using(b, k)' <=> Using(b, k)
              /\ Returning(b, k)' <=> Returning(b, k)
              /\ Clearing(b, k)' <=> Clearing(b, k)
         /\ \A k \in Leaves :
              /\ OwesUse(k)' <=> OwesUse(k)
              /\ OwesReturn(k)' <=> OwesReturn(k)
              /\ OwesClear(k)' <=> OwesClear(k)
BY DEF Deciding, Using, Returning, Clearing, OwesUse, OwesReturn, OwesClear

\* Who owes what, by the status.
LEMMA OwesStatus ==
  ASSUME LeaveTypeOK, Orderly, NEW l \in Leaves
  PROVE  /\ OwesUse(l) => OwesClear(l) /\ status[l] \in {"APPROVED", "CANCELLED"}
         /\ OwesReturn(l) => status[l] = "CANCELLED"
         /\ OwesClear(l) => status[l] \in {"APPROVED", "REJECTED", "CANCELLED"}
         /\ \A a \in Actors : Deciding(a, l) => status[l] \in {"PENDING", "APPROVED"}
         /\ status[l] = "none" <=> stage[l] \in {"new", "found", "checked", "refused"}
         /\ stage[l] \in {"new", "found", "checked", "stored", "done", "refused"}
         /\ stage[l] \in {"stored", "done"} <=> status[l] # "none"
         /\ status[l] \in LeaveStatuses
<1>1. /\ \A a \in Actors : /\ Deciding(a, l) => status[l] \in From(op[a].to)
                           /\ Clearing(a, l) => status[l] \in {"APPROVED", "REJECTED", "CANCELLED"}
                           /\ Using(a, l) => status[l] \in {"APPROVED", "CANCELLED"}
                           /\ Returning(a, l) => status[l] = "CANCELLED"
                           /\ Using(a, l) => Clearing(a, l)
      /\ status[l] = "none" <=> stage[l] \in {"new", "found", "checked", "refused"}
  BY DEF Orderly, Stands, Submitted, Clearing
<1>2. \A to : From(to) \subseteq {"PENDING", "APPROVED"}
  BY DEF From
<1>3. /\ stage[l] \in {"new", "found", "checked", "stored", "done", "refused"}
      /\ status[l] \in LeaveStatuses
  BY DEF LeaveTypeOK
<1> QED
  BY <1>1, <1>2, <1>3 DEF OwesUse, OwesReturn, OwesClear

\* While nothing is being submitted the balance covers the leaves allotted.
LEMMA Cover ==
  ASSUME LeaveTypeOK, Orderly, \A k \in Leaves : stage[k] \notin {"checked", "stored"}
  PROVE  DaysOf(Allotted) <= (DaysOf(Taken) - DaysOf(Lent)) + (DaysOf(Awaited) - DaysOf(Early))
<1> PICK T, L, D, E, A : T = Taken /\ L = Lent /\ D = Awaited /\ E = Early /\ A = Allotted
  OBVIOUS
<1>1. /\ T \in SUBSET Leaves /\ L \in SUBSET Leaves /\ D \in SUBSET Leaves
      /\ E \in SUBSET Leaves /\ A \in SUBSET Leaves
  BY SetsOfLeaves
<1>2. E = {} /\ L \subseteq D /\ A \subseteq T \cup (D \ L)
  BY OwesStatus DEF Taken, Lent, Awaited, Early, Allotted
<1> HIDE DEF Taken, Lent, Awaited, Early, Allotted
<1>3. DaysOf({}) = 0
  BY DaysTurn
<1> PICK X, Y : X = D \ L /\ Y = T \cup X
  OBVIOUS
<1>4. X \in SUBSET Leaves /\ Y \in SUBSET Leaves /\ L \in SUBSET D /\ A \subseteq Y
  BY <1>1, <1>2
<1>5. DaysOf(D) = DaysOf(L) + DaysOf(X)
  BY <1>1, <1>4, DaysSplit
<1>6. DaysOf(Y) <= DaysOf(T) + DaysOf(X)
  BY <1>1, <1>4, DaysUnion
<1>7. DaysOf(A) <= DaysOf(Y)
  BY <1>1, <1>4, DaysUnion
<1>8. /\ DaysOf(A) \in Nat /\ DaysOf(Y) \in Nat /\ DaysOf(T) \in Nat /\ DaysOf(X) \in Nat
      /\ DaysOf(L) \in Nat /\ DaysOf(D) \in Nat /\ DaysOf(E) = 0
  BY <1>1, <1>2, <1>3, <1>4, DaysType
<1>9. DaysOf(A) <= (DaysOf(T) - DaysOf(L)) + (DaysOf(D) - DaysOf(E))
  BY <1>5, <1>6, <1>7, <1>8
<1> QED
  BY <1>9

\* Nothing is said of a leave that was not submitted.
LEMMA NothingYet ==
  ASSUME LeaveTypeOK, Orderly, \A k \in Leaves : stage[k] \in {"new", "found"}
  PROVE  Allotted = {}
BY OwesStatus DEF Allotted

\* The books of a moment at which the sets and the balance are what they were.
LEMMA SameBooks ==
  ASSUME Accounts, balance' = balance, lost' = lost, serial' => serial,
         Taken' = Taken, Lent' = Lent, Awaited' = Awaited, Early' = Early, Allotted' = Allotted
  PROVE  Accounts'
BY DEF Accounts, Books, Room, UsedInAll, PendInAll

LEMMA FindGoesOn ==
  ASSUME LeaveTypeOK, Orderly, Accounts, NEW l \in Leaves, FindType(l)
  PROVE  Orderly' /\ Accounts'
<1>1. /\ op' = op /\ status' = status /\ balance' = balance /\ lost' = lost /\ serial' = serial
      /\ stage[l] = "new" /\ stage'[l] = "found"
      /\ \A k \in Leaves \ {l} : stage'[k] = stage[k]
  BY DEF FindType, LeaveTypeOK
<1>2. OneByOne' /\ Stands'
  BY <1>1, SameOp DEF Orderly, OneByOne, Stands
<1>3. Submitted' /\ BalanceThere'
  BY <1>1 DEF Orderly, Submitted, BalanceThere
<1>4. /\ Taken' = Taken /\ Lent' = Lent /\ Allotted' = Allotted
      /\ Awaited' = Awaited /\ Early' = Early
  BY <1>1, SameOp DEF Taken, Lent, Allotted, Awaited, Early
<1>5. Accounts'
  BY <1>1, <1>4, SameBooks
<1> QED
  BY <1>2, <1>3, <1>5 DEF Orderly

LEMMA CheckOrderly ==
  ASSUME LeaveTypeOK, Orderly, NEW l \in Leaves, CheckBalance(l)
  PROVE  /\ Orderly'
         /\ Taken' = Taken /\ Lent' = Lent /\ Awaited' = Awaited /\ Early' = Early
         /\ Allotted' = IF stage'[l] = "checked" THEN Allotted \cup {l} ELSE Allotted
         /\ l \notin Allotted
<1>1. /\ op' = op /\ status' = status /\ stage[l] = "found" /\ stage'[l] \in {"checked", "refused"}
      /\ \A k \in Leaves \ {l} : stage'[k] = stage[k]
  BY DEF CheckBalance, LeaveTypeOK
<1>2. OneByOne' /\ Stands'
  BY <1>1, SameOp DEF Orderly, OneByOne, Stands
<1>3. Submitted'
  BY <1>1 DEF Orderly, Submitted
<1>4. BalanceThere'
  <2>1. /\ balance' = IF limit[l] > 0 /\ ~balance.exists THEN NewBalance(limit[l]) ELSE balance
        /\ serial' => limit[l] > 0
    BY DEF CheckBalance
  <2>2. NewBalance(limit[l]).exists = TRUE
    BY DEF NewBalance
  <2>3. serial' => balance'.exists
    BY <2>1, <2>2
  <2> QED
    BY <2>3 DEF BalanceThere
<1>5. Taken' = Taken /\ Lent' = Lent
  BY <1>1, SameOp DEF Taken, Lent
<1>6. Awaited' = Awaited /\ Early' = Early
  BY <1>1, SameOp DEF Awaited, Early
<1>7. /\ Allotted' = IF stage'[l] = "checked" THEN Allotted \cup {l} ELSE Allotted
      /\ l \notin Allotted
  BY <1>1, OwesStatus DEF Allotted
<1> QED
  BY <1>2, <1>3, <1>4, <1>5, <1>6, <1>7 DEF Orderly

LEMMA CheckAccounts ==
  ASSUME LeaveTypeOK, LeaveTypeOK', Orderly, Accounts, NEW l \in Leaves, CheckBalance(l)
  PROVE  Accounts'
<1> PICK T, L, D, E, A : T = Taken /\ L = Lent /\ D = Awaited /\ E = Early /\ A = Allotted
  OBVIOUS
<1>1. /\ T \in SUBSET Leaves /\ L \in SUBSET Leaves /\ D \in SUBSET Leaves
      /\ E \in SUBSET Leaves /\ A \in SUBSET Leaves
  BY SetsOfLeaves
<1>2. /\ Taken' = T /\ Lent' = L /\ Awaited' = D /\ Early' = E
      /\ Allotted' = IF stage'[l] = "checked" THEN A \cup {l} ELSE A
      /\ l \notin A
  BY CheckOrderly
<1>3. DaysOf({}) = 0
  BY DaysTurn
<1> PICK b : b = balance'
  OBVIOUS
<1>4. /\ b = IF limit[l] > 0 /\ ~balance.exists THEN NewBalance(limit[l]) ELSE balance
      /\ lost' = lost
  BY DEF CheckBalance
<1>5. /\ ~b.exists => b.used = 0 /\ b.pend = 0
      /\ b.used = balance.used /\ b.pend = balance.pend
  <2>1. CASE limit[l] > 0 /\ ~balance.exists
    <3>1. b.used = 0 /\ b.pend = 0 /\ b.exists
      BY <1>4, <2>1 DEF NewBalance
    <3> QED
      BY <2>1, <3>1 DEF Accounts, Books
  <2>2. CASE ~(limit[l] > 0 /\ ~balance.exists)
    BY <1>4, <2>2 DEF Accounts, Books
  <2> QED
    BY <2>1, <2>2
<1>6. Books'
  BY <1>2, <1>4, <1>5 DEF Accounts, Books, UsedInAll, PendInAll
<1>7. serial' => serial /\ limit[l] > 0 /\ \A k \in Leaves : stage[k] \notin {"checked", "stored"}
  BY DEF CheckBalance
<1>10. ASSUME serial, b.exists
       PROVE  DaysOf(A) <= b.total
  <2>1. CASE balance.exists
    BY <1>4, <1>10, <2>1 DEF Accounts, Room
  <2>2. CASE ~balance.exists
    <3>1. A = {} /\ b.total = limit[l] /\ limit[l] > 0
      BY <1>4, <1>10, <2>2, NothingYet DEF Orderly, BalanceThere, NewBalance
    <3>2. DaysOf(A) = 0
      BY <1>3, <3>1
    <3>3. limit[l] \in Nat
      BY DEF LeaveTypeOK
    <3> QED
      BY <3>1, <3>2, <3>3
  <2> QED
    BY <2>1, <2>2
<1>8. ASSUME serial', b.exists
      PROVE  DaysOf(Allotted') <= b.total
  <2>1. CASE stage'[l] = "checked"
    <3>1. Enough(b, l)
      <4>1. stage'[l] = IF limit[l] = 0 \/ Enough(b, l) THEN "checked" ELSE "refused"
        BY DEF CheckBalance, LeaveTypeOK
      <4>2. limit[l] # 0
        BY <1>7, <1>8
      <4> QED
        BY <2>1, <4>1, <4>2
    <3>2. b.total - b.used - b.pend >= Days[l]
      BY <3>1 DEF Enough
    <3>3. DaysOf(A) <= (DaysOf(T) - DaysOf(L)) + (DaysOf(D) - DaysOf(E))
      BY <1>7, <1>8, Cover
    <3>4. DaysOf(A \cup {l}) = DaysOf(A) + Days[l]
      BY <1>1, <1>2, DaysMore
    <3>5. /\ DaysOf(A) \in Nat /\ DaysOf(T) \in Nat /\ DaysOf(L) \in Nat
          /\ DaysOf(D) \in Nat /\ DaysOf(E) \in Nat /\ Days[l] \in Nat
      BY <1>1, DaysType, LeaveAssumption
    <3>6. b.total \in Nat
      BY DEF LeaveTypeOK
    <3> PICK t, u, p : t = b.total /\ u = b.used /\ p = b.pend
      OBVIOUS
    <3>9. u = DaysOf(T) - DaysOf(L) /\ p = DaysOf(D) - DaysOf(E)
      <4>1. lost.used = 0 /\ lost.pend = 0
        BY <1>7, <1>8 DEF Accounts, Room
      <4>2. UsedInAll = DaysOf(T) - DaysOf(L) /\ PendInAll = DaysOf(D) - DaysOf(E)
        BY DEF Accounts, Books
      <4>3. balance.used \in Int /\ balance.pend \in Int
        BY DEF LeaveTypeOK
      <4> QED
        BY <1>5, <4>1, <4>2, <4>3 DEF UsedInAll, PendInAll
    <3>7. u \in Int /\ p \in Int /\ t \in Nat /\ DaysOf(A) <= u + p /\ t - u - p >= Days[l]
      BY <1>8, <3>2, <3>3, <3>5, <3>6, <3>9
    <3>8. DaysOf(A) + Days[l] <= t
      BY <3>5, <3>7
    <3> QED
      BY <1>2, <2>1, <3>4, <3>8
  <2>2. CASE stage'[l] # "checked"
    BY <1>2, <1>7, <1>8, <1>10, <2>2
  <2> QED
    BY <2>1, <2>2
<1>9. Room'
  BY <1>4, <1>7, <1>8 DEF Room, Accounts
<1> QED
  BY <1>6, <1>9 DEF Accounts

LEMMA StoreGoesOn ==
  ASSUME LeaveTypeOK, Orderly, Accounts, NEW l \in Leaves, StoreRequest(l)
  PROVE  Orderly' /\ Accounts'
<1>1. /\ op' = op /\ balance' = balance /\ lost' = lost /\ serial' = serial
      /\ stage[l] = "checked" /\ stage'[l] = "stored" /\ status'[l] = "PENDING"
      /\ \A k \in Leaves \ {l} : stage'[k] = stage[k] /\ status'[k] = status[k]
  BY DEF StoreRequest, LeaveTypeOK
<1>2. status[l] = "none"
  BY <1>1, OwesStatus
<1>3. OneByOne'
  BY <1>1, SameOp DEF Orderly, OneByOne
<1>4. Stands'
  <2>1. \A a \in Actors : ~Deciding(a, l) /\ ~Clearing(a, l) /\ ~Using(a, l) /\ ~Returning(a, l)
    BY <1>2, OwesStatus DEF OwesUse, OwesReturn, OwesClear
  <2>2. SUFFICES ASSUME NEW k \in Leaves, NEW a \in Actors
                 PROVE  /\ Deciding(a, k) => op[a].was = status'[k] /\ status'[k] \in From(op[a].to)
                        /\ Clearing(a, k) => status'[k] \in {"APPROVED", "REJECTED", "CANCELLED"}
                        /\ Using(a, k) => status'[k] \in {"APPROVED", "CANCELLED"}
                        /\ Returning(a, k) => status'[k] = "CANCELLED"
    BY <1>1, SameOp DEF Stands
  <2> QED
    BY <1>1, <2>1 DEF Orderly, Stands
<1>5. Submitted'
  BY <1>1 DEF Orderly, Submitted
<1>6. BalanceThere'
  BY <1>1 DEF Orderly, BalanceThere
<1>7. Taken' = Taken /\ Lent' = Lent
  BY <1>1, <1>2, SameOp, OwesStatus DEF Taken, Lent
<1>8. Awaited' = Awaited /\ Early' = Early
  BY <1>1, <1>2, SameOp DEF Awaited, Early
<1>9. Allotted' = Allotted
  BY <1>1, <1>2 DEF Allotted
<1>10. Accounts'
  BY <1>1, <1>7, <1>8, <1>9, SameBooks
<1> QED
  BY <1>3, <1>4, <1>5, <1>6, <1>10 DEF Orderly

LEMMA CountGoesOn ==
  ASSUME LeaveTypeOK, Orderly, Accounts, NEW l \in Leaves, CountPending(l)
  PROVE  Orderly' /\ Accounts'
<1>1. /\ op' = op /\ status' = status /\ serial' = serial /\ AddPending(Days[l])
      /\ stage[l] = "stored" /\ stage'[l] = "done"
      /\ \A k \in Leaves \ {l} : stage'[k] = stage[k]
  BY DEF CountPending, LeaveTypeOK
<1>2. Days[l] \in Nat
  BY LeaveAssumption
<1>3. /\ balance'.exists = balance.exists /\ balance'.total = balance.total
      /\ UsedInAll' = UsedInAll /\ PendInAll' = PendInAll + Days[l]
      /\ IF balance.exists THEN lost' = lost ELSE balance' = balance
  BY <1>1, <1>2, Increments
<1>4. OneByOne' /\ Stands'
  BY <1>1, SameOp DEF Orderly, OneByOne, Stands
<1>5. Submitted' /\ BalanceThere'
  BY <1>1, <1>3 DEF Orderly, Submitted, BalanceThere
<1>6. Taken' = Taken /\ Lent' = Lent /\ Allotted' = Allotted
  BY <1>1, SameOp DEF Taken, Lent, Allotted
<1> PICK D, E, F, G : D = Awaited /\ E = Early /\ F = Awaited' /\ G = Early'
  OBVIOUS
<1>7. /\ D \in SUBSET Leaves /\ E \in SUBSET Leaves /\ F \in SUBSET Leaves /\ G \in SUBSET Leaves
  BY SetsOfLeaves DEF Awaited, Early
<1>8. \/ l \notin D /\ F = D \cup {l} /\ G = E
      \/ l \in E /\ G = E \ {l} /\ F = D
  <2>1. CASE status[l] = "PENDING" \/ OwesClear(l)
    BY <1>1, <2>1, SameOp DEF Awaited, Early
  <2>2. CASE ~(status[l] = "PENDING" \/ OwesClear(l))
    BY <1>1, <2>2, SameOp DEF Awaited, Early
  <2> QED
    BY <2>1, <2>2
<1>9. DaysOf(F) - DaysOf(G) = (DaysOf(D) - DaysOf(E)) + Days[l]
  <2>1. /\ DaysOf(D) \in Nat /\ DaysOf(E) \in Nat /\ DaysOf(F) \in Nat /\ DaysOf(G) \in Nat
    BY <1>7, DaysType
  <2>2. CASE l \notin D /\ F = D \cup {l} /\ G = E
    BY <1>2, <1>7, <2>1, <2>2, DaysMore
  <2>3. CASE l \in E /\ G = E \ {l} /\ F = D
    BY <1>2, <1>7, <2>1, <2>3, DaysOut
  <2> QED
    BY <1>8, <2>2, <2>3
<1>10. Books'
  BY <1>3, <1>6, <1>9 DEF Accounts, Books
<1>11. Room'
  <2>1. serial => balance.exists
    BY <1>1 DEF Orderly, BalanceThere
  <2> QED
    BY <1>1, <1>3, <1>6, <2>1 DEF Accounts, Room
<1> QED
  BY <1>4, <1>5, <1>10, <1>11 DEF Orderly, Accounts

LEMMA DecideGoesOn ==
  ASSUME LeaveTypeOK, Orderly, Accounts, NEW a \in Actors, NEW l \in Leaves,
         NEW to \in {"APPROVED", "REJECTED", "CANCELLED"}, DecideLeave(a, l, to), Undecided(l)
  PROVE  Orderly' /\ Accounts'
<1>1. /\ status' = status /\ stage' = stage /\ balance' = balance /\ lost' = lost
      /\ serial' = serial
      /\ status[l] \in From(to)
  BY DEF DecideLeave
<1>2. \A b \in Actors, k \in Leaves :
        /\ Deciding(b, k)' <=> Deciding(b, k) \/ (b = a /\ k = l)
        /\ Using(b, k)' <=> Using(b, k)
        /\ Returning(b, k)' <=> Returning(b, k)
        /\ Clearing(b, k)' <=> Clearing(b, k)
        /\ b # a => op'[b] = op[b]
  BY DecideFacts
<1>3. op'[a].was = status[l] /\ op'[a].to = to
  BY DecideFacts
<1>4. \A b \in Actors : ~Deciding(b, l)
  BY DEF Undecided, Deciding, Idle
<1>5. \A k \in Leaves : ~Deciding(a, k)
  BY DEF DecideLeave, Deciding, Idle
<1>6. OneByOne'
  BY <1>2, <1>4 DEF Orderly, OneByOne
<1>7. Stands'
  BY <1>1, <1>2, <1>3, <1>5 DEF Orderly, Stands
<1>8. Submitted' /\ BalanceThere'
  BY <1>1 DEF Orderly, Submitted, BalanceThere
<1>9. \A k \in Leaves : /\ OwesUse(k)' <=> OwesUse(k)
                        /\ OwesReturn(k)' <=> OwesReturn(k)
                        /\ OwesClear(k)' <=> OwesClear(k)
  BY <1>2 DEF OwesUse, OwesReturn, OwesClear
<1>10. Taken' = Taken /\ Lent' = Lent /\ Allotted' = Allotted
  BY <1>1, <1>9 DEF Taken, Lent, Allotted
<1>11. Awaited' = Awaited /\ Early' = Early
  BY <1>1, <1>9 DEF Awaited, Early
<1>12. Accounts'
  BY <1>1, <1>10, <1>11, SameBooks
<1> QED
  BY <1>6, <1>7, <1>8, <1>12 DEF Orderly

LEMMA WriteGoesOn ==
  ASSUME LeaveTypeOK, Orderly, Accounts, NEW a \in Actors, WriteDecision(a)
  PROVE  Orderly' /\ Accounts'
<1> PICK l : l = op[a].leave
  OBVIOUS
<1>1. /\ l \in Leaves /\ Deciding(a, l)
      /\ \A b \in Actors, k \in Leaves :
           /\ Deciding(b, k)' <=> Deciding(b, k) /\ b # a
           /\ Using(b, k)' <=> Using(b, k) \/ (b = a /\ k = l /\ op[a].to = "APPROVED")
           /\ Returning(b, k)' <=>
                \/ Returning(b, k)
                \/ b = a /\ k = l /\ op[a].to # "APPROVED" /\ op[a].was = "APPROVED"
           /\ Clearing(b, k)' <=>
                \/ Clearing(b, k)
                \/ b = a /\ k = l /\ (op[a].to = "APPROVED" \/ op[a].was # "APPROVED")
           /\ b # a => op'[b] = op[b]
  BY WriteFacts
<1> PICK to, was : to = op[a].to /\ was = op[a].was
  OBVIOUS
<1>2. /\ stage' = stage /\ balance' = balance /\ lost' = lost /\ serial' = serial
      /\ status'[l] = to /\ \A k \in Leaves \ {l} : status'[k] = status[k]
  BY <1>1 DEF WriteDecision, LeaveTypeOK
<1>3. /\ was = status[l] /\ status[l] \in From(to) /\ to \in {"APPROVED", "REJECTED", "CANCELLED"}
      /\ was \in {"PENDING", "APPROVED"} /\ (was = "APPROVED" => to = "CANCELLED")
  <2>1. was = status[l] /\ status[l] \in From(to)
    BY <1>1 DEF Orderly, Stands
  <2>2. to \in {"APPROVED", "REJECTED", "CANCELLED"}
    BY <1>1, OpFields DEF Deciding
  <2> QED
    BY <2>1, <2>2 DEF From
<1>4. \A b \in Actors : /\ Deciding(b, l) => b = a
                        /\ ~Returning(b, l)
                        /\ status[l] = "PENDING" => ~Clearing(b, l) /\ ~Using(b, l)
                        /\ Using(b, l) => Clearing(b, l)
  BY <1>1, <1>3 DEF Orderly, OneByOne, Stands, Clearing
<1>5. OneByOne'
  BY <1>1, <1>3, <1>4 DEF Orderly, OneByOne
<1>6. Stands'
  <2> SUFFICES ASSUME NEW k \in Leaves, NEW b \in Actors
               PROVE  /\ Deciding(b, k)' => op'[b].was = status'[k] /\ status'[k] \in From(op'[b].to)
                      /\ Clearing(b, k)' => status'[k] \in {"APPROVED", "REJECTED", "CANCELLED"}
                      /\ Using(b, k)' => status'[k] \in {"APPROVED", "CANCELLED"}
                      /\ Returning(b, k)' => status'[k] = "CANCELLED"
    BY DEF Stands
  <2>1. CASE k # l
    BY <1>1, <1>2, <2>1 DEF Orderly, Stands
  <2>2. CASE k = l
    <3>1. ~Deciding(b, l)'
      BY <1>1, <1>4
    <3>2. Using(b, l)' => to \in {"APPROVED", "CANCELLED"}
      BY <1>1, <1>3, <1>4
    <3>3. Returning(b, l)' => to = "CANCELLED"
      BY <1>1, <1>3, <1>4
    <3> QED
      BY <1>2, <1>3, <2>2, <3>1, <3>2, <3>3
  <2> QED
    BY <2>1, <2>2
<1>7. Submitted' /\ BalanceThere'
  BY <1>1, <1>2, <1>3 DEF Orderly, Submitted, BalanceThere
<1>8. \A k \in Leaves \ {l} : /\ OwesUse(k)' <=> OwesUse(k)
                              /\ OwesReturn(k)' <=> OwesReturn(k)
                              /\ OwesClear(k)' <=> OwesClear(k)
  BY <1>1 DEF OwesUse, OwesReturn, OwesClear
<1>9. /\ OwesUse(l)' <=> OwesUse(l) \/ to = "APPROVED"
      /\ OwesReturn(l)' <=> was = "APPROVED"
      /\ OwesClear(l)' <=> OwesClear(l) \/ was = "PENDING"
      /\ ~OwesReturn(l)
      /\ was = "PENDING" => ~OwesUse(l)
  BY <1>1, <1>3, <1>4 DEF OwesUse, OwesReturn, OwesClear
<1>10. Taken' = Taken /\ Lent' = Lent
  BY <1>1, <1>2, <1>3, <1>8, <1>9 DEF Taken, Lent
<1>11. Awaited' = Awaited /\ Early' = Early
  BY <1>1, <1>2, <1>3, <1>8, <1>9 DEF Awaited, Early
<1>12. Allotted' \subseteq Allotted
  BY <1>1, <1>2, <1>3 DEF Allotted
<1>13. Books'
  BY <1>2, <1>10, <1>11 DEF Accounts, Books, UsedInAll, PendInAll
<1>14. Room'
  <2> PICK A, B : A = Allotted /\ B = Allotted'
    OBVIOUS
  <2>1. A \in SUBSET Leaves /\ B \in SUBSET Leaves /\ B \subseteq A
    BY <1>12, SetsOfLeaves
  <2>2. DaysOf(B) <= DaysOf(A) /\ DaysOf(A) \in Nat /\ DaysOf(B) \in Nat
    BY <2>1, DaysUnion, DaysType
  <2>3. serial /\ balance.exists => DaysOf(A) <= balance.total
    BY DEF Accounts, Room
  <2>4. balance.total \in Nat
    BY DEF LeaveTypeOK
  <2>5. serial /\ balance.exists => DaysOf(B) <= balance.total
    BY <2>2, <2>3, <2>4
  <2> QED
    BY <1>2, <2>5 DEF Room, Accounts
<1> QED
  BY <1>5, <1>6, <1>7, <1>13, <1>14 DEF Orderly, Accounts

\* A statement that moves used_days pays what one decision owes.
LEMMA UseGoesOn ==
  ASSUME LeaveTypeOK, Orderly, Accounts, NEW a \in Actors, MoveUsed(a)
  PROVE  Orderly' /\ Accounts'
<1> PICK l : l = op[a].leave
  OBVIOUS
<1>1. /\ l \in Leaves
      /\ IF op[a].to = "APPROVED" THEN Using(a, l) ELSE Returning(a, l)
      /\ \A b \in Actors, k \in Leaves :
           /\ Deciding(b, k)' <=> Deciding(b, k)
           /\ Using(b, k)' <=> Using(b, k) /\ b # a
           /\ Returning(b, k)' <=> Returning(b, k) /\ b # a
           /\ Clearing(b, k)' <=> Clearing(b, k)
           /\ b # a => op'[b] = op[b]
  BY UseFacts
<1> PICK up \in BOOLEAN : up <=> op[a].to = "APPROVED"
  OBVIOUS
<1> PICK n : n = IF up THEN Days[l] ELSE -Days[l]
  OBVIOUS
<1>2. /\ status' = status /\ stage' = stage /\ serial' = serial /\ AddUsed(n)
      /\ op[a].step = "used"
  BY DEF MoveUsed
<1>3. Days[l] \in Nat /\ n \in Int
  BY <1>1, LeaveAssumption
<1>4. /\ balance'.exists = balance.exists /\ balance'.total = balance.total
      /\ UsedInAll' = UsedInAll + n /\ PendInAll' = PendInAll
      /\ IF balance.exists THEN lost' = lost ELSE balance' = balance
  BY <1>2, <1>3, Increments
<1>5. \A k \in Leaves : ~Deciding(a, k) /\ (k # l => ~Using(a, k) /\ ~Returning(a, k))
  BY <1>2 DEF Deciding, Using, Returning
<1>6. \A b \in Actors, k \in Leaves : Using(b, k) => Clearing(b, k)
  BY DEF Clearing
<1>7. OneByOne'
  BY <1>1 DEF Orderly, OneByOne
<1>8. Stands'
  BY <1>1, <1>2, <1>5 DEF Orderly, Stands
<1>9. Submitted' /\ BalanceThere'
  BY <1>2, <1>4 DEF Orderly, Submitted, BalanceThere
<1>17. serial => balance.exists
  <2>1. status[l] # "none"
    BY <1>1 DEF Orderly, Stands
  <2> QED
    BY <1>1, <2>1 DEF Orderly, Submitted, BalanceThere
<1>10. \A k \in Leaves : /\ OwesUse(k)' <=> OwesUse(k) /\ ~(k = l /\ up)
                         /\ OwesReturn(k)' <=> OwesReturn(k) /\ ~(k = l /\ ~up)
                         /\ OwesClear(k)' <=> OwesClear(k)
  <2> SUFFICES ASSUME NEW k \in Leaves
               PROVE  /\ OwesUse(k)' <=> OwesUse(k) /\ ~(k = l /\ up)
                      /\ OwesReturn(k)' <=> OwesReturn(k) /\ ~(k = l /\ ~up)
                      /\ OwesClear(k)' <=> OwesClear(k)
    OBVIOUS
  <2>1. OwesClear(k)' <=> OwesClear(k)
    BY <1>1 DEF OwesClear
  <2>2. CASE k # l
    BY <1>1, <1>5, <2>1, <2>2 DEF OwesUse, OwesReturn
  <2>3. CASE k = l /\ up
    <3>1. Using(a, l) /\ ~Returning(a, l)
      BY <1>1, <2>3 DEF Returning
    <3>2. \A b \in Actors : Using(b, l) => b = a
      BY <1>1, <1>6, <3>1 DEF Orderly, OneByOne
    <3> QED
      BY <1>1, <2>1, <2>3, <3>1, <3>2 DEF OwesUse, OwesReturn
  <2>4. CASE k = l /\ ~up
    <3>1. Returning(a, l) /\ ~Using(a, l)
      BY <1>1, <2>4 DEF Using
    <3>2. \A b \in Actors : Returning(b, l) => b = a
      BY <1>1, <3>1 DEF Orderly, OneByOne
    <3> QED
      BY <1>1, <2>1, <2>4, <3>1, <3>2 DEF OwesUse, OwesReturn
  <2> QED
    BY <2>2, <2>3, <2>4
<1>11. /\ up => OwesUse(l)
       /\ ~up => OwesReturn(l)
       /\ OwesReturn(l) => status[l] # "APPROVED"
  BY <1>1, OwesStatus DEF OwesUse, OwesReturn
<1>12. Awaited' = Awaited /\ Early' = Early
  BY <1>2, <1>10 DEF Awaited, Early
<1>13. Allotted' = Allotted
  BY <1>2 DEF Allotted
<1> PICK T, L, U, V : T = Taken /\ L = Lent /\ U = Taken' /\ V = Lent'
  OBVIOUS
<1>14. T \in SUBSET Leaves /\ L \in SUBSET Leaves /\ U \in SUBSET Leaves /\ V \in SUBSET Leaves
  BY SetsOfLeaves DEF Taken, Lent
<1>15. CASE up
  <2>1. \/ l \notin T /\ U = T \cup {l} /\ V = L
        \/ l \in L /\ V = L \ {l} /\ U = T
    <3>1. CASE status[l] = "APPROVED" \/ OwesReturn(l)
      BY <1>1, <1>2, <1>10, <1>11, <1>15, <3>1 DEF Taken, Lent
    <3>2. CASE ~(status[l] = "APPROVED" \/ OwesReturn(l))
      BY <1>1, <1>2, <1>10, <1>11, <1>15, <3>2 DEF Taken, Lent
    <3> QED
      BY <3>1, <3>2
  <2>2. DaysOf(U) - DaysOf(V) = (DaysOf(T) - DaysOf(L)) + n
    <3>1. /\ DaysOf(T) \in Nat /\ DaysOf(L) \in Nat /\ DaysOf(U) \in Nat /\ DaysOf(V) \in Nat
      BY <1>14, DaysType
    <3>2. CASE l \notin T /\ U = T \cup {l} /\ V = L
      BY <1>1, <1>3, <1>14, <1>15, <3>1, <3>2, DaysMore
    <3>3. CASE l \in L /\ V = L \ {l} /\ U = T
      BY <1>3, <1>14, <1>15, <3>1, <3>3, DaysOut
    <3> QED
      BY <2>1, <3>2, <3>3
  <2> QED
    BY <1>2, <1>4, <1>7, <1>8, <1>9, <1>12, <1>13, <1>17, <2>2 DEF Orderly, Accounts, Books, Room
<1>16. CASE ~up
  <2>1. \/ l \in T /\ U = T \ {l} /\ V = L
        \/ l \notin L /\ V = L \cup {l} /\ U = T
    <3>1. CASE OwesUse(l)
      BY <1>1, <1>2, <1>10, <1>11, <1>16, <3>1 DEF Taken, Lent
    <3>2. CASE ~OwesUse(l)
      BY <1>1, <1>2, <1>10, <1>11, <1>16, <3>2 DEF Taken, Lent
    <3> QED
      BY <3>1, <3>2
  <2>2. DaysOf(U) - DaysOf(V) = (DaysOf(T) - DaysOf(L)) + n
    <3>1. /\ DaysOf(T) \in Nat /\ DaysOf(L) \in Nat /\ DaysOf(U) \in Nat /\ DaysOf(V) \in Nat
      BY <1>14, DaysType
    <3>2. CASE l \in T /\ U = T \ {l} /\ V = L
      BY <1>3, <1>14, <1>16, <3>1, <3>2, DaysOut
    <3>3. CASE l \notin L /\ V = L \cup {l} /\ U = T
      BY <1>1, <1>3, <1>14, <1>16, <3>1, <3>3, DaysMore
    <3> QED
      BY <2>1, <3>2, <3>3
  <2> QED
    BY <1>2, <1>4, <1>7, <1>8, <1>9, <1>12, <1>13, <1>17, <2>2 DEF Orderly, Accounts, Books, Room
<1> QED
  BY <1>15, <1>16

LEMMA ClearGoesOn ==
  ASSUME LeaveTypeOK, Orderly, Accounts, NEW a \in Actors, MovePending(a)
  PROVE  Orderly' /\ Accounts'
<1> PICK l : l = op[a].leave
  OBVIOUS
<1>1. /\ l \in Leaves /\ Clearing(a, l)
      /\ \A b \in Actors, k \in Leaves :
           /\ Deciding(b, k)' <=> Deciding(b, k)
           /\ Using(b, k)' <=> Using(b, k)
           /\ Returning(b, k)' <=> Returning(b, k)
           /\ Clearing(b, k)' <=> Clearing(b, k) /\ b # a
           /\ b # a => op'[b] = op[b]
  BY ClearFacts
<1> PICK n : n = -Days[l]
  OBVIOUS
<1>2. /\ status' = status /\ stage' = stage /\ serial' = serial /\ AddPending(n)
      /\ op[a].step = "pending"
  BY DEF MovePending
<1>3. Days[l] \in Nat /\ n \in Int
  BY <1>1, LeaveAssumption
<1>4. /\ balance'.exists = balance.exists /\ balance'.total = balance.total
      /\ UsedInAll' = UsedInAll /\ PendInAll' = PendInAll + n
      /\ IF balance.exists THEN lost' = lost ELSE balance' = balance
  BY <1>2, <1>3, Increments
<1>5. \A k \in Leaves : /\ ~Deciding(a, k) /\ ~Using(a, k) /\ ~Returning(a, k)
                        /\ k # l => ~Clearing(a, k)
  BY <1>2 DEF Deciding, Using, Returning, Clearing
<1>6. OneByOne'
  BY <1>1 DEF Orderly, OneByOne
<1>7. Stands'
  BY <1>1, <1>2, <1>5 DEF Orderly, Stands
<1>8. Submitted' /\ BalanceThere'
  BY <1>2, <1>4 DEF Orderly, Submitted, BalanceThere
<1>9. \A b \in Actors : Clearing(b, l) => b = a
  BY <1>1 DEF Orderly, OneByOne
<1>10. \A k \in Leaves : /\ OwesUse(k)' <=> OwesUse(k)
                         /\ OwesReturn(k)' <=> OwesReturn(k)
                         /\ OwesClear(k)' <=> OwesClear(k) /\ k # l
  BY <1>1, <1>5, <1>9 DEF OwesUse, OwesReturn, OwesClear
<1>11. OwesClear(l) /\ status[l] \notin {"PENDING", "none"} /\ stage[l] \in {"stored", "done"}
  <2>1. OwesClear(l)
    BY <1>1 DEF OwesClear
  <2>2. status[l] \in {"APPROVED", "REJECTED", "CANCELLED"}
    BY <1>1, <2>1, OwesStatus
  <2>3. stage[l] \in {"stored", "done"}
    BY <1>1, <2>2, OwesStatus
  <2> QED
    BY <2>1, <2>2, <2>3
<1>12. Taken' = Taken /\ Lent' = Lent /\ Allotted' = Allotted
  BY <1>2, <1>10 DEF Taken, Lent, Allotted
<1> PICK D, E, F, G : D = Awaited /\ E = Early /\ F = Awaited' /\ G = Early'
  OBVIOUS
<1>13. D \in SUBSET Leaves /\ E \in SUBSET Leaves /\ F \in SUBSET Leaves /\ G \in SUBSET Leaves
  BY SetsOfLeaves DEF Awaited, Early
<1>14. \/ l \in D /\ F = D \ {l} /\ G = E
       \/ l \notin E /\ G = E \cup {l} /\ F = D
  <2>1. CASE stage[l] = "done"
    BY <1>1, <1>2, <1>10, <1>11, <2>1 DEF Awaited, Early
  <2>2. CASE stage[l] = "stored"
    BY <1>1, <1>2, <1>10, <1>11, <2>2 DEF Awaited, Early
  <2> QED
    BY <1>11, <2>1, <2>2
<1>15. DaysOf(F) - DaysOf(G) = (DaysOf(D) - DaysOf(E)) + n
  <2>1. DaysOf(D) \in Nat /\ DaysOf(E) \in Nat /\ DaysOf(F) \in Nat /\ DaysOf(G) \in Nat
    BY <1>13, DaysType
  <2>2. CASE l \in D /\ F = D \ {l} /\ G = E
    BY <1>3, <1>13, <2>1, <2>2, DaysOut
  <2>3. CASE l \notin E /\ G = E \cup {l} /\ F = D
    BY <1>1, <1>3, <1>13, <2>1, <2>3, DaysMore
  <2> QED
    BY <1>14, <2>2, <2>3
<1>16. Books'
  BY <1>4, <1>12, <1>15 DEF Accounts, Books
<1>17. Room'
  <2>1. serial => balance.exists
    BY <1>1, <1>11 DEF Orderly, BalanceThere
  <2> QED
    BY <1>2, <1>4, <1>12, <2>1 DEF Accounts, Room
<1> QED
  BY <1>6, <1>7, <1>8, <1>16, <1>17 DEF Orderly, Accounts

-----------------------------------------------------------------------------
(* The invariant and what it gives.                                        *)

LEMMA LeaveStart == LeaveInit => LeaveInv
<1> SUFFICES ASSUME LeaveInit
             PROVE  LeaveInv
  OBVIOUS
<1>1. /\ \A l \in Leaves : status[l] = "none" /\ stage[l] = "new"
      /\ \A a \in Actors : op[a].step = "idle"
  BY DEF LeaveInit, Idle
<1>2. /\ ~balance.exists /\ balance.used = 0 /\ balance.pend = 0
      /\ lost.used = 0 /\ lost.pend = 0
  <2>1. /\ balance = [exists |-> FALSE, total |-> 0, used |-> 0, pend |-> 0]
        /\ lost = [used |-> 0, pend |-> 0]
    BY DEF LeaveInit, NewBalance
  <2> QED
    BY <2>1
<1>3. OneByOne /\ Stands
  BY <1>1 DEF OneByOne, Stands, Deciding, Using, Returning, Clearing
<1>4. Submitted /\ BalanceThere
  BY <1>1 DEF Submitted, BalanceThere
<1>5. Taken = {} /\ Lent = {} /\ Awaited = {} /\ Early = {}
  BY <1>1 DEF Taken, Lent, Awaited, Early, OwesUse, OwesReturn, OwesClear, Using, Returning,
     Clearing
<1>6. DaysOf({}) = 0
  BY DaysTurn
<1>7. Books /\ Room
  BY <1>2, <1>5, <1>6 DEF Books, Room, UsedInAll, PendInAll
<1> QED
  BY <1>3, <1>4, <1>7, LeaveTypeInit DEF LeaveInv, Orderly, Accounts

LEMMA LeavesGoOn == LeaveInv /\ [LeaveNext]_leaveVars => LeaveInv'
<1> SUFFICES ASSUME LeaveInv, [LeaveNext]_leaveVars
             PROVE  LeaveInv'
  OBVIOUS
<1>1. LeaveTypeOK /\ LeaveTypeOK'
  BY LeaveTypeStep DEF LeaveInv
<1> SUFFICES ASSUME clean'
             PROVE  Orderly' /\ Accounts'
  BY <1>1 DEF LeaveInv
<1>2. ASSUME clean
      PROVE  Orderly /\ Accounts
  BY <1>2 DEF LeaveInv
<1>3. ASSUME NEW l \in Leaves, CheckBalance(l)
      PROVE  Orderly' /\ Accounts'
  <2>1. clean
    BY <1>3 DEF CheckBalance
  <2> QED
    BY <1>1, <1>2, <1>3, <2>1, CheckOrderly, CheckAccounts
<1>4. ASSUME NEW l \in Leaves, StoreRequest(l)
      PROVE  Orderly' /\ Accounts'
  <2>1. clean
    BY <1>4 DEF StoreRequest
  <2> QED
    BY <1>1, <1>2, <1>4, <2>1, StoreGoesOn
<1>5. ASSUME NEW l \in Leaves, CountPending(l)
      PROVE  Orderly' /\ Accounts'
  <2>1. clean
    BY <1>5 DEF CountPending
  <2> QED
    BY <1>1, <1>2, <1>5, <2>1, CountGoesOn
<1>6. ASSUME NEW a \in Actors, NEW l \in Leaves, NEW to \in {"APPROVED", "REJECTED", "CANCELLED"},
             DecideLeave(a, l, to)
      PROVE  Orderly' /\ Accounts'
  <2>1. clean /\ Undecided(l)
    BY <1>6 DEF DecideLeave
  <2> QED
    BY <1>1, <1>2, <1>6, <2>1, DecideGoesOn
<1>7. ASSUME NEW a \in Actors, WriteDecision(a)
      PROVE  Orderly' /\ Accounts'
  <2>1. clean
    BY <1>7 DEF WriteDecision
  <2> QED
    BY <1>1, <1>2, <1>7, <2>1, WriteGoesOn
<1>8. ASSUME NEW a \in Actors, MoveUsed(a)
      PROVE  Orderly' /\ Accounts'
  <2>1. clean
    BY <1>8 DEF MoveUsed
  <2> QED
    BY <1>1, <1>2, <1>8, <2>1, UseGoesOn
<1>9. ASSUME NEW a \in Actors, MovePending(a)
      PROVE  Orderly' /\ Accounts'
  <2>1. clean
    BY <1>9 DEF MovePending
  <2> QED
    BY <1>1, <1>2, <1>9, <2>1, ClearGoesOn
<1>10. ASSUME NEW total, NEW used, NEW pend, SetBalance(total, used, pend)
       PROVE  FALSE
  BY <1>10 DEF SetBalance
<1>11. ~Die
  BY DEF Die
<1>12. ASSUME \/ CountForDeactivate \/ DeactivateType
              \/ \E on \in BOOLEAN, n \in Limits : UpdateType(on, n)
              \/ UNCHANGED leaveVars
       PROVE  Orderly' /\ Accounts'
  <2>1. /\ op' = op /\ status' = status /\ stage' = stage /\ balance' = balance
        /\ lost' = lost /\ serial' = serial /\ clean' = clean
    BY <1>12 DEF CountForDeactivate, DeactivateType, UpdateType, leaveVars
  <2>2. Orderly /\ Accounts
    BY <1>2, <2>1
  <2>3. OneByOne' /\ Stands'
    BY <2>1, <2>2, SameOp DEF Orderly, OneByOne, Stands
  <2>4. Submitted' /\ BalanceThere'
    BY <2>1, <2>2 DEF Orderly, Submitted, BalanceThere
  <2>5. /\ Taken' = Taken /\ Lent' = Lent /\ Allotted' = Allotted
        /\ Awaited' = Awaited /\ Early' = Early
    BY <2>1, SameOp DEF Taken, Lent, Allotted, Awaited, Early
  <2>6. Accounts'
    BY <2>1, <2>2, <2>5, SameBooks
  <2> QED
    BY <2>3, <2>4, <2>6 DEF Orderly
<1>13. ASSUME NEW l \in Leaves, FindType(l)
       PROVE  Orderly' /\ Accounts'
  <2>1. clean
    BY <1>13 DEF FindType
  <2> QED
    BY <1>1, <1>2, <1>13, <2>1, FindGoesOn
<1> QED
  BY <1>3, <1>4, <1>5, <1>6, <1>7, <1>8, <1>9, <1>10, <1>11, <1>12, <1>13 DEF LeaveNext

\* The balance always says what the leaves and the statements under way say.
THEOREM LeavesHold == LeaveSpec => []LeaveInv
BY LeaveStart, LeavesGoOn, PTL DEF LeaveSpec

\* Between requests nothing is owed.
LEMMA SettledSets ==
  ASSUME LeaveInv, clean, Settled
  PROVE  /\ Taken = {l \in Leaves : status[l] = "APPROVED"} /\ Lent = {}
         /\ Awaited = {l \in Leaves : status[l] = "PENDING"} /\ Early = {}
<1>1. LeaveTypeOK /\ Orderly
  BY DEF LeaveInv
<1>2. \A l \in Leaves : ~OwesUse(l) /\ ~OwesReturn(l) /\ ~OwesClear(l) /\ stage[l] # "stored"
  BY DEF Settled, OwesUse, OwesReturn, OwesClear, Using, Returning, Clearing, Idle
<1>3. \A l \in Leaves : status[l] = "PENDING" => stage[l] = "done"
  BY <1>1, <1>2, OwesStatus
<1> QED
  BY <1>2, <1>3 DEF Taken, Lent, Awaited, Early

\* BooksBalance: between requests used_days are the approved days and pending_days the
\* pending ones, less what the increments made before there was a row have lost, for any
\* number of leaves and handlers, however their statements come between each other and
\* whatever limit HR gives the type.
THEOREM LedgerBalances == LeaveSpec => []BooksBalance
<1>1. LeaveInv => BooksBalance
  <2> SUFFICES ASSUME LeaveInv, clean, Settled
               PROVE  UsedInAll = DaysIn("APPROVED") /\ PendInAll = DaysIn("PENDING")
    BY DEF BooksBalance, UsedInAll, PendInAll
  <2>1. /\ UsedInAll = DaysOf(Taken) - DaysOf(Lent)
        /\ PendInAll = DaysOf(Awaited) - DaysOf(Early)
    BY DEF LeaveInv, Accounts, Books
  <2>2. /\ DaysOf(Taken) = DaysIn("APPROVED") /\ DaysOf(Awaited) = DaysIn("PENDING")
        /\ Lent = {} /\ Early = {}
    BY SettledSets DEF DaysIn
  <2>3. DaysOf({}) = 0 /\ DaysOf(Taken) \in Nat /\ DaysOf(Awaited) \in Nat
    BY DaysTurn, DaysType, SetsOfLeaves
  <2> QED
    BY <2>1, <2>2, <2>3
<1> QED
  BY <1>1, LeavesHold, PTL

\* WithinTotalInTurn: an employee who submits one leave after the other, each checked
\* against the balance, never has more approved and pending days than the total.
THEOREM TotalKept == LeaveSpec => []WithinTotalInTurn
<1>1. LeaveInv => WithinTotalInTurn
  <2> SUFFICES ASSUME LeaveInv, serial, clean, Settled, balance.exists
               PROVE  balance.used + balance.pend <= balance.total
    BY DEF WithinTotalInTurn, WithinTotal
  <2> PICK T, D, A : T = Taken /\ D = Awaited /\ A = Allotted
    OBVIOUS
  <2>1. T \in SUBSET Leaves /\ D \in SUBSET Leaves /\ A \in SUBSET Leaves
    BY SetsOfLeaves
  <2>2. /\ balance.used = DaysOf(T) - DaysOf(Lent) /\ balance.pend = DaysOf(D) - DaysOf(Early)
        /\ DaysOf(A) <= balance.total
    <3>1. /\ UsedInAll = DaysOf(T) - DaysOf(Lent) /\ PendInAll = DaysOf(D) - DaysOf(Early)
          /\ lost.used = 0 /\ lost.pend = 0 /\ DaysOf(A) <= balance.total
      BY DEF LeaveInv, Accounts, Books, Room
    <3>2. balance.used \in Int /\ balance.pend \in Int
      BY DEF LeaveInv, LeaveTypeOK
    <3> QED
      BY <3>1, <3>2 DEF UsedInAll, PendInAll
  <2>3. Lent = {} /\ Early = {} /\ T \cap D = {} /\ T \cup D \subseteq A
    BY SettledSets DEF Allotted
  <2> PICK B : B = T \cup D
    OBVIOUS
  <2>4. DaysOf(B) = DaysOf(T) + DaysOf(D) /\ DaysOf(B) <= DaysOf(A)
    BY <2>1, <2>3, DaysUnion
  <2>5. /\ DaysOf({}) = 0 /\ DaysOf(T) \in Nat /\ DaysOf(D) \in Nat /\ DaysOf(A) \in Nat
        /\ DaysOf(B) \in Nat /\ balance.total \in Nat
    BY <2>1, DaysTurn, DaysType DEF LeaveInv, LeaveTypeOK
  <2> QED
    BY <2>2, <2>3, <2>4, <2>5
<1> QED
  BY <1>1, LeavesHold, PTL

-----------------------------------------------------------------------------
(***************************************************************************)
(* The payslip of any month: the lines of a payslip, as calculated from    *)
(* counts, and the same day by day and component by component.             *)
(***************************************************************************)

\* Rounding is off by half at most.
LEMMA RoundedNear ==
  ASSUME NEW n \in Int, NEW d \in Nat \ {0}
  PROVE  /\ Rounded(n, d) \in Int
         /\ -d <= 2 * (d * Rounded(n, d) - n) /\ 2 * (d * Rounded(n, d) - n) <= d
<1> DEFINE q == (2 * n + d) \div (2 * d)
<1>1. q \in Int /\ 2 * d * q <= 2 * n + d /\ 2 * n + d < 2 * d * q + 2 * d
  OBVIOUS
<1>2. 2 * d * q = 2 * (d * q) /\ d * q \in Int
  BY <1>1
<1> HIDE DEF q
<1>3. -d <= 2 * (d * q - n) /\ 2 * (d * q - n) <= d
  BY <1>1, <1>2
<1> QED
  BY <1>1, <1>3 DEF q, Rounded

\* A sum of the library is a sum of the function.
LEMMA UnearnedSum ==
  ASSUME NEW W, IsFiniteSet(W), NEW sheet, NEW leaves
  PROVE  MapThenSumSet(LAMBDA d : Unearned(d, sheet, leaves), W)
           = SumOf([d \in W |-> Unearned(d, sheet, leaves)], W)
<1> PICK w : w = [d \in W |-> Unearned(d, sheet, leaves)]
  OBVIOUS
<1> DEFINE Turns(f) == f = [T \in SUBSET W |-> IF T = {} THEN 0
                          ELSE Unearned(First(T), sheet, leaves) + f[T \ {First(T)}]]
<1>1. ASSUME NEW f
      PROVE  Turns(f) <=> Sums(w, W, f)
  <2>1. \A T \in SUBSET W : T # {} => w[First(T)] = Unearned(First(T), sheet, leaves)
    BY FirstIn
  <2>2. [T \in SUBSET W |-> IF T = {} THEN 0
           ELSE Unearned(First(T), sheet, leaves) + f[T \ {First(T)}]]
        = [T \in SUBSET W |-> IF T = {} THEN 0 ELSE w[First(T)] + f[T \ {First(T)}]]
    BY <2>1
  <2> QED
    BY <2>2 DEF Sums
<1>2. PICK f : Turns(f)
  <2>1. W \in SUBSET W
    OBVIOUS
  <2> HIDE DEF Turns
  <2> QED
    BY <1>1, <2>1, SumsThere
<1>3. Turns(CHOOSE k : Turns(k))
  <2> HIDE DEF Turns
  <2> QED
    BY <1>2
<1>4. MapThenSumSet(LAMBDA d : Unearned(d, sheet, leaves), W) = (CHOOSE k : Turns(k))[W]
  BY DEF MapThenSumSet, MapThenFoldSet, First
<1> HIDE DEF Turns
<1> PICK g : g = CHOOSE k : Turns(k)
  OBVIOUS
<1>5. Sums(w, W, g)
  BY <1>1, <1>3
<1>6. g[W] = SumOf(w, W)
  BY <1>5, SumSame
<1> QED
  BY <1>4, <1>6

\* The days of leaves, as they are clipped to the month.
Clipped(l, month) == CountWeekdays(Greatest(l.from, month.from), Least(l.to, month.to))

LEMMA ClippedSum ==
  ASSUME NEW S, IsFiniteSet(S), NEW month
  PROVE  MapThenSumSet(LAMBDA l : CountWeekdays(Greatest(l.from, month.from), Least(l.to, month.to)), S)
           = SumOf([l \in S |-> Clipped(l, month)], S)
<1> PICK w : w = [l \in S |-> Clipped(l, month)]
  OBVIOUS
<1> DEFINE Turns(f) == f = [T \in SUBSET S |-> IF T = {} THEN 0
                          ELSE Clipped(First(T), month) + f[T \ {First(T)}]]
<1>1. ASSUME NEW f
      PROVE  Turns(f) <=> Sums(w, S, f)
  <2>1. \A T \in SUBSET S : T # {} => w[First(T)] = Clipped(First(T), month)
    BY FirstIn
  <2>2. [T \in SUBSET S |-> IF T = {} THEN 0 ELSE Clipped(First(T), month) + f[T \ {First(T)}]]
        = [T \in SUBSET S |-> IF T = {} THEN 0 ELSE w[First(T)] + f[T \ {First(T)}]]
    BY <2>1
  <2> QED
    BY <2>2 DEF Sums
<1>2. PICK f : Turns(f)
  <2>1. S \in SUBSET S
    OBVIOUS
  <2> HIDE DEF Turns
  <2> QED
    BY <1>1, <2>1, SumsThere
<1>3. Turns(CHOOSE k : Turns(k))
  <2> HIDE DEF Turns
  <2> QED
    BY <1>2
<1>4. MapThenSumSet(LAMBDA l : CountWeekdays(Greatest(l.from, month.from), Least(l.to, month.to)), S)
        = (CHOOSE k : Turns(k))[S]
  BY DEF MapThenSumSet, MapThenFoldSet, First, Clipped
<1> HIDE DEF Turns
<1> PICK g : g = CHOOSE k : Turns(k)
  OBVIOUS
<1>5. Sums(w, S, g)
  BY <1>1, <1>3
<1>6. g[S] = SumOf(w, S)
  BY <1>5, SumSame
<1> QED
  BY <1>4, <1>6

\* The days of W on which one of the leaves of X is taken.
OnLeave(W, X) == {d \in W : \E l \in X : d \in l.from .. l.to}
Apart(X) == \A l, m \in X : l # m => l.from .. l.to \cap m.from .. m.to = {}

LEMMA ClippedCount ==
  ASSUME NEW month \in Month, NEW l \in Leave
  PROVE  /\ IsFiniteSet(OnLeave(Weekdays(month.from, month.to), {l}))
         /\ Clipped(l, month) = Cardinality(OnLeave(Weekdays(month.from, month.to), {l}))
         /\ Clipped(l, month) \in Nat
<1> PICK W, D : W = Weekdays(month.from, month.to)
             /\ D = Weekdays(Greatest(l.from, month.from), Least(l.to, month.to))
  OBVIOUS
<1>1. month.from \in Int /\ month.to \in Int /\ l.from \in Int /\ l.to \in Int
  BY DEF Month, Leave
<1>2. IsFiniteSet(W)
  <2>1. IsFiniteSet(month.from .. month.to) /\ W \subseteq month.from .. month.to
    BY <1>1, FS_Interval DEF Weekdays
  <2> QED
    BY <2>1, FS_Subset
<1>3. OnLeave(W, {l}) = D
  BY <1>1 DEF OnLeave, Weekdays, Greatest, Least
<1>4. D \subseteq W
  BY <1>3 DEF OnLeave
<1>5. IsFiniteSet(D) /\ Cardinality(D) \in Nat
  BY <1>2, <1>4, FS_Subset, FS_CardinalityType
<1> QED
  BY <1>3, <1>5 DEF Clipped, CountWeekdays

\* As many days as the leaves have together, and fewer if leaves overlap.
LEMMA OnLeaveCount ==
  ASSUME NEW month \in Month, NEW S, IsFiniteSet(S), S \subseteq Leave,
         NEW w, w = [l \in S |-> Clipped(l, month)],
         NEW W, W = Weekdays(month.from, month.to), IsFiniteSet(W)
  PROVE  /\ SumOf(w, S) \in Nat
         /\ Cardinality(OnLeave(W, S)) <= SumOf(w, S)
         /\ Apart(S) => Cardinality(OnLeave(W, S)) = SumOf(w, S)
<1>1. w \in [S -> Int] /\ \A l \in S : 0 <= w[l]
  <2>1. \A l \in S : Clipped(l, month) \in Nat
    BY ClippedCount
  <2> QED
    BY <2>1
<1>2. \A T \in SUBSET S : SumOf(w, T) \in Int /\ 0 <= SumOf(w, T)
  BY <1>1, SumType
<1> DEFINE Good(T) == /\ Cardinality(OnLeave(W, T)) <= SumOf(w, T)
                      /\ Apart(S) => Cardinality(OnLeave(W, T)) = SumOf(w, T)
           U == {T \in SUBSET S : ~Good(T)}
<1>3. ASSUME U # {}
      PROVE  FALSE
  <2>1. PICK T \in U : \A V \in U : V \subseteq T => V = T
    <3>1. U \subseteq SUBSET S
      OBVIOUS
    <3> HIDE DEF U
    <3> QED
      BY <1>3, <3>1, Smallest
  <2>2. T \in SUBSET S /\ ~Good(T)
    BY <2>1
  <2>3. SumOf(w, T) = IF T = {} THEN 0 ELSE w[First(T)] + SumOf(w, T \ {First(T)})
    BY <1>1, <2>2, SumTurn
  <2>4. T # {}
    <3> SUFFICES ASSUME T = {}
                 PROVE  FALSE
      OBVIOUS
    <3>1. OnLeave(W, T) = {}
      BY DEF OnLeave
    <3>2. Cardinality(OnLeave(W, T)) = 0 /\ SumOf(w, T) = 0
      BY <2>3, <3>1, FS_EmptySet
    <3> QED
      BY <2>2, <3>2
  <2> PICK l, V : l = First(T) /\ V = T \ {l}
    OBVIOUS
  <2>5. l \in T /\ l \in S /\ l \in Leave /\ V \in SUBSET S /\ V \subseteq T /\ V # T
    BY <2>2, <2>4, FirstIn
  <2>6. Good(V)
    BY <2>1, <2>5
  <2> HIDE DEF U
  <2> PICK A, B, C : A = OnLeave(W, V) /\ B = OnLeave(W, {l}) /\ C = OnLeave(W, T)
    OBVIOUS
  <2>7. C = A \cup B /\ A \subseteq W /\ B \subseteq W
    BY <2>5 DEF OnLeave
  <2>8. Apart(S) => A \cap B = {}
    <3> SUFFICES ASSUME Apart(S), NEW d \in A \cap B
                 PROVE  FALSE
      OBVIOUS
    <3>1. PICK m \in V : d \in m.from .. m.to
      BY DEF OnLeave
    <3>2. d \in l.from .. l.to /\ l # m /\ m \in S
      BY <2>5 DEF OnLeave
    <3> QED
      BY <2>5, <3>1, <3>2 DEF Apart
  <2>9. IsFiniteSet(A) /\ IsFiniteSet(B) /\ IsFiniteSet(A \cap B)
    <3>1. ASSUME NEW D \in SUBSET W
          PROVE  IsFiniteSet(D)
      BY FS_Subset
    <3>2. A \cap B \in SUBSET W
      BY <2>7
    <3> QED
      BY <2>7, <3>1, <3>2
  <2>10. /\ Cardinality(C) = Cardinality(A) + Cardinality(B) - Cardinality(A \cap B)
         /\ Cardinality(A) \in Nat /\ Cardinality(B) \in Nat /\ Cardinality(A \cap B) \in Nat
    <3>1. Cardinality(A \cup B) = Cardinality(A) + Cardinality(B) - Cardinality(A \cap B)
      BY <2>9, FS_Union
    <3> QED
      BY <2>7, <2>9, <3>1, FS_CardinalityType
  <2>11. w[l] = Cardinality(B)
    BY <2>5, ClippedCount
  <2>12. Apart(S) => Cardinality(A \cap B) = 0
    BY <2>8, FS_EmptySet
  <2>13. SumOf(w, T) = Cardinality(B) + SumOf(w, V) /\ SumOf(w, V) \in Int
    BY <1>2, <2>3, <2>4, <2>5, <2>11
  <2>14. /\ Cardinality(A) <= SumOf(w, V)
         /\ Apart(S) => Cardinality(A) = SumOf(w, V)
    BY <2>6
  <2>15. /\ Cardinality(C) <= SumOf(w, T)
         /\ Apart(S) => Cardinality(C) = SumOf(w, T)
    BY <2>10, <2>12, <2>13, <2>14
  <2> QED
    BY <2>2, <2>15
<1>4. Good(S)
  BY <1>3
<1> QED
  BY <1>2, <1>4

LEMMA LeaveDaysCount ==
  ASSUME NEW month \in Month, NEW leaves, IsFiniteSet(leaves), leaves \subseteq Leave,
         NEW paid \in BOOLEAN, NEW W, W = Weekdays(month.from, month.to), IsFiniteSet(W),
         NEW X, X = {l \in leaves : l.paid = paid}
  PROVE  /\ LeaveDays(leaves, month, paid) \in Nat
         /\ Cardinality(OnLeave(W, X)) <= LeaveDays(leaves, month, paid)
         /\ Apart(X) => Cardinality(OnLeave(W, X)) = LeaveDays(leaves, month, paid)
<1> PICK S, w : /\ S = {l \in leaves : l.paid = paid /\ l.from <= month.to /\ l.to >= month.from}
                /\ w = [l \in S |-> Clipped(l, month)]
  OBVIOUS
<1>1. IsFiniteSet(S) /\ S \subseteq Leave /\ S \subseteq X
  BY FS_Subset
<1>2. LeaveDays(leaves, month, paid) = SumOf(w, S)
  BY <1>1, ClippedSum DEF LeaveDays
<1>3. OnLeave(W, X) = OnLeave(W, S)
  <2>1. ASSUME NEW d \in W, NEW l \in X, d \in l.from .. l.to
        PROVE  l \in S
    <3>1. l \in Leave /\ month.from \in Int /\ month.to \in Int
      BY DEF Month
    <3>2. l.from \in Int /\ l.to \in Int
      BY <3>1 DEF Leave
    <3>3. d \in Int /\ month.from <= d /\ d <= month.to
      BY <3>1 DEF Weekdays
    <3>4. l.from <= month.to /\ l.to >= month.from
      BY <2>1, <3>1, <3>2, <3>3
    <3> QED
      BY <3>4
  <2> QED
    BY <1>1, <2>1 DEF OnLeave
<1>4. Apart(X) => Apart(S)
  BY <1>1 DEF Apart
<1>5. /\ SumOf(w, S) \in Nat
      /\ Cardinality(OnLeave(W, S)) <= SumOf(w, S)
      /\ Apart(S) => Cardinality(OnLeave(W, S)) = SumOf(w, S)
  BY <1>1, OnLeaveCount
<1> QED
  BY <1>2, <1>3, <1>4, <1>5

-----------------------------------------------------------------------------
\* Half days worked on a day.
Worked(d, sheet) ==
  IF d \notin DOMAIN sheet THEN 0
  ELSE IF sheet[d] \in {"PRESENT", "LATE"} THEN 2
  ELSE IF sheet[d] = "HALF_DAY" THEN 1 ELSE 0

LEMMA UnearnedIs ==
  ASSUME NEW d, NEW sheet, NEW leaves
  PROVE  /\ Worked(d, sheet) \in {0, 1, 2}
         /\ Unearned(d, sheet, leaves)
              = IF \E l \in leaves : l.paid /\ d \in l.from .. l.to THEN 0
                ELSE 2 - Worked(d, sheet)
BY DEF Unearned, Worked

LEMMA WorkedType ==
  ASSUME NEW W, NEW sheet, NEW x, x = [d \in W |-> Worked(d, sheet)]
  PROVE  x \in [W -> Int] /\ \A d \in W : x[d] = Worked(d, sheet) /\ x[d] \in Int
<1>1. \A d \in W : Worked(d, sheet) \in Int
  BY DEF Worked
<1> QED
  BY <1>1

LEMMA WorkedCount ==
  ASSUME NEW month \in Month, NEW sheet, DOMAIN sheet \subseteq Int,
         NEW W, W = Weekdays(month.from, month.to), IsFiniteSet(W),
         NEW x, x = [d \in W |-> Worked(d, sheet)]
  PROVE  /\ ActualHalves(sheet, month) \in Nat /\ SumOf(x, W) \in Int
         /\ SumOf(x, W) <= ActualHalves(sheet, month)
         /\ (\A d \in DOMAIN sheet : sheet[d] \in {"PRESENT", "LATE", "HALF_DAY"} => d % 7 < 5)
              => SumOf(x, W) = ActualHalves(sheet, month)
<1> DEFINE R2 == Recorded(sheet, month, {"PRESENT", "LATE"})
           R1 == Recorded(sheet, month, {"HALF_DAY"})
           P2 == R2 \cap W
           P1 == R1 \cap W
<1>p. PICK x2 \in [W -> Int] : \A d \in W : x2[d] = IF d \in P2 THEN 2 ELSE 0
  <2> WITNESS [d \in W |-> IF d \in P2 THEN 2 ELSE 0] \in [W -> Int]
  <2> QED
    OBVIOUS
<1>q. PICK x1 \in [W -> Int] : \A d \in W : x1[d] = IF d \in P1 THEN 1 ELSE 0
  <2> WITNESS [d \in W |-> IF d \in P1 THEN 1 ELSE 0] \in [W -> Int]
  <2> QED
    OBVIOUS
<1>1. month.from \in Int /\ month.to \in Int
  BY DEF Month
<1>2. IsFiniteSet(R2) /\ IsFiniteSet(R1)
  <2>1. IsFiniteSet(month.from .. month.to)
    BY <1>1, FS_Interval
  <2>2. R2 \in SUBSET (month.from .. month.to) /\ R1 \in SUBSET (month.from .. month.to)
    BY DEF Recorded
  <2> QED
    BY <2>1, <2>2, FS_Subset
<1>3. /\ Cardinality(R2) \in Nat /\ Cardinality(R1) \in Nat
      /\ Cardinality(P2) \in Nat /\ Cardinality(P1) \in Nat
      /\ Cardinality(P2) <= Cardinality(R2) /\ Cardinality(P1) <= Cardinality(R1)
  <2>1. P2 \in SUBSET R2 /\ P1 \in SUBSET R1
    OBVIOUS
  <2>2. IsFiniteSet(P2) /\ IsFiniteSet(P1)
    BY <1>2, <2>1, FS_Subset
  <2>3. Cardinality(P2) <= Cardinality(R2) /\ Cardinality(P1) <= Cardinality(R1)
    BY <1>2, <2>1, FS_Subset
  <2> QED
    BY <1>2, <2>2, <2>3, FS_CardinalityType
<1>4. x \in [W -> Int]
  <2>1. \A d \in W : Worked(d, sheet) \in Int
    BY UnearnedIs
  <2> QED
    BY <2>1
<1>5. \A d \in W : x[d] = x2[d] + x1[d]
  <2> SUFFICES ASSUME NEW d \in W
               PROVE  x[d] = x2[d] + x1[d]
    OBVIOUS
  <2>1. month.from <= d /\ d <= month.to /\ x[d] = Worked(d, sheet)
    BY <1>1 DEF Weekdays
  <2>2. /\ d \in P2 <=> d \in DOMAIN sheet /\ sheet[d] \in {"PRESENT", "LATE"}
        /\ d \in P1 <=> d \in DOMAIN sheet /\ sheet[d] = "HALF_DAY"
    BY <2>1 DEF Recorded
  <2>3. /\ x2[d] = IF d \in P2 THEN 2 ELSE 0
        /\ x1[d] = IF d \in P1 THEN 1 ELSE 0
    BY <1>p, <1>q
  <2> HIDE DEF P2, P1
  <2> QED
    BY <2>1, <2>2, <2>3 DEF Worked
<1>6. SumOf(x, W) = SumOf(x2, W) + SumOf(x1, W)
  <2>1. W \in SUBSET W
    OBVIOUS
  <2> QED
    BY <1>4, <1>5, <2>1, SumPlus
<1>7. SumOf(x2, W) = 2 * Cardinality(P2)
  <2>1. P2 \in SUBSET W
    OBVIOUS
  <2> HIDE DEF P2
  <2> QED
    BY <1>p, <2>1, SumCount
<1>8. SumOf(x1, W) = 1 * Cardinality(P1)
  <2>1. P1 \in SUBSET W
    OBVIOUS
  <2> HIDE DEF P1
  <2> QED
    BY <1>q, <2>1, SumCount
<1>9. ActualHalves(sheet, month) = 2 * Cardinality(R2) + Cardinality(R1)
  BY DEF ActualHalves
<1>10. ASSUME \A d \in DOMAIN sheet : sheet[d] \in {"PRESENT", "LATE", "HALF_DAY"} => d % 7 < 5
       PROVE  P2 = R2 /\ P1 = R1
  BY <1>1, <1>10 DEF Recorded, Weekdays
<1> HIDE DEF P2, P1, R2, R1
<1> QED
  BY <1>3, <1>6, <1>7, <1>8, <1>9, <1>10

\* Two half days for each weekday, in three parts.
LEMMA ThreeParts ==
  ASSUME NEW W, IsFiniteSet(W), NEW u \in [W -> Int], NEW x \in [W -> Int], NEW O \in SUBSET W
  PROVE  /\ (\A d \in W : 2 <= u[d] + x[d] + (IF d \in O THEN 2 ELSE 0)) =>
              2 * Cardinality(W) <= SumOf(u, W) + SumOf(x, W) + 2 * Cardinality(O)
         /\ (\A d \in W : 2 = u[d] + x[d] + (IF d \in O THEN 2 ELSE 0)) =>
              2 * Cardinality(W) = SumOf(u, W) + SumOf(x, W) + 2 * Cardinality(O)
         /\ (\A d \in W : u[d] >= IF d \in O THEN 2 ELSE 0) => SumOf(u, W) >= 2 * Cardinality(O)
<1>o. PICK o \in [W -> Int] : \A d \in W : o[d] = IF d \in O THEN 2 ELSE 0
  <2> WITNESS [d \in W |-> IF d \in O THEN 2 ELSE 0] \in [W -> Int]
  <2> QED
    OBVIOUS
<1>a. PICK a \in [W -> Int] : \A d \in W : a[d] = u[d] + x[d]
  <2> WITNESS [d \in W |-> u[d] + x[d]] \in [W -> Int]
  <2> QED
    OBVIOUS
<1>b. PICK b \in [W -> Int] : \A d \in W : b[d] = a[d] + o[d]
  <2> WITNESS [d \in W |-> a[d] + o[d]] \in [W -> Int]
  <2> QED
    OBVIOUS
<1>t. PICK t \in [W -> Int] : \A d \in W : t[d] = 2
  <2> WITNESS [d \in W |-> 2] \in [W -> Int]
  <2> QED
    OBVIOUS
<1>2. W \in SUBSET W
  OBVIOUS
<1>3. SumOf(o, W) = 2 * Cardinality(O)
  BY <1>o, SumCount
<1>4. SumOf(t, W) = 2 * Cardinality(W)
  <2>1. \A d \in W : t[d] = IF d \in W THEN 2 ELSE 0
    BY <1>t
  <2> QED
    BY <1>2, <2>1, SumCount
<1>5. SumOf(a, W) = SumOf(u, W) + SumOf(x, W)
  BY <1>2, <1>a, SumPlus
<1>6. SumOf(b, W) = SumOf(a, W) + SumOf(o, W)
  BY <1>2, <1>b, SumPlus
<1>7. ASSUME \A d \in W : 2 <= u[d] + x[d] + (IF d \in O THEN 2 ELSE 0)
      PROVE  SumOf(t, W) <= SumOf(b, W)
  <2>1. \A d \in W : t[d] <= b[d]
    BY <1>7, <1>o, <1>a, <1>b, <1>t
  <2> QED
    BY <1>2, <2>1, SumBelow
<1>8. ASSUME \A d \in W : 2 = u[d] + x[d] + (IF d \in O THEN 2 ELSE 0)
      PROVE  SumOf(t, W) = SumOf(b, W)
  <2>1. \A d \in W : t[d] = b[d]
    BY <1>8, <1>o, <1>a, <1>b, <1>t
  <2>2. t = b
    BY <2>1
  <2> QED
    BY <2>2
<1>9. ASSUME \A d \in W : u[d] >= IF d \in O THEN 2 ELSE 0
      PROVE  SumOf(o, W) <= SumOf(u, W)
  <2>1. \A d \in W : o[d] <= u[d]
    BY <1>9, <1>o
  <2> QED
    BY <1>2, <2>1, SumBelow
<1>10. SumOf(u, W) \in Int /\ SumOf(x, W) \in Int /\ SumOf(o, W) \in Int /\ SumOf(t, W) \in Int
  BY <1>2, SumType
<1>11. SumOf(b, W) = SumOf(u, W) + SumOf(x, W) + SumOf(o, W)
  BY <1>5, <1>6
<1> QED
  BY <1>3, <1>4, <1>7, <1>8, <1>9, <1>10, <1>11

LEMMA WeekdaysFinite ==
  ASSUME NEW month \in Month
  PROVE  /\ IsFiniteSet(Weekdays(month.from, month.to))
         /\ CountWeekdays(month.from, month.to) \in Nat
<1>1. month.from \in Int /\ month.to \in Int
  BY DEF Month
<1>2. IsFiniteSet(month.from .. month.to)
  BY <1>1, FS_Interval
<1>3. Weekdays(month.from, month.to) \in SUBSET (month.from .. month.to)
  BY DEF Weekdays
<1>4. IsFiniteSet(Weekdays(month.from, month.to))
  BY <1>2, <1>3, FS_Subset
<1> QED
  BY <1>4, FS_CardinalityType DEF CountWeekdays

LEMMA UnearnedCount ==
  ASSUME NEW month \in Month, NEW sheet, NEW leaves,
         NEW W, W = Weekdays(month.from, month.to), IsFiniteSet(W),
         NEW u, u = [d \in W |-> Unearned(d, sheet, leaves)]
  PROVE  /\ u \in [W -> Int] /\ \A d \in W : u[d] = Unearned(d, sheet, leaves)
         /\ UnearnedHalves(sheet, leaves, month) = SumOf(u, W)
         /\ SumOf(u, W) \in Int /\ 0 <= SumOf(u, W)
<1>1. \A d \in W : Unearned(d, sheet, leaves) \in {0, 1, 2}
  BY UnearnedIs
<1>2. u \in [W -> Int] /\ \A d \in W : u[d] \in Int /\ 0 <= u[d]
  BY <1>1
<1>3. SumOf(u, W) \in Int /\ 0 <= SumOf(u, W)
  <2>1. W \in SUBSET W /\ \A d \in W : 0 <= u[d]
    BY <1>2
  <2> QED
    BY <1>2, <2>1, SumType
<1>4. UnearnedHalves(sheet, leaves, month) = SumOf(u, W)
  BY UnearnedSum DEF UnearnedHalves
<1> QED
  BY <1>2, <1>3, <1>4

\* The leaves of either kind, and the days somebody is on leave.
Kind(leaves, paid) == {l \in leaves : l.paid = paid}

LEMMA KindsCount ==
  ASSUME NEW month \in Month, NEW leaves, IsFiniteSet(leaves), leaves \subseteq Leave,
         NEW W, W = Weekdays(month.from, month.to), IsFiniteSet(W)
  PROVE  /\ LeaveDays(leaves, month, TRUE) \in Nat /\ LeaveDays(leaves, month, FALSE) \in Nat
         /\ Cardinality(OnLeave(W, leaves))
              <= LeaveDays(leaves, month, TRUE) + LeaveDays(leaves, month, FALSE)
         /\ Apart(leaves) =>
              /\ Cardinality(OnLeave(W, Kind(leaves, TRUE))) = LeaveDays(leaves, month, TRUE)
              /\ Cardinality(OnLeave(W, Kind(leaves, FALSE))) = LeaveDays(leaves, month, FALSE)
<1>1. /\ LeaveDays(leaves, month, TRUE) \in Nat
      /\ Cardinality(OnLeave(W, Kind(leaves, TRUE))) <= LeaveDays(leaves, month, TRUE)
      /\ Apart(Kind(leaves, TRUE)) =>
           Cardinality(OnLeave(W, Kind(leaves, TRUE))) = LeaveDays(leaves, month, TRUE)
  BY LeaveDaysCount DEF Kind
<1>2. /\ LeaveDays(leaves, month, FALSE) \in Nat
      /\ Cardinality(OnLeave(W, Kind(leaves, FALSE))) <= LeaveDays(leaves, month, FALSE)
      /\ Apart(Kind(leaves, FALSE)) =>
           Cardinality(OnLeave(W, Kind(leaves, FALSE))) = LeaveDays(leaves, month, FALSE)
  BY LeaveDaysCount DEF Kind
<1>3. Apart(leaves) => Apart(Kind(leaves, TRUE)) /\ Apart(Kind(leaves, FALSE))
  BY DEF Apart, Kind
<1>4. Cardinality(OnLeave(W, leaves))
        <= Cardinality(OnLeave(W, Kind(leaves, TRUE))) + Cardinality(OnLeave(W, Kind(leaves, FALSE)))
  <2> DEFINE A == OnLeave(W, Kind(leaves, TRUE))
             B == OnLeave(W, Kind(leaves, FALSE))
  <2>1. OnLeave(W, leaves) = A \cup B
    BY DEF OnLeave, Kind, Leave
  <2>2. A \in SUBSET W /\ B \in SUBSET W /\ A \cap B \in SUBSET W
    BY DEF OnLeave
  <2> HIDE DEF A, B
  <2>3. ASSUME NEW D \in SUBSET W
        PROVE  IsFiniteSet(D) /\ Cardinality(D) \in Nat
    BY FS_Subset, FS_CardinalityType
  <2>4. Cardinality(A \cup B) = Cardinality(A) + Cardinality(B) - Cardinality(A \cap B)
    BY <2>2, <2>3, FS_Union
  <2>5. Cardinality(A \cup B) <= Cardinality(A) + Cardinality(B)
    BY <2>2, <2>3, <2>4
  <2> QED
    BY <2>1, <2>5 DEF A, B
<1>5. /\ Cardinality(OnLeave(W, Kind(leaves, TRUE))) \in Nat
      /\ Cardinality(OnLeave(W, Kind(leaves, FALSE))) \in Nat
      /\ Cardinality(OnLeave(W, leaves)) \in Nat
  <2>1. ASSUME NEW X
        PROVE  Cardinality(OnLeave(W, X)) \in Nat
    <3>1. OnLeave(W, X) \in SUBSET W
      BY DEF OnLeave
    <3> QED
      BY <3>1, FS_Subset, FS_CardinalityType
  <2> QED
    BY <2>1
<1> DEFINE p == LeaveDays(leaves, month, TRUE)
           n == LeaveDays(leaves, month, FALSE)
           a == Cardinality(OnLeave(W, Kind(leaves, TRUE)))
           b == Cardinality(OnLeave(W, Kind(leaves, FALSE)))
           o == Cardinality(OnLeave(W, leaves))
<1>6. /\ p \in Nat /\ n \in Nat /\ a \in Nat /\ b \in Nat /\ o \in Nat
      /\ a <= p /\ b <= n /\ o <= a + b /\ (Apart(leaves) => a = p /\ b = n)
  BY <1>1, <1>2, <1>3, <1>4, <1>5
<1> HIDE DEF p, n, a, b, o
<1>7. p \in Nat /\ n \in Nat /\ o <= p + n /\ (Apart(leaves) => a = p /\ b = n)
  BY <1>6
<1> QED
  BY <1>7 DEF p, n, a, b, o

\* The same leaves, all paid.
AllPaid(leaves) == {[l EXCEPT !.paid = TRUE] : l \in leaves}

LEMMA AbsenceBounded ==
  ASSUME NEW month \in Month, NEW sheet, DOMAIN sheet \subseteq Int,
         NEW leaves, IsFiniteSet(leaves), leaves \subseteq Leave
  PROVE  Stats(sheet, 0, leaves, month).absent <= Missed(sheet, leaves, month)
<1>w. PICK W : W = Weekdays(month.from, month.to)
  OBVIOUS
<1>u. PICK u : u = [d \in W |-> Unearned(d, sheet, AllPaid(leaves))]
  OBVIOUS
<1>x. PICK x : x = [d \in W |-> Worked(d, sheet)]
  OBVIOUS
<1>1. IsFiniteSet(W) /\ Cardinality(W) \in Nat /\ CountWeekdays(month.from, month.to) = Cardinality(W)
  BY <1>w, WeekdaysFinite DEF CountWeekdays
<1>2. /\ u \in [W -> Int] /\ \A d \in W : u[d] = Unearned(d, sheet, AllPaid(leaves))
      /\ Missed(sheet, leaves, month) = SumOf(u, W)
      /\ SumOf(u, W) \in Int /\ 0 <= SumOf(u, W)
  <2> DEFINE all == AllPaid(leaves)
  <2>1. Missed(sheet, leaves, month) = UnearnedHalves(sheet, all, month)
    BY DEF Missed, AllPaid
  <2>2. u = [d \in W |-> Unearned(d, sheet, all)]
    BY <1>u
  <2> HIDE DEF all
  <2>3. /\ u \in [W -> Int] /\ \A d \in W : u[d] = Unearned(d, sheet, all)
        /\ UnearnedHalves(sheet, all, month) = SumOf(u, W)
        /\ SumOf(u, W) \in Int /\ 0 <= SumOf(u, W)
    BY <1>w, <1>1, <2>2, UnearnedCount
  <2> QED
    BY <2>1, <2>3 DEF all
<1>3. /\ ActualHalves(sheet, month) \in Nat /\ SumOf(x, W) \in Int
      /\ SumOf(x, W) <= ActualHalves(sheet, month)
  BY <1>w, <1>x, <1>1, WorkedCount
<1>4. /\ LeaveDays(leaves, month, TRUE) \in Nat /\ LeaveDays(leaves, month, FALSE) \in Nat
      /\ Cardinality(OnLeave(W, leaves))
           <= LeaveDays(leaves, month, TRUE) + LeaveDays(leaves, month, FALSE)
  BY <1>w, <1>1, KindsCount
<1>5. x \in [W -> Int] /\ \A d \in W : x[d] = Worked(d, sheet) /\ x[d] \in Int
  BY <1>x, WorkedType
<1>6. \A d \in W : 2 <= u[d] + x[d] + (IF d \in OnLeave(W, leaves) THEN 2 ELSE 0)
  <2> SUFFICES ASSUME NEW d \in W
               PROVE  2 <= u[d] + x[d] + (IF d \in OnLeave(W, leaves) THEN 2 ELSE 0)
    OBVIOUS
  <2>1. /\ x[d] \in {0, 1, 2}
        /\ u[d] = IF \E l \in AllPaid(leaves) : l.paid /\ d \in l.from .. l.to THEN 0 ELSE 2 - x[d]
    BY <1>2, <1>5, UnearnedIs
  <2>2. (\E l \in AllPaid(leaves) : l.paid /\ d \in l.from .. l.to) => d \in OnLeave(W, leaves)
    BY DEF AllPaid, OnLeave, Leave
  <2> QED
    BY <2>1, <2>2
<1>7. 2 * Cardinality(W) <= SumOf(u, W) + SumOf(x, W) + 2 * Cardinality(OnLeave(W, leaves))
  <2>1. OnLeave(W, leaves) \in SUBSET W
    BY DEF OnLeave
  <2> QED
    BY <1>1, <1>2, <1>5, <1>6, <2>1, ThreeParts
<1>8. Cardinality(OnLeave(W, leaves)) \in Nat
  <2>1. OnLeave(W, leaves) \in SUBSET W
    BY DEF OnLeave
  <2> QED
    BY <1>1, <2>1, FS_Subset, FS_CardinalityType
<1>9. Stats(sheet, 0, leaves, month).absent <= SumOf(u, W)
  <2> DEFINE w == Cardinality(W)
             p == LeaveDays(leaves, month, TRUE)
             n == LeaveDays(leaves, month, FALSE)
             a == ActualHalves(sheet, month)
             m == SumOf(u, W)
             y == SumOf(x, W)
             o == Cardinality(OnLeave(W, leaves))
  <2>1. /\ w \in Nat /\ p \in Nat /\ n \in Nat /\ a \in Nat /\ m \in Int /\ y \in Int /\ o \in Nat
        /\ 0 <= m /\ y <= a /\ o <= p + n /\ 2 * w <= m + y + 2 * o
    BY <1>1, <1>2, <1>3, <1>4, <1>7, <1>8
  <2>2. Stats(sheet, 0, leaves, month).absent = Greatest(0, 2 * (w - p - n) - a)
    BY <1>1 DEF Stats
  <2> HIDE DEF w, p, n, a, m, y, o
  <2>3. Greatest(0, 2 * (w - p - n) - a) <= m
    BY <2>1 DEF Greatest
  <2>4. Stats(sheet, 0, leaves, month).absent <= m
    BY <2>2, <2>3
  <2> QED
    BY <2>4 DEF m
<1> QED
  BY <1>2, <1>9

\* Where no day is counted twice, what is not earned is what is absent or on unpaid leave.
LEMMA HalvesExact ==
  ASSUME NEW month \in Month, NEW sheet, DOMAIN sheet \subseteq Int,
         NEW leaves, IsFiniteSet(leaves), leaves \subseteq Leave, CountedOnce(sheet, leaves)
  PROVE  /\ Stats(sheet, 0, leaves, month).absent \in Nat
         /\ UnearnedHalves(sheet, leaves, month)
              = Stats(sheet, 0, leaves, month).absent + 2 * LeaveDays(leaves, month, FALSE)
<1>w. PICK W : W = Weekdays(month.from, month.to)
  OBVIOUS
<1>u. PICK u : u = [d \in W |-> Unearned(d, sheet, leaves)]
  OBVIOUS
<1>x. PICK x : x = [d \in W |-> Worked(d, sheet)]
  OBVIOUS
<1> DEFINE P == OnLeave(W, Kind(leaves, TRUE))
           N == OnLeave(W, Kind(leaves, FALSE))
<1>1. IsFiniteSet(W) /\ Cardinality(W) \in Nat /\ CountWeekdays(month.from, month.to) = Cardinality(W)
  BY <1>w, WeekdaysFinite DEF CountWeekdays
<1>2. /\ u \in [W -> Int] /\ \A d \in W : u[d] = Unearned(d, sheet, leaves)
      /\ UnearnedHalves(sheet, leaves, month) = SumOf(u, W)
      /\ SumOf(u, W) \in Int /\ 0 <= SumOf(u, W)
  BY <1>w, <1>u, <1>1, UnearnedCount
<1>3. /\ ActualHalves(sheet, month) \in Nat /\ SumOf(x, W) \in Int
      /\ SumOf(x, W) = ActualHalves(sheet, month)
  <2>1. \A d \in DOMAIN sheet : sheet[d] \in {"PRESENT", "LATE", "HALF_DAY"} => d % 7 < 5
    BY DEF CountedOnce
  <2> QED
    BY <1>w, <1>x, <1>1, <2>1, WorkedCount
<1>4. /\ LeaveDays(leaves, month, TRUE) \in Nat /\ LeaveDays(leaves, month, FALSE) \in Nat
      /\ Cardinality(P) = LeaveDays(leaves, month, TRUE)
      /\ Cardinality(N) = LeaveDays(leaves, month, FALSE)
  <2>1. Apart(leaves)
    BY DEF CountedOnce, Apart
  <2> QED
    BY <1>w, <1>1, <2>1, KindsCount
<1>5. x \in [W -> Int] /\ \A d \in W : x[d] = Worked(d, sheet) /\ x[d] \in Int
  BY <1>x, WorkedType
<1>6. ASSUME NEW d \in W
      PROVE  /\ 2 = u[d] + x[d] + (IF d \in P THEN 2 ELSE 0)
             /\ u[d] >= IF d \in N THEN 2 ELSE 0
  <2>1. /\ x[d] \in {0, 1, 2}
        /\ u[d] = IF \E l \in leaves : l.paid /\ d \in l.from .. l.to THEN 0 ELSE 2 - x[d]
    BY <1>2, <1>5, UnearnedIs
  <2>2. (\E l \in leaves : l.paid /\ d \in l.from .. l.to) <=> d \in P
    BY DEF Kind, OnLeave, Leave
  <2>3. d \in P \/ d \in N => x[d] = 0
    <3>1. d \in P \/ d \in N => \E l \in leaves : d \in l.from .. l.to
      BY DEF Kind, OnLeave
    <3> QED
      BY <1>5, <3>1 DEF Worked, CountedOnce
  <2>4. ~(d \in P /\ d \in N)
    <3> SUFFICES ASSUME d \in P, d \in N
                 PROVE  FALSE
      OBVIOUS
    <3>1. PICK l \in leaves : l.paid = TRUE /\ d \in l.from .. l.to
      BY DEF Kind, OnLeave
    <3>2. PICK m \in leaves : m.paid = FALSE /\ d \in m.from .. m.to
      BY DEF Kind, OnLeave
    <3>3. l # m
      BY <3>1, <3>2
    <3> QED
      BY <3>1, <3>2, <3>3 DEF CountedOnce
  <2> HIDE DEF P, N
  <2> QED
    BY <2>1, <2>2, <2>3, <2>4
<1>7. /\ 2 * Cardinality(W) = SumOf(u, W) + SumOf(x, W) + 2 * Cardinality(P)
      /\ SumOf(u, W) >= 2 * Cardinality(N)
  <2>1. P \in SUBSET W /\ N \in SUBSET W
    BY DEF OnLeave
  <2> HIDE DEF P, N
  <2>2. 2 * Cardinality(W) = SumOf(u, W) + SumOf(x, W) + 2 * Cardinality(P)
    BY <1>1, <1>2, <1>5, <1>6, <2>1, ThreeParts
  <2>3. SumOf(u, W) >= 2 * Cardinality(N)
    BY <1>1, <1>2, <1>5, <1>6, <2>1, ThreeParts
  <2> QED
    BY <2>2, <2>3
<1> HIDE DEF P, N
<1> DEFINE w == Cardinality(W)
           p == LeaveDays(leaves, month, TRUE)
           n == LeaveDays(leaves, month, FALSE)
           a == ActualHalves(sheet, month)
           m == SumOf(u, W)
           y == SumOf(x, W)
           absent == Stats(sheet, 0, leaves, month).absent
<1>8. /\ w \in Nat /\ p \in Nat /\ n \in Nat /\ a \in Nat /\ m \in Int
      /\ y = a /\ 2 * w = m + y + 2 * p /\ m >= 2 * n
  BY <1>1, <1>2, <1>3, <1>4, <1>7
<1>9. absent = Greatest(0, 2 * (w - p - n) - a)
  BY <1>1 DEF Stats
<1>10. UnearnedHalves(sheet, leaves, month) = m
  BY <1>2
<1> HIDE DEF w, p, n, a, m, y, absent
<1>11. 2 * (w - p - n) - a = m - 2 * n /\ 0 <= m - 2 * n
  BY <1>8
<1>12. absent = m - 2 * n /\ absent \in Nat
  BY <1>8, <1>9, <1>11 DEF Greatest
<1>13. m = absent + 2 * n
  BY <1>8, <1>12
<1> QED
  BY <1>10, <1>12, <1>13 DEF absent, m, n

LEMMA AmountSum ==
  ASSUME NEW S, IsFiniteSet(S), NEW base
  PROVE  MapThenSumSet(LAMBDA c : Amount(base, c), S)
           = SumOf([c \in S |-> Amount(base, c)], S)
<1> PICK w : w = [c \in S |-> Amount(base, c)]
  OBVIOUS
<1> DEFINE Turns(f) == f = [T \in SUBSET S |-> IF T = {} THEN 0
                          ELSE Amount(base, First(T)) + f[T \ {First(T)}]]
<1>1. ASSUME NEW f
      PROVE  Turns(f) <=> Sums(w, S, f)
  <2>1. \A T \in SUBSET S : T # {} => w[First(T)] = Amount(base, First(T))
    BY FirstIn
  <2>2. [T \in SUBSET S |-> IF T = {} THEN 0 ELSE Amount(base, First(T)) + f[T \ {First(T)}]]
        = [T \in SUBSET S |-> IF T = {} THEN 0 ELSE w[First(T)] + f[T \ {First(T)}]]
    BY <2>1
  <2> QED
    BY <2>2 DEF Sums
<1>2. PICK f : Turns(f)
  <2>1. S \in SUBSET S
    OBVIOUS
  <2> HIDE DEF Turns
  <2> QED
    BY <1>1, <2>1, SumsThere
<1>3. Turns(CHOOSE k : Turns(k))
  <2> HIDE DEF Turns
  <2> QED
    BY <1>2
<1>4. MapThenSumSet(LAMBDA c : Amount(base, c), S) = (CHOOSE k : Turns(k))[S]
  BY DEF MapThenSumSet, MapThenFoldSet, First
<1> HIDE DEF Turns
<1> PICK g : g = CHOOSE k : Turns(k)
  OBVIOUS
<1>5. Sums(w, S, g)
  BY <1>1, <1>3
<1>6. g[S] = SumOf(w, S)
  BY <1>5, SumSame
<1> QED
  BY <1>4, <1>6

LEMMA TotalSum ==
  ASSUME NEW base, NEW comps, IsFiniteSet(comps), NEW type,
         NEW S, S = {c \in comps : c.type = type}
  PROVE  Total(base, comps, type) = SumOf([c \in S |-> Amount(base, c)], S)
<1>1. IsFiniteSet(S)
  BY FS_Subset
<1> QED
  BY <1>1, AmountSum DEF Total

LEMMA NoComponents ==
  ASSUME NEW base, NEW type
  PROVE  Total(base, {}, type) = 0
<1>e. PICK E : E = {}
  OBVIOUS
<1>1. IsFiniteSet(E)
  BY <1>e, FS_EmptySet
<1>2. PICK S : S = {c \in E : c.type = type}
  OBVIOUS
<1>3. Total(base, E, type) = SumOf([c \in S |-> Amount(base, c)], S)
  BY <1>1, <1>2, TotalSum
<1>4. S = {} /\ {} \in SUBSET {} /\ IsFiniteSet({})
  BY <1>e, <1>1, <1>2
<1> PICK w : w = [c \in S |-> Amount(base, c)]
  OBVIOUS
<1>5. SumOf(w, {}) = 0
  BY <1>4, SumTurn
<1> QED
  BY <1>e, <1>3, <1>4, <1>5

LEMMA ShareNear ==
  ASSUME NEW base \in Int, NEW part \in Int, NEW whole \in Nat
  PROVE  /\ Share(base, part, whole) \in Int
         /\ whole > 0 => /\ -whole <= 2 * (whole * Share(base, part, whole) - base * part)
                         /\ 2 * (whole * Share(base, part, whole) - base * part) <= whole
<1>1. base * part \in Int
  OBVIOUS
<1>2. CASE whole = 0
  BY <1>2 DEF Share
<1>3. CASE whole # 0
  <2>1. Share(base, part, whole) = Rounded(base * part, whole) /\ whole \in Nat \ {0}
    BY <1>3 DEF Share
  <2> PICK n : n = base * part /\ n \in Int
    BY <1>1
  <2>2. /\ Rounded(n, whole) \in Int
        /\ -whole <= 2 * (whole * Rounded(n, whole) - n)
        /\ 2 * (whole * Rounded(n, whole) - n) <= whole
    BY <2>1, RoundedNear
  <2> QED
    BY <2>1, <2>2
<1> QED
  BY <1>2, <1>3

\* In whole halves and cents the two lines are off by a cent each.
LEMMA OffByCents ==
  ASSUME NEW base \in Int, NEW w \in Nat \ {0}, NEW absent \in Nat, NEW n \in Nat,
         NEW A \in Int, -(2 * w) <= 2 * ((2 * w) * A - base * absent),
                        2 * ((2 * w) * A - base * absent) <= 2 * w,
         NEW N \in Int, -w <= 2 * (w * N - base * n), 2 * (w * N - base * n) <= w
  PROVE  LET off == 2 * w * (base - (A + N)) - base * (2 * w - (absent + 2 * n))
         IN  -2 * w <= off /\ off <= 2 * w
<1> DEFINE a == w * A
           b == w * N
           c == base * absent
           d == base * n
           e == base * w
           off == 2 * w * (base - (A + N)) - base * (2 * w - (absent + 2 * n))
<1>1. a \in Int /\ b \in Int /\ c \in Int /\ d \in Int /\ e \in Int
  OBVIOUS
<1>2. 2 * w * (base - (A + N)) = 2 * e - 2 * a - 2 * b
  OBVIOUS
<1>3. base * (2 * w - (absent + 2 * n)) = 2 * e - c - 2 * d
  OBVIOUS
<1>4. off = (c + 2 * d) - (2 * a + 2 * b)
  <2> HIDE DEF a, b, c, d, e
  <2> QED
    BY <1>1, <1>2, <1>3
<1>5. (2 * w) * A = 2 * a
  OBVIOUS
<1>6. -w <= 2 * a - c /\ 2 * a - c <= w /\ -w <= 2 * b - 2 * d /\ 2 * b - 2 * d <= w
  <2> HIDE DEF a
  <2> QED
    BY <1>1, <1>5
<1> HIDE DEF a, b, c, d, e
<1>7. -2 * w <= off /\ off <= 2 * w
  <2> HIDE DEF off
  <2> QED
    BY <1>1, <1>4, <1>6
<1> QED
  BY <1>7

\* The net without components.
LEMMA NetOfDays ==
  ASSUME NEW base \in Int, NEW s, s.overtime = 0, s.working \in Nat, s.absent \in Int, s.unpaid \in Int
  PROVE  Net(base, s, {}) = base - (Absence(base, s) + UnpaidLeave(base, s))
<1>1. Total(base, {}, "ADDITION") = 0 /\ Total(base, {}, "DEDUCTION") = 0
  BY NoComponents
<1>2. Absence(base, s) \in Int /\ UnpaidLeave(base, s) \in Int
  <2>1. 2 * s.working \in Nat
    OBVIOUS
  <2> QED
    BY <2>1, ShareNear DEF Absence, UnpaidLeave
<1>3. Overtime(base, s) = 0
  <2>1. (3 * base) * 0 = 0 /\ 2 * 60 * 8 * s.working \in Nat
    OBVIOUS
  <2> PICK d : d = 2 * 60 * 8 * s.working /\ d \in Nat
    BY <2>1
  <2>2. Overtime(base, s) = IF d = 0 THEN 0 ELSE Rounded(0, d)
    BY <2>1 DEF Overtime, Share
  <2>3. d # 0 => Rounded(0, d) = 0
    BY DEF Rounded
  <2> QED
    BY <2>2, <2>3
<1> QED
  BY <1>1, <1>2, <1>3 DEF Net, Additions, Deductions

\* The net of a month without components is the base less the days neither worked nor
\* on paid leave, to a cent for each of the two lines, whatever month, attendance and
\* leaves; and never are more days found absent than have no record and no leave
\* (gatherEmployeeMonthData, calculatePayslip).
THEOREM MonthsExplain ==
  ASSUME NEW base \in Int, NEW month \in Month, NEW sheet, DOMAIN sheet \subseteq Int,
         NEW leaves, IsFiniteSet(leaves), leaves \subseteq Leave
  PROVE  DaysExplained(base, sheet, leaves, month)
<1> DEFINE s == Stats(sheet, 0, leaves, month)
           halves == UnearnedHalves(sheet, leaves, month)
           off == 2 * s.working * Net(base, s, {}) - base * (2 * s.working - halves)
<1>1. /\ s.overtime = 0 /\ s.working = CountWeekdays(month.from, month.to)
      /\ s.unpaid = LeaveDays(leaves, month, FALSE)
  BY DEF Stats
<1>2. IsFiniteSet(Weekdays(month.from, month.to)) /\ s.working \in Nat
  BY <1>1, WeekdaysFinite
<1>3. s.unpaid \in Nat
  BY <1>1, <1>2, KindsCount
<1>4. ASSUME CountedOnce(sheet, leaves)
      PROVE  -2 * s.working <= off /\ off <= 2 * s.working
  <2>1. s.absent \in Nat /\ halves = s.absent + 2 * s.unpaid
    BY <1>1, <1>4, HalvesExact
  <2> HIDE DEF s
  <2>2. Net(base, s, {}) = base - (Absence(base, s) + UnpaidLeave(base, s))
    <3> HIDE DEF off, halves
    <3>1. s.overtime = 0 /\ s.working \in Nat
      BY <1>1, <1>2
    <3>2. s.absent \in Int
      BY <2>1
    <3>3. s.unpaid \in Int
      BY <1>3
    <3> QED
      BY <3>1, <3>2, <3>3, NetOfDays
  <2>3. CASE s.working = 0
    <3>1. halves = 0
      <4>1. Weekdays(month.from, month.to) = {}
        BY <1>1, <1>2, <2>3, FS_EmptySet DEF CountWeekdays
      <4>2. PICK W : W = Weekdays(month.from, month.to)
        OBVIOUS
      <4>3. PICK u : u = [d \in W |-> Unearned(d, sheet, leaves)]
        OBVIOUS
      <4>4. halves = SumOf(u, W) /\ IsFiniteSet(W)
        BY <1>2, <4>2, <4>3, UnearnedCount
      <4>5. W = {} /\ W \in SUBSET W
        BY <4>1, <4>2
      <4>6. SumOf(u, W) = 0
        BY <4>4, <4>5, SumTurn
      <4> QED
        BY <4>4, <4>6
    <3>2. Net(base, s, {}) = base
      <4>1. Absence(base, s) = 0 /\ UnpaidLeave(base, s) = 0
        BY <2>3 DEF Absence, UnpaidLeave, Share
      <4> QED
        BY <2>2, <4>1
    <3>3. 2 * 0 * base - base * (2 * 0 - 0) = 0
      OBVIOUS
    <3>4. off = 0
      BY <2>3, <3>1, <3>2, <3>3
    <3> QED
      BY <2>3, <3>4
  <2>4. CASE s.working # 0
    <3>1. /\ Absence(base, s) \in Int
          /\ -(2 * s.working) <= 2 * ((2 * s.working) * Absence(base, s) - base * s.absent)
          /\ 2 * ((2 * s.working) * Absence(base, s) - base * s.absent) <= 2 * s.working
      <4>1. 2 * s.working \in Nat /\ 2 * s.working > 0 /\ s.absent \in Int
        BY <1>2, <2>1, <2>4
      <4> QED
        BY <4>1, ShareNear DEF Absence
    <3>2. /\ UnpaidLeave(base, s) \in Int
          /\ -s.working <= 2 * (s.working * UnpaidLeave(base, s) - base * s.unpaid)
          /\ 2 * (s.working * UnpaidLeave(base, s) - base * s.unpaid) <= s.working
      <4>1. s.working > 0 /\ s.unpaid \in Int
        BY <1>2, <1>3, <2>4
      <4> QED
        BY <1>2, <4>1, ShareNear DEF UnpaidLeave
    <3> DEFINE w == s.working
               a == s.absent
               n == s.unpaid
               A == Absence(base, s)
               N == UnpaidLeave(base, s)
    <3>3. /\ w \in Nat \ {0} /\ a \in Nat /\ n \in Nat
          /\ A \in Int /\ -(2 * w) <= 2 * ((2 * w) * A - base * a)
          /\ 2 * ((2 * w) * A - base * a) <= 2 * w
          /\ N \in Int /\ -w <= 2 * (w * N - base * n) /\ 2 * (w * N - base * n) <= w
      BY <1>2, <1>3, <2>1, <2>4, <3>1, <3>2
    <3>4. off = 2 * w * (base - (A + N)) - base * (2 * w - (a + 2 * n))
      BY <2>1, <2>2
    <3> HIDE DEF w, a, n, A, N, off, halves
    <3>5. /\ -2 * w <= 2 * w * (base - (A + N)) - base * (2 * w - (a + 2 * n))
          /\ 2 * w * (base - (A + N)) - base * (2 * w - (a + 2 * n)) <= 2 * w
      BY <3>3, OffByCents
    <3>6. -2 * w <= off /\ off <= 2 * w
      BY <3>4, <3>5
    <3> QED
      BY <3>6 DEF w
  <2> QED
    BY <2>3, <2>4
<1>5. s.absent <= Missed(sheet, leaves, month)
  BY AbsenceBounded
<1> QED
  BY <1>4, <1>5 DEF DaysExplained

\* The assignments of c in force among the first i, and what was read last of them.
Own(c, list, date, i) == {j \in 1 .. i : list[j].comp = c.id /\ InForce(list[j], date)}
Newest(own) == CHOOSE i \in own : \A j \in own : j <= i
ReadBy(c, list, date, i) ==
  IF Own(c, list, date, i) = {} THEN [assigned |-> c.all, value |-> c.value]
  ELSE LET a == list[Newest(Own(c, list, date, i))] IN
       [assigned |-> TRUE, value |-> IF a.overrides THEN a.value ELSE c.value]

LEMMA ReadByTurn ==
  ASSUME NEW c, NEW list, NEW date, NEW i \in Nat
  PROVE  ReadBy(c, list, date, i) =
           IF i = 0 THEN [assigned |-> c.all, value |-> c.value]
           ELSE IF list[i].comp = c.id /\ InForce(list[i], date)
           THEN [assigned |-> TRUE, value |-> IF list[i].overrides THEN list[i].value ELSE c.value]
           ELSE ReadBy(c, list, date, i - 1)
<1>1. CASE i = 0
  <2>1. Own(c, list, date, i) = {}
    BY <1>1 DEF Own
  <2> QED
    BY <1>1, <2>1 DEF ReadBy
<1>2. CASE i # 0 /\ list[i].comp = c.id /\ InForce(list[i], date)
  <2>1. i \in Own(c, list, date, i) /\ \A j \in Own(c, list, date, i) : j \in Int /\ j <= i
    BY <1>2 DEF Own
  <2>2. Newest(Own(c, list, date, i)) = i
    BY <2>1 DEF Newest
  <2> QED
    BY <1>2, <2>1, <2>2 DEF ReadBy
<1>3. CASE i # 0 /\ ~(list[i].comp = c.id /\ InForce(list[i], date))
  <2>1. Own(c, list, date, i) = Own(c, list, date, i - 1)
    BY <1>3 DEF Own
  <2> QED
    BY <1>3, <2>1 DEF ReadBy
<1> QED
  BY <1>1, <1>2, <1>3

\* A property that is false somewhere is false at 0, or somewhere for the first time.
LEMMA FirstOf ==
  ASSUME NEW n \in Nat, NEW B \in SUBSET (0 .. n), B # {}
  PROVE  \E i \in B : i = 0 \/ i - 1 \notin B
<1> DEFINE U == {0 .. i : i \in B}
<1>1. PICK T \in U : \A V \in U : V \subseteq T => V = T
  <2>1. 0 \in Int /\ n \in Int
    OBVIOUS
  <2>2. IsFiniteSet(0 .. n)
    BY <2>1, FS_Interval
  <2>3. \A i \in B : 0 .. i \subseteq 0 .. n
    OBVIOUS
  <2>4. PICK A : A = 0 .. n
    OBVIOUS
  <2>5. U # {} /\ U \subseteq SUBSET A
    BY <2>3, <2>4
  <2>6. IsFiniteSet(A)
    BY <2>2, <2>4
  <2> HIDE DEF U
  <2> QED
    BY <2>5, <2>6, Smallest
<1>2. PICK i \in B : T = 0 .. i
  BY <1>1
<1>3. ASSUME i # 0, i - 1 \in B
      PROVE  FALSE
  <2>1. i \in Nat
    OBVIOUS
  <2>2. 0 .. (i - 1) \in U
    BY <1>3
  <2>3. 0 .. (i - 1) \subseteq 0 .. i /\ i \in 0 .. i /\ i \notin 0 .. (i - 1)
    BY <2>1
  <2> HIDE DEF U
  <2>4. 0 .. (i - 1) = T
    BY <1>1, <1>2, <2>2, <2>3
  <2> QED
    BY <1>2, <2>3, <2>4
<1> QED
  BY <1>3

\* What Due reads of the assignments.
LEMMA DueIs ==
  ASSUME NEW base, NEW c, NEW list \in Seq(Assignment), NEW date
  PROVE  Due(base, c, list, date) =
           LET last == ReadBy(c, list, date, Len(list))
               amount == Amount(base, [c EXCEPT !.value = last.value])
           IN  IF ~c.active \/ ~last.assigned THEN 0
               ELSE IF c.type = "ADDITION" THEN amount ELSE -amount
<1> DEFINE n == Len(list)
           Reads(f) == f = [i \in 0 .. n |->
             IF i = 0 THEN [assigned |-> c.all, value |-> c.value]
             ELSE IF list[i].comp = c.id /\ InForce(list[i], date)
             THEN [assigned |-> TRUE, value |-> IF list[i].overrides THEN list[i].value ELSE c.value]
             ELSE f[i - 1]]
           g == [i \in 0 .. n |-> ReadBy(c, list, date, i)]
<1>1. n \in Nat
  OBVIOUS
<1>2. Reads(g)
  <2>1. \A i \in 0 .. n : i # 0 => i - 1 \in 0 .. n
    BY <1>1
  <2>2. \A i \in 0 .. n : g[i] =
             IF i = 0 THEN [assigned |-> c.all, value |-> c.value]
             ELSE IF list[i].comp = c.id /\ InForce(list[i], date)
             THEN [assigned |-> TRUE, value |-> IF list[i].overrides THEN list[i].value ELSE c.value]
             ELSE g[i - 1]
    BY <1>1, <2>1, ReadByTurn
  <2> QED
    BY <2>2
<1>3. ASSUME NEW f, Reads(f)
      PROVE  f[n] = g[n]
  <2> DEFINE B == {i \in 0 .. n : f[i] # g[i]}
  <2>1. ASSUME B # {}
        PROVE  FALSE
    <3>1. PICK i \in B : i = 0 \/ i - 1 \notin B
      <4>1. B \in SUBSET (0 .. n)
        OBVIOUS
      <4> HIDE DEF B
      <4> QED
        BY <1>1, <2>1, <4>1, FirstOf
    <3>2. i \in 0 .. n /\ f[i] # g[i] /\ (i # 0 => f[i - 1] = g[i - 1])
      BY <1>1, <3>1
    <3> HIDE DEF g
    <3> QED
      BY <1>2, <1>3, <3>2
  <2> QED
    BY <1>1, <2>1
<1>4. Reads(CHOOSE f : Reads(f))
  <2> HIDE DEF Reads
  <2> QED
    BY <1>2
<1>5. (CHOOSE f : Reads(f))[n] = ReadBy(c, list, date, n)
  <2> HIDE DEF Reads
  <2>1. (CHOOSE f : Reads(f))[n] = g[n]
    BY <1>3, <1>4
  <2> QED
    BY <1>1, <2>1
<1> HIDE DEF g
<1>6. Due(base, c, list, date) =
        LET last == (CHOOSE f : Reads(f))[n]
            amount == Amount(base, [c EXCEPT !.value = last.value])
        IN  IF ~c.active \/ ~last.assigned THEN 0
            ELSE IF c.type = "ADDITION" THEN amount ELSE -amount
  BY DEF Due
<1> HIDE DEF Reads, n
<1> QED
  BY <1>5, <1>6 DEF n

\* What was read last is a value.
LEMMA ReadByType ==
  ASSUME NEW c \in Component, NEW list \in Seq(Assignment), NEW date
  PROVE  /\ ReadBy(c, list, date, Len(list)).assigned \in BOOLEAN
         /\ ReadBy(c, list, date, Len(list)).value \in Int
<1> DEFINE n == Len(list)
           Good(i) == /\ ReadBy(c, list, date, i).assigned \in BOOLEAN
                      /\ ReadBy(c, list, date, i).value \in Int
           B == {i \in 0 .. n : ~Good(i)}
<1>1. n \in Nat /\ c.all \in BOOLEAN /\ c.value \in Int
  BY DEF Component
<1>2. ASSUME B # {}
      PROVE  FALSE
  <2>1. PICK i \in B : i = 0 \/ i - 1 \notin B
    <3>1. B \in SUBSET (0 .. n)
      OBVIOUS
    <3> HIDE DEF B, n
    <3> QED
      BY <1>1, <1>2, <3>1, FirstOf
  <2>2. i \in 0 .. n /\ ~Good(i) /\ (i # 0 => i \in 1 .. n /\ Good(i - 1))
    <3> HIDE DEF Good
    <3> QED
      BY <1>1, <2>1
  <2>3. i # 0 => list[i].value \in Int
    <3>1. \A j \in 1 .. Len(list) : list[j] \in Assignment
      OBVIOUS
    <3>2. i # 0 => list[i] \in Assignment
      BY <2>2, <3>1
    <3> QED
      BY <3>2 DEF Assignment
  <2>4. ReadBy(c, list, date, i) =
           IF i = 0 THEN [assigned |-> c.all, value |-> c.value]
           ELSE IF list[i].comp = c.id /\ InForce(list[i], date)
           THEN [assigned |-> TRUE, value |-> IF list[i].overrides THEN list[i].value ELSE c.value]
           ELSE ReadBy(c, list, date, i - 1)
    BY <1>1, <2>2, ReadByTurn
  <2>5. CASE i # 0 /\ ~(list[i].comp = c.id /\ InForce(list[i], date))
    <3>1. ReadBy(c, list, date, i) = ReadBy(c, list, date, i - 1)
      BY <2>4, <2>5
    <3> QED
      BY <2>2, <2>5, <3>1
  <2>6. CASE i = 0
    <3>1. ReadBy(c, list, date, i) = [assigned |-> c.all, value |-> c.value]
      BY <2>4, <2>6
    <3> QED
      BY <1>1, <2>2, <3>1
  <2>7. CASE i # 0 /\ list[i].comp = c.id /\ InForce(list[i], date)
    <3>1. ReadBy(c, list, date, i) =
            [assigned |-> TRUE, value |-> IF list[i].overrides THEN list[i].value ELSE c.value]
      BY <2>4, <2>7
    <3>2. (IF list[i].overrides THEN list[i].value ELSE c.value) \in Int
      BY <1>1, <2>3, <2>7
    <3> QED
      BY <2>2, <3>1, <3>2
  <2> QED
    BY <2>5, <2>6, <2>7
<1>3. Good(n)
  <2> HIDE DEF Good
  <2> QED
    BY <1>1, <1>2
<1> QED
  BY <1>3

\* The code's map from component to assignment gives each component what a reader of
\* the list reads last.
LEMMA ResolvedIs ==
  ASSUME NEW components, components \subseteq Component,
         NEW list \in Seq(Assignment), NEW date
  PROVE  Resolved(components, list, date) =
           {[c EXCEPT !.value = ReadBy(c, list, date, Len(list)).value] :
              c \in {x \in components : x.active /\ ReadBy(x, list, date, Len(list)).assigned}}
<1> DEFINE act == {c \in components : c.active}
           S == Assigned(act, list, date)
           Last(c) == ReadBy(c, list, date, Len(list))
<1>1. ASSUME NEW c \in act
      PROVE  {i \in S : list[i].comp = c.id} = Own(c, list, date, Len(list))
  <2>1. DOMAIN list = 1 .. Len(list)
    OBVIOUS
  <2> QED
    BY <1>1, <2>1 DEF Assigned, Own
<1>2. ASSUME NEW c \in act
      PROVE  /\ Value(c, list, S) = Last(c).value
             /\ Last(c).assigned <=> c.all \/ \E i \in S : list[i].comp = c.id
  <2>1. c.all \in BOOLEAN
    BY DEF Component
  <2>2. PICK own : own = {i \in S : list[i].comp = c.id}
    OBVIOUS
  <2>3. own = Own(c, list, date, Len(list))
    BY <1>1, <2>2
  <2>4. Last(c) = IF own = {} THEN [assigned |-> c.all, value |-> c.value]
                  ELSE LET a == list[Newest(own)] IN
                       [assigned |-> TRUE, value |-> IF a.overrides THEN a.value ELSE c.value]
    BY <2>3 DEF ReadBy
  <2>5. Value(c, list, S) = IF own = {} THEN c.value
                            ELSE LET a == list[Newest(own)] IN
                                 IF a.overrides THEN a.value ELSE c.value
    BY <2>2 DEF Value, Newest
  <2>6. own # {} <=> \E i \in S : list[i].comp = c.id
    BY <2>2
  <2> HIDE DEF S, act, Last
  <2> QED
    BY <2>1, <2>4, <2>5, <2>6
<1>3. Resolved(components, list, date) =
        {[c EXCEPT !.value = Value(c, list, S)] :
           c \in {x \in act : x.all \/ \E i \in S : list[i].comp = x.id}}
  BY DEF Resolved
<1> HIDE DEF S
<1>4. {x \in act : x.all \/ \E i \in S : list[i].comp = x.id}
        = {x \in components : x.active /\ Last(x).assigned}
  <2> HIDE DEF Last
  <2> QED
    BY <1>2
<1>5. \A c \in {x \in components : x.active /\ Last(x).assigned} :
         [c EXCEPT !.value = Value(c, list, S)] = [c EXCEPT !.value = Last(c).value]
  BY <1>2
<1> HIDE DEF act, Last
<1>6. Resolved(components, list, date) =
        {[c EXCEPT !.value = Last(c).value] :
           c \in {x \in components : x.active /\ Last(x).assigned}}
  BY <1>3, <1>4, <1>5
<1> QED
  BY <1>6 DEF Last

LEMMA DueSum ==
  ASSUME NEW W, IsFiniteSet(W), NEW base, NEW list, NEW date,
         NEW w, \A c \in W : w[c] = Due(base, c, list, date)
  PROVE  DueFor(base, W, list, date) = SumOf(w, W)
<1> DEFINE Turns(f) == f = [T \in SUBSET W |-> IF T = {} THEN 0
                          ELSE Due(base, First(T), list, date) + f[T \ {First(T)}]]
<1>1. ASSUME NEW f
      PROVE  Turns(f) <=> Sums(w, W, f)
  <2>1. \A T \in SUBSET W : T # {} => w[First(T)] = Due(base, First(T), list, date)
    BY FirstIn
  <2>2. [T \in SUBSET W |-> IF T = {} THEN 0
           ELSE Due(base, First(T), list, date) + f[T \ {First(T)}]]
        = [T \in SUBSET W |-> IF T = {} THEN 0 ELSE w[First(T)] + f[T \ {First(T)}]]
    BY <2>1
  <2> QED
    BY <2>2 DEF Sums
<1>2. PICK f : Turns(f)
  <2>1. W \in SUBSET W
    OBVIOUS
  <2> HIDE DEF Turns
  <2> QED
    BY <1>1, <2>1, SumsThere
<1>3. Turns(CHOOSE k : Turns(k))
  <2> HIDE DEF Turns
  <2> QED
    BY <1>2
<1>4. DueFor(base, W, list, date) = (CHOOSE k : Turns(k))[W]
  BY DEF DueFor, MapThenSumSet, MapThenFoldSet, First
<1> HIDE DEF Turns
<1> PICK g : g = CHOOSE k : Turns(k)
  OBVIOUS
<1>5. Sums(w, W, g)
  BY <1>1, <1>3
<1>6. g[W] = SumOf(w, W)
  BY <1>5, SumSame
<1> QED
  BY <1>4, <1>6

LEMMA AmountInt ==
  ASSUME NEW base \in Int, NEW c, c.value \in Int
  PROVE  Amount(base, c) \in Int
<1>1. base * c.value \in Int
  OBVIOUS
<1> PICK n : n = base * c.value /\ n \in Int
  BY <1>1
<1>2. Rounded(n, 10000) \in Int
  BY DEF Rounded
<1> QED
  BY <1>2 DEF Amount

\* A component at another value.
With(c, x) == [c EXCEPT !.value = x]

Revalued(R, Q, val) ==
  /\ \A c \in Q : With(c, val[c]) \in R
  /\ \A r \in R : \E c \in Q : r = With(c, val[c])

LEMMA WithFields ==
  ASSUME NEW c \in Component, NEW x
  PROVE  With(c, x).id = c.id /\ With(c, x).type = c.type /\ With(c, x).value = x
BY DEF With, Component

\* The components of one type, added up over all the components there are.
LEMMA TotalIs ==
  ASSUME NEW base \in Int, NEW components, Catalogue(components),
         NEW val \in [components -> Int], NEW Q \in SUBSET components,
         NEW type, NEW R, Revalued(R, Q, val),
         NEW v \in [components -> Int],
         \A c \in components : v[c] = IF c \in Q /\ c.type = type
                                      THEN Amount(base, With(c, val[c])) ELSE 0
  PROVE  Total(base, R, type) = SumOf(v, components)
<1>1. PICK h : h = [c \in components |-> With(c, val[c])]
  OBVIOUS
<1>2. PICK P : P = {c \in Q : c.type = type}
  OBVIOUS
<1>3. P \in SUBSET components /\ IsFiniteSet(P) /\ IsFiniteSet(Q)
  <2>1. P \subseteq components
    BY <1>2
  <2> QED
    BY <2>1, FS_Subset DEF Catalogue
<1>4. \A c \in components : /\ h[c].id = c.id /\ h[c].type = c.type /\ h[c].value = val[c]
                            /\ h[c] = With(c, val[c])
  BY <1>1, WithFields DEF Catalogue
<1>5. \A c, d \in P : h[c] = h[d] => c = d
  <2> SUFFICES ASSUME NEW c \in P, NEW d \in P, h[c] = h[d]
               PROVE  c = d
    OBVIOUS
  <2>1. c \in components /\ d \in components
    BY <1>3
  <2>2. c.id = d.id
    BY <1>4, <2>1
  <2> QED
    BY <2>1, <2>2 DEF Catalogue
<1>6. PICK S : S = {r \in R : r.type = type}
  OBVIOUS
<1>7. Renames(h, Q, R)
  BY <1>4 DEF Revalued, Renames
<1>8. Renames(h, P, S)
  BY <1>2, <1>3, <1>4, <1>6, <1>7 DEF Renames
<1>9. IsFiniteSet(R)
  BY <1>3, <1>7, ImageFinite
<1>10. PICK w : w = [r \in S |-> Amount(base, r)]
  OBVIOUS
<1>11. Total(base, R, type) = SumOf(w, S)
  BY <1>6, <1>9, <1>10, TotalSum
<1>12. w \in [S -> Int] /\ \A c \in P : v[c] = w[h[c]]
  <2>1. \A c \in P : h[c] \in S /\ Amount(base, h[c]) \in Int
    BY <1>3, <1>4, <1>8, AmountInt DEF Renames
  <2>2. \A c \in P : v[c] = Amount(base, h[c])
    BY <1>2, <1>3, <1>4
  <2>3. \A r \in S : Amount(base, r) \in Int
    BY <1>8, <2>1 DEF Renames
  <2> QED
    BY <1>10, <2>1, <2>2, <2>3
<1>13. SumOf(w, S) = SumOf(v, P)
  BY <1>3, <1>5, <1>8, <1>12, SumImage
<1>14. SumOf(v, components) = SumOf(v, P)
  <2>1. \A c \in components \ P : v[c] = 0
    BY <1>2
  <2> QED
    BY <1>3, <2>1, SumPart DEF Catalogue
<1> QED
  BY <1>11, <1>13, <1>14

Figures == [working : Nat, actual : Int, paid : Int, unpaid : Int, absent : Int, overtime : Int]

LEMMA NetDiffers ==
  ASSUME NEW base \in Int, NEW s \in Figures, NEW R,
         Total(base, R, "ADDITION") \in Int, Total(base, R, "DEDUCTION") \in Int
  PROVE  Net(base, s, R) - Net(base, s, {})
           = Total(base, R, "ADDITION") - Total(base, R, "DEDUCTION")
<1>1. Total(base, {}, "ADDITION") = 0 /\ Total(base, {}, "DEDUCTION") = 0
  BY NoComponents
<1>0. s.working \in Nat /\ s.absent \in Int /\ s.unpaid \in Int /\ s.overtime \in Int
  BY DEF Figures
<1>2. Absence(base, s) \in Int /\ UnpaidLeave(base, s) \in Int
  <2>1. 2 * s.working \in Nat
    BY <1>0
  <2> QED
    BY <1>0, <2>1, ShareNear DEF Absence, UnpaidLeave
<1>3. Overtime(base, s) \in Int
  <2>1. 3 * base \in Int /\ 2 * 60 * 8 * s.working \in Nat
    BY <1>0
  <2> QED
    BY <1>0, <2>1, ShareNear DEF Overtime
<1> QED
  BY <1>1, <1>2, <1>3 DEF Net, Additions, Deductions

\* The components move the net by what each of them comes to when the assignments are
\* read one after another: the two maps of resolveComponents lose none and count none
\* twice, whatever the catalogue, the list and the date.
THEOREM ComponentsExplain ==
  ASSUME NEW base \in Int, NEW s \in Figures, NEW components, Catalogue(components),
         NEW list \in Seq(Assignment), NEW date
  PROVE  ComponentsExplained(base, s, components, list, date)
<1> DEFINE Last(c) == ReadBy(c, list, date, Len(list))
<1>0. components \subseteq Component /\ IsFiniteSet(components)
  BY DEF Catalogue
<1>1. \A c \in components : Last(c).assigned \in BOOLEAN /\ Last(c).value \in Int
  BY <1>0, ReadByType
<1>2. PICK val : val \in [components -> Int] /\ \A c \in components : val[c] = Last(c).value
  <2> DEFINE g == [c \in components |-> Last(c).value]
  <2>1. g \in [components -> Int] /\ \A c \in components : g[c] = Last(c).value
    <3> HIDE DEF Last
    <3> QED
      BY <1>1
  <2> HIDE DEF g
  <2> QED
    BY <2>1
<1>3. PICK Q : Q = {c \in components : c.active /\ Last(c).assigned}
  OBVIOUS
<1>4. PICK R : R = {With(c, val[c]) : c \in Q}
  OBVIOUS
<1>5. Resolved(components, list, date) = R
  <2>1. Resolved(components, list, date) =
          {With(c, Last(c).value) :
             c \in {x \in components : x.active /\ Last(x).assigned}}
    BY <1>0, ResolvedIs DEF With
  <2> HIDE DEF Last
  <2>2. {x \in components : x.active /\ Last(x).assigned} = Q
    BY <1>3
  <2>3. \A c \in Q : With(c, Last(c).value) = With(c, val[c])
    BY <1>2, <1>3
  <2> QED
    BY <1>4, <2>1, <2>2, <2>3
<1> DEFINE Amt(c) == Amount(base, With(c, val[c]))
<1>6. \A c \in components : Amt(c) \in Int
  <2> SUFFICES ASSUME NEW c \in components
               PROVE  Amt(c) \in Int
    OBVIOUS
  <2>1. With(c, val[c]).value \in Int
    BY <1>0, <1>2, WithFields
  <2> QED
    BY <2>1, AmountInt
<1>7. \A c \in components : Due(base, c, list, date) =
         IF c \notin Q THEN 0 ELSE IF c.type = "ADDITION" THEN Amt(c) ELSE -Amt(c)
  <2> SUFFICES ASSUME NEW c \in components
               PROVE  Due(base, c, list, date) =
                        IF c \notin Q THEN 0 ELSE IF c.type = "ADDITION" THEN Amt(c) ELSE -Amt(c)
    OBVIOUS
  <2>1. Due(base, c, list, date) =
          IF ~c.active \/ ~Last(c).assigned THEN 0
          ELSE IF c.type = "ADDITION" THEN Amount(base, With(c, Last(c).value))
          ELSE -Amount(base, With(c, Last(c).value))
    BY DueIs DEF With
  <2>2. Last(c).value = val[c]
    BY <1>2
  <2>3. c \in Q <=> c.active /\ Last(c).assigned
    BY <1>3
  <2> HIDE DEF Last
  <2> QED
    BY <2>1, <2>2, <2>3
<1> HIDE DEF Amt
<1>8. \A c \in components : c.type \in {"ADDITION", "DEDUCTION"}
  BY <1>0 DEF Component
<1>9. PICK due : /\ due \in [components -> Int]
                 /\ \A c \in components : due[c] = Due(base, c, list, date)
  <2>1. \A c \in components : Due(base, c, list, date) \in Int
    BY <1>6, <1>7
  <2> DEFINE g == [c \in components |-> Due(base, c, list, date)]
  <2>2. g \in [components -> Int] /\ \A c \in components : g[c] = Due(base, c, list, date)
    BY <2>1
  <2> HIDE DEF g
  <2> QED
    BY <2>2
<1>10. PICK add :
         /\ add \in [components -> Int]
         /\ \A c \in components : add[c] = IF c \in Q /\ c.type = "ADDITION" THEN Amt(c) ELSE 0
  <2> DEFINE g == [c \in components |-> IF c \in Q /\ c.type = "ADDITION" THEN Amt(c) ELSE 0]
  <2>1. /\ g \in [components -> Int]
        /\ \A c \in components : g[c] = IF c \in Q /\ c.type = "ADDITION" THEN Amt(c) ELSE 0
    BY <1>6
  <2> HIDE DEF g
  <2> QED
    BY <2>1
<1>11. PICK ded :
         /\ ded \in [components -> Int]
         /\ \A c \in components : ded[c] = IF c \in Q /\ c.type = "DEDUCTION" THEN Amt(c) ELSE 0
  <2> DEFINE g == [c \in components |-> IF c \in Q /\ c.type = "DEDUCTION" THEN Amt(c) ELSE 0]
  <2>1. /\ g \in [components -> Int]
        /\ \A c \in components : g[c] = IF c \in Q /\ c.type = "DEDUCTION" THEN Amt(c) ELSE 0
    BY <1>6
  <2> HIDE DEF g
  <2> QED
    BY <2>1
<1>12. Total(base, R, "ADDITION") = SumOf(add, components)
  <2>1. Revalued(R, Q, val)
    BY <1>4 DEF Revalued
  <2>2. \A c \in components : add[c] = IF c \in Q /\ c.type = "ADDITION"
                                       THEN Amount(base, With(c, val[c])) ELSE 0
    BY <1>10 DEF Amt
  <2>3. Q \in SUBSET components /\ val \in [components -> Int] /\ add \in [components -> Int]
    BY <1>2, <1>3, <1>10
  <2> QED
    BY <2>1, <2>2, <2>3, TotalIs
<1>13. Total(base, R, "DEDUCTION") = SumOf(ded, components)
  <2>1. Revalued(R, Q, val)
    BY <1>4 DEF Revalued
  <2>2. \A c \in components : ded[c] = IF c \in Q /\ c.type = "DEDUCTION"
                                       THEN Amount(base, With(c, val[c])) ELSE 0
    BY <1>11 DEF Amt
  <2>3. Q \in SUBSET components /\ val \in [components -> Int] /\ ded \in [components -> Int]
    BY <1>2, <1>3, <1>11
  <2> QED
    BY <2>1, <2>2, <2>3, TotalIs
<1>14. components \in SUBSET components
  OBVIOUS
<1>15. SumOf(add, components) = SumOf(due, components) + SumOf(ded, components)
  <2>1. ASSUME NEW c \in components
        PROVE  add[c] = due[c] + ded[c]
    <3>1. Amt(c) \in Int /\ c.type \in {"ADDITION", "DEDUCTION"}
      BY <1>6, <1>8
    <3>2. due[c] = IF c \notin Q THEN 0 ELSE IF c.type = "ADDITION" THEN Amt(c) ELSE -Amt(c)
      BY <1>7, <1>9
    <3>3. add[c] = IF c \in Q /\ c.type = "ADDITION" THEN Amt(c) ELSE 0
      BY <1>10
    <3>4. ded[c] = IF c \in Q /\ c.type = "DEDUCTION" THEN Amt(c) ELSE 0
      BY <1>11
    <3> QED
      BY <3>1, <3>2, <3>3, <3>4
  <2>2. \A c \in components : add[c] = due[c] + ded[c]
    BY <2>1
  <2>3. /\ due \in [components -> Int] /\ add \in [components -> Int]
        /\ ded \in [components -> Int]
    BY <1>9, <1>10, <1>11
  <2> QED
    BY <1>0, <2>2, <2>3, SumOfAll
<1>16. SumOf(add, components) \in Int /\ SumOf(ded, components) \in Int /\ SumOf(due, components) \in Int
  BY <1>0, <1>9, <1>10, <1>11, <1>14, SumType
<1>17. DueFor(base, components, list, date) = SumOf(due, components)
  BY <1>0, <1>9, DueSum
<1>18. Net(base, s, R) - Net(base, s, {}) = SumOf(due, components)
  <2>1. Net(base, s, R) - Net(base, s, {})
          = Total(base, R, "ADDITION") - Total(base, R, "DEDUCTION")
    BY <1>12, <1>13, <1>16, NetDiffers
  <2> QED
    BY <1>12, <1>13, <1>15, <1>16, <2>1
<1> QED
  BY <1>5, <1>17, <1>18 DEF ComponentsExplained

LEMMA FiguresType ==
  ASSUME NEW sheet, DOMAIN sheet \subseteq Int, NEW minutes \in Int,
         NEW leaves, IsFiniteSet(leaves), leaves \subseteq Leave, NEW month \in Month
  PROVE  Stats(sheet, minutes, leaves, month) \in Figures
<1>1. CountWeekdays(month.from, month.to) \in Nat
  BY WeekdaysFinite
<1>2. ActualHalves(sheet, month) \in Int
  <2>1. \A X : Recorded(sheet, month, X) \subseteq month.from .. month.to
    BY DEF Recorded, Month
  <2>2. month.from \in Int /\ month.to \in Int
    BY DEF Month
  <2>3. IsFiniteSet(month.from .. month.to)
    BY <2>2, FS_Interval
  <2>4. \A X : Cardinality(Recorded(sheet, month, X)) \in Nat
    BY <2>1, <2>3, FS_Subset, FS_CardinalityType
  <2> QED
    BY <2>4 DEF ActualHalves
<1>3. LeaveDays(leaves, month, TRUE) \in Nat /\ LeaveDays(leaves, month, FALSE) \in Nat
  <2>1. PICK W : W = Weekdays(month.from, month.to)
    OBVIOUS
  <2>2. IsFiniteSet(W)
    BY <2>1, WeekdaysFinite
  <2> QED
    BY <2>1, <2>2, KindsCount
<1> DEFINE n == CountWeekdays(month.from, month.to)
           h == ActualHalves(sheet, month)
           p == LeaveDays(leaves, month, TRUE)
           u == LeaveDays(leaves, month, FALSE)
<1>4. n \in Nat /\ h \in Int /\ p \in Nat /\ u \in Nat
  BY <1>1, <1>2, <1>3
<1>5. Stats(sheet, minutes, leaves, month) =
        [working |-> n, actual |-> h, paid |-> p, unpaid |-> u,
         absent |-> Greatest(0, 2 * (n - p - u) - h), overtime |-> minutes]
  BY DEF Stats
<1> HIDE DEF n, h, p, u
<1>6. Greatest(0, 2 * (n - p - u) - h) \in Int
  BY <1>4 DEF Greatest
<1> QED
  BY <1>4, <1>5, <1>6 DEF Figures

\* Every stored payslip pays what its days and components explain, for every salary,
\* month, attendance, set of leaves, catalogue of components and list of assignments.
THEOREM PayslipsExplained == Spec => []NetExplained
<1>1. MonthsExplained
  <2> SUFFICES ASSUME NEW base \in Salaries, NEW sheet \in Sheets, NEW leaves \in LeaveSets,
                      NEW month \in Months
               PROVE  DaysExplained(base, sheet, leaves, month)
    BY DEF MonthsExplained
  <2>1. /\ base \in Int /\ month \in Month /\ DOMAIN sheet \subseteq Int
        /\ IsFiniteSet(leaves) /\ leaves \subseteq Leave
    BY PayslipAssumption
  <2> QED
    BY <2>1, MonthsExplain
<1>2. ComponentsInForce
  <2> SUFFICES ASSUME NEW base \in Salaries, NEW month \in Months, NEW minutes \in Minutes,
                      NEW components \in Catalogues, NEW list \in Lists
               PROVE  ComponentsExplained(base, Stats(<<>>, minutes, {}, month), components,
                                          list, month.from)
    BY DEF ComponentsInForce
  <2>1. /\ base \in Int /\ month \in Month /\ minutes \in Int
        /\ Catalogue(components) /\ list \in Seq(Assignment)
    BY PayslipAssumption
  <2>2. Stats(<<>>, minutes, {}, month) \in Figures
    <3>1. DOMAIN <<>> \subseteq Int /\ IsFiniteSet({}) /\ {} \subseteq Leave
      BY FS_EmptySet
    <3> QED
      BY <2>1, <3>1, FiguresType
  <2> QED
    BY <2>1, <2>2, ComponentsExplain
<1>3. NetExplained
  BY <1>1, <1>2 DEF NetExplained
<1> QED
  BY <1>3, PTL
==============================================================================
