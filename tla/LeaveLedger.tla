----------------------------- MODULE LeaveLedger -----------------------------
(***************************************************************************)
(* The leave balance of one employee for one leave type and year, and the  *)
(* leave requests drawn on it: backend/src/services/leave.service.js.      *)
(*                                                                         *)
(* No handler uses a transaction: each is a sequence of statements, and    *)
(* other handlers, or the end of the process, may come between any two.    *)
(* The balance is moved by SQL increments, the request's status by an      *)
(* unconditional UPDATE of the row that was read and checked before.       *)
(*                                                                         *)
(* The names say Leave, so that proofs can look at this module beside      *)
(* PayrollRuns.                                                            *)
(***************************************************************************)
EXTENDS Integers, FiniteSets, FiniteSetsExt

CONSTANTS
  Leaves,       \* leave requests the employee may submit
  Days,         \* [Leaves -> days each one takes]
  Actors,       \* review and cancel requests handled at once
  Limits,       \* values HR gives max_days_per_year; 0 = no balance is kept
  Totals,       \* total_days HR may enter with POST /leaves/balances
  MaxEdits,     \* bound: balances HR enters and types it changes
  MaxDeaths     \* bound: handlers that die half way

ASSUME LeaveAssumption ==
  /\ IsFiniteSet(Leaves) /\ Days \in [Leaves -> Nat \ {0}]
  /\ Limits \subseteq Nat /\ Totals \subseteq Nat
  /\ MaxEdits \in Nat /\ MaxDeaths \in Nat

VARIABLES
  balance,   \* leave_balances row: exists, total, used, pend
  lost,      \* history: the increments that found no row, by column
  status,    \* leave_requests.status; "none" = no row
  stage,     \* where the POST that submits each leave stands
  limit,     \* the max_days_per_year that POST has read
  op,        \* what each actor is doing
  active,    \* leave_types.is_active
  entitlement,  \* leave_types.max_days_per_year
  counted,   \* deactivateType has found no PENDING request
  edits, deaths,
  clean,     \* history: no handler died, HR entered no balance, and no decision
             \* was taken on a status another decision was about to write
  serial     \* history: every leave was checked against the balance, and none
             \* while another was being submitted

typeVars == <<active, entitlement, counted>>
leaveVars == <<balance, lost, status, stage, limit, op, typeVars, edits, deaths, clean, serial>>

LeaveStatuses == {"none", "PENDING", "APPROVED", "REJECTED", "CANCELLED"}
Idle == [step |-> "idle"]
Decision == [step : {"write", "used", "pending"}, leave : Leaves,
             to : {"APPROVED", "REJECTED", "CANCELLED"}, was : {"PENDING", "APPROVED"}]

LeaveTypeOK ==
  /\ balance \in [exists : BOOLEAN, total : Nat, used : Int, pend : Int]
  /\ status \in [Leaves -> LeaveStatuses]
  /\ lost \in [used : Int, pend : Int]
  /\ stage \in [Leaves -> {"new", "found", "checked", "stored", "done", "refused"}]
  /\ limit \in [Leaves -> Nat] /\ entitlement \in Nat
  /\ op \in [Actors -> Decision \cup {Idle}]
  /\ active \in BOOLEAN /\ counted \in BOOLEAN /\ clean \in BOOLEAN /\ serial \in BOOLEAN
  /\ edits \in 0 .. MaxEdits /\ deaths \in 0 .. MaxDeaths

NewBalance(total) == [exists |-> TRUE, total |-> total, used |-> 0, pend |-> 0]

LeaveInit ==
  /\ balance = [NewBalance(0) EXCEPT !.exists = FALSE]
  /\ status = [l \in Leaves |-> "none"]
  /\ lost = [used |-> 0, pend |-> 0]
  /\ stage = [l \in Leaves |-> "new"] /\ limit = [l \in Leaves |-> 0]
  /\ op = [a \in Actors |-> Idle]
  /\ active = TRUE /\ counted = FALSE /\ entitlement \in Limits
  /\ edits = 0 /\ deaths = 0 /\ clean = TRUE /\ serial = TRUE

\* LeaveBalance.increment WHERE the row's key: no row, no effect.
AddPending(n) ==
  IF balance.exists THEN balance' = [balance EXCEPT !.pend = @ + n] /\ UNCHANGED lost
                    ELSE lost' = [lost EXCEPT !.pend = @ + n] /\ UNCHANGED balance
AddUsed(n) ==
  IF balance.exists THEN balance' = [balance EXCEPT !.used = @ + n] /\ UNCHANGED lost
                    ELSE lost' = [lost EXCEPT !.used = @ + n] /\ UNCHANGED balance

-----------------------------------------------------------------------------
(* createRequest.                                                          *)

\* Mutant: only the days already used count against the total.
EnoughWithoutPending(b, l) == b.total - b.used >= Days[l]

\* remaining < total_days is refused.
Enough(b, l) == b.total - b.used - b.pend >= Days[l]

\* The type is read once, active and with its limit, and may change from then on.
FindType(l) ==
  /\ stage[l] = "new" /\ active
  /\ stage' = [stage EXCEPT ![l] = "found"]
  /\ limit' = [limit EXCEPT ![l] = entitlement]
  /\ UNCHANGED <<balance, lost, status, op, typeVars, edits, deaths, clean, serial>>

CheckBalance(l) ==
  /\ stage[l] = "found"
  /\ LET b == IF limit[l] > 0 /\ ~balance.exists THEN NewBalance(limit[l]) ELSE balance
     IN  /\ balance' = b
         /\ stage' = [stage EXCEPT ![l] =
                        IF limit[l] = 0 \/ Enough(b, l) THEN "checked" ELSE "refused"]
  /\ serial' = (/\ serial /\ limit[l] > 0
                /\ \A k \in Leaves : stage[k] \notin {"checked", "stored"})
  /\ UNCHANGED <<lost, status, limit, op, typeVars, edits, deaths, clean>>

StoreRequest(l) ==
  /\ stage[l] = "checked"
  /\ stage' = [stage EXCEPT ![l] = "stored"]
  /\ status' = [status EXCEPT ![l] = "PENDING"]
  /\ UNCHANGED <<balance, lost, limit, op, typeVars, edits, deaths, clean, serial>>

CountPending(l) ==
  /\ stage[l] = "stored"
  /\ stage' = [stage EXCEPT ![l] = "done"]
  /\ AddPending(Days[l])
  /\ UNCHANGED <<status, limit, op, typeVars, edits, deaths, clean, serial>>

-----------------------------------------------------------------------------
(* reviewRequest and cancelRequest.                                        *)

Undecided(l) == \A a \in Actors : op[a] # Idle /\ op[a].leave = l => op[a].step # "write"

\* From which statuses a decision may start.
From(to) == IF to = "CANCELLED" THEN {"PENDING", "APPROVED"} ELSE {"PENDING"}

DecideLeave(a, l, to) ==
  /\ op[a] = Idle
  /\ status[l] \in From(to)
  /\ op' = [op EXCEPT ![a] = [step |-> "write", leave |-> l, to |-> to, was |-> status[l]]]
  /\ clean' = (clean /\ Undecided(l))
  /\ UNCHANGED <<balance, lost, status, stage, limit, typeVars, edits, deaths, serial>>

WriteDecision(a) ==
  /\ op[a].step = "write"
  /\ status' = [status EXCEPT ![op[a].leave] = op[a].to]
  /\ op' = [op EXCEPT ![a].step =
              IF op[a].to = "APPROVED" \/ op[a].was = "APPROVED" THEN "used" ELSE "pending"]
  /\ UNCHANGED <<balance, lost, stage, limit, typeVars, edits, deaths, clean, serial>>

\* Mutant: an approval leaves the days pending as well.
MoveUsedOnly(a) ==
  LET d == op[a] IN
  /\ d.step = "used"
  /\ AddUsed(IF d.to = "APPROVED" THEN Days[d.leave] ELSE -Days[d.leave])
  /\ op' = [op EXCEPT ![a] = Idle]
  /\ UNCHANGED <<status, stage, limit, typeVars, edits, deaths, clean, serial>>

\* An approval adds to used_days and goes on to pending_days; the
\* cancellation of an approved leave gives its used days back.
MoveUsed(a) ==
  LET d == op[a] IN
  /\ d.step = "used"
  /\ AddUsed(IF d.to = "APPROVED" THEN Days[d.leave] ELSE -Days[d.leave])
  /\ op' = [op EXCEPT ![a] = IF d.to = "APPROVED" THEN [d EXCEPT !.step = "pending"] ELSE Idle]
  /\ UNCHANGED <<status, stage, limit, typeVars, edits, deaths, clean, serial>>

MovePending(a) ==
  /\ op[a].step = "pending"
  /\ AddPending(-Days[op[a].leave])
  /\ op' = [op EXCEPT ![a] = Idle]
  /\ UNCHANGED <<status, stage, limit, typeVars, edits, deaths, clean, serial>>

-----------------------------------------------------------------------------
(* setBalance, updateType, deactivateType, and processes that die.         *)

\* HR enters the figures; used and pending days left out mean 0.
SetBalance(total, used, pend) ==
  /\ edits < MaxEdits /\ total >= used + pend
  /\ balance' = [exists |-> TRUE, total |-> total, used |-> used, pend |-> pend]
  /\ edits' = edits + 1 /\ clean' = FALSE
  /\ UNCHANGED <<lost, status, stage, limit, op, typeVars, deaths, serial>>

CountForDeactivate ==
  /\ active /\ ~counted
  /\ \A l \in Leaves : status[l] # "PENDING"
  /\ counted' = TRUE
  /\ UNCHANGED <<balance, lost, status, stage, limit, op, active, entitlement, edits, deaths,
                 clean, serial>>

DeactivateType ==
  /\ counted
  /\ counted' = FALSE /\ active' = FALSE
  /\ UNCHANGED <<balance, lost, status, stage, limit, op, entitlement, edits, deaths, clean,
                 serial>>

\* updateType writes what it is given: also an end to the type that counts no pending
\* request, and a new limit for a type that had none.
UpdateType(on, n) ==
  /\ edits < MaxEdits /\ edits' = edits + 1
  /\ active' = on /\ entitlement' = n
  /\ UNCHANGED <<balance, lost, status, stage, limit, op, counted, deaths, clean, serial>>

Die ==
  /\ deaths < MaxDeaths /\ deaths' = deaths + 1 /\ clean' = FALSE
  /\ UNCHANGED <<balance, lost, status, limit, typeVars, edits, serial>>
  /\ \/ /\ \E a \in Actors : op[a] # Idle /\ op' = [op EXCEPT ![a] = Idle]
        /\ UNCHANGED stage
     \/ /\ \E l \in Leaves : /\ stage[l] \in {"checked", "stored"}
                             /\ stage' = [stage EXCEPT ![l] = "done"]
        /\ UNCHANGED op

-----------------------------------------------------------------------------
LeaveNext ==
  \/ \E l \in Leaves : FindType(l) \/ CheckBalance(l) \/ StoreRequest(l) \/ CountPending(l)
  \/ \E a \in Actors, l \in Leaves, to \in {"APPROVED", "REJECTED", "CANCELLED"} :
       DecideLeave(a, l, to)
  \/ \E a \in Actors : WriteDecision(a) \/ MoveUsed(a) \/ MovePending(a)
  \/ \E t \in Totals, u \in {0} \cup {balance.used}, p \in {0} \cup {balance.pend} :
       SetBalance(t, u, p)
  \/ CountForDeactivate \/ DeactivateType
  \/ \E on \in BOOLEAN, n \in Limits : UpdateType(on, n)
  \/ Die

LeaveSpec == LeaveInit /\ [][LeaveNext]_leaveVars

-----------------------------------------------------------------------------
(* Properties.                                                             *)

DaysOf(ls) == MapThenSumSet(LAMBDA l : Days[l], ls)
DaysIn(st) == DaysOf({l \in Leaves : status[l] = st})

\* No handler is half way.
Settled == /\ \A a \in Actors : op[a] = Idle
           /\ \A l \in Leaves : stage[l] # "stored"

\* Between requests the balance says what the leave requests say: used_days
\* are the approved days and pending_days the pending ones, although reviews,
\* cancellations and submissions of different leaves interleave statement by
\* statement (leave.service.js:180-232) and HR changes the type's limit.  What
\* a row made after the first leaves does not know is exactly what their
\* increments, without a row to find, have lost.  Two decisions that read the
\* same status, a handler that dies and a balance HR enters are what breaks it.
BooksBalance ==
  clean /\ Settled => /\ balance.used + lost.used = DaysIn("APPROVED")
                      /\ balance.pend + lost.pend = DaysIn("PENDING")

\* "Check balance has enough remaining days for this year"
\* (leave.service.js:159): approved and pending days never exceed the total ...
WithinTotal ==
  clean /\ Settled /\ balance.exists => balance.used + balance.pend <= balance.total

\* ... as long as the employee submits one leave after the other and the type
\* never is without a limit, however reviews and cancellations come in between.
WithinTotalInTurn == serial => WithinTotal
=============================================================================
