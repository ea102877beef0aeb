# Formal models of the HR and attendance system

The repository is a multi-tenant HR system: a Node/Express API over Sequelize (`src/backend`),
a React front end (`src/frontend`), a small agent that runs in a customer's office next to
the fingerprint terminals (`src/local-agent`) and an optional bridge that polls them
(`src/backend/zk-lan-bridge`). This directory holds TLA+ models of the parts in which requests, pages,
agents, terminals and database statements interleave, the TLC configurations that check them on
small instances, and proofs that TLAPS checks for every value of the constants.

    tlc -workers 2 -config AgentJobQueue_safe.cfg MCAgentJobQueue     # one run
    tlapm AgentJobQueue_proofs.tla                                    # one proof module

Paths below are relative to `src/backend/src/` unless they start with `local-agent`,
`zk-lan-bridge` or `frontend`.

## 1. Inventory

### The shape of the system

Everything in the backend runs in Node processes that handle many requests at once: control
passes to another request at every `await`. Almost no handler uses a transaction; the database
contributes unique indexes, single-statement atomicity and, in payroll, account creation and
company deletion, a transaction. In production the backend is serverless, so there are several
processes and a process can end between any two statements. The office agent polls the API over
HTTP, keeps what it could not deliver in a file, and is restarted by a Windows service. A page of
the front end is a client with state of its own: its handlers await calls while the user goes on
clicking, and several pages of one browser share a cookie and a `localStorage`.

    pages --HTTP--> API --rows--> database
      |              |  ^
      |  agent_jobs  |  | poll / job-result (HTTP, may be lost, repeated, late)
      |              v  |
      |        office agent --HTTP on localhost--> agent server --TCP or UDP--> terminal
      |              |                                                          ^     ^
      |      pending-job-results.json (retry file)       API server, directly --+     |
      +-- (a page may call the agent's server itself)    zk-lan-bridge, polling ------+

    punches --pushLogs--> device_logs --processEmployeeDate--> attendance --> payroll
                                                     ^                          ^
                              HR, self check-in, approved requests      approved leaves

### Components

| component | code | state it keeps | operations that change it | what is hard | what makes it correct |
|---|---|---|---|---|---|
| agent job queue | `services/agentJob.service.js`, `controllers/agentJob.controller.js` | `agent_jobs` rows or `agent-jobs.json` | create, claim, complete, wait | late and overlapping polls, repeated results, crash inside a file write | a job is handed out once; a reported status is true and final |
| relay callers | `services/agentJobRelay.service.js` | a waiting HTTP request | enqueue and wait | the deadline races the result | a caller told "success" was told the truth |
| office agent | `local-agent/polling-agent.js` | loop position, batch, result being sent, retry file | flush, poll, execute, send, queue offline | timeouts of posts that did arrive, crash between act and report | nothing runs twice; results are not lost while the agent lives |
| agent server | `local-agent/server.js` | none | sessions with a terminal | two callers at once | (see terminal sessions) |
| terminal sessions | `services/zktecoSocket.service.js`, `services/device.service.js`, `zk-lan-bridge` | the terminal's lock and user rows, the bridge's snapshot | read, list, change a user, unlock, poll | the screen is locked while it is read; lost commands, dead processes; what UDP leaves out | the screen does not stay locked; a change of role invents no PIN or card |
| device log ingestion | `services/device.service.js`, `services/device-proxy.service.js` | `device_logs`, device mode | push, import, mark duplicate, re-resolve, mark for reprocess | overlapping pushes, an employee created meanwhile, directions that are guessed | a punch is stored once and attributed to its owner |
| attendance processor | `services/attendance_processor.service.js` | `attendance`, `processed` flags | process a day, in bulk, reprocess | read-compute-write beside HR and other runs | processed punches have counted; HR's records are kept |
| attendance and requests | `services/attendance.service.js`, `services/attendance_request.service.js` | `attendance`, `attendance_requests` with photos | HR create/update/remove, self check-in/out, submit, review, purge | find-or-create followed by a check; two reviewers; the attendance processor writes the same row | an approved request is in the record; photos go |
| work shifts | end of `attendance_processor.service.js` | `work_shifts.is_default`, `is_active` | create, update, deactivate, set default | two-statement switch | one active default shift per company |
| leave | `services/leave.service.js` | `leave_types`, `leave_balances`, `leave_requests` | submit, review, cancel, set balance, update/deactivate a type | increments and status are separate statements | the balance says what the requests say |
| payroll | `services/payroll.service.js`, `services/payroll_engine.service.js` | `payroll_runs`, `payroll_items` and their lines | create, process, approve, pay, cancel, delete | long transaction beside status changes; reads that need a second connection | a run's payslips are one complete computation, and each pays what the month explains |
| sessions | `services/auth.service.js`, `middleware/auth.middleware.js`, `frontend/src/api/axios.js` | one refresh token per user, a cookie and an access token per browser | login, refresh, logout, reset, edit of an account | a refresh races refreshes, logouts and resets | an ended session stays ended; nobody honest is taken for a thief |
| company life cycle | `routes/company.routes.js`, `services/company-status.service.js`, `company-feature.service.js` | `companies`, `company_features` | status, contract, expiry, features, delete | several statements without a transaction | a token carries the features that were chosen |
| employees and users | `services/employee.service.js`, `user.service.js` | `employees`, `users` | create, renumber, dismiss, import, link, delete | check then write; numbers of dismissed employees | one account per employee; an imported employee can log in |
| departments | `services/department.service.js` | parent tree | create, update, remove | cycles | the parents form a tree |
| onboarding | `services/setup.service.js` | last step of the company | hours, device, import, complete | a step written from what was loaded earlier | the saved step was reached |
| surprise attendance | `services/surprise_attendance.service.js` | events | activate, expire, cancel | expiry happens on read only | at most one event counts |
| agent activation, heartbeat | `services/agentActivation.service.js`, `agentHeartbeat.service.js` | a code, a timestamp | redeem, touch | nothing concurrent | - |
| announcements, push | `services/announcement.service.js`, `push_notification.service.js` | rows, subscriptions | create, send | best-effort I/O | - |
| terminal page | `frontend/src/pages/devices/SyncCenter.jsx` | dialog, list, ticks, busy flags | list, tick, change privileges, unlock, import, pull, process | answers that arrive after the dialog has moved to another terminal | a command names people of its terminal |
| other pages, reports, role checks | `frontend/src`, `controllers/report.controller.js`, `middleware/` | none to speak of | - | - | - |
| database setup | `config/db.js` | the pool | connect | pool size forced to 1 | enough connections for one request |

`PROJECT.json` has the same list with the status of each part, and the hazards: the lines at
which one of the hard behaviours bites.

## 2. Modules

| module | models | composed from |
|---|---|---|
| `AgentJobs` | the abstract relay: what a caller is promised | - |
| `AgentJobQueue` | queue, relay callers, network, office agent | implements `AgentJobs` (`Relay == INSTANCE`) |
| `PunchRules` | the pure rules of the attendance processor | - |
| `PunchDay` | one employee-day, recomputed as punches arrive | extends `PunchRules` |
| `DeviceLogs` | ingestion, processing and HR edits interleaved | extends `PunchRules` |
| `DaySheet` | the abstract attendance record: each time is entered once | - |
| `AttendanceRequests` | self check-in and check-out, requests, photos, reviews, the processor on the same record | implements `DaySheet` (`Sheet == INSTANCE`) |
| `Payslip` | what one payslip says, as operators, with a reference definition | - |
| `PayrollRuns` | the payroll engine's transaction, run life cycle, pool | - |
| `Payroll` | runs with their payslips; months, catalogues and lists of assignments as parameters | extends `PayrollRuns`, `Payslip` |
| `LeaveLedger` | leave requests, balance and the limit of the type, statement by statement | - |
| `CompanyAccess` | tokens, cookies, contract, status and features | - |
| `Handlers` | requests handled at once, that may die half way | - |
| `WorkShifts` | shifts and the choice of the default | extends `Handlers` |
| `Onboarding` | the setup wizard beside the shift and device pages | extends `WorkShifts` |
| `Directory` | employees, their numbers, accounts, the import of a person | extends `Handlers` |
| `DeviceLink` | sessions with a terminal over every route, and what an import stores | extends `Handlers` |
| `SyncCenter` | the page that works with terminals | - |
| `AgentJobQueue_proofs` | theorems about the queue and about the page whose calls it relays | `AgentJobQueue`, `SyncCenter` |
| `DeviceLogs_proofs` | theorems about ingestion and processing, and about one day | `DeviceLogs`, `PunchDay` |
| `PayrollRuns_proofs` | theorems about payroll runs, their payslips, and the leave balance | `Payroll`, `LeaveLedger` |
| `AttendanceRequests_proofs`, `CompanyAccess_proofs`, `Onboarding_proofs`, `Directory_proofs`, `DeviceLink_proofs` | theorems | the module of the name |
| `MC...` | model values, instances and symmetry for TLC | extends the module it is named after; `MCPayrollRuns` extends `Payroll` |

Where a proof module is about two components, it extends both, so that the lemmas both need are
stated once; the second one (`PunchDay`, `LeaveLedger`, `SyncCenter`) has names of its own for
what the first calls `Init`, `Next`, `Spec` and `TypeOK` (`DayInit`, `LeaveInit`, `PageInit`, ...).

Definitions called "Mutant" in a comment are plausible bugs of the definition that follows
them. Nothing uses them; they are what each property was tried against (`mutants` in
`PROJECT.json`), to see that the property can fail.

History variables record that something happened which the code does not guard against, so
that a property can say what holds until then. Section 3 names for each what it excludes; the
exclusions are as much a result as the properties, and section 6 says what each of them lets
through. No guard reads them.

## 3. How the models correspond to the code

### AgentJobs and AgentJobQueue

One action per handler of the server up to its next `await` whose order matters, and one per
step of the agent's loop: `FlushStart`, `FlushPost`, `FlushAcked`/`FlushFailed`, `FlushSave`
are `flushPendingResultsOnce`; `PollSend`, `PollReceived`/`PollFailed` are `fetchJobsOnce`;
`Execute`, `SendResult`, `ResultSent`/`SendAgain`/`QueueOffline` are `handleJob` and
`sendResult`. On the server `CreateJob`, `PollJobs`, `SubmitResult`, `FinishIngest` and
`WaiterStep` are `createJob`, `pollJobs` with `claimPendingJobs`, the two halves of
`submitResult`, and one read of `waitForJobTerminal`.

The network is `request` (one slot per result post under way) and `poll`/`reply`. When the
agent hangs up (`HangUp`, `AbandonPoll`) a request that had not arrived may be lost or arrive
later: a late poll still claims rows (`PollJobsLate`), a late post still overwrites the row.
`ServerCrash` and `AgentCrash` lose what is in memory; a crash inside a rewrite of a JSON file
leaves a file the code reads as empty. A write of a JSON file that fails is only logged by both
sides (`services/agentJob.service.js:50-56`, `local-agent/polling-agent.js:93-97`): the caller goes on
as if the job had been created, claimed or completed (`StoreUnwritten`), the agent as if its results
were in the retry file (`SaveRows`), and the file is as it was or cut off. So is an attendance import
that throws (`FinishIngest`; `agentJob.controller.js:459-462` answers success). Every such event is a
fault, at most `MaxFaults`; `swallowed` keeps, for each job, which of the calls failed unnoticed, and
the properties except the job for exactly those calls.

Abstracted: payloads (a result is its job and status), sleep times, the order in which pending
rows beyond `Limit` are taken, heartbeats and the auto-enqueue of configured jobs.

`Relay` maps the table to the abstract relay: `status` is the phase (pending = queued,
in_progress = handed), `outcome` the device, `waiter` the answer; a claim that went unmarked is the
relay's `Slip`. A repeated post, a flush, a
crash of the agent and the loss of a message are stutters there.

### PunchRules and PunchDay

`dedupeRapidPunches`, `isWithinWindow`, `resolveAttendancePunches` and `computeMetrics` as
operators on a sequence of punches, with times in minutes. `PunchDay` recomputes one
employee-day from all its punches each time one arrives in clock order. Repeats are dropped from
the list of punches; which punch gives the check-in and which the check-out is then a question of
the set of the ones kept, since it is their earliest and latest time on either side.

### DeviceLogs

`rows` are the `device_logs` of one device and work date under their unique index, `day` the
attendance record of each employee, `req` the requests under way. A push takes what it reads
first (device mode, surprise event, known employees) in `StartPush`, then inserts or finds
each row (`Ingest`) and marks a found one (`MarkDuplicate`). `processEmployeeDate` is
`ReadRecord`, `ReadLogs`, `WriteRecord`, `MarkProcessed`: its four awaits. `WriteRecord`
writes, as Sequelize does, the columns that differ from the instance that was read.
`Die` ends a request at any of them. HR's `create`, `update` and `remove` and the
administrative switches are one action each. The query of `ReadLogs` returns rows by time, and
of equal times in any order (`InOrder`). `NoRecord` is a date without an attendance row, `Gone` a
row that a request has read and HR has deleted since. A punch that another one precedes within a
minute may be dropped as a repeat, so `ProcessedCounts` speaks of the punches that stand `Apart`.

The import and the processor do not mean the same by a day: the import lists days in the company's
time zone (`Keyed`; `services/device-proxy.service.js:124-126`), at most the last 21, and processing
selects `DATE(event_time)` (`OnDay`; `attendance_processor.service.js:438`). The two sets are constants
with no relation assumed. An import may process the work date when one of its punches is keyed to it, or may not (`auto`:
the date was cut, or `auto_process` is off), and what it then forwards are the punches on the day as
the database has it. Its answer has only `bulk.summary`, so `Forwarded` compares numbers of employees.
It says nothing of a punch whose date the import did not list: that is left silently.

### PayrollRuns

One action per statement of `runPayrollEngine`. A transaction sees committed rows (READ
COMMITTED); its deletes and inserts become visible with `Commit`; `Waits` is the row lock of
a delete and the key lock of the unique index `(company_id, payroll_run_id, employee_id)`.
`Connected` says a statement outside the transaction finds a free connection; when it does
not, the pool's acquire timeout throws (`Throws`), which rolls back and resets the run to DRAFT.
A cycle of waits is broken by the database: a transaction of the cycle is rolled back.
`updateRunStatus` and `deleteRun` check (`Decide`) and write (`UpdateStatus`, `Destroy`) in two
steps; one inserted payslip locks the run's row against deletion by its foreign key.
What a payslip says is abstracted here to the request that computed it, which is what
`OneSnapshot` compares. The integer column `total_employees` is not modelled apart from the money totals.

### LeaveLedger

`createRequest` is `FindType`, `CheckBalance`, `StoreRequest`, `CountPending`; `reviewRequest` and
`cancelRequest` are `DecideLeave`, `WriteDecision`, `MoveUsed`, `MovePending`; `setBalance`,
`deactivateType` (two steps) and `updateType` (`UpdateType`: on or off, any limit) are actions of
their own. A type whose `max_days_per_year` is 0 is not checked and has no balance row, so the increments hit
nothing (`lost`); when HR gives it a limit later, the next request makes a row that starts at zero.
`BooksBalance` counts those days with the balance: what the row says is wrong by exactly `lost`.
One employee, one leave type and one year; how many days a leave has is a constant, and `MaxDeaths`
bounds the handlers that die.
`clean` excludes: a handler that died half way, two decisions that read one status, a balance
entered by HR. `serial` excludes two submissions that overlap, and a submission that was not
checked because the type had no limit.

### AttendanceRequests and DaySheet

One employee's day. `checkIn` and `checkOut` load the row (`CheckIn`, `CheckOut`) and write by
its id (`WriteIn`, `WriteOut`); `findOrCreate` of a new row is one statement under the unique
index. `reviewRequest` is `Review` (load, must be pending), `ApproveCreates` or `ApproveFound`
with the write it goes on to, `Decide` and `Strip` (the photo). `StartPurge` and `Purge` are
`purgeExpiredPendingPhotos`. `HrEdit` is HR's create, update or remove; `Die` ends a handler
between two statements. The attendance processor writes the same record: `ReadDay` is
`processEmployeeDate` up to its write, with any check-in and check-out the terminals may have had
(they may lie in the past: terminals are read later) and with or without `overwrite`, `WriteDay` the write of
the columns that differ from what it read, or the create, which fails when a row came in between. The clock has as many moments as the guards tell apart.

`Sheet` maps the record to `DaySheet` while `clean`, and to a void sheet after; a run that enters both
times is `EnterBoth`. `clean` excludes: a time entered, changed or removed by HR; a run of the
processor that replaces a time (it has a punch of its own for it), writes a check-out that is not after the
check-in, or works on a column another handler is writing (`Adds`); two handlers that loaded the same
empty column; two reviewers of one request; a check-out request approved on a day without a record, which stores
the check-out and refuses.

### Payslip

`calculatePayslip`, `gatherEmployeeMonthData` and `resolveComponents` as operators on integers:
money in cents, percentages in hundredths, days in halves. Beside them stands a reference that
never uses the engine's totals: it goes through the month day by day (`Unearned`) and through the
components one by one, each through the assignments in the order they are read (`Due`), where the
engine builds a map of overrides and a set of assigned ids. `toFixed(2)` is `Rounded`; which way the binary value of an
exact half goes is not modelled. `CountedOnce` says when the two must agree to a cent: work
happens on weekdays that are not on leave, and leaves do not overlap. Where it fails, the engine
counts a day twice and the reference still bounds the absence from above.

### CompanyAccess

One tenant user, the pages (`Tabs`) he has open in some browsers, and the administrators'
requests. `Login`, `Use` and logout go through `Gate` (`enforceCompanyActive`), which closes a
company whose contract is over in two statements (`ShutCompany`, `DisableUsers`). `Refresh`
compares the cookie with the stored token and goes on to `Sign`, `SaveRefreshToken`, `Answer`; a
mismatch is `Reuse`. `bcrypt` compares 72 bytes, which reach into the token's time of
signing: two tokens signed in one period (`now`) are equal. `LoadUser` and `EndSessions` are
resets and deactivations, with the column that is not written when it was already null. `EditUser` and
`SaveUser` are `PUT /users/:id`: it may switch the account on or off or give it a new password, and
leaves the refresh token alone either way, as does the new administrator password of
`PUT /companies/:id`. Neither ends a session, and the model says so.

`single` excludes: two pages that log in or refresh at once, a login from another browser while
one is logged in, a login or refresh whose answer is lost. `raced` has the logins that were ended
while a request was about to save a token of theirs, or by a request that had read the user before
the token was stored (and so writes nothing), or that were signed like another: only these
come back. What other logins did at the time makes no difference. `chosen` is the last
choice of features that was completed; it is unknown after a choice that died half way.

### Handlers, WorkShifts and Onboarding

`Handlers` is what three modules share: a request arrives, takes one statement per step and may
die. A Sequelize `update` writes the columns that differ from the loaded row; so
`LoadToUpdate`/`WriteShift` and `MarkDefault` write nothing for a value that did not differ.
`setDefaultShift` is `LoadToDefault`, `ClearDefaults`, `MarkDefault`. A wizard request enters with
the step it loaded, does the work of its stage with the very same shift and device operations
the pages use, and writes the larger of its stage and that step (`Bump`).

`single` excludes two overlapping choices of the default. `kept` excludes: the default chosen
again, switched off through PUT or created inactive, switched off while it is being chosen, a
death between the two statements. `done` is the set of stages somebody finished, `removed`
whether a device was deleted.

### Directory

`employees` and `users` are the rows; a dismissed employee keeps the row and the number until
`Reclaimed` gives the number up. `Hire`/`Insert`, `Renumber`/`WriteNumber`, `SoftDelete` are the
employee pages; `Upsert` to `CreatePortalUser` is the import of a person from a terminal with
the account it makes; `CreateUser`, `UpdateUser`/`WriteUser`, `Delete`/`Destroy` the user pages.
The portal address is the number without its punctuation (`AddressOf`, not injective), with the
id behind it, or the id. `PortalFails` is the account that is not made although the import answers
success: the company or its role EMPLOYEE is missing (`employee.service.js:290-297`), or any statement
fails (`:339-342`); the handler remembers it as `warned`.

`watch` records for each request under way what was true at some moment since it arrived, which is
what its answer can be held to: a number was taken (`nums`), an employee had an account (`linked`), the
address it had chosen was taken (`beaten`), every address it could choose was (`full`). `raced` collects the employees whom two requests were giving an
account at once. That a company keeps an administrator is not among the properties: `MayGo` counts and
`Destroy` deletes apart, so two deletions at once leave none, and without the overlap there is nothing
to show beyond the guard.

### DeviceLink

A session is `Connect`, `Disable`, `Read` (or `List`, `Write`) and `Enable`, which is the
`finally`; a request is the list of sessions its route needs (`ServerPlan`, `AgentPlan`). The four
routes are what `device.service.js` tells apart: a relay agent, the agent's server over HTTP
(legacy), the polled bridge, or a direct connection. On the routes where the code refers to an
undefined name the plan is empty (section 6). `Rows` is what an import makes of the punches it
read: directions that UDP leaves out are inferred from the order before any row is left out;
`Store` is the unique index. The wire protocol is external: a command arrives or is lost, a read
returns a beginning of the punches, UDP rows may lack PIN and card.

`stuck` is set when the enabling command, or the connection or process of a session that
locked the screen, was lost, and cleared by the next enabling command that arrives. `entered` has
the rows of PIN and card as entered at the keypad: the last one, with those before it as long as a
request holds a copy it will write back (`Copied`); `bare` says that such a copy came over UDP without
PIN and card. `RowEntered` excludes nothing: rows change at the keypad under a request, and roles
change over UDP. It says what is left: one of these entries, whole but for the upper bytes of its
card, or neither PIN nor card. That is less than "preserve name / card / PIN"
(`device.service.js:1519`), and section 6 says where the code falls short of it. Names are not in the model.

### SyncCenter

The page's state is `page` (which dialog is open, the rows it shows, the ticks, the busy flags);
every click is an action whose guard is the `disabled` condition of its button, and starts a
handler in `tasks` that goes on by itself: `ReadList`/`ShowList`, `Unlock`, `Write`, `Called`,
`Refreshed`, with the failure of each. `Content` and `Underway` are the values the page and a handler
may have. A handler keeps the terminal and the users it was started
with, answers come in any order, and a page that is left goes on writing (`left`).

A list that is answered with success need not be the terminal's (`MayList`): a read that breaks
off answers with what it has, possibly nothing (`services/zktecoSocket.service.js:336-350`, `:562-571`), the
server cuts it at 500 (`services/device.service.js:1451-1466`), and with a bridge it is what the bridge kept
of the one terminal it polls, whichever was asked for (`:1418-1436`; `Kept`, `Bridge`).

`crossed` is set when the dialog is opened while a list of another terminal is awaited; `clean`
of a handler says that its ticks were made before any such thing, of a terminal that is read directly or
is the bridge's own (`Direct`). `stale` and `changed` are the users whom the list shown, or the
list the handler works from, leaves out or is wrong about: from the beginning (`Untold`), or since
somebody changed them.
Communication keys are data (a call with a wrong key fails; the first load of a dialog uses the
key of the terminal before it, `SyncCenter.jsx:254-257`); the call of an import, pull or test
stands for the several requests it makes; hiding users of the same name is left out.

## 4. Runs

| run | shows | instance | states |
|---|---|---|---|
| `queue_safe` | `AtMostOnce`, `Truthful`, `AnswerTrue`, `ResultKept`, `ReportFinal`, `RelayPromise`, `TypeOK` | 2 jobs (one imports attendance), 1 agent, 2 slots, 2 faults (crashes, lost messages, failed writes and imports), JSON-file store | 1.5 M |
| `queue_live` | `Reported`, `Imported`, `Claimed`, `Finishes` | the same with 1 fault, database store, one job per poll | 84 k |
| `punch_day` | `DayForward` | 5 shifts (separate, overlapping, overnight and no windows, none), 4 punches at 9 times around the window edges | 225 k |
| `device_logs` | `OwnPunches`, `ProcessedCounts`, `ManualKept`, `Forwarded` | 1 employee, 2 punches of the day of which the import keys 1 to it, 3 requests of which 2 at once, 1 change by HR, 1 death | 1.5 M |
| `payroll_runs` | `OneSnapshot`, `NetExplained`, `Answered` | 2 process requests, 2 employees of which 1 always active, pool of 2, 2 run rows, 1 fault; every payslip of a small month | 0.28 M |
| `leave_ledger` | `BooksBalance`, `WithinTotalInTurn` | 2 leaves (2 days and 1), 2 decisions at once, a type with 2 days or no limit, 1 balance entered or type changed, 1 death | 10.8 M |
| `attendance_requests` | `ApprovedOnRecord`, `PhotoGone`, `SheetPromise` | a check-in and a check-out request, 2 handlers, clock of 4 moments, 2 in all of: a run of the processor, a change by HR, a death (at most 1 change and 1 death) | 7.4 M |
| `company_access` | `NoFalseAlarm`, `EndedStaysEnded`, `FeaturesChosen` | 3 pages in 2 browsers, 1 administrator, 2 logins and 1 request of the administrator's or 1 and 2, 2 signing periods, 2 features | 7.3 M |
| `onboarding` | `AtMostOneDefault`, `DefaultThere`, `StageFinished` | 3 requests at once of 5, 3 shifts, 2 serial numbers, 1 death | 0.95 M |
| `directory` | `OneAccount`, `NumbersReusable`, `ImportedCanLogIn` | 2 requests at once of 5, 2 numbers that make one address, 3 employees, 3 accounts, 1 death | 2.2 M |
| `device_link` | `LockReleased`, `RowEntered`, `OncePerPunch` | 2 requests at once of 3, 2 punches of one person and day, 1 event, 1 death, every route | 7.3 M |
| `sync_center` | `RightTerminal`, `NoneLeft` | 2 terminals of which a bridge polls 1, uids 1 and 2 on both, 2 handlers at once, 3 calls started or changes elsewhere; administrators at first: all, all of one terminal, one of each, nobody | 3.3 M |

All pass; none of the properties is a type invariant but `queue_safe`'s `TypeOK`. The type
invariants of the other state machines are proved, for every instance, and are not run.

Why these bounds are enough to be of interest:

- Queue: two jobs give a batch of two, so that a crash or a lost post can hit between them; two
  slots let a late post overlap a retry of the same body; two faults are needed for "post times
  out, second post times out, queued offline", for a crash after a retry, and for a failed
  write before a crash. One job per poll makes the second wait for the first. The theorems
  remove the bounds, here and below, for everything but liveness.
- Day: the times are the edges of the windows and one minute either side; four punches are
  two on each side, or a chain of three repeats and one more.
- Logs: two requests overlap in all their steps while a third comes later; one punch on each
  side of the day shows what a partial run leaves alone; one of the two the import keys to another
  day than the database does. The inclusion of `k1` in the surprise
  window exercises the mark.
- Payroll: two requests with a pool of two is the case in which each holds a connection and
  wants another; deleting and creating the run again gives a request a stale id. The month of a
  payslip is Thursday to Monday: it has a weekend and working days on both sides. The four days
  have any of three statuses or no record, two leaves may overlap each other and reach beyond
  both ends of the month, and two components have up to two assignments each in force before,
  on or after the first of the month.
- Leave: two leaves that do not both fit, two actors, so that every pair of statements of two
  handlers meets; a type that has no limit and gets one, or the other way about.
- Requests: two handlers meet in every pair of statements, the third handler of any bad case is
  one that has already ended. The clock passes the end of the day and the photo's life time. Two
  runs of the processor meet each other; one meets HR or a death.
- Access: two pages of one browser and one of another are the least for "another tab" and
  "another browser"; two logins for a session that is ended and one that follows it; an edit
  and a reset of the account may follow each other around one login.
- Onboarding: three requests let one die between the statements of a switch while two others
  meet; five requests are hours, device, import and completion with one change beside them.
- Directory: two requests interleave; five let an employee be hired, dismissed, replaced and
  imported again. Three employees have two numbers, so that a number passes on.
- Link: a session that dies, one that overlaps it and one that comes later to unlock. Two punches
  of one person alternate; the card number needs more than 16 bits.
- Page: two terminals with equal uids are what lets a tick of one name somebody of the other; two
  handlers at once, since the busy flags admit few more; three calls or changes are a list, a command and a
  privilege granted in between, or two lists and a command (clicks that start no call are free). A bridge
  that polls one of the terminals makes the other the one whose dialog shows the wrong list.

`SYMMETRY` is used where the members of a set differ in name alone (slots, tabs of a browser,
handlers, requests to a store), and in no run with a liveness property.
`CHECK_DEADLOCK FALSE` appears where the bounds (requests, changes, punches, run rows) end
every behaviour. The queue needs no such line: the agent's loop never ends.

### Fairness

`AgentJobQueue!Fairness`: weak fairness of the agent's loop (`while (true)` in
`polling-agent.js`, restarted by the service installed by `install-windows-service.js`), of
handlers that have received a request (Node runs every completed I/O and timer), and of the
reads of a waiting caller (it polls until its deadline). No fairness is assumed of job creation
nor of any fault; a request on its way either arrives or is lost by a fault.
`PayrollRuns!FairSpec`: weak fairness of each request's next step. A blocked statement
proceeds when the lock is released or is rolled back by the deadlock detector; a statement
without a connection proceeds or meets the acquire timeout (`db.js`, `DB_POOL_ACQUIRE_MS`).

## 5. Proofs

Every safety and action property of section 4 is a theorem: it holds for every number of jobs,
agents, requests, handlers, employees, terminals, punches and deaths, for every month and every
catalogue of salary components, and for every bound. What a theorem takes for granted is the named `ASSUME` of its module: the types of
the constants, that `NoSlot`, `None`, `NoTime`, ... are none of the values they stand beside
(`QueueAssumption`, `NoBodyAssumption`, `RequestsAssumption`, `NoneAssumption`, `NoRowAssumption`,
`SyncAssumption`, ...), and the few facts named below. TLC evaluates all of them for the instances
of section 4.

Each proof has the same shape. The property is seldom inductive: whether a statement does harm
depends on what its handler read some statements ago. So the invariant says, for every handler
under way, what is still true of the rows it has read, and which handlers exclude each other; the
lemmas named `...Effect` say what an action does to the variables, those named `Carried` what a
handler at a step carries; the step proof then has one case per action. A history variable turns
from TRUE to FALSE only, so an invariant that starts "`single` =>" needs no proof where it turns.

**AgentJobQueue_proofs, the queue.** `TypeCorrect`; `RunsAtMostOnce`, `ReportsAreTrue`,
`AnswersAreTrue` (`[]AtMostOnce`, `[]Truthful`, `[]AnswerTrue`); `ReportsAreFinal` (`ReportFinal`);
`ResultsKept` (`[]ResultKept`); `QueueImplementsRelay` (`Spec => Relay!Spec`). That a job does not
run twice depends on where jobs can be. `JobInv` says of the jobs whose claim was marked

- `Placed`: jobs are in the answer to a poll only while the agent waits for it, and in the batch
  only while it runs or sends;
- `Handed`: those jobs belong to that agent, are in_progress and have not run;
- `RanOnce`: a job has an outcome exactly if it ran, and it ran at most once unless its claim was not written;
- `AgentTrue`, `RequestTrue`, `StatusTrue`: every copy of a result - in memory, in the retry file,
  in a slot, in the table - carries an outcome of the job.

Two batches cannot share such a job because claiming needs a pending row and makes it in_progress;
`Execute` needs a job of the batch and takes it out; hence one outcome, and all copies agree,
which is why overwriting a terminal row is harmless. Of a job whose claim was not written (`Marked` fails)
each copy is still an outcome of one of its runs. The refinement follows: under `JobInv`
each step is a step of the relay or a stutter. `KeptInv`, on top of it, follows a result to the
two places where the agent lets go of it: both come after an "ok", the slot the agent waits for
(`Waits`, `Alone`) is about its own body, and the server says "ok" only of a job of which it needs
nothing more, or of which a failed write or import is on record (`AnswerSettles`), which stays so.

**AgentJobQueue_proofs, the terminal page.** `PageHolds`, `PeopleOfTheTerminal`
(`[]RightTerminal`), `AllTakenAway` (`[]NoneLeft`). `PageInv` says of each handler under way which
steps its kind goes through (`Route`), who is still to be written (`Rest`), that those it names are of
its own terminal (`OwnPeople`), that the list it has read names every administrator but those
it left out or who were changed since (`HasRead`) and that whoever is still an administrator is still to be written
(`StillTo`); of the dialog, that it shows its terminal unless a bridge lists another's (`OwnDialog`); and that the page's busy flags
admit one command at a time. `SyncAssumption` asks for nothing but types. `Whole` is stated of
values rather than of the variables, so that one lemma per kind of step serves every action.

**DeviceLogs_proofs, ingestion and processing.** `TypeCorrect`, `TimesAreOwn` (`[]OwnPunches`),
`CheckInsCounted` (`[]ProcessedCounts`), `HrKept` (`[]ManualKept`), `PunchesForwarded` (`Forwarded`). `IInv`
consists of

- `Sane`: types, that a row belongs to the owner of its card or to nobody, what a request at each
  stage carries;
- `ManualInv`: a request that may not overwrite goes on only with a record of the devices;
- `OwnInv`: what a request has read of rows and records is of the employee it works for;
- `CountInv`: a check-in is there whenever a punch that makes one is processed, and already when
  the request is about to mark it, and in what the request read of the record;
- `OwedOnWay`: a punch that an import owes is accounted for, belongs to an employee it counted as
  failed, or is still on its way through that request.

`LogsAssumption` asks that there be finitely many punches, since the rules take the least and
greatest time of a set.

**DeviceLogs_proofs, one day.** `DayHolds`, `RepeatsExact` (which punches the code drops as repeats,
whatever their type; no run checks it, since the code's comment says something else), `DaysMoveForward`
(`DayForward`). The library's induction principles take an operator as a parameter, which the provers
cannot instantiate. What a fold makes of a list of any length is proved by the least counterexample
instead: the order of numbers is well founded (`WFMin`), so if a statement failed for some prefix
there would be a shortest one, and one turn of the loop (`Keep`) leads to it from a shorter
(`Least`, `CountUp`). `PunchAssumption` asks that the times of a shift be numbers.

**PayrollRuns_proofs, the runs.** `TypeCorrect`, `PayslipsAreOneSnapshot` (`[]OneSnapshot`) and
`OneRequestCommits`. The code takes no lock on the run and accepts PROCESSING, so two
transactions may work on the same run. The argument is that every request inserts a payslip for
every employee who is active throughout (`Permanent`), that the unique index lets one open
transaction hold that key (`KeysDisjoint`), and that whoever holds it had cleared the payslips
it found (`KeysFree`), which were a whole snapshot (`PriorWhole`) by a request that has ended
(`MakerDone`). So only one transaction gets through to `Commit`, and it replaces everything.
`RunLocked` keeps the run's row from being deleted under an inserted payslip.
`PayrollAssumption` asks for `Permanent # {}`: with two requests whose employee lists have
nobody in common there is no key to collide on, and their payslips can mix. A month in
which the whole staff changes between two overlapping requests is what the assumption excludes.

**PayrollRuns_proofs, the leave balance.** `LeaveTypeCorrect`, `LedgerBalances` (`[]BooksBalance`), `TotalKept`
(`[]WithinTotalInTurn`). While `clean`, `LeaveInv` says what the two counters are in every state in
between (`Books`): `used`, with what was counted before there was a row, is the days of the leaves `Taken` less those `Lent`, returned by one
handler before another has used them; `pend` likewise is those `Awaited` less those cleared before they were counted
(`Early`). `OneByOne` and `Stands` say that one decision at a time is under way for a leave and that it
still applies to its status; `BalanceThere` that a row is there before anything that was checked is counted; `Room` that the leaves that were let through fit the total.
`LeaveAssumption` asks for finitely many leaves.

**PayrollRuns_proofs, sums.** Leaves and payslips both rest on sums of a function over a finite set.
That a sum does not depend on the order it is taken in, that it splits (`SumSplit`), adds (`SumPlus`),
counts (`SumCount`) and survives a renaming (`SumImage`) is proved once, each by a smallest set for
which it would fail (`Smallest`).

**PayrollRuns_proofs, the payslips.** `MonthsExplain`, `ComponentsExplain`, and from them
`PayslipsExplained` (`[]NetExplained`). For the days: the engine counts records and adds up clipped
leaves; `WorkedCount` and `LeaveDaysCount` turn both counts into sums over the weekdays of the month,
`HalvesExact` adds them up where no day is counted twice, `AbsenceBounded` bounds the absence where
one is; `RoundedNear` and `ShareNear` give half a cent a line, and `OffByCents` puts that together. For
the components: `ReadBy` says what a reader of the first `i` assignments has read, by least
counterexample the recursive reference ends with it (`DueIs`), and the engine's map and set end with
it too (`ResolvedIs`). The components in force with their values are a renaming of those of the
catalogue, because ids are unique (`TotalIs`). `PayslipAssumption` asks that days, money and minutes
be integers, that leaves and components be finitely many, and that ids be unique. The theorem says
what the calculation comes to for every month a row can be stored for; which of the requests has
stored the row is `OneSnapshot`.

**AttendanceRequests_proofs.** `TypeCorrect`, `PhotosGone` (`[]PhotoGone`), `Approved` (`[]ApprovedOnRecord`),
`Refinement` (`Spec => SheetPromise`, that is, the record implements `DaySheet`). `BeingStripped`: a
decided request that has its photo is being stripped of it. `Undisturbed` says what `clean` buys:
a column is written by one handler, into the row it has loaded, in which that column is still empty
(`WriterKept`, and `RunKept` for a run of the processor); so each write is a first entry of the
sheet, and the rest stutters.

**CompanyAccess_proofs.** `TypeCorrect`, `ThievesOnly` (`[]NoFalseAlarm`), `NoReturn` (`[]EndedStaysEnded`),
`ChoiceInForce` (`[]FeaturesChosen`). `OnePage`: while one page works at a time, what the server has
stored is what is in the one cookie or in the answer that will replace it. `NoneReturns`: a token of an
ended login is stored, or about to be, only if that login is in `raced`. `RowsChosen`: the feature rows are the last choice, or are about
to be created.

**Onboarding_proofs**, which is also about `WorkShifts`. `TypeCorrect`, `OneDefault` (`[]AtMostOneDefault`),
`ActiveDefault` (`[]DefaultThere`), `StageOnRecord` (`[]StageFinished`). `OneChooser`: one request chooses
at a time, and when it sets the flag nobody has it. `ChoiceSound`: the shift being chosen is
active, and nobody is about to switch it off. `StageTable`: the step a wizard request has loaded was
finished, and when it comes to write its own, the rows of its stage are there.

**Directory_proofs.** `TypeCorrect`, `OneEach` (`[]OneAccount`), `Reusable` (`[]NumbersReusable`), `CanLogIn`
(`[]ImportedCanLogIn`). `OneGiver`: an employee outside `raced` is
being given an account by one request, and has none but the one it is linking. `NumbersFree`, `AddressFree`:
what was found free is free, or `watch` has seen it taken. `DirectoryAssumption` asks for finitely many
handlers.

**DeviceLink_proofs.** `TypeCorrect`, `ScreenReleased` (`[]LockReleased`), `NothingInvented` (`[]RowEntered`), `StoredOnce`
(`[]OncePerPunch`). `LockReleased` is inductive with the types and the plans of requests (`Planned`);
`CopiesSound`: the terminal's row and every copy that will be written back are of one entry at the
keypad, perhaps with the lower two bytes of the card, or have lost both over UDP; `RowsRight`: a row's type depends on the punch and on how its direction
was found, whatever else was read.

**Model-checked only.** Liveness (`Reported`, `Imported`, `Claimed`, `Finishes`, `Answered`) is outside the
prover, as is the fairness it needs.

## 6. Met while modelling

What the models make visible and the properties are qualified by. None is a disagreement that
a run checks; each is at its line. Where a comment is quoted, the code does not do what it says.

Attendance and terminals:

- A shift without check-in and check-out windows - the one the onboarding wizard creates -
  ignores every punch (`attendance_processor.service.js:173`), though the header says the
  windows apply "when configured" (`:14-15`).
- `dedupeRapidPunches` says "of the same type" (`attendance_processor.service.js:252`) and does
  not compare types: a check-out within a minute of a check-in is dropped.
  The theorem `RepeatsExact` states what the code drops, and is not a run.
- An import lists days in the company's time zone (`device-proxy.service.js:124-126`) and processing
  selects `DATE(event_time)` (`attendance_processor.service.js:438`): punches between the two
  midnights may stay unprocessed. Of more than 21 days the earlier are cut (`:158-159`), and the answer names
  no employee that failed (`:167`).
- A run of the processor with a punch of its own replaces a time that an approved request had entered in a
  DEVICE record, or in any record with `overwrite`.
- The check-out of an overnight shift belongs to the next calendar date and is never paired.
- A punch that is pushed twice before it was processed has one row, which is marked duplicate
  (`device.service.js:430`) and never reaches attendance.
- `processEmployeeDate` reads the record, then computes, then writes: a correction of a DEVICE
  record by HR in between is overwritten where it differs from what was read. HR's update of
  a DEVICE record leaves its source, so the next run may replace it anyway.
- `reviewRequest` on a day without an attendance record creates it with the requested time
  and then refuses the approval because that time is there (`attendance_request.service.js:195`,
  `:198`).
- `device.service.js` uses the undefined `companyId` at 1292, 1393, 1574 and 1704 when
  `AGENT_RELAY_DEFAULT_ID` is set, and `useAgent` at 1938: listing, changing and unlocking throw
  over a relay agent, and the server's own import works only with a bridge URL.
- A poll of the bridge that fails replaces its snapshot by an empty one that is ready
  (`src/backend/zk-lan-bridge/server.js:97-114`); a punch without a direction becomes 0, that is
  a check-in (`:68`), so punches read over UDP through the bridge are all check-ins.
- The packet that changes a user over TCP has two bytes for the card
  (`zktecoSocket.service.js:252`): a larger card number is cut; a list over UDP may have neither PIN nor
  card, and the write that follows removes both; a row changed at the keypad meanwhile is overwritten by the
  old one. "Preserve name / card / PIN" (`device.service.js:1519`) is not kept in these cases. The same punch read once with its
  direction and once without can be stored twice.
- The terminal page shows a list whatever dialog is open by then (`SyncCenter.jsx:155`), so a late
  answer shows one terminal's users under another's name; an older answer may replace a newer. With a
  bridge every terminal's dialog shows the users of the one terminal the bridge polls, and commands go to
  the uids of another.
- Taking all privileges away works on the list that was shown: a list cut at 500, incomplete after a
  broken read, or kept by the bridge leaves administrators, and the page reports done.

Payroll and leave:

- The engine checks the run's status once (`payroll_engine.service.js:435`); a run approved while
  it works loses its payslips to the commit or its status to the reset to DRAFT, against the
  header (`:8-9`).
- `db.js:64-70` forces one connection for production PostgreSQL; the engine's transaction holds
  it while the engine reads outside the transaction (`payroll_engine.service.js:472`), so every run
  with an active employee times out and rolls back.
- `updateRunStatus` checks and writes apart: CANCELLED may overwrite PAID. `total_employees`
  is only written when it differs from the value loaded before the transaction.
- Work on a weekend makes up for an absence; overlapping leaves count twice; HOLIDAY, WEEKEND and
  ON_LEAVE records count as absence; employees whose status is ON_LEAVE get no payslip;
  components and assignments are judged on the first of the month; of two assignments of one
  component the row read last wins, in no stated order; the net may be negative, although a test
  is titled otherwise (`payroll_engine.test.js:322`).
- Two leaves submitted at once both pass the balance check (`leave.service.js:174`); submitted
  one after the other they cannot exceed it (`WithinTotalInTurn`).
- `setBalance` without used and pending days makes them 0; `deactivateType` counts pending
  requests before it deactivates; the year of a leave is cut from its start date when it is
  submitted and taken from a local-time `Date` when it is decided. A type without a limit has no balance
  row, so its requests are not counted; after `updateType` gives it one (`leave.service.js:32-36`) the row starts
  at zero.

Accounts, companies and the rest:

- `setDefaultShift` on the present default clears it and writes nothing back
  (`attendance_processor.service.js:552`).
- The wizard's stages may be skipped on the server, and a request that is late takes the saved step
  back to what it had loaded (`setup.service.js:50`).
- A refresh or login that overlaps a logout, reset or deactivation saves its token after the
  ending has removed the old one (`auth.service.js:298`); two tabs that refresh at once
  raise the reuse alarm.
- `PUT /users/:id` with `is_active` 0 or a new password leaves the refresh token
  (`user.service.js:234-241`): the sessions that are open go on.
- A company that is closed by a process that dies between the two statements keeps active users
  (`company-status.service.js:29`); features that are cleared and not yet written are the defaults
  (`company-feature.service.js:46`).
- PUT does not reclaim a dismissed employee's number, which the unique index then refuses; two
  numbers that differ in punctuation share an address, and simultaneous imports of them can leave
  one without an account, the error being swallowed (`employee.service.js:340`), as is any other,
  and a missing role (`:290-297`).
- The last administrator can be given another role; two deletions at once leave none
  (`user.service.js:275`); two links at once give an employee two accounts.
- A department may become an ancestor of its own parent: only itself as parent is refused
  (`department.service.js:89`).
- A poll whose response is lost leaves its jobs in_progress for ever: there is no reaper.
- With the JSON store, a claim that cannot be written is handed out all the same and again at the next
  poll (`agentJob.service.js:50-56`, `:192-195`): the job runs twice. A retry file that cannot be
  written loses its results (`local-agent/polling-agent.js:93-97`), and an import that throws is answered
  with success and never repeated (`agentJob.controller.js:459-462`).

## 7. What is not modelled, and the plan

Left out for good: the bytes of the wire protocols, reports and other read-only handlers, role
checks and input validation beyond the guards they impose (`utils/validators.js`), push
notifications and e-mail, schema creation and seeds. They are I/O, presentation or stateless. Of
the front end, the pages other than the terminal page load a list, show a form and send it:
their requests are the environment of the modelled handlers, in any order and any number, and
what they show has no effect on them. These parts are most of the repository's lines, which is
why the models cover about a sixth of them.

Left out so far: the rows of salary components and their assignments (entered as plain
data), device registration and heartbeats, activation codes, surprise events (their effect on
ingestion is a switch of `DeviceLogs`), the tree of departments, announcements.

Planned, most important first:

1. Abstract specifications: `LeaveBook` (a set of leaves with days, no counters), implemented by
   `LeaveLedger` under `clean`; `AttendanceSheet` (punches that have counted), implemented by
   `DeviceLogs`. The invariants proved give what the step proofs need.
2. `SurpriseEvents` composed with `DeviceLogs`: two events at once, and an expiry that happens
   only when somebody reads.
3. The tree of departments, and the salary components with their assignments as rows.
