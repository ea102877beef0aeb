---------------------------- MODULE AgentJobQueue ----------------------------
(***************************************************************************)
(* The job queue between the cloud API and the office agents:              *)
(*   server   backend/src/services/agentJob.service.js (the job table),    *)
(*            backend/src/controllers/agentJob.controller.js (the HTTP     *)
(*            handlers) and agentJobRelay.service.js (callers that wait)   *)
(*   agent    local-agent/polling-agent.js (one sequential loop: flush the *)
(*            retry file, poll, run each job, send each result)            *)
(* The network may lose or delay a request or a response, the agent's HTTP *)
(* client may time out while the server is still working, and either side  *)
(* may crash.  Writing either JSON file may fail, and so may the import of *)
(* the attendance a result carries: the code logs these three errors and   *)
(* goes on.  MaxFaults bounds how many such events a behaviour has.        *)
(*                                                                         *)
(* Which pending rows a poll takes when there are more than Limit          *)
(* (ORDER BY created_at, ties open) is left open, as are sleep times.      *)
(***************************************************************************)
EXTENDS Naturals, FiniteSets

CONSTANTS
  Jobs,        \* job ids createJob can draw
  Agents,      \* agent_id values
  AgentOf,     \* the agent_id column of each job
  Ingesting,   \* jobs that are pull_attendance with auto_ingest
  Slots,       \* names for POST /agent/job-result requests under way
  Limit,       \* rows one poll claims at most (limit = 3)
  MaxFaults,   \* bound: faults (timeouts, losses, crashes, failed writes)
  FileStore,   \* TRUE: jobs live in agent-jobs.json, FALSE: in the database
  NoSlot, NoBody

ASSUME QueueAssumption ==
  /\ AgentOf \in [Jobs -> Agents]
  /\ Ingesting \subseteq Jobs
  /\ Limit \in Nat \ {0}
  /\ MaxFaults \in Nat
  /\ FileStore \in BOOLEAN
  /\ NoSlot \notin Slots

VARIABLES
  store,     \* jobs whose row is in the table (or the JSON file)
  status,    \* status column; "none" = the job was never created
  waiter,    \* the HTTP request that created the job and waits for it
  request,   \* [Slots -> a POST job-result on its way or being handled]
  lateCount, \* polls of an agent that gave up on them, still to reach the server
  ingested,  \* jobs whose attendance import has run to its end
  pc,        \* where each agent's loop stands
  poll,      \* state of the GET /agent/jobs the agent waits for
  reply,     \* jobs in the answer to that poll
  batch,     \* jobs received and not yet executed
  current,   \* body of the result being sent
  attempt,   \* 1 or 2: sendResult's loop counter
  awaited,   \* the POST the agent waits for
  todo,      \* rows of the retry file this flush has still to post
  acked,     \* rows of the retry file this flush got a 2xx for
  file,      \* pending-job-results.json
  runs,      \* history: how often the agent executed the job
  outcome,   \* history: what happened at the device, over all runs of the job
  swallowed, \* history: the calls for a job whose error was only logged
  crashed,   \* history: agents that crashed at least once
  faults     \* faults so far

serverVars == <<store, status, waiter, request, lateCount, ingested>>
agentVars  == <<pc, poll, reply, batch, current, attempt, awaited, todo, acked, file>>
history    == <<runs, outcome, swallowed, crashed, faults>>
vars == <<serverVars, agentVars, history>>

Terminal == {"success", "failed", "timeout"}
Body == [job : Jobs, status : Terminal]
ASSUME NoBodyAssumption == NoBody \notin Body

Free == [stage |-> "free"]
Request == [stage : {"sent", "ingesting", "ok", "error"}, body : Body]

TypeOK ==
  /\ store \subseteq Jobs
  /\ status \in [Jobs -> {"none", "pending", "in_progress"} \cup Terminal]
  /\ waiter \in [Jobs -> {"none", "waiting", "ok", "failed", "gave_up"}]
  /\ request \in [Slots -> Request \cup {Free}]
  /\ lateCount \in [Agents -> Nat]
  /\ ingested \subseteq Jobs
  /\ pc \in [Agents -> {"flush", "flushing", "flushwait", "poll", "pollwait",
                        "run", "send", "sendwait", "down"}]
  /\ poll \in [Agents -> {"idle", "sent", "answered", "reset"}]
  /\ reply \in [Agents -> SUBSET Jobs]
  /\ batch \in [Agents -> SUBSET Jobs]
  /\ current \in [Agents -> Body \cup {NoBody}]
  /\ attempt \in [Agents -> {1, 2}]
  /\ awaited \in [Agents -> Slots \cup {NoSlot}]
  /\ todo \in [Agents -> SUBSET Body]
  /\ acked \in [Agents -> SUBSET Body]
  /\ file \in [Agents -> SUBSET Body]
  /\ runs \in [Jobs -> Nat]
  /\ outcome \in [Jobs -> SUBSET Terminal]
  /\ swallowed \in [Jobs -> SUBSET {"claim", "result", "import", "retry"}]
  /\ crashed \subseteq Agents
  /\ faults \in 0 .. MaxFaults

Init ==
  /\ store = {}
  /\ status = [j \in Jobs |-> "none"]
  /\ waiter = [j \in Jobs |-> "none"]
  /\ request = [r \in Slots |-> Free]
  /\ lateCount = [a \in Agents |-> 0]
  /\ ingested = {}
  /\ pc = [a \in Agents |-> "flush"]
  /\ poll = [a \in Agents |-> "idle"]
  /\ reply = [a \in Agents |-> {}]
  /\ batch = [a \in Agents |-> {}]
  /\ current = [a \in Agents |-> NoBody]
  /\ attempt = [a \in Agents |-> 1]
  /\ awaited = [a \in Agents |-> NoSlot]
  /\ todo = [a \in Agents |-> {}]
  /\ acked = [a \in Agents |-> {}]
  /\ file = [a \in Agents |-> {}]
  /\ runs = [j \in Jobs |-> 0]
  /\ outcome = [j \in Jobs |-> {}]
  /\ swallowed = [j \in Jobs |-> {}]
  /\ crashed = {}
  /\ faults = 0

Fault == faults < MaxFaults /\ faults' = faults + 1

\* This call for these jobs failed, which the code caught and only logged.
Swallow(S, call) ==
  swallowed' = [j \in Jobs |-> IF j \in S THEN swallowed[j] \cup {call} ELSE swallowed[j]]
-----------------------------------------------------------------------------
(* Server: the job table and its callers.                                  *)

\* writeStore fails and the caller goes on as if it had not.  The file stays as it was, or
\* cut off, which readStore takes for empty.
StoreUnwritten == FileStore /\ Fault /\ store' \in {store, {}}

\* createJob, called by createDeviceAgentJob and enqueueAgentJob (nobody waits: the
\* client reads /job-status) and by the relay's enqueue...AndWait (the request waits).
CreateJob(j, w) ==
  /\ status[j] = "none"
  /\ \/ store' = store \cup {j} /\ UNCHANGED faults
     \/ StoreUnwritten
  /\ status' = [status EXCEPT ![j] = "pending"]
  /\ waiter' = [waiter EXCEPT ![j] = w]
  /\ UNCHANGED <<request, lateCount, ingested, agentVars, runs, outcome, swallowed, crashed>>

\* Mutant: a reaper that hands stalled rows out again.
PendingOrStalled(a) ==
  {j \in store : AgentOf[j] = a /\ status[j] \in {"pending", "in_progress"}}

Pending(a) == {j \in store : AgentOf[j] = a /\ status[j] = "pending"}

\* Mutant: the limit is counted one too low.
ClaimableBelow(a) ==
  {S \in SUBSET Pending(a) :
     \/ S = Pending(a) /\ Cardinality(S) < Limit
     \/ Cardinality(S) = Limit - 1}

\* What a poll of agent a may take: its pending rows, Limit at most.
Claimable(a) ==
  {S \in SUBSET Pending(a) :
     \/ S = Pending(a) /\ Cardinality(S) <= Limit
     \/ Cardinality(S) = Limit}

\* Mutants: the claimed rows are not saved; a status no reader knows is saved.
ClaimUnmarked(S) == UNCHANGED <<status, store, swallowed, faults>>
ClaimMislabelled(S) ==
  /\ status' = [j \in Jobs |-> IF j \in S THEN "claimed" ELSE status[j]]
  /\ UNCHANGED <<store, swallowed, faults>>

\* claimPendingJobs marks the rows before the answer leaves the server.  When the file
\* cannot be written the rows are answered all the same, and are still pending in it.
Claim(S) ==
  \/ /\ status' = [j \in Jobs |-> IF j \in S THEN "in_progress" ELSE status[j]]
     /\ UNCHANGED <<store, swallowed, faults>>
  \/ /\ S # {}
     /\ StoreUnwritten
     /\ Swallow(S, "claim")
     /\ UNCHANGED status

\* pollJobs for the poll the agent is waiting for.
PollJobs(a) ==
  /\ poll[a] = "sent"
  /\ \E S \in Claimable(a) :
       /\ Claim(S)
       /\ reply' = [reply EXCEPT ![a] = S]
  /\ poll' = [poll EXCEPT ![a] = "answered"]
  /\ UNCHANGED <<waiter, request, lateCount, ingested, pc, batch, current, attempt,
                 awaited, todo, acked, file, runs, outcome, crashed>>

\* pollJobs for a poll nobody waits for any more: it claims rows all the same.
PollJobsLate(a) ==
  /\ lateCount[a] > 0
  /\ lateCount' = [lateCount EXCEPT ![a] = @ - 1]
  /\ \E S \in Claimable(a) : Claim(S)
  /\ UNCHANGED <<waiter, request, ingested, agentVars, runs, outcome, crashed>>

\* The answer to request r, or nothing when the agent has hung up.
Respond(r, code) ==
  IF \E a \in Agents : awaited[a] = r
  THEN [stage |-> code, body |-> request[r].body] ELSE Free

\* Mutant: a repeated post of a finished job does not import again.
ImportsOnce(b) ==
  b.job \in Ingesting /\ b.status = "success" /\ status[b.job] = "in_progress"

\* The condition under which submitResult imports the attendance in the body.
Imports(b) == b.job \in Ingesting /\ b.status = "success"

\* Mutant: the posted status is not passed on and the default is stored.
CompleteDefault(b) ==
  /\ status' = [status EXCEPT ![b.job] = "success"]
  /\ UNCHANGED <<store, swallowed, faults>>

\* completeJob overwrites the row whatever its status is; a failed write of the file is
\* taken for done.
Complete(b) ==
  \/ /\ status' = [status EXCEPT ![b.job] = b.status]
     /\ UNCHANGED <<store, swallowed, faults>>
  \/ /\ StoreUnwritten
     /\ Swallow({b.job}, "result")
     /\ UNCHANGED status

\* submitResult up to completeJob.
SubmitResult(r) ==
  LET b == request[r].body IN
  /\ request[r].stage = "sent"
  /\ \/ /\ b.job \notin store                                  \* 404
        /\ request' = [request EXCEPT ![r] = Respond(r, "error")]
        /\ UNCHANGED <<store, status, swallowed, faults>>
     \/ /\ ~FileStore /\ Fault                                 \* 500
        /\ request' = [request EXCEPT ![r] = Respond(r, "error")]
        /\ UNCHANGED <<store, status, swallowed>>
     \/ /\ b.job \in store
        /\ Complete(b)
        /\ request' = [request EXCEPT ![r] =
             IF Imports(b) THEN [stage |-> "ingesting", body |-> b] ELSE Respond(r, "ok")]
  /\ UNCHANGED <<waiter, lateCount, ingested, agentVars, runs, outcome, crashed>>

\* The inline attendance import ends, or throws and is not tried again; the handler answers
\* success in both cases.
FinishIngest(r) ==
  /\ request[r].stage = "ingesting"
  /\ \/ /\ ingested' = ingested \cup {request[r].body.job}
        /\ UNCHANGED <<swallowed, faults>>
     \/ /\ Fault
        /\ Swallow({request[r].body.job}, "import")
        /\ UNCHANGED ingested
  /\ request' = [request EXCEPT ![r] = Respond(r, "ok")]
  /\ UNCHANGED <<store, status, waiter, lateCount, agentVars, runs, outcome, crashed>>

\* Mutant: the relay does not look at the terminal status.
WaiterStepUnchecked(j) ==
  /\ waiter[j] = "waiting"
  /\ waiter' = [waiter EXCEPT ![j] =
                  IF j \in store /\ status[j] \in Terminal THEN "ok" ELSE "gave_up"]
  /\ UNCHANGED <<store, status, request, lateCount, ingested, agentVars, history>>

\* One read of waitForJobTerminal: the row is terminal, gone, or the deadline has passed.
WaiterStep(j) ==
  /\ waiter[j] = "waiting"
  /\ \E answer \in {"ok", "failed", "gave_up"} :
       /\ answer = "ok" => j \in store /\ status[j] = "success"
       /\ answer = "failed" => j \in store /\ status[j] \in Terminal \ {"success"}
       /\ answer = "gave_up" => j \notin store \/ status[j] \notin Terminal
       /\ waiter' = [waiter EXCEPT ![j] = answer]
  /\ UNCHANGED <<store, status, request, lateCount, ingested, agentVars, history>>

\* The server process dies: what it was handling is gone, connections reset.  A crash
\* inside writeFileSync leaves agent-jobs.json unreadable, which readStore takes for empty.
ServerCrash ==
  /\ Fault
  /\ request' = [r \in Slots |-> IF request[r] = Free THEN Free ELSE Respond(r, "error")]
  /\ poll' = [a \in Agents |-> IF poll[a] = "idle" THEN "idle" ELSE "reset"]
  /\ reply' = [a \in Agents |-> {}]
  /\ lateCount' = [a \in Agents |-> 0]
  /\ waiter' = [j \in Jobs |-> IF waiter[j] = "waiting" THEN "gave_up" ELSE waiter[j]]
  /\ \/ UNCHANGED store
     \/ FileStore /\ store' = {}
  /\ UNCHANGED <<status, ingested, pc, batch, current, attempt, awaited, todo, acked,
                 file, runs, outcome, swallowed, crashed>>
-----------------------------------------------------------------------------
(* Agent: flushPendingResultsOnce.                                         *)

GoTo(a, p) == pc' = [pc EXCEPT ![a] = p]

\* axios.post of body b; the agent waits for the response.
Post(a, b) ==
  \E r \in Slots :
    /\ request[r] = Free
    /\ request' = [request EXCEPT ![r] = [stage |-> "sent", body |-> b]]
    /\ awaited' = [awaited EXCEPT ![a] = r]

Waiting(a) == awaited[a] # NoSlot

\* The response with this outcome has arrived.
Received(a, code) ==
  /\ Waiting(a)
  /\ request[awaited[a]].stage = code
  /\ request' = [request EXCEPT ![awaited[a]] = Free]
  /\ awaited' = [awaited EXCEPT ![a] = NoSlot]

\* The client hangs up without a response: a request still on its way may be lost or
\* arrive later, one being handled goes on, a response on its way is lost.
HangUp(a) ==
  LET r == awaited[a] IN
  /\ Waiting(a)
  /\ \/ /\ request[r].stage \in {"sent", "ingesting"}
        /\ UNCHANGED request
     \/ /\ request[r].stage # "ingesting"
        /\ request' = [request EXCEPT ![r] = Free]
  /\ awaited' = [awaited EXCEPT ![a] = NoSlot]

FlushStart(a) ==
  /\ pc[a] = "flush"
  /\ todo' = [todo EXCEPT ![a] = file[a]]
  /\ acked' = [acked EXCEPT ![a] = {}]
  /\ GoTo(a, "flushing")
  /\ UNCHANGED <<serverVars, poll, reply, batch, current, attempt, awaited, file, history>>

FlushPost(a) ==
  /\ pc[a] = "flushing"
  /\ \E b \in todo[a] :
       /\ Post(a, b)
       /\ current' = [current EXCEPT ![a] = b]
       /\ todo' = [todo EXCEPT ![a] = @ \ {b}]
  /\ GoTo(a, "flushwait")
  /\ UNCHANGED <<store, status, waiter, lateCount, ingested, poll, reply, batch, attempt,
                 acked, file, history>>

FlushAcked(a) ==
  /\ pc[a] = "flushwait"
  /\ Received(a, "ok")
  /\ acked' = [acked EXCEPT ![a] = @ \cup {current[a]}]
  /\ current' = [current EXCEPT ![a] = NoBody]
  /\ GoTo(a, "flushing")
  /\ UNCHANGED <<store, status, waiter, lateCount, ingested, poll, reply, batch, attempt,
                 todo, file, history>>

\* A non-2xx answer, an error or a timeout: the row stays in the file.
FlushFailed(a, broken) ==
  /\ pc[a] = "flushwait"
  /\ IF broken THEN HangUp(a) /\ Fault ELSE Received(a, "error") /\ UNCHANGED faults
  /\ current' = [current EXCEPT ![a] = NoBody]
  /\ GoTo(a, "flushing")
  /\ UNCHANGED <<store, status, waiter, lateCount, ingested, poll, reply, batch, attempt,
                 todo, acked, file, runs, outcome, swallowed, crashed>>

\* savePendingResults: the rows are in the file, or the write fails, which is only logged,
\* and leaves the file as it was or cut off (loadPendingResults takes that for empty).
SaveRows(a, rows, unwritten) ==
  \E left \in IF unwritten THEN {file[a], {}} ELSE {rows} :
    /\ file' = [file EXCEPT ![a] = left]
    /\ Swallow({b.job : b \in rows \ left}, "retry")

\* Mutant: the file is emptied after a flush, whatever was acknowledged.
FlushSaveAll(a, unwritten) ==
  /\ pc[a] = "flushing"
  /\ todo[a] = {}
  /\ ~unwritten
  /\ file' = [file EXCEPT ![a] = {}]
  /\ GoTo(a, "poll")
  /\ UNCHANGED <<serverVars, poll, reply, batch, current, attempt, awaited, todo, acked,
                 history>>

\* The rows without a 2xx are saved, once every row has been tried and one had it.
FlushSave(a, unwritten) ==
  /\ pc[a] = "flushing"
  /\ todo[a] = {}
  /\ IF unwritten THEN acked[a] # {} /\ Fault ELSE UNCHANGED faults
  /\ SaveRows(a, file[a] \ acked[a], unwritten)
  /\ GoTo(a, "poll")
  /\ UNCHANGED <<serverVars, poll, reply, batch, current, attempt, awaited, todo, acked,
                 runs, outcome, crashed>>
-----------------------------------------------------------------------------
(* Agent: fetchJobsOnce.                                                   *)

PollSend(a) ==
  /\ pc[a] = "poll"
  /\ poll' = [poll EXCEPT ![a] = "sent"]
  /\ GoTo(a, "pollwait")
  /\ UNCHANGED <<serverVars, reply, batch, current, attempt, awaited, todo, acked, file,
                 history>>

\* Mutant: an answer of one job counts as empty.
PollReceivedMany(a) ==
  /\ pc[a] = "pollwait"
  /\ poll[a] = "answered"
  /\ batch' = [batch EXCEPT ![a] =
                 IF Cardinality(reply[a]) > 1 THEN reply[a] ELSE {}]
  /\ reply' = [reply EXCEPT ![a] = {}]
  /\ poll' = [poll EXCEPT ![a] = "idle"]
  /\ GoTo(a, "run")
  /\ UNCHANGED <<serverVars, current, attempt, awaited, todo, acked, file, history>>

PollReceived(a) ==
  /\ pc[a] = "pollwait"
  /\ poll[a] = "answered"
  /\ batch' = [batch EXCEPT ![a] = reply[a]]
  /\ reply' = [reply EXCEPT ![a] = {}]
  /\ poll' = [poll EXCEPT ![a] = "idle"]
  /\ GoTo(a, "run")
  /\ UNCHANGED <<serverVars, current, attempt, awaited, todo, acked, file, history>>

\* The poll is over for the agent; if it had not been handled it may still be later.
AbandonPoll(a) ==
  /\ poll' = [poll EXCEPT ![a] = "idle"]
  /\ reply' = [reply EXCEPT ![a] = {}]
  /\ \/ UNCHANGED lateCount
     \/ poll[a] = "sent" /\ lateCount' = [lateCount EXCEPT ![a] = @ + 1]

\* Timeout or connection error: fetchJobsOnce returns [] and the loop starts over.
PollFailed(a, broken) ==
  /\ pc[a] = "pollwait"
  /\ IF broken THEN Fault ELSE poll[a] = "reset" /\ UNCHANGED faults
  /\ AbandonPoll(a)
  /\ GoTo(a, "flush")
  /\ UNCHANGED <<store, status, waiter, request, ingested, batch, current, attempt,
                 awaited, todo, acked, file, runs, outcome, swallowed, crashed>>
-----------------------------------------------------------------------------
(* Agent: handleJob and sendResult.                                        *)

Execute(a, j, o) ==
  /\ pc[a] = "run"
  /\ j \in batch[a]
  /\ batch' = [batch EXCEPT ![a] = @ \ {j}]
  /\ runs' = [runs EXCEPT ![j] = @ + 1]
  /\ outcome' = [outcome EXCEPT ![j] = @ \cup {o}]
  /\ current' = [current EXCEPT ![a] = [job |-> j, status |-> o]]
  /\ attempt' = [attempt EXCEPT ![a] = 1]
  /\ GoTo(a, "send")
  /\ UNCHANGED <<serverVars, poll, reply, awaited, todo, acked, file, swallowed, crashed,
                 faults>>

BatchDone(a) ==
  /\ pc[a] = "run"
  /\ batch[a] = {}
  /\ GoTo(a, "flush")
  /\ UNCHANGED <<serverVars, poll, reply, batch, current, attempt, awaited, todo, acked,
                 file, history>>

SendResult(a) ==
  /\ pc[a] = "send"
  /\ Post(a, current[a])
  /\ GoTo(a, "sendwait")
  /\ UNCHANGED <<store, status, waiter, lateCount, ingested, poll, reply, batch, current,
                 attempt, todo, acked, file, history>>

ResultSent(a) ==
  /\ pc[a] = "sendwait"
  /\ Received(a, "ok")
  /\ current' = [current EXCEPT ![a] = NoBody]
  /\ GoTo(a, "run")
  /\ UNCHANGED <<store, status, waiter, lateCount, ingested, poll, reply, batch, attempt,
                 todo, acked, file, history>>

\* First timeout: try once more.
SendAgain(a) ==
  /\ pc[a] = "sendwait"
  /\ attempt[a] = 1
  /\ Fault
  /\ HangUp(a)
  /\ attempt' = [attempt EXCEPT ![a] = 2]
  /\ GoTo(a, "send")
  /\ UNCHANGED <<store, status, waiter, lateCount, ingested, poll, reply, batch, current,
                 todo, acked, file, runs, outcome, swallowed, crashed>>

\* Mutant: the result is given up instead of being queued.
QueueNothing(a, broken, unwritten) ==
  /\ pc[a] = "sendwait"
  /\ ~unwritten
  /\ IF broken THEN HangUp(a) /\ Fault ELSE Received(a, "error") /\ UNCHANGED faults
  /\ current' = [current EXCEPT ![a] = NoBody]
  /\ GoTo(a, "run")
  /\ UNCHANGED <<store, status, waiter, lateCount, ingested, poll, reply, batch, attempt,
                 todo, acked, file, runs, outcome, swallowed, crashed>>

\* Any other error, or a second timeout: the body is added to the retry file.
QueueOffline(a, broken, unwritten) ==
  /\ pc[a] = "sendwait"
  /\ IF broken THEN HangUp(a) ELSE Received(a, "error")
  /\ IF broken \/ unwritten THEN Fault ELSE UNCHANGED faults
  /\ SaveRows(a, file[a] \cup {current[a]}, unwritten)
  /\ current' = [current EXCEPT ![a] = NoBody]
  /\ GoTo(a, "run")
  /\ UNCHANGED <<store, status, waiter, lateCount, ingested, poll, reply, batch, attempt,
                 todo, acked, runs, outcome, crashed>>
-----------------------------------------------------------------------------
(* Agent: crash and restart.                                               *)

\* savePendingResults rewrites the file in place, so a crash inside it leaves JSON that
\* loadPendingResults takes for an empty list.
MayBeWriting(a) ==
  pc[a] = "sendwait" \/ (pc[a] = "flushing" /\ todo[a] = {} /\ acked[a] # {})

AgentCrash(a) ==
  /\ pc[a] # "down"
  /\ Fault
  /\ crashed' = crashed \cup {a}
  /\ IF Waiting(a) THEN HangUp(a) ELSE UNCHANGED <<request, awaited>>
  /\ AbandonPoll(a)
  /\ batch' = [batch EXCEPT ![a] = {}]
  /\ current' = [current EXCEPT ![a] = NoBody]
  /\ todo' = [todo EXCEPT ![a] = {}]
  /\ acked' = [acked EXCEPT ![a] = {}]
  /\ \/ UNCHANGED file
     \/ MayBeWriting(a) /\ file' = [file EXCEPT ![a] = {}]
  /\ GoTo(a, "down")
  /\ UNCHANGED <<store, status, waiter, ingested, attempt, runs, outcome, swallowed>>

AgentRestart(a) ==
  /\ pc[a] = "down"
  /\ GoTo(a, "flush")
  /\ UNCHANGED <<serverVars, poll, reply, batch, current, attempt, awaited, todo, acked,
                 file, history>>
-----------------------------------------------------------------------------
AgentLoop(a) ==
  \/ FlushStart(a) \/ FlushPost(a) \/ FlushAcked(a) \/ FlushSave(a, FALSE)
  \/ PollSend(a) \/ PollReceived(a)
  \/ \E j \in Jobs, o \in Terminal : Execute(a, j, o)
  \/ BatchDone(a) \/ SendResult(a) \/ ResultSent(a)
  \/ AgentRestart(a)
  \/ FlushFailed(a, FALSE) \/ PollFailed(a, FALSE)
  \/ QueueOffline(a, FALSE, FALSE)

\* Every step of the agent that a fault causes.
AgentFault(a) ==
  \/ FlushFailed(a, TRUE) \/ FlushSave(a, TRUE) \/ PollFailed(a, TRUE)
  \/ QueueOffline(a, TRUE, FALSE) \/ \E broken \in BOOLEAN : QueueOffline(a, broken, TRUE)
  \/ SendAgain(a) \/ AgentCrash(a)

Server ==
  \/ \E j \in Jobs, w \in {"none", "waiting"} : CreateJob(j, w)
  \/ \E a \in Agents : PollJobs(a) \/ PollJobsLate(a)
  \/ \E r \in Slots : SubmitResult(r) \/ FinishIngest(r)
  \/ \E j \in Jobs : WaiterStep(j)
  \/ ServerCrash

Next ==
  \/ Server
  \/ \E a \in Agents : AgentLoop(a) \/ AgentFault(a)

Spec == Init /\ [][Next]_vars

\* Node's event loop runs every timer and every completed request, the loop of the agent
\* never returns, and a stopped agent is started again by its Windows service.
Fairness ==
  /\ \A a \in Agents : /\ WF_vars(AgentLoop(a))
                       /\ WF_vars(PollJobs(a)) /\ WF_vars(PollJobsLate(a))
  /\ \A r \in Slots : WF_vars(SubmitResult(r)) /\ WF_vars(FinishIngest(r))
  /\ \A j \in Jobs : WF_vars(WaiterStep(j))

FairSpec == Spec /\ Fairness
-----------------------------------------------------------------------------
(* Properties.                                                             *)

Overlooked(j, calls) == swallowed[j] \cap calls # {}

\* No job runs twice at the device, whatever is lost, retried or restarted: claiming marks
\* the rows before the answer leaves (agentJob.service.js:118) and nothing re-queues them.
\* Only in the JSON file can a claim go unmarked (agentJob.service.js:50-56, 192-195).
AtMostOnce == \A j \in Jobs : runs[j] > 1 => FileStore /\ Overlooked(j, {"claim"})

\* A result on its way, in the retry file or in the table is what happened at the device,
\* in one of the job's runs if a lost mark made it run again.
\* submitResult overwrites any status, so this is what keeps late and repeated posts harmless.
Truthful ==
  /\ \A j \in Jobs : status[j] \in Terminal => status[j] \in outcome[j]
  /\ \A r \in Slots : request[r] # Free =>
       request[r].body.status \in outcome[request[r].body.job]
  /\ \A a \in Agents : \A b \in file[a] : b.status \in outcome[b.job]

\* A caller of the relay that got an answer got a true one, and it stays true.
AnswerTrue ==
  \A j \in Jobs : /\ waiter[j] = "ok" => "success" \in outcome[j]
                  /\ waiter[j] = "failed" => outcome[j] \cap {"failed", "timeout"} # {}

Held(a, j, s) == [job |-> j, status |-> s] \in file[a] \cup {current[a]}

\* As long as the agent has not crashed, what the server still needs of a result (its
\* status, or the run of its attendance import) is with the agent: in memory or in the
\* file.  The exceptions are the writes and imports whose failure is only logged
\* (polling-agent.js:93-97, agentJob.service.js:50-56, agentJob.controller.js:459-462).
ResultKept ==
  \A j \in store :
    AgentOf[j] \notin crashed =>
      /\ status[j] = "in_progress" /\ outcome[j] # {}
           => \/ \E s \in outcome[j] : Held(AgentOf[j], j, s)
              \/ Overlooked(j, {"result", "retry"})
      /\ j \in Ingesting \ ingested /\ "success" \in outcome[j]
           => Held(AgentOf[j], j, "success") \/ Overlooked(j, {"import", "retry"})

\* A reported status is final (a wiped JSON file makes the row vanish, not change), unless
\* the job was handed out unmarked and ran again.
ReportFinal ==
  [][\A j \in Jobs : status[j] \in Terminal /\ ~Overlooked(j, {"claim"})
       => status'[j] = status[j]]_vars

\* The queue implements the abstract relay.
Relay == INSTANCE AgentJobs WITH
  phase <- [j \in Jobs |-> CASE status[j] = "none" -> "absent"
                             [] status[j] = "pending" -> "queued"
                             [] status[j] = "in_progress" -> "handed"
                             [] OTHER -> status[j]],
  device <- outcome,
  answer <- waiter,
  slipped <- {j \in Jobs : Overlooked(j, {"claim"})}

RelayPromise == Relay!Spec

\* What an agent executed reaches the table, however many posts fail, unless the agent
\* crashed with the result in memory or while rewriting its file, or could not write the
\* file (database store).
Reported ==
  \A j \in Jobs :
    outcome[j] # {}
      ~> status[j] \in outcome[j] \/ AgentOf[j] \in crashed \/ Overlooked(j, {"retry"})

\* So does the attendance it read: it is imported, unless the import itself fails, which
\* the agent is not told of.
Imported ==
  \A j \in Ingesting :
    "success" \in outcome[j]
      ~> j \in ingested \/ AgentOf[j] \in crashed \/ Overlooked(j, {"import", "retry"})

\* A queued job is taken by some poll, also when a poll cannot take all that are queued:
\* crashes, lost polls and other jobs only delay it.
Claimed == \A j \in Jobs : status[j] = "pending" ~> status[j] # "pending"

\* Without any fault every submitted job ends.
Finishes == \A j \in Jobs : status[j] = "pending" ~> status[j] \in Terminal \/ faults > 0
=============================================================================
