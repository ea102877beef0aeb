------------------------ MODULE AgentJobQueue_proofs ------------------------
(***************************************************************************)
(* Proofs about AgentJobQueue, for any jobs, agents, request slots, batch  *)
(* limit and number of faults, and for both stores.                        *)
(*                                                                         *)
(* And about SyncCenter, the page whose calls are relayed: for any         *)
(* terminals, user ids, handlers under way and number of clicks.           *)
(***************************************************************************)
EXTENDS AgentJobQueue, SyncCenter, FiniteSetTheorems, WellFoundedInduction, TLAPS

-----------------------------------------------------------------------------
(* Type correctness.                                                       *)

\* What the agent posts is a body: the loop is at a posting step only with a current one.
HasBody == \A a \in Agents :
  pc[a] \in {"flushwait", "send", "sendwait"} => current[a] \in Body

TypeInv == TypeOK /\ HasBody

\* Whatever the server answers, the slot holds a request or is free.
LEMMA RespondType ==
  ASSUME NEW r \in Slots, request[r] \in Request, NEW code \in {"ok", "error"}
  PROVE  Respond(r, code) \in Request \cup {Free}
BY DEF Respond, Request, Free

LEMMA HangUpType ==
  ASSUME TypeOK, NEW a \in Agents, HangUp(a)
  PROVE  /\ request' \in [Slots -> Request \cup {Free}]
         /\ awaited' \in [Agents -> Slots \cup {NoSlot}]
BY DEF TypeOK, HangUp, Waiting

LEMMA ReceivedType ==
  ASSUME TypeOK, NEW a \in Agents, NEW code, Received(a, code)
  PROVE  /\ request' \in [Slots -> Request \cup {Free}]
         /\ awaited' \in [Agents -> Slots \cup {NoSlot}]
BY DEF TypeOK, Received, Waiting

LEMMA PostType ==
  ASSUME TypeOK, NEW a \in Agents, NEW b \in Body, Post(a, b)
  PROVE  /\ request' \in [Slots -> Request \cup {Free}]
         /\ awaited' \in [Agents -> Slots \cup {NoSlot}]
<1>1. [stage |-> "sent", body |-> b] \in Request
  BY DEF Request
<1> QED
  BY <1>1 DEF TypeOK, Post

LEMMA FaultType ==
  ASSUME TypeOK, Fault
  PROVE  faults' \in 0 .. MaxFaults
BY QueueAssumption DEF TypeOK, Fault

Calls == {"claim", "result", "import", "retry"}

LEMMA SwallowType ==
  ASSUME TypeOK, NEW S, NEW c \in Calls, Swallow(S, c)
  PROVE  swallowed' \in [Jobs -> SUBSET Calls]
BY DEF TypeOK, Swallow, Calls

LEMMA UnwrittenType ==
  ASSUME TypeOK, StoreUnwritten
  PROVE  store' \subseteq Jobs /\ faults' \in 0 .. MaxFaults
BY FaultType DEF TypeOK, StoreUnwritten

\* What a claim or a completion leaves of the server's job table.
TableType ==
  /\ store \subseteq Jobs
  /\ status \in [Jobs -> {"none", "pending", "in_progress"} \cup Terminal]
  /\ swallowed \in [Jobs -> SUBSET Calls]
  /\ faults \in 0 .. MaxFaults

LEMMA ClaimType ==
  ASSUME TypeOK, NEW S \in SUBSET Jobs, Claim(S)
  PROVE  TableType'
BY SwallowType, UnwrittenType DEF TypeOK, TableType, Claim, Calls

LEMMA CompleteType ==
  ASSUME TypeOK, NEW b \in Body, Complete(b)
  PROVE  TableType'
BY SwallowType, UnwrittenType DEF TypeOK, TableType, Complete, Calls, Body

LEMMA SaveType ==
  ASSUME TypeOK, NEW a \in Agents, NEW rows \in SUBSET Body, NEW unwritten \in BOOLEAN,
         SaveRows(a, rows, unwritten)
  PROVE  /\ file' \in [Agents -> SUBSET Body]
         /\ swallowed' \in [Jobs -> SUBSET Calls]
BY SwallowType DEF TypeOK, SaveRows, Calls

LEMMA TypeInit == Init => TypeInv
BY QueueAssumption DEF Init, TypeInv, TypeOK, HasBody, Free

LEMMA TypeStep == TypeInv /\ [Next]_vars => TypeInv'
<1> SUFFICES ASSUME TypeOK, HasBody, [Next]_vars
             PROVE  TypeOK' /\ HasBody'
  BY DEF TypeInv
<1> USE DEF HasBody, serverVars, agentVars, history
<1>1. ASSUME NEW j \in Jobs, NEW w \in {"none", "waiting"}, CreateJob(j, w)
      PROVE  TypeOK' /\ HasBody'
  BY <1>1, UnwrittenType DEF TypeOK, CreateJob
<1>2. ASSUME NEW a \in Agents, PollJobs(a)
      PROVE  TypeOK' /\ HasBody'
  <2>1. PICK S \in SUBSET Jobs : Claim(S) /\ reply' = [reply EXCEPT ![a] = S]
    BY <1>2 DEF PollJobs, Claimable, Pending, TypeOK
  <2>2. TableType'
    BY <2>1, ClaimType
  <2> QED
    BY <1>2, <2>1, <2>2 DEF TypeOK, PollJobs, TableType, Calls
<1>3. ASSUME NEW a \in Agents, PollJobsLate(a)
      PROVE  TypeOK' /\ HasBody'
  <2>1. PICK S \in SUBSET Jobs : Claim(S)
    BY <1>3 DEF PollJobsLate, Claimable, Pending, TypeOK
  <2>2. TableType'
    BY <2>1, ClaimType
  <2> QED
    BY <1>3, <2>1, <2>2 DEF TypeOK, PollJobsLate, TableType, Calls
<1>4. ASSUME NEW r \in Slots, SubmitResult(r)
      PROVE  TypeOK' /\ HasBody'
  <2>1. request[r] \in Request
    BY <1>4 DEF TypeOK, SubmitResult, Free
  <2>2. /\ Respond(r, "ok") \in Request \cup {Free}
        /\ Respond(r, "error") \in Request \cup {Free}
        /\ [stage |-> "ingesting", body |-> request[r].body] \in Request
    BY <2>1, RespondType DEF Request
  <2>3. request' \in [Slots -> Request \cup {Free}]
    BY <1>4, <2>2 DEF TypeOK, SubmitResult
  <2>4. request[r].body \in Body
    BY <2>1 DEF Request
  <2>5. TableType'
    BY <1>4, <2>4, CompleteType, FaultType DEF SubmitResult, TableType, TypeOK, Calls
  <2> QED
    BY <1>4, <2>3, <2>5 DEF TypeOK, SubmitResult, TableType, Calls
<1>5. ASSUME NEW r \in Slots, FinishIngest(r)
      PROVE  TypeOK' /\ HasBody'
  <2>1. request[r] \in Request
    BY <1>5 DEF TypeOK, FinishIngest, Free
  <2>2. Respond(r, "ok") \in Request \cup {Free} /\ request[r].body.job \in Jobs
    BY <2>1, RespondType DEF Request, Body
  <2>3. swallowed' \in [Jobs -> SUBSET Calls] /\ faults' \in 0 .. MaxFaults
    BY <1>5, SwallowType, FaultType DEF FinishIngest, TypeOK, Calls
  <2> QED
    BY <1>5, <2>2, <2>3 DEF TypeOK, FinishIngest, Calls
<1>6. ASSUME NEW j \in Jobs, WaiterStep(j)
      PROVE  TypeOK' /\ HasBody'
  BY <1>6 DEF TypeOK, WaiterStep
<1>7. ASSUME ServerCrash
      PROVE  TypeOK' /\ HasBody'
  <2>1. \A r \in Slots : request[r] # Free => Respond(r, "error") \in Request \cup {Free}
    BY RespondType DEF TypeOK
  <2>2. request' \in [Slots -> Request \cup {Free}]
    BY <1>7, <2>1 DEF ServerCrash
  <2> QED
    BY <1>7, <2>2, FaultType DEF TypeOK, ServerCrash
<1>8. ASSUME NEW a \in Agents, FlushStart(a)
      PROVE  TypeOK' /\ HasBody'
  BY <1>8 DEF TypeOK, FlushStart, GoTo
<1>9. ASSUME NEW a \in Agents, NEW unwritten \in BOOLEAN, FlushSave(a, unwritten)
      PROVE  TypeOK' /\ HasBody'
  <2>1. file[a] \ acked[a] \in SUBSET Body
    BY DEF TypeOK
  <2>2. /\ file' \in [Agents -> SUBSET Body]
        /\ swallowed' \in [Jobs -> SUBSET Calls]
    BY <1>9, <2>1, SaveType DEF FlushSave
  <2>3. faults' \in 0 .. MaxFaults
    BY <1>9, FaultType DEF FlushSave, TypeOK
  <2> QED
    BY <1>9, <2>2, <2>3 DEF TypeOK, FlushSave, GoTo, Calls
<1>10. ASSUME NEW a \in Agents, PollSend(a)
      PROVE  TypeOK' /\ HasBody'
  BY <1>10 DEF TypeOK, PollSend, GoTo
<1>11. ASSUME NEW a \in Agents, PollReceived(a)
      PROVE  TypeOK' /\ HasBody'
  BY <1>11 DEF TypeOK, PollReceived, GoTo
<1>12. ASSUME NEW a \in Agents, BatchDone(a)
      PROVE  TypeOK' /\ HasBody'
  BY <1>12 DEF TypeOK, BatchDone, GoTo
<1>13. ASSUME NEW a \in Agents, AgentRestart(a)
      PROVE  TypeOK' /\ HasBody'
  BY <1>13 DEF TypeOK, AgentRestart, GoTo
<1>14. ASSUME NEW a \in Agents, FlushPost(a)
      PROVE  TypeOK' /\ HasBody'
  <2> PICK b \in todo[a] : /\ Post(a, b)
                           /\ current' = [current EXCEPT ![a] = b]
                           /\ todo' = [todo EXCEPT ![a] = @ \ {b}]
    BY <1>14 DEF FlushPost
  <2>1. b \in Body
    BY DEF TypeOK
  <2> QED
    BY <1>14, <2>1, PostType DEF TypeOK, FlushPost, GoTo
<1>15. ASSUME NEW a \in Agents, SendResult(a)
      PROVE  TypeOK' /\ HasBody'
  <2>1. current[a] \in Body
    BY <1>15 DEF SendResult
  <2> QED
    BY <1>15, <2>1, PostType DEF TypeOK, SendResult, GoTo
<1>16. ASSUME NEW a \in Agents, FlushAcked(a)
      PROVE  TypeOK' /\ HasBody'
  BY <1>16, ReceivedType DEF TypeOK, FlushAcked, GoTo
<1>17. ASSUME NEW a \in Agents, ResultSent(a)
      PROVE  TypeOK' /\ HasBody'
  BY <1>17, ReceivedType DEF TypeOK, ResultSent, GoTo
<1>18. ASSUME NEW a \in Agents, NEW j \in Jobs, NEW o \in Terminal, Execute(a, j, o)
      PROVE  TypeOK' /\ HasBody'
  <2>1. [job |-> j, status |-> o] \in Body
    BY DEF Body
  <2> QED
    BY <1>18, <2>1 DEF TypeOK, Execute, GoTo
<1>19. ASSUME NEW a \in Agents, NEW broken \in BOOLEAN, FlushFailed(a, broken)
      PROVE  TypeOK' /\ HasBody'
  BY <1>19, ReceivedType, HangUpType, FaultType DEF TypeOK, FlushFailed, GoTo
<1>20. ASSUME NEW a \in Agents, NEW broken \in BOOLEAN, NEW unwritten \in BOOLEAN,
              QueueOffline(a, broken, unwritten)
      PROVE  TypeOK' /\ HasBody'
  <2>1. file[a] \cup {current[a]} \in SUBSET Body
    BY <1>20 DEF TypeOK, QueueOffline
  <2>2. /\ file' \in [Agents -> SUBSET Body]
        /\ swallowed' \in [Jobs -> SUBSET Calls]
    BY <1>20, <2>1, SaveType DEF QueueOffline
  <2>3. faults' \in 0 .. MaxFaults
    BY <1>20, FaultType DEF QueueOffline, TypeOK
  <2> QED
    BY <1>20, <2>2, <2>3, ReceivedType, HangUpType DEF TypeOK, QueueOffline, GoTo, Calls
<1>21. ASSUME NEW a \in Agents, NEW broken \in BOOLEAN, PollFailed(a, broken)
      PROVE  TypeOK' /\ HasBody'
  BY <1>21, FaultType DEF TypeOK, PollFailed, AbandonPoll, GoTo
<1>22. ASSUME NEW a \in Agents, SendAgain(a)
      PROVE  TypeOK' /\ HasBody'
  BY <1>22, HangUpType, FaultType DEF TypeOK, SendAgain, GoTo
<1>23. ASSUME NEW a \in Agents, AgentCrash(a)
      PROVE  TypeOK' /\ HasBody'
  <2>1. /\ request' \in [Slots -> Request \cup {Free}]
        /\ awaited' \in [Agents -> Slots \cup {NoSlot}]
    BY <1>23, HangUpType DEF AgentCrash, TypeOK
  <2>2. file' \in [Agents -> SUBSET Body]
    BY <1>23 DEF AgentCrash, TypeOK
  <2>3. /\ lateCount' \in [Agents -> Nat]
        /\ poll' \in [Agents -> {"idle", "sent", "answered", "reset"}]
        /\ reply' \in [Agents -> SUBSET Jobs]
    BY <1>23 DEF AgentCrash, AbandonPoll, TypeOK
  <2>4. faults' \in 0 .. MaxFaults
    BY <1>23, FaultType DEF AgentCrash
  <2>5. HasBody'
    BY <1>23 DEF AgentCrash, GoTo, TypeOK
  <2> QED
    BY <1>23, <2>1, <2>2, <2>3, <2>4, <2>5 DEF TypeOK, AgentCrash, GoTo
<1>24. CASE UNCHANGED vars
  BY <1>24 DEF TypeOK, vars
<1> QED
  BY <1>1, <1>2, <1>3, <1>4, <1>5, <1>6, <1>7, <1>8, <1>9, <1>10, <1>11, <1>12, <1>13, <1>14, <1>15, <1>16, <1>17, <1>18, <1>19, <1>20, <1>21, <1>22, <1>23, <1>24
     DEF Next, Server, AgentLoop, AgentFault

\* TypeOK: every variable keeps its type in every behaviour.
THEOREM TypeCorrect == Spec => []TypeOK
<1>1. TypeInv => TypeOK
  BY DEF TypeInv
<1> QED
  BY <1>1, TypeInit, TypeStep, PTL DEF Spec

-----------------------------------------------------------------------------
(* At most once, and the truth about it.                                   *)
(*                                                                         *)
(* A job whose claims were all recorded is with an agent (in the answer to *)
(* its poll, or in its batch) only while the row is in_progress and before *)
(* it ran; Execute takes it out of the batch.  Hence one run, one outcome, *)
(* and every body built from that outcome agrees with every other.  Of the *)
(* other jobs each body still is what happened in one of the runs.         *)

\* Where an agent can hold jobs, by the place its loop stands at.
Placed == \A a \in Agents :
  /\ pc[a] # "pollwait" => poll[a] = "idle"
  /\ poll[a] # "answered" => reply[a] = {}
  /\ pc[a] \notin {"run", "send", "sendwait"} => batch[a] = {}

Marked(j) == "claim" \notin swallowed[j]

Handed == \A a \in Agents : \A j \in reply[a] \cup batch[a] :
  /\ AgentOf[j] = a /\ status[j] # "none"
  /\ Marked(j) => status[j] = "in_progress" /\ runs[j] = 0

RanOnce == \A j \in Jobs :
  /\ Marked(j) => runs[j] \in {0, 1} /\ \A o, p \in outcome[j] : o = p
  /\ runs[j] = 0 <=> outcome[j] = {}
  /\ status[j] = "none" => runs[j] = 0
  /\ Marked(j) /\ status[j] = "pending" => runs[j] = 0
  /\ ~Marked(j) => FileStore

TrueBody(b) == b.status \in outcome[b.job]

AgentTrue == \A a \in Agents :
  /\ \A b \in file[a] \cup todo[a] : TrueBody(b)
  /\ pc[a] \in {"flushwait", "send", "sendwait"} => TrueBody(current[a])

RequestTrue == \A r \in Slots : request[r] # Free => TrueBody(request[r].body)

StatusTrue == \A j \in Jobs : status[j] \in Terminal => status[j] \in outcome[j]

JobInv == /\ TypeInv /\ Placed /\ Handed /\ RanOnce
          /\ AgentTrue /\ RequestTrue /\ StatusTrue /\ AnswerTrue

LEMMA JobInit == Init => JobInv
<1> SUFFICES ASSUME Init PROVE Placed /\ Handed /\ RanOnce /\ AgentTrue /\ RequestTrue
                               /\ StatusTrue /\ AnswerTrue
  BY TypeInit DEF JobInv
<1> QED
  BY DEF Init, Placed, Handed, RanOnce, AgentTrue, RequestTrue, StatusTrue, AnswerTrue,
     Terminal, Marked

LEMMA RespondTrue ==
  ASSUME NEW r \in Slots, NEW code, TrueBody(request[r].body),
         Respond(r, code) # Free
  PROVE  TrueBody(Respond(r, code).body)
BY DEF Respond

LEMMA HangUpTrue ==
  ASSUME TypeOK, RequestTrue, NEW a \in Agents, HangUp(a), outcome' = outcome
  PROVE  RequestTrue'
BY DEF TypeOK, RequestTrue, HangUp, TrueBody, Free, Waiting

LEMMA ReceivedTrue ==
  ASSUME TypeOK, RequestTrue, NEW a \in Agents, NEW code, Received(a, code), outcome' = outcome
  PROVE  RequestTrue'
BY DEF TypeOK, RequestTrue, Received, TrueBody, Free, Waiting

LEMMA PostTrue ==
  ASSUME TypeOK, RequestTrue, NEW a \in Agents, NEW b \in Body, TrueBody(b), Post(a, b),
         outcome' = outcome
  PROVE  RequestTrue'
BY DEF TypeOK, RequestTrue, Post, TrueBody, Free


\* The marks are only ever lost, by a claim of a file that cannot be written.
LEMMA SwallowMarks ==
  ASSUME TypeOK, NEW S, NEW c \in Calls, Swallow(S, c)
  PROVE  \A j \in Jobs : /\ Marked(j)' => Marked(j)
                         /\ c # "claim" => Marked(j)' = Marked(j)
                         /\ c = "claim" => Marked(j)' = (Marked(j) /\ j \notin S)
                         /\ swallowed[j] \subseteq swallowed'[j]
BY DEF TypeOK, Swallow, Marked, Calls

LEMMA SaveMarks ==
  ASSUME TypeOK, NEW a \in Agents, NEW rows, NEW unwritten, SaveRows(a, rows, unwritten)
  PROVE  /\ \A j \in Jobs : Marked(j)' = Marked(j)
         /\ file'[a] \subseteq file[a] \cup rows
         /\ \A c \in Agents \ {a} : file'[c] = file[c]
<1>1. PICK left \in {file[a], {}, rows} :
        /\ file' = [file EXCEPT ![a] = left]
        /\ Swallow({b.job : b \in rows \ left}, "retry")
  BY DEF SaveRows
<1>2. \A j \in Jobs : Marked(j)' = Marked(j)
  BY <1>1, SwallowMarks DEF Calls
<1> QED
  BY <1>1, <1>2 DEF TypeOK

\* What a claim does to a job: it is one of S and is marked or loses its mark, or nothing.
LEMMA ClaimEffect ==
  ASSUME TypeOK, NEW S \in SUBSET Jobs, \A j \in S : status[j] = "pending", Claim(S)
  PROVE  \A j \in Jobs :
           /\ Marked(j)' => Marked(j)
           /\ ~Marked(j)' => ~Marked(j) \/ FileStore
           /\ \/ status'[j] = status[j]
              \/ status[j] = "pending" /\ status'[j] = "in_progress"
           /\ j \in S /\ Marked(j)' => status'[j] = "in_progress"
<1>1. CASE /\ status' = [j \in Jobs |-> IF j \in S THEN "in_progress" ELSE status[j]]
           /\ swallowed' = swallowed
  BY <1>1 DEF Marked, TypeOK
<1>2. CASE FileStore /\ Swallow(S, "claim") /\ UNCHANGED status
  BY <1>2, SwallowMarks DEF Calls
<1> QED
  BY <1>1, <1>2 DEF Claim, StoreUnwritten

\* JobInv without its type part.
JobOther == /\ Placed /\ Handed /\ RanOnce
            /\ AgentTrue /\ RequestTrue /\ StatusTrue /\ AnswerTrue

LEMMA JobStep == JobInv /\ [Next]_vars => JobInv'
<1> SUFFICES ASSUME TypeOK, HasBody, TypeOK', JobOther, [Next]_vars
             PROVE  JobOther'
  BY TypeStep DEF JobInv, JobOther, TypeInv
<1> USE DEF JobOther, serverVars, agentVars, history, Marked
<1>1. ASSUME NEW j \in Jobs, NEW w \in {"none", "waiting"}, CreateJob(j, w)
      PROVE  JobOther'
  <2>1. Handed'
    BY <1>1 DEF TypeOK, Placed, Handed, RanOnce, RequestTrue, StatusTrue, AgentTrue, TrueBody, CreateJob, Terminal
  <2>2. RanOnce'
    BY <1>1 DEF TypeOK, Placed, Handed, RanOnce, TrueBody, AgentTrue, RequestTrue, CreateJob, Terminal
  <2>3. StatusTrue'
    BY <1>1 DEF TypeOK, StatusTrue, TrueBody, RequestTrue, CreateJob, Terminal
  <2>4. AnswerTrue'
    BY <1>1 DEF TypeOK, AnswerTrue, StatusTrue, TrueBody, CreateJob, Terminal
  <2>5. Placed' /\ AgentTrue' /\ RequestTrue'
    BY <1>1 DEF Placed, AgentTrue, RequestTrue, TrueBody, CreateJob, Terminal
  <2> QED
    BY <2>1, <2>2, <2>3, <2>4, <2>5
<1>2. ASSUME NEW a \in Agents, PollJobs(a)
      PROVE  JobOther'
  <2>1. PICK S \in SUBSET Jobs : /\ Claim(S) /\ reply' = [reply EXCEPT ![a] = S]
                                 /\ \A j \in S : status[j] = "pending" /\ AgentOf[j] = a
    BY <1>2 DEF PollJobs, Claimable, Pending, TypeOK
  <2>2. UNCHANGED <<runs, outcome, waiter, request, file, todo, pc, current, batch>>
    BY <1>2 DEF PollJobs
  <2>3. \A j \in Jobs :
           /\ Marked(j)' => Marked(j)
           /\ ~Marked(j)' => ~Marked(j) \/ FileStore
           /\ \/ status'[j] = status[j]
              \/ status[j] = "pending" /\ status'[j] = "in_progress"
           /\ j \in S /\ Marked(j)' => status'[j] = "in_progress"
    BY <2>1, ClaimEffect
  <2> HIDE DEF Marked
  <2>4. Placed'
    BY <1>2, <2>2 DEF TypeOK, Placed, PollJobs
  <2>5. Handed'
    <3> SUFFICES ASSUME NEW c \in Agents, NEW j \in reply'[c] \cup batch'[c]
                 PROVE  /\ AgentOf[j] = c /\ status'[j] # "none"
                        /\ Marked(j)' => status'[j] = "in_progress" /\ runs'[j] = 0
      BY DEF Handed
    <3>1. j \in Jobs
      BY DEF TypeOK
    <3>2. CASE j \in reply[c] \cup batch[c]
      BY <2>2, <2>3, <3>1, <3>2 DEF Handed
    <3>3. CASE j \in S /\ c = a
      BY <2>1, <2>2, <2>3, <3>1, <3>3 DEF RanOnce
    <3> QED
      BY <1>2, <2>1, <2>2, <3>2, <3>3 DEF PollJobs, TypeOK
  <2>6. RanOnce'
    BY <2>2, <2>3 DEF RanOnce
  <2>7. StatusTrue'
    BY <2>2, <2>3 DEF StatusTrue, Terminal
  <2>8. AgentTrue' /\ RequestTrue' /\ AnswerTrue'
    BY <2>2 DEF AgentTrue, RequestTrue, AnswerTrue, TrueBody
  <2> QED
    BY <2>4, <2>5, <2>6, <2>7, <2>8
<1>3. ASSUME NEW a \in Agents, PollJobsLate(a)
      PROVE  JobOther'
  <2>1. PICK S \in SUBSET Jobs : /\ Claim(S)
                                 /\ \A j \in S : status[j] = "pending" /\ AgentOf[j] = a
    BY <1>3 DEF PollJobsLate, Claimable, Pending, TypeOK
  <2>2. UNCHANGED <<runs, outcome, waiter, request, file, todo, pc, current, batch>>
    BY <1>3 DEF PollJobsLate
  <2>3. \A j \in Jobs :
           /\ Marked(j)' => Marked(j)
           /\ ~Marked(j)' => ~Marked(j) \/ FileStore
           /\ \/ status'[j] = status[j]
              \/ status[j] = "pending" /\ status'[j] = "in_progress"
           /\ j \in S /\ Marked(j)' => status'[j] = "in_progress"
    BY <2>1, ClaimEffect
  <2> HIDE DEF Marked
  <2>4. Placed'
    BY <1>3, <2>2 DEF TypeOK, Placed, PollJobsLate
  <2>5. Handed'
    <3> SUFFICES ASSUME NEW c \in Agents, NEW j \in reply'[c] \cup batch'[c]
                 PROVE  /\ AgentOf[j] = c /\ status'[j] # "none"
                        /\ Marked(j)' => status'[j] = "in_progress" /\ runs'[j] = 0
      BY DEF Handed
    <3>1. j \in Jobs
      BY DEF TypeOK
    <3>2. CASE j \in reply[c] \cup batch[c]
      BY <2>2, <2>3, <3>1, <3>2 DEF Handed
    <3>3. CASE j \in S /\ c = a
      BY <2>1, <2>2, <2>3, <3>1, <3>3 DEF RanOnce
    <3> QED
      BY <1>3, <2>1, <2>2, <3>2, <3>3 DEF PollJobsLate, TypeOK
  <2>6. RanOnce'
    BY <2>2, <2>3 DEF RanOnce
  <2>7. StatusTrue'
    BY <2>2, <2>3 DEF StatusTrue, Terminal
  <2>8. AgentTrue' /\ RequestTrue' /\ AnswerTrue'
    BY <2>2 DEF AgentTrue, RequestTrue, AnswerTrue, TrueBody
  <2> QED
    BY <2>4, <2>5, <2>6, <2>7, <2>8
<1>4. ASSUME NEW r \in Slots, SubmitResult(r)
      PROVE  JobOther'
  <2>1. request[r] \in Request /\ request[r] # Free
    BY <1>4 DEF TypeOK, SubmitResult, Free
  <2>2. PICK b \in Body, j \in Jobs :
          b = request[r].body /\ j = b.job /\ b.status \in Terminal /\ b.status \in outcome[j]
    BY <2>1 DEF RequestTrue, TrueBody, Request, Body
  <2>3. runs[j] # 0
    BY <2>2 DEF RanOnce
  <2>4. UNCHANGED <<runs, outcome, waiter, poll, reply, file, todo, pc, current, batch>>
    BY <1>4 DEF SubmitResult
  <2>5. /\ status' = status \/ status' = [status EXCEPT ![j] = b.status]
        /\ \A i \in Jobs : Marked(i)' = Marked(i)
    BY <1>4, <2>2, SwallowMarks DEF SubmitResult, Complete, Calls
  <2>6. \A i \in Jobs : status'[i] = status[i] \/ (i = j /\ status'[i] = b.status)
    BY <2>5 DEF TypeOK
  <2> HIDE DEF Marked
  <2>7. Handed'
    BY <2>2, <2>3, <2>4, <2>5, <2>6 DEF TypeOK, Handed, RanOnce, Terminal
  <2>8. RanOnce'
    BY <2>2, <2>3, <2>4, <2>5, <2>6 DEF RanOnce, Terminal
  <2>9. RequestTrue'
    <3>1. TrueBody(request[r].body)
      BY <2>2 DEF TrueBody
    <3>2. \A s \in Slots \ {r} : request'[s] = request[s]
      BY <1>4 DEF SubmitResult, TypeOK
    <3>3. \/ request'[r] \in {Respond(r, "ok"), Respond(r, "error")}
          \/ request'[r] = [stage |-> "ingesting", body |-> request[r].body]
      BY <1>4 DEF SubmitResult, TypeOK
    <3>4. request'[r] # Free => TrueBody(request'[r].body)
      BY <3>1, <3>3, RespondTrue
    <3> QED
      BY <2>4, <3>2, <3>4 DEF RequestTrue, TrueBody
  <2>10. StatusTrue'
    BY <2>2, <2>4, <2>6 DEF StatusTrue
  <2>11. Placed' /\ AgentTrue' /\ AnswerTrue'
    BY <2>4 DEF Placed, AgentTrue, AnswerTrue, TrueBody
  <2> QED
    BY <2>7, <2>8, <2>9, <2>10, <2>11
<1>5. ASSUME NEW r \in Slots, FinishIngest(r)
      PROVE  JobOther'
  <2>1. request[r] # Free
    BY <1>5 DEF TypeOK, FinishIngest, Free
  <2>2. RequestTrue'
    BY <1>5, <2>1, RespondTrue DEF TypeOK, RequestTrue, TrueBody, FinishIngest
  <2>3. \A j \in Jobs : Marked(j)' = Marked(j)
    BY <1>5, SwallowMarks DEF FinishIngest, Calls
  <2>4. UNCHANGED <<status, runs, outcome, waiter, poll, reply, file, todo, pc, current, batch>>
    BY <1>5 DEF FinishIngest
  <2> HIDE DEF Marked
  <2>5. Handed' /\ RanOnce'
    BY <2>3, <2>4 DEF Handed, RanOnce, TypeOK
  <2>6. Placed' /\ AgentTrue' /\ StatusTrue' /\ AnswerTrue'
    BY <2>4 DEF Placed, AgentTrue, StatusTrue, AnswerTrue, TrueBody
  <2> QED
    BY <2>2, <2>5, <2>6
<1>6. ASSUME NEW j \in Jobs, WaiterStep(j)
      PROVE  JobOther'
  <2>1. AnswerTrue'
    BY <1>6 DEF TypeOK, AnswerTrue, StatusTrue, TrueBody, WaiterStep, Terminal
  <2>2. Placed' /\ Handed' /\ RanOnce' /\ AgentTrue' /\ RequestTrue' /\ StatusTrue'
    BY <1>6 DEF Placed, Handed, RanOnce, AgentTrue, RequestTrue, StatusTrue, TrueBody, WaiterStep, Terminal
  <2> QED
    BY <2>1, <2>2
<1>7. ASSUME ServerCrash
      PROVE  JobOther'
  <2>1. Placed'
    BY <1>7 DEF TypeOK, Placed, ServerCrash
  <2>2. Handed'
    BY <1>7 DEF TypeOK, Placed, Handed, RanOnce, RequestTrue, StatusTrue, AgentTrue, TrueBody, ServerCrash
  <2>3. RequestTrue'
    BY <1>7, RespondTrue DEF TypeOK, RequestTrue, TrueBody, ServerCrash
  <2>4. AnswerTrue'
    BY <1>7 DEF TypeOK, AnswerTrue, StatusTrue, TrueBody, ServerCrash
  <2>5. RanOnce' /\ AgentTrue' /\ StatusTrue'
    BY <1>7 DEF RanOnce, AgentTrue, StatusTrue, TrueBody, ServerCrash
  <2> QED
    BY <2>1, <2>2, <2>3, <2>4, <2>5
<1>8. ASSUME NEW a \in Agents, FlushStart(a)
      PROVE  JobOther'
  <2>1. Placed'
    BY <1>8 DEF TypeOK, Placed, FlushStart, GoTo
  <2>2. AgentTrue'
    BY <1>8 DEF TypeOK, AgentTrue, TrueBody, RanOnce, Handed, HasBody, Body, FlushStart, GoTo
  <2>3. Handed' /\ RanOnce' /\ RequestTrue' /\ StatusTrue' /\ AnswerTrue'
    BY <1>8 DEF Handed, RanOnce, RequestTrue, StatusTrue, AnswerTrue, TrueBody, FlushStart, GoTo
  <2> QED
    BY <2>1, <2>2, <2>3
<1>9. ASSUME NEW a \in Agents, NEW unwritten \in BOOLEAN, FlushSave(a, unwritten)
      PROVE  JobOther'
  <2>1. Placed'
    BY <1>9 DEF TypeOK, Placed, FlushSave, GoTo
  <2>2. /\ \A j \in Jobs : Marked(j)' = Marked(j)
        /\ \A c \in Agents : file'[c] \subseteq file[c]
    BY <1>9, SaveMarks DEF FlushSave, TypeOK
  <2>3. UNCHANGED <<status, runs, outcome, waiter, request, poll, reply, todo, current, batch>>
    BY <1>9 DEF FlushSave
  <2> HIDE DEF Marked
  <2>4. AgentTrue'
    BY <1>9, <2>2, <2>3 DEF TypeOK, AgentTrue, TrueBody, FlushSave, GoTo
  <2>5. Handed' /\ RanOnce'
    BY <2>2, <2>3 DEF Handed, RanOnce, TypeOK
  <2>6. RequestTrue' /\ StatusTrue' /\ AnswerTrue'
    BY <2>3 DEF RequestTrue, StatusTrue, AnswerTrue, TrueBody
  <2> QED
    BY <2>1, <2>4, <2>5, <2>6
<1>10. ASSUME NEW a \in Agents, PollSend(a)
      PROVE  JobOther'
  <2>1. Placed'
    BY <1>10 DEF TypeOK, Placed, PollSend, GoTo
  <2>2. AgentTrue'
    BY <1>10 DEF TypeOK, AgentTrue, TrueBody, RanOnce, Handed, HasBody, Body, PollSend, GoTo
  <2>3. Handed' /\ RanOnce' /\ RequestTrue' /\ StatusTrue' /\ AnswerTrue'
    BY <1>10 DEF Handed, RanOnce, RequestTrue, StatusTrue, AnswerTrue, TrueBody, PollSend, GoTo
  <2> QED
    BY <2>1, <2>2, <2>3
<1>11. ASSUME NEW a \in Agents, PollReceived(a)
      PROVE  JobOther'
  <2>1. Placed'
    BY <1>11 DEF TypeOK, Placed, PollReceived, GoTo
  <2>2. Handed'
    BY <1>11 DEF TypeOK, Placed, Handed, RanOnce, RequestTrue, StatusTrue, AgentTrue, TrueBody, PollReceived, GoTo
  <2>3. AgentTrue'
    BY <1>11 DEF TypeOK, AgentTrue, TrueBody, RanOnce, Handed, HasBody, Body, PollReceived, GoTo
  <2>4. RanOnce' /\ RequestTrue' /\ StatusTrue' /\ AnswerTrue'
    BY <1>11 DEF RanOnce, RequestTrue, StatusTrue, AnswerTrue, TrueBody, PollReceived, GoTo
  <2> QED
    BY <2>1, <2>2, <2>3, <2>4
<1>12. ASSUME NEW a \in Agents, BatchDone(a)
      PROVE  JobOther'
  <2>1. Placed'
    BY <1>12 DEF TypeOK, Placed, BatchDone, GoTo
  <2>2. AgentTrue'
    BY <1>12 DEF TypeOK, AgentTrue, TrueBody, RanOnce, Handed, HasBody, Body, BatchDone, GoTo
  <2>3. Handed' /\ RanOnce' /\ RequestTrue' /\ StatusTrue' /\ AnswerTrue'
    BY <1>12 DEF Handed, RanOnce, RequestTrue, StatusTrue, AnswerTrue, TrueBody, BatchDone, GoTo
  <2> QED
    BY <2>1, <2>2, <2>3
<1>13. ASSUME NEW a \in Agents, AgentRestart(a)
      PROVE  JobOther'
  <2>1. Placed'
    BY <1>13 DEF TypeOK, Placed, AgentRestart, GoTo
  <2>2. AgentTrue'
    BY <1>13 DEF TypeOK, AgentTrue, TrueBody, RanOnce, Handed, HasBody, Body, AgentRestart, GoTo
  <2>3. Handed' /\ RanOnce' /\ RequestTrue' /\ StatusTrue' /\ AnswerTrue'
    BY <1>13 DEF Handed, RanOnce, RequestTrue, StatusTrue, AnswerTrue, TrueBody, AgentRestart, GoTo
  <2> QED
    BY <2>1, <2>2, <2>3
<1>14. ASSUME NEW a \in Agents, FlushPost(a)
      PROVE  JobOther'
  <2>1. PICK b \in todo[a] : Post(a, b)
    BY <1>14 DEF FlushPost
  <2>2. b \in Body /\ TrueBody(b)
    BY DEF TypeOK, AgentTrue
  <2>3. outcome' = outcome
    BY <1>14 DEF FlushPost
  <2>4. RequestTrue'
    BY <2>1, <2>2, <2>3, PostTrue
  <2>5. Placed'
    BY <1>14, <2>1, <2>2, <2>3, <2>4 DEF TypeOK, Placed, FlushPost, GoTo, Post
  <2>6. AgentTrue'
    BY <1>14, <2>1, <2>2, <2>3, <2>4 DEF TypeOK, AgentTrue, TrueBody, RanOnce, Handed, HasBody, Body, FlushPost, GoTo, Post
  <2>7. Handed' /\ RanOnce' /\ StatusTrue' /\ AnswerTrue'
    BY <1>14 DEF Handed, RanOnce, StatusTrue, AnswerTrue, TrueBody, FlushPost, GoTo, Post
  <2> QED
    BY <2>5, <2>6, <2>4, <2>7
<1>15. ASSUME NEW a \in Agents, SendResult(a)
      PROVE  JobOther'
  <2>1. current[a] \in Body /\ TrueBody(current[a]) /\ outcome' = outcome
    BY <1>15 DEF SendResult, HasBody, AgentTrue
  <2>2. RequestTrue'
    BY <1>15, <2>1, PostTrue DEF SendResult
  <2>3. Placed'
    BY <1>15, <2>1, <2>2 DEF TypeOK, Placed, SendResult, GoTo, HasBody
  <2>4. AgentTrue'
    BY <1>15, <2>1, <2>2 DEF TypeOK, AgentTrue, TrueBody, RanOnce, Handed, HasBody, Body, SendResult, GoTo, HasBody
  <2>5. Handed' /\ RanOnce' /\ StatusTrue' /\ AnswerTrue'
    BY <1>15 DEF Handed, RanOnce, StatusTrue, AnswerTrue, TrueBody, SendResult, GoTo, HasBody
  <2> QED
    BY <2>3, <2>4, <2>2, <2>5
<1>16. ASSUME NEW a \in Agents, FlushAcked(a)
      PROVE  JobOther'
  <2>1. Placed'
    BY <1>16 DEF TypeOK, Placed, FlushAcked, GoTo
  <2>2. AgentTrue'
    BY <1>16 DEF TypeOK, AgentTrue, TrueBody, RanOnce, Handed, HasBody, Body, FlushAcked, GoTo
  <2>3. RequestTrue'
    BY <1>16, ReceivedTrue DEF TypeOK, RequestTrue, TrueBody, FlushAcked, GoTo
  <2>4. Handed' /\ RanOnce' /\ StatusTrue' /\ AnswerTrue'
    BY <1>16 DEF Handed, RanOnce, StatusTrue, AnswerTrue, TrueBody, FlushAcked, GoTo
  <2> QED
    BY <2>1, <2>2, <2>3, <2>4
<1>17. ASSUME NEW a \in Agents, ResultSent(a)
      PROVE  JobOther'
  <2>1. Placed'
    BY <1>17 DEF TypeOK, Placed, ResultSent, GoTo
  <2>2. AgentTrue'
    BY <1>17 DEF TypeOK, AgentTrue, TrueBody, RanOnce, Handed, HasBody, Body, ResultSent, GoTo
  <2>3. RequestTrue'
    BY <1>17, ReceivedTrue DEF TypeOK, RequestTrue, TrueBody, ResultSent, GoTo
  <2>4. Handed' /\ RanOnce' /\ StatusTrue' /\ AnswerTrue'
    BY <1>17 DEF Handed, RanOnce, StatusTrue, AnswerTrue, TrueBody, ResultSent, GoTo
  <2> QED
    BY <2>1, <2>2, <2>3, <2>4
<1>18. ASSUME NEW a \in Agents, NEW j \in Jobs, NEW o \in Terminal, Execute(a, j, o)
      PROVE  JobOther'
  <2>1. /\ AgentOf[j] = a /\ status[j] # "none"
        /\ Marked(j) => status[j] = "in_progress" /\ runs[j] = 0 /\ outcome[j] = {}
        /\ reply[a] = {}
    BY <1>18 DEF Execute, Handed, RanOnce, Placed
  <2>2. /\ outcome'[j] = outcome[j] \cup {o}
        /\ \A i \in Jobs \ {j} : outcome'[i] = outcome[i] /\ runs'[i] = runs[i]
        /\ runs'[j] = runs[j] + 1
        /\ batch'[a] = batch[a] \ {j} /\ \A c \in Agents \ {a} : batch'[c] = batch[c]
        /\ UNCHANGED <<status, waiter, request, poll, reply, todo, file, swallowed>>
    BY <1>18 DEF Execute, TypeOK
  <2> HIDE DEF Marked
  <2>3. \A i \in Jobs : outcome[i] \subseteq outcome'[i] /\ Marked(i)' = Marked(i)
    BY <2>2 DEF Marked
  <2>4. \A b \in Body : TrueBody(b) => TrueBody(b)'
    BY <2>3 DEF TrueBody, Body
  <2>5. TrueBody([job |-> j, status |-> o])'
    BY <2>2 DEF TrueBody
  <2>6. RanOnce'
    <3> SUFFICES ASSUME NEW i \in Jobs
                 PROVE  /\ Marked(i) => runs'[i] \in {0, 1} /\ \A p, q \in outcome'[i] : p = q
                        /\ runs'[i] = 0 <=> outcome'[i] = {}
                        /\ status[i] = "none" => runs'[i] = 0
                        /\ Marked(i) /\ status[i] = "pending" => runs'[i] = 0
                        /\ ~Marked(i) => FileStore
      BY <2>2, <2>3 DEF RanOnce
    <3>1. CASE i = j
      <4>1. runs[j] \in Nat
        BY DEF TypeOK
      <4>2. runs'[j] # 0 /\ outcome'[j] # {}
        BY <2>2, <4>1
      <4>3. Marked(j) => runs'[j] = 1 /\ outcome'[j] = {o}
        BY <2>1, <2>2
      <4> QED
        BY <2>1, <3>1, <4>2, <4>3 DEF RanOnce
    <3>2. CASE i # j
      BY <2>2, <3>2 DEF RanOnce
    <3> QED
      BY <3>1, <3>2
  <2>7. Placed'
    BY <1>18, <2>1, <2>2 DEF TypeOK, Placed, Execute, GoTo
  <2>8. Handed'
    <3> SUFFICES ASSUME NEW c \in Agents, NEW i \in reply[c] \cup batch'[c]
                 PROVE  /\ AgentOf[i] = c /\ status[i] # "none"
                        /\ Marked(i) => status[i] = "in_progress" /\ runs'[i] = 0
      BY <2>2, <2>3 DEF Handed, TypeOK
    <3>1. i \in Jobs /\ i \in reply[c] \cup batch[c]
      BY <2>2 DEF TypeOK
    <3>2. AgentOf[i] = c /\ status[i] # "none" /\ (Marked(i) => status[i] = "in_progress" /\ runs[i] = 0)
      BY <3>1 DEF Handed
    <3>3. i # j
      BY <2>1, <2>2, <3>2
    <3> QED
      BY <2>2, <3>1, <3>2, <3>3
  <2>9. AgentTrue'
    BY <1>18, <2>2, <2>4, <2>5 DEF TypeOK, AgentTrue, HasBody, Execute, GoTo
  <2>10. RequestTrue'
    <3>1. \A r \in Slots : request[r] # Free => request[r].body \in Body
      BY DEF TypeOK, Request
    <3> QED
      BY <2>2, <2>4, <3>1 DEF RequestTrue
  <2>11. StatusTrue' /\ AnswerTrue'
    BY <2>2, <2>3 DEF StatusTrue, AnswerTrue
  <2> QED
    BY <2>6, <2>7, <2>8, <2>9, <2>10, <2>11
<1>19. ASSUME NEW a \in Agents, NEW broken \in BOOLEAN, FlushFailed(a, broken)
      PROVE  JobOther'
  <2>1. Placed'
    BY <1>19 DEF TypeOK, Placed, FlushFailed, GoTo
  <2>2. AgentTrue'
    BY <1>19 DEF TypeOK, AgentTrue, TrueBody, RanOnce, Handed, HasBody, Body, FlushFailed, GoTo
  <2>3. RequestTrue'
    BY <1>19, ReceivedTrue, HangUpTrue DEF TypeOK, RequestTrue, TrueBody, FlushFailed, GoTo
  <2>4. Handed' /\ RanOnce' /\ StatusTrue' /\ AnswerTrue'
    BY <1>19 DEF Handed, RanOnce, StatusTrue, AnswerTrue, TrueBody, FlushFailed, GoTo
  <2> QED
    BY <2>1, <2>2, <2>3, <2>4
<1>20. ASSUME NEW a \in Agents, NEW broken \in BOOLEAN, NEW unwritten \in BOOLEAN,
              QueueOffline(a, broken, unwritten)
      PROVE  JobOther'
  <2>1. Placed'
    BY <1>20 DEF TypeOK, Placed, QueueOffline, GoTo
  <2>2. /\ \A j \in Jobs : Marked(j)' = Marked(j)
        /\ file'[a] \subseteq file[a] \cup {current[a]}
        /\ \A c \in Agents \ {a} : file'[c] = file[c]
    BY <1>20, SaveMarks DEF QueueOffline
  <2>3. UNCHANGED <<status, runs, outcome, waiter, poll, reply, todo, batch>>
    BY <1>20 DEF QueueOffline
  <2> HIDE DEF Marked
  <2>4. AgentTrue'
    BY <1>20, <2>2, <2>3 DEF TypeOK, AgentTrue, TrueBody, QueueOffline, GoTo
  <2>5. RequestTrue'
    BY <1>20, ReceivedTrue, HangUpTrue DEF QueueOffline
  <2>6. Handed' /\ RanOnce'
    BY <2>2, <2>3 DEF Handed, RanOnce, TypeOK
  <2>7. StatusTrue' /\ AnswerTrue'
    BY <2>3 DEF StatusTrue, AnswerTrue
  <2> QED
    BY <2>1, <2>4, <2>5, <2>6, <2>7
<1>21. ASSUME NEW a \in Agents, NEW broken \in BOOLEAN, PollFailed(a, broken)
      PROVE  JobOther'
  <2>1. Placed'
    BY <1>21 DEF TypeOK, Placed, PollFailed, AbandonPoll, GoTo
  <2>2. Handed'
    BY <1>21 DEF TypeOK, Placed, Handed, RanOnce, RequestTrue, StatusTrue, AgentTrue, TrueBody, PollFailed, AbandonPoll, GoTo
  <2>3. AgentTrue'
    BY <1>21 DEF TypeOK, AgentTrue, TrueBody, RanOnce, Handed, HasBody, Body, PollFailed, AbandonPoll, GoTo
  <2>4. RanOnce' /\ RequestTrue' /\ StatusTrue' /\ AnswerTrue'
    BY <1>21 DEF RanOnce, RequestTrue, StatusTrue, AnswerTrue, TrueBody, PollFailed, AbandonPoll, GoTo
  <2> QED
    BY <2>1, <2>2, <2>3, <2>4
<1>22. ASSUME NEW a \in Agents, SendAgain(a)
      PROVE  JobOther'
  <2>1. Placed'
    BY <1>22 DEF TypeOK, Placed, SendAgain, GoTo
  <2>2. AgentTrue'
    BY <1>22 DEF TypeOK, AgentTrue, TrueBody, RanOnce, Handed, HasBody, Body, SendAgain, GoTo
  <2>3. RequestTrue'
    BY <1>22, HangUpTrue DEF TypeOK, RequestTrue, TrueBody, SendAgain, GoTo
  <2>4. Handed' /\ RanOnce' /\ StatusTrue' /\ AnswerTrue'
    BY <1>22 DEF Handed, RanOnce, StatusTrue, AnswerTrue, TrueBody, SendAgain, GoTo
  <2> QED
    BY <2>1, <2>2, <2>3, <2>4
<1>23. ASSUME NEW a \in Agents, AgentCrash(a)
      PROVE  JobOther'
  <2>1. Placed'
    BY <1>23 DEF TypeOK, Placed, AgentCrash, AbandonPoll, GoTo
  <2>2. Handed'
    BY <1>23 DEF TypeOK, Placed, Handed, RanOnce, RequestTrue, StatusTrue, AgentTrue, TrueBody, AgentCrash, AbandonPoll, GoTo
  <2>3. AgentTrue'
    BY <1>23 DEF TypeOK, AgentTrue, TrueBody, RanOnce, Handed, HasBody, Body, AgentCrash, AbandonPoll, GoTo
  <2>4. RequestTrue'
    BY <1>23, HangUpTrue DEF TypeOK, RequestTrue, TrueBody, AgentCrash, AbandonPoll, GoTo
  <2>5. RanOnce' /\ StatusTrue' /\ AnswerTrue'
    BY <1>23 DEF RanOnce, StatusTrue, AnswerTrue, TrueBody, AgentCrash, AbandonPoll, GoTo
  <2> QED
    BY <2>1, <2>2, <2>3, <2>4, <2>5
<1>24. CASE UNCHANGED vars
  <2>1. Placed' /\ Handed' /\ RanOnce' /\ AgentTrue' /\ RequestTrue' /\ StatusTrue' /\ AnswerTrue'
    BY <1>24 DEF Placed, Handed, RanOnce, AgentTrue, RequestTrue, StatusTrue, AnswerTrue, TrueBody, vars
  <2> QED
    BY <2>1
<1> QED
  BY <1>1, <1>2, <1>3, <1>4, <1>5, <1>6, <1>7, <1>8, <1>9, <1>10, <1>11, <1>12, <1>13, <1>14, <1>15, <1>16, <1>17, <1>18, <1>19, <1>20, <1>21, <1>22, <1>23, <1>24
     DEF Next, Server, AgentLoop, AgentFault


THEOREM JobInvariant == Spec => []JobInv
BY JobInit, JobStep, PTL DEF Spec

\* AtMostOnce: no job is handed out, executed or re-queued a second time, unless its claim
\* could not be written to the JSON file.
THEOREM RunsAtMostOnce == Spec => []AtMostOnce
<1>1. JobInv => AtMostOnce
  BY DEF JobInv, RanOnce, AtMostOnce, Marked, Overlooked
<1> QED
  BY <1>1, JobInvariant, PTL

\* Truthful: the table, the requests under way and the retry file all say what happened.
THEOREM ReportsAreTrue == Spec => []Truthful
<1>1. JobInv => Truthful
  BY DEF JobInv, StatusTrue, RequestTrue, AgentTrue, TrueBody, Truthful
<1> QED
  BY <1>1, JobInvariant, PTL

\* AnswerTrue: what a waiting caller of the relay is told is what happened at the device.
THEOREM AnswersAreTrue == Spec => []AnswerTrue
<1>1. JobInv => AnswerTrue
  BY DEF JobInv
<1> QED
  BY <1>1, JobInvariant, PTL

\* What happened at the device is not unwritten.
LEMMA OutcomeStays ==
  ASSUME JobInv, Next, NEW j \in Jobs
  PROVE  outcome[j] \subseteq outcome'[j]
<1>1. ASSUME NEW a \in Agents, NEW i \in Jobs, NEW o \in Terminal, Execute(a, i, o)
      PROVE  outcome[j] \subseteq outcome'[j]
  BY <1>1 DEF Execute, JobInv, TypeInv, TypeOK
<1>2. CASE outcome' = outcome
  BY <1>2
<1> QED
  BY <1>1, <1>2 DEF Next, Server, AgentLoop, AgentFault, CreateJob, PollJobs,
     PollJobsLate, SubmitResult, FinishIngest, WaiterStep, ServerCrash, FlushStart,
     FlushPost, FlushAcked, FlushSave, FlushFailed, PollSend, PollReceived, PollFailed,
     BatchDone, SendResult, ResultSent, SendAgain, QueueOffline, AgentCrash,
     AgentRestart, history

\* Nor is it forgotten which errors were overlooked.
LEMMA SwallowedGrows ==
  ASSUME JobInv, Next, NEW j \in Jobs
  PROVE  swallowed[j] \subseteq swallowed'[j]
<1>1. ASSUME NEW S, NEW c \in Calls, Swallow(S, c)
      PROVE  swallowed[j] \subseteq swallowed'[j]
  BY <1>1, SwallowMarks DEF JobInv, TypeInv
<1>2. CASE swallowed' = swallowed
  BY <1>2
<1>3. ASSUME NEW a \in Agents, PollJobs(a) \/ PollJobsLate(a)
      PROVE  swallowed[j] \subseteq swallowed'[j]
  BY <1>1, <1>2, <1>3 DEF PollJobs, PollJobsLate, Claim, Calls
<1>4. ASSUME NEW r \in Slots, SubmitResult(r) \/ FinishIngest(r)
      PROVE  swallowed[j] \subseteq swallowed'[j]
  BY <1>1, <1>2, <1>4 DEF SubmitResult, Complete, FinishIngest, Calls
<1>5. ASSUME NEW a \in Agents, NEW b \in BOOLEAN, NEW u \in BOOLEAN,
             FlushSave(a, u) \/ QueueOffline(a, b, u)
      PROVE  swallowed[j] \subseteq swallowed'[j]
  BY <1>1, <1>5 DEF FlushSave, QueueOffline, SaveRows, Calls
<1> QED
  BY <1>2, <1>3, <1>4, <1>5 DEF Next, Server, AgentLoop, AgentFault, CreateJob,
     WaiterStep, ServerCrash, FlushStart, FlushPost, FlushAcked, FlushFailed, PollSend,
     PollReceived, PollFailed, BatchDone, SendResult, ResultSent, SendAgain, AgentCrash,
     AgentRestart, Execute, history

\* A row that left the queue does not come back to it.
LEMMA TerminalStays ==
  ASSUME JobInv, Next, NEW j \in Jobs, status[j] \in Terminal
  PROVE  status'[j] \in Terminal
<1>1. ASSUME NEW r \in Slots, SubmitResult(r)
      PROVE  status'[j] \in Terminal
  <2>1. request[r].body \in Body
    BY <1>1 DEF SubmitResult, JobInv, TypeInv, TypeOK, Request, Free
  <2> QED
    BY <1>1, <2>1 DEF SubmitResult, Complete, Body, JobInv, TypeInv, TypeOK
<1>2. ASSUME NEW i \in Jobs, NEW w \in {"none", "waiting"}, CreateJob(i, w)
      PROVE  status'[j] \in Terminal
  BY <1>2 DEF CreateJob, Terminal, JobInv, TypeInv, TypeOK
<1>3. ASSUME NEW a \in Agents, PollJobs(a) \/ PollJobsLate(a)
      PROVE  status'[j] \in Terminal
  BY <1>3 DEF PollJobs, PollJobsLate, Claimable, Pending, Claim, Terminal
<1>4. CASE status' = status
  BY <1>4
<1> QED
  BY <1>1, <1>2, <1>3, <1>4 DEF Next, Server, AgentLoop, AgentFault, FinishIngest,
     WaiterStep, ServerCrash, FlushStart, FlushPost, FlushAcked, FlushSave, FlushFailed,
     PollSend, PollReceived, PollFailed, BatchDone, SendResult, ResultSent, SendAgain,
     QueueOffline, AgentCrash, AgentRestart, Execute, serverVars

\* ReportFinal: although completeJob overwrites whatever it finds, a terminal status stays,
\* for every job whose claims were recorded.
THEOREM ReportsAreFinal == Spec => ReportFinal
<1>1. JobInv /\ JobInv' /\ [Next]_vars
        => [\A j \in Jobs : status[j] \in Terminal /\ ~Overlooked(j, {"claim"})
              => status'[j] = status[j]]_vars
  <2> SUFFICES ASSUME JobInv, JobInv', Next,
                      NEW j \in Jobs, status[j] \in Terminal, Marked(j)
               PROVE  status'[j] = status[j]
    BY DEF vars, serverVars, Overlooked, Marked
  <2>1. status[j] \in outcome'[j]
    BY OutcomeStays DEF JobInv, StatusTrue
  <2>2. status'[j] \in Terminal
    BY TerminalStays
  <2>3. status'[j] \in outcome'[j]
    BY <2>2 DEF JobInv, StatusTrue
  <2>4. CASE Marked(j)'
    BY <2>1, <2>3, <2>4 DEF JobInv, RanOnce
  <2>5. CASE ~Marked(j)'
    <3>1. ASSUME NEW a \in Agents, PollJobs(a) \/ PollJobsLate(a)
          PROVE  status'[j] = status[j]
      <4>1. PICK S \in SUBSET Jobs : Claim(S) /\ \A i \in S : status[i] = "pending"
        BY <3>1 DEF PollJobs, PollJobsLate, Claimable, Pending, JobInv, TypeInv, TypeOK
      <4> QED
        BY <4>1, ClaimEffect DEF JobInv, TypeInv, Terminal
    <3>2. ASSUME NEW r \in Slots, SubmitResult(r) \/ FinishIngest(r)
          PROVE  Marked(j)' = Marked(j)
      BY <3>2, SwallowMarks DEF SubmitResult, Complete, FinishIngest, Calls, Marked, JobInv, TypeInv
    <3>3. ASSUME NEW a \in Agents, NEW b \in BOOLEAN, NEW u \in BOOLEAN,
                 FlushSave(a, u) \/ QueueOffline(a, b, u)
          PROVE  Marked(j)' = Marked(j)
      BY <3>3, SaveMarks DEF FlushSave, QueueOffline, JobInv, TypeInv
    <3>4. CASE swallowed' = swallowed
      BY <2>5, <3>4 DEF Marked
    <3> QED
      BY <2>5, <3>1, <3>2, <3>3, <3>4 DEF Next, Server, AgentLoop, AgentFault, CreateJob,
         WaiterStep, ServerCrash, FlushStart, FlushPost, FlushAcked, FlushFailed, PollSend,
         PollReceived, PollFailed, BatchDone, SendResult, ResultSent, SendAgain, AgentCrash,
         AgentRestart, Execute, history
  <2> QED
    BY <2>4, <2>5
<1> QED
  BY <1>1, JobInvariant, PTL DEF Spec, ReportFinal

-----------------------------------------------------------------------------
(* No result is lost.                                                      *)
(*                                                                         *)
(* The agent lets go of a result in three places: when its post was        *)
(* answered, when a flush drops the rows it got an answer for, and when it *)
(* cannot write its file.  The first two follow an "ok", and the server    *)
(* sends that only when it needs nothing more of the result, which stays   *)
(* so; the third is among the errors the property excepts.                 *)

Posting == {"flushwait", "sendwait"}

\* The agent waits for the answer to the post of its current body, and no two
\* agents for the same.
Waits == \A a \in Agents :
  IF pc[a] \in Posting
  THEN awaited[a] \in Slots /\ request[awaited[a]] # Free /\ request[awaited[a]].body = current[a]
  ELSE awaited[a] = NoSlot

Alone == \A a, c \in Agents : awaited[a] # NoSlot /\ awaited[a] = awaited[c] => a = c

\* A flush posts rows that are in the file and stay there.
Holds == \A a \in Agents :
  /\ pc[a] \notin {"flushwait", "send", "sendwait"} => current[a] = NoBody
  /\ pc[a] = "flushwait" => current[a] \in file[a]
  /\ todo[a] \subseteq file[a]
  /\ pc[a] \notin {"flushing", "flushwait"} => todo[a] = {}

\* The row needs no result any more, and this result needs no import.
StatusDone(j) == j \in store => status[j] \in Terminal \/ Overlooked(j, {"result", "retry"})
ImportDone(b) ==
  b.job \in store /\ b.job \in Ingesting /\ b.status = "success"
    => b.job \in ingested \/ Overlooked(b.job, {"import", "retry"})
Done(b) == b \in Body /\ TrueBody(b) /\ StatusDone(b.job) /\ ImportDone(b)

\* What the server has done by the time it answers, and already while it imports.
AnswerSettles ==
  /\ \A r \in Slots : request[r].stage = "ok" => Done(request[r].body)
  /\ \A r \in Slots : request[r].stage = "ingesting" => StatusDone(request[r].body.job)
  /\ \A a \in Agents : \A b \in acked[a] : Done(b)

\* Every result is with the agent that did not crash, or is not needed.
KeptAll == \A j \in Jobs : \A x \in outcome[j] :
  \/ AgentOf[j] \in crashed
  \/ Held(AgentOf[j], j, x)
  \/ Done([job |-> j, status |-> x])

KeptInv == Waits /\ Alone /\ Holds /\ AnswerSettles /\ KeptAll

LEMMA KeptImplies == JobInv /\ KeptAll => ResultKept
<1> SUFFICES ASSUME JobInv, KeptAll, NEW j \in store, AgentOf[j] \notin crashed
             PROVE  /\ status[j] = "in_progress" /\ outcome[j] # {}
                         => \/ \E x \in outcome[j] : Held(AgentOf[j], j, x)
                            \/ Overlooked(j, {"result", "retry"})
                    /\ j \in Ingesting \ ingested /\ "success" \in outcome[j]
                         => Held(AgentOf[j], j, "success") \/ Overlooked(j, {"import", "retry"})
  BY DEF ResultKept
<1>1. j \in Jobs
  BY DEF JobInv, TypeInv, TypeOK
<1>2. \A x \in outcome[j] : Held(AgentOf[j], j, x) \/ Done([job |-> j, status |-> x])
  BY <1>1 DEF KeptAll
<1>3. \A x : Done([job |-> j, status |-> x]) =>
        /\ status[j] \in Terminal \/ Overlooked(j, {"result", "retry"})
        /\ j \in Ingesting /\ x = "success" => j \in ingested \/ Overlooked(j, {"import", "retry"})
  BY DEF Done, StatusDone, ImportDone
<1>4. status[j] = "in_progress" => status[j] \notin Terminal
  BY DEF Terminal
<1> QED
  BY <1>2, <1>3, <1>4

LEMMA StoreShrinks ==
  ASSUME JobInv, Next, NEW j \in Jobs, outcome[j] # {}
  PROVE  /\ j \in store' => j \in store
         /\ j \in ingested => j \in ingested'
<1>1. status[j] # "none"
  BY DEF JobInv, RanOnce
<1> QED
  BY <1>1 DEF Next, Server, AgentLoop, AgentFault, CreateJob, StoreUnwritten, PollJobs,
     PollJobsLate, Claim, SubmitResult, Complete, FinishIngest, WaiterStep, ServerCrash,
     FlushStart, FlushPost, FlushAcked, FlushSave, FlushFailed, PollSend, PollReceived,
     PollFailed, BatchDone, SendResult, ResultSent, SendAgain, QueueOffline, AgentCrash,
     AgentRestart, Execute, serverVars

LEMMA OverlookedStays ==
  ASSUME JobInv, Next, NEW j \in Jobs, NEW C, Overlooked(j, C)
  PROVE  Overlooked(j, C)'
BY SwallowedGrows DEF Overlooked

LEMMA StatusDoneStays ==
  ASSUME JobInv, Next, NEW j \in Jobs, outcome[j] # {}, StatusDone(j)
  PROVE  StatusDone(j)'
<1>1. j \in store' => j \in store
  BY StoreShrinks
<1>2. status[j] \in Terminal => status'[j] \in Terminal
  BY TerminalStays
<1>3. Overlooked(j, {"result", "retry"}) => Overlooked(j, {"result", "retry"})'
  BY OverlookedStays
<1> QED
  BY <1>1, <1>2, <1>3 DEF StatusDone

LEMMA DoneStays ==
  ASSUME JobInv, Next, NEW b \in Body, Done(b)
  PROVE  Done(b)'
<1>1. PICK j \in Jobs : j = b.job
  BY DEF Body
<1>2. outcome[j] # {} /\ outcome[j] \subseteq outcome'[j]
  BY <1>1, OutcomeStays DEF Done, TrueBody
<1>3. StatusDone(j)'
  BY <1>1, <1>2, StatusDoneStays DEF Done
<1>4. Overlooked(j, {"import", "retry"}) => Overlooked(j, {"import", "retry"})'
  BY OverlookedStays
<1>5. (j \in store' => j \in store) /\ (j \in ingested => j \in ingested')
  BY <1>2, StoreShrinks
<1>6. ImportDone(b)'
  BY <1>1, <1>4, <1>5 DEF Done, ImportDone
<1>7. TrueBody(b)'
  BY <1>1, <1>2 DEF Done, TrueBody
<1> QED
  BY <1>1, <1>3, <1>6, <1>7 DEF Done

\* What a step has to show: each result an agent holds it holds on, or the server needs
\* it no more, or the agent crashed; and a result that is new is held.
LEMMA KeptStep ==
  ASSUME JobInv, Next, KeptAll, crashed \subseteq crashed',
         \A a \in Agents : \A b \in file[a] \cup {current[a]} :
            \/ b \in file'[a] \cup {current'[a]}
            \/ b \in Body => Done(b)'
            \/ a \in crashed',
         \A j \in Jobs : \A x \in outcome'[j] :
            x \in outcome[j] \/ [job |-> j, status |-> x] \in {current'[AgentOf[j]]},
         outcome' \in [Jobs -> SUBSET Terminal]
  PROVE  KeptAll'
<1> SUFFICES ASSUME NEW j \in Jobs, NEW x \in outcome'[j], AgentOf[j] \notin crashed',
                    ~Done([job |-> j, status |-> x])'
             PROVE  [job |-> j, status |-> x] \in file'[AgentOf[j]] \cup {current'[AgentOf[j]]}
  BY DEF KeptAll, Held
<1>1. AgentOf[j] \in Agents
  BY QueueAssumption
<1>2. CASE x \notin outcome[j]
  BY <1>1, <1>2
<1>3. CASE x \in outcome[j]
  <2>1. [job |-> j, status |-> x] \in Body
    BY DEF Body
  <2>2. ~Done([job |-> j, status |-> x])
    BY <2>1, DoneStays
  <2>3. [job |-> j, status |-> x] \in file[AgentOf[j]] \cup {current[AgentOf[j]]}
    BY <1>3, <2>2 DEF KeptAll, Held
  <2> QED
    BY <1>1, <2>1, <2>3
<1> QED
  BY <1>2, <1>3

\* The agent that hangs up or takes an answer leaves the others' requests as they are.
LEMMA LetGo ==
  ASSUME TypeOK, Waits, Alone, NEW a \in Agents, NEW code, HangUp(a) \/ Received(a, code)
  PROVE  /\ awaited' = [awaited EXCEPT ![a] = NoSlot]
         /\ Alone'
         /\ \A c \in Agents \ {a} : awaited[c] # NoSlot => request'[awaited[c]] = request[awaited[c]]
         /\ \A r \in Slots : request'[r] = request[r] \/ request'[r] = Free
         /\ Received(a, code) => request[awaited[a]].stage = code
<1>1. awaited' = [awaited EXCEPT ![a] = NoSlot]
  BY DEF HangUp, Received
<1>2. Alone'
  BY <1>1 DEF Alone, TypeOK
<1>3. \A r \in Slots : request'[r] = request[r] \/ (request'[r] = Free /\ r = awaited[a])
  BY DEF HangUp, Received, Waiting, TypeOK
<1>4. \A c \in Agents \ {a} : awaited[c] # NoSlot => awaited[c] # awaited[a] /\ awaited[c] \in Slots
  BY DEF Alone, TypeOK
<1> QED
  BY <1>1, <1>2, <1>3, <1>4 DEF Received

LEMMA PostLink ==
  ASSUME TypeOK, Waits, Alone, NEW a \in Agents, NEW b \in Body, Post(a, b)
  PROVE  /\ Alone'
         /\ awaited'[a] \in Slots /\ request'[awaited'[a]] = [stage |-> "sent", body |-> b]
         /\ \A c \in Agents \ {a} :
              /\ awaited'[c] = awaited[c]
              /\ awaited[c] # NoSlot => request'[awaited[c]] = request[awaited[c]]
         /\ \A r \in Slots : request'[r] = request[r] \/ request'[r].stage = "sent"
<1> PICK r \in Slots :
      /\ request[r] = Free
      /\ request' = [request EXCEPT ![r] = [stage |-> "sent", body |-> b]]
      /\ awaited' = [awaited EXCEPT ![a] = r]
  BY DEF Post
<1>1. r # NoSlot
  BY QueueAssumption
<1>2. \A c \in Agents : awaited[c] # r
  BY <1>1 DEF Waits
<1>3. /\ awaited'[a] = r /\ \A c \in Agents \ {a} : awaited'[c] = awaited[c]
      /\ request'[r] = [stage |-> "sent", body |-> b]
      /\ \A s \in Slots \ {r} : request'[s] = request[s]
  BY DEF TypeOK
<1>4. Alone'
  BY <1>2, <1>3 DEF Alone
<1>5. \A c \in Agents : awaited[c] # NoSlot => awaited[c] \in Slots
  BY DEF TypeOK
<1> QED
  BY <1>2, <1>3, <1>4, <1>5

\* The server answers a request and keeps its body; one nobody waits for vanishes.
LEMMA Responded ==
  ASSUME TypeOK, NEW r \in Slots, request[r] \in Request, NEW code \in {"ok", "error"}
  PROVE  /\ \A a \in Agents : awaited[a] = r =>
              Respond(r, code) # Free /\ Respond(r, code).body = request[r].body
         /\ Respond(r, code) = Free \/ (/\ Respond(r, code).stage = code
                                        /\ Respond(r, code).body = request[r].body)
BY DEF Respond, Free


\* An answer or an import is either an old one or needs its own reason.
LEMMA AnswersStep ==
  ASSUME JobInv, JobInv', Next, AnswerSettles,
         \A r \in Slots : \/ request'[r] = request[r]
                          \/ request'[r].stage = "ok" => Done(request[r].body)',
         \A r \in Slots : \/ request'[r] = request[r]
                          \/ request'[r].stage = "ingesting" => StatusDone(request[r].body.job)',
         \A a \in Agents : \A b \in acked'[a] : b \in acked[a] \/ Done(b)'
  PROVE  AnswerSettles'
<1>1. \A r \in Slots : request[r].stage \in {"ok", "ingesting"} =>
        request[r] # Free /\ request[r].body \in Body /\ request[r].body.job \in Jobs
  BY DEF JobInv, TypeInv, TypeOK, Request, Body, Free
<1>2. ASSUME NEW r \in Slots, request'[r].stage = "ok"
      PROVE  Done(request[r].body)'
  <2>1. CASE request'[r] = request[r]
    <3>1. PICK b \in Body : b = request[r].body
      BY <1>1, <1>2, <2>1
    <3>2. Done(b)
      BY <1>2, <2>1, <3>1 DEF AnswerSettles
    <3>3. Done(b)'
      BY <3>2, DoneStays
    <3>4. request'[r].body = b
      BY <2>1, <3>1
    <3> QED
      BY <3>3, <3>4
  <2> QED
    BY <1>2, <2>1
<1>3. ASSUME NEW r \in Slots, request'[r].stage = "ingesting"
      PROVE  StatusDone(request[r].body.job)'
  <2>1. CASE request'[r] = request[r]
    <3>1. PICK j \in Jobs : j = request[r].body.job
      BY <1>1, <1>3, <2>1
    <3>2. StatusDone(j)
      BY <1>3, <2>1, <3>1 DEF AnswerSettles
    <3>3. outcome[j] # {}
      BY <1>1, <1>3, <2>1, <3>1 DEF JobInv, RequestTrue, TrueBody
    <3>4. StatusDone(j)'
      BY <3>2, <3>3, StatusDoneStays
    <3>5. request'[r].body.job = j
      BY <2>1, <3>1
    <3> QED
      BY <3>4, <3>5
  <2> QED
    BY <1>3, <2>1
<1>4. ASSUME NEW a \in Agents, NEW b \in acked'[a]
      PROVE  Done(b)'
  <2>1. CASE b \in acked[a]
    <3>1. b \in Body /\ Done(b)
      BY <2>1 DEF JobInv, TypeInv, TypeOK, AnswerSettles
    <3> QED
      BY <3>1, DoneStays
  <2> QED
    BY <1>4, <2>1
<1> QED
  BY <1>2, <1>3, <1>4 DEF AnswerSettles

\* A step that leaves the agents alone.
LEMMA KeptByServer ==
  ASSUME JobInv, JobInv', Next, KeptInv,
         UNCHANGED <<pc, current, awaited, file, todo, acked, outcome, crashed>>,
         \A a \in Agents : awaited[a] \in Slots /\ request[awaited[a]] # Free =>
            request'[awaited[a]] # Free /\ request'[awaited[a]].body = request[awaited[a]].body,
         AnswerSettles'
  PROVE  KeptInv'
<1>1. Waits'
  BY DEF KeptInv, Waits
<1>2. Alone' /\ Holds'
  BY DEF KeptInv, Alone, Holds
<1>3. KeptAll'
  BY KeptStep DEF KeptInv, JobInv, TypeInv, TypeOK
<1> QED
  BY <1>1, <1>2, <1>3 DEF KeptInv

\* The other agents of a step of a.
Others(a) == \A c \in Agents \ {a} :
  /\ pc'[c] = pc[c] /\ current'[c] = current[c]
  /\ file'[c] = file[c] /\ todo'[c] = todo[c]

\* A step of an agent that sends and receives nothing.
LEMMA WaitsByLoop ==
  ASSUME Waits, Alone, NEW a \in Agents, Others(a), UNCHANGED <<request, awaited>>,
         pc[a] \notin Posting, pc'[a] \notin Posting
  PROVE  Waits' /\ Alone'
BY DEF Waits, Alone, Others

\* A step in which an agent takes its answer or hangs up.
LEMMA WaitsByLetGo ==
  ASSUME TypeOK, Waits, Alone, NEW a \in Agents, Others(a), pc'[a] \notin Posting,
         NEW code, HangUp(a) \/ Received(a, code)
  PROVE  Waits' /\ Alone'
<1>1. awaited'[a] = NoSlot /\ \A c \in Agents \ {a} : awaited'[c] = awaited[c]
  <2>1. awaited' = [awaited EXCEPT ![a] = NoSlot]
    BY LetGo
  <2>2. awaited \in [Agents -> Slots \cup {NoSlot}]
    BY DEF TypeOK
  <2> QED
    BY <2>1, <2>2
<1>2. ASSUME NEW c \in Agents \ {a}, pc'[c] \in Posting
      PROVE  /\ awaited'[c] \in Slots
             /\ request'[awaited'[c]] # Free
             /\ request'[awaited'[c]].body = current'[c]
  <2>1. awaited[c] \in Slots /\ request[awaited[c]] # Free /\ request[awaited[c]].body = current[c]
    BY <1>2 DEF Waits, Others
  <2>2. request'[awaited[c]] = request[awaited[c]]
    BY <2>1, LetGo, QueueAssumption
  <2> QED
    BY <1>1, <2>1, <2>2 DEF Others
<1>3. \A c \in Agents \ {a} : pc'[c] \notin Posting => awaited'[c] = NoSlot
  BY <1>1 DEF Waits, Others
<1>4. Alone'
  BY LetGo
<1> QED
  BY <1>1, <1>2, <1>3, <1>4 DEF Waits

\* A step in which an agent posts a body.
LEMMA WaitsByPost ==
  ASSUME TypeOK, Waits, Alone, NEW a \in Agents, Others(a), pc'[a] \in Posting,
         NEW b \in Body, current'[a] = b, Post(a, b)
  PROVE  Waits' /\ Alone'
<1>1. /\ awaited'[a] \in Slots
      /\ request'[awaited'[a]] # Free
      /\ request'[awaited'[a]].body = current'[a]
  <2>1. awaited'[a] \in Slots /\ request'[awaited'[a]] = [stage |-> "sent", body |-> b]
    BY PostLink
  <2>2. [stage |-> "sent", body |-> b].stage # Free.stage
    BY DEF Free
  <2> QED
    BY <2>1, <2>2
<1>2. ASSUME NEW c \in Agents \ {a}, pc'[c] \in Posting
      PROVE  /\ awaited'[c] \in Slots
             /\ request'[awaited'[c]] # Free
             /\ request'[awaited'[c]].body = current'[c]
  <2>1. awaited[c] \in Slots /\ request[awaited[c]] # Free /\ request[awaited[c]].body = current[c]
    BY <1>2 DEF Waits, Others
  <2>2. request'[awaited[c]] = request[awaited[c]] /\ awaited'[c] = awaited[c]
    BY <2>1, PostLink, QueueAssumption
  <2> QED
    BY <2>1, <2>2 DEF Others
<1>3. \A c \in Agents \ {a} : pc'[c] \notin Posting => awaited'[c] = NoSlot
  BY PostLink DEF Waits, Others
<1>4. Alone'
  BY PostLink
<1> QED
  BY <1>1, <1>2, <1>3, <1>4 DEF Waits

\* A true row that is not in the file after savePendingResults was overlooked.
LEMMA SaveLost ==
  ASSUME TypeOK, NEW a \in Agents, NEW rows \in SUBSET Body, NEW unwritten \in BOOLEAN,
         SaveRows(a, rows, unwritten), outcome' = outcome, \A b \in rows : TrueBody(b)
  PROVE  \A b \in rows : b \in file'[a] \/ Done(b)'
<1>1. PICK left : /\ file' = [file EXCEPT ![a] = left]
                  /\ Swallow({b.job : b \in rows \ left}, "retry")
  BY DEF SaveRows
<1>2. file'[a] = left
  BY <1>1 DEF TypeOK
<1>3. ASSUME NEW b \in rows \ left
      PROVE  Done(b)'
  <2>1. b.job \in Jobs /\ b.job \in {d.job : d \in rows \ left}
    BY DEF Body
  <2>2. "retry" \in swallowed'[b.job]
    BY <1>1, <2>1 DEF Swallow
  <2>3. StatusDone(b.job)' /\ ImportDone(b)'
    BY <2>2 DEF StatusDone, ImportDone, Overlooked
  <2> QED
    BY <2>3 DEF Done, TrueBody
<1> QED
  BY <1>2, <1>3

LEMMA KeptInit == Init => KeptInv
BY QueueAssumption DEF Init, KeptInv, Waits, Alone, Holds, AnswerSettles, KeptAll, Posting, Free

LEMMA KeptInvStep == JobInv /\ JobInv' /\ KeptInv /\ [Next]_vars => KeptInv'
<1> SUFFICES ASSUME JobInv, JobInv', KeptInv, Next
             PROVE  KeptInv'
  BY DEF KeptInv, Waits, Alone, Holds, AnswerSettles, KeptAll, Held, Done, TrueBody,
     StatusDone, ImportDone, Overlooked, vars, serverVars, agentVars, history
<1> USE DEF serverVars, agentVars, history
<1>t. TypeOK /\ HasBody /\ TypeOK' /\ HasBody'
  BY DEF JobInv, TypeInv
<1>k. Waits /\ Alone /\ Holds /\ AnswerSettles /\ KeptAll
  BY DEF KeptInv
<1>1. ASSUME NEW j \in Jobs, NEW w \in {"none", "waiting"}, CreateJob(j, w)
      PROVE  KeptInv'
  <2>1. AnswerSettles'
    BY <1>1, <1>k, AnswersStep DEF CreateJob
  <2> QED
    BY <1>1, <2>1, KeptByServer DEF CreateJob
<1>2. ASSUME NEW a \in Agents, PollJobs(a)
      PROVE  KeptInv'
  <2>1. AnswerSettles'
    BY <1>2, <1>k, AnswersStep DEF PollJobs
  <2> QED
    BY <1>2, <2>1, KeptByServer DEF PollJobs
<1>3. ASSUME NEW a \in Agents, PollJobsLate(a)
      PROVE  KeptInv'
  <2>1. AnswerSettles'
    BY <1>3, <1>k, AnswersStep DEF PollJobsLate
  <2> QED
    BY <1>3, <2>1, KeptByServer DEF PollJobsLate
<1>4. ASSUME NEW j \in Jobs, WaiterStep(j)
      PROVE  KeptInv'
  <2>1. AnswerSettles'
    BY <1>4, <1>k, AnswersStep DEF WaiterStep
  <2> QED
    BY <1>4, <2>1, KeptByServer DEF WaiterStep
<1>5. ASSUME NEW r \in Slots, SubmitResult(r)
      PROVE  KeptInv'
  <2>1. request[r] \in Request /\ request[r] # Free
    BY <1>5, <1>t DEF TypeOK, SubmitResult, Free
  <2>2. PICK b \in Body, j \in Jobs : b = request[r].body /\ j = b.job
    BY <2>1 DEF Request, Body
  <2>3. b.status \in Terminal /\ TrueBody(b)
    BY <2>1, <2>2 DEF JobInv, RequestTrue, Body
  <2>4. UNCHANGED <<pc, current, awaited, file, todo, acked, outcome, crashed>>
    BY <1>5 DEF SubmitResult
  <2>5. CASE request' = [request EXCEPT ![r] = Respond(r, "error")]
    <3>1. /\ request'[r] = Respond(r, "error")
          /\ \A s \in Slots \ {r} : request'[s] = request[s]
      BY <1>t, <2>5 DEF TypeOK
    <3>2. request'[r].stage \notin {"ok", "ingesting"}
      BY <1>t, <2>1, <3>1, Responded DEF Free
    <3>3. AnswerSettles'
      BY <1>k, <2>4, <3>1, <3>2, AnswersStep
    <3>4. \A a \in Agents : awaited[a] = r => request'[r] # Free /\ request'[r].body = request[r].body
      BY <1>t, <2>1, <3>1, Responded
    <3> QED
      BY <2>4, <3>1, <3>3, <3>4, KeptByServer
  <2>6. ASSUME j \in store, Complete(b),
               request' = [request EXCEPT ![r] =
                 IF Imports(b) THEN [stage |-> "ingesting", body |-> b] ELSE Respond(r, "ok")]
        PROVE  KeptInv'
    <3>1. StatusDone(j)'
      <4>1. CASE status' = [status EXCEPT ![j] = b.status]
        BY <1>t, <2>3, <4>1 DEF StatusDone, TypeOK
      <4>2. CASE Swallow({j}, "result")
        BY <1>t, <4>2 DEF StatusDone, Overlooked, Swallow, TypeOK
      <4> QED
        BY <2>2, <2>6, <4>1, <4>2 DEF Complete
    <3>2. TrueBody(b)'
      BY <2>3, <2>4 DEF TrueBody
    <3>3. CASE Imports(b)
      <4>1. /\ request'[r] = [stage |-> "ingesting", body |-> b]
            /\ \A s \in Slots \ {r} : request'[s] = request[s]
        BY <1>t, <2>6, <3>3 DEF TypeOK
      <4>2. request'[r].stage # "ok" /\ request'[r].body.job = j
        BY <2>2, <4>1
      <4>3. StatusDone(request[r].body.job)'
        BY <3>1, <4>2
      <4>4. AnswerSettles'
        BY <1>k, <2>4, <4>1, <4>2, <4>3, AnswersStep
      <4>5. request'[r] # Free /\ request'[r].body = request[r].body
        BY <2>2, <4>1 DEF Free
      <4> QED
        BY <2>4, <4>1, <4>4, <4>5, KeptByServer
    <3>4. CASE ~Imports(b)
      <4>1. /\ request'[r] = Respond(r, "ok")
            /\ \A s \in Slots \ {r} : request'[s] = request[s]
        BY <1>t, <2>6, <3>4 DEF TypeOK
      <4>2. ImportDone(b)'
        BY <3>4 DEF ImportDone, Imports
      <4>3. Done(b)'
        BY <2>2, <3>1, <3>2, <4>2 DEF Done
      <4>4. request'[r].stage = "ok" => request'[r].body = b
        BY <1>t, <2>1, <2>2, <4>1, Responded DEF Free
      <4>5. request'[r].stage = "ok" => Done(request[r].body)'
        BY <4>3, <4>4
      <4>6. request'[r].stage # "ingesting"
        BY <1>t, <2>1, <4>1, Responded DEF Free
      <4>7. AnswerSettles'
        BY <1>k, <2>4, <4>1, <4>5, <4>6, AnswersStep
      <4>8. \A a \in Agents : awaited[a] = r => request'[r] # Free /\ request'[r].body = request[r].body
        BY <1>t, <2>1, <4>1, Responded
      <4> QED
        BY <2>4, <4>1, <4>7, <4>8, KeptByServer
    <3> QED
      BY <3>3, <3>4
  <2>7. \/ request' = [request EXCEPT ![r] = Respond(r, "error")]
        \/ /\ j \in store /\ Complete(b)
           /\ request' = [request EXCEPT ![r] =
                IF Imports(b) THEN [stage |-> "ingesting", body |-> b] ELSE Respond(r, "ok")]
    BY <1>5, <2>2 DEF SubmitResult
  <2> QED
    BY <2>5, <2>6, <2>7
<1>6. ASSUME NEW r \in Slots, FinishIngest(r)
      PROVE  KeptInv'
  <2>1. request[r] \in Request /\ request[r] # Free /\ request[r].stage = "ingesting"
    BY <1>6, <1>t DEF TypeOK, FinishIngest, Free
  <2>2. PICK b \in Body, j \in Jobs : b = request[r].body /\ j = b.job
    BY <2>1 DEF Request, Body
  <2>3. TrueBody(b) /\ StatusDone(j) /\ outcome[j] # {}
    BY <1>k, <2>1, <2>2 DEF JobInv, RequestTrue, AnswerSettles, TrueBody
  <2>4. /\ request' = [request EXCEPT ![r] = Respond(r, "ok")]
        /\ UNCHANGED <<pc, current, awaited, file, todo, acked, outcome, crashed>>
    BY <1>6 DEF FinishIngest
  <2>5. /\ request'[r] = Respond(r, "ok")
        /\ \A s \in Slots \ {r} : request'[s] = request[s]
    BY <1>t, <2>4 DEF TypeOK
  <2>6. ImportDone(b)'
    <3>1. CASE ingested' = ingested \cup {j}
      BY <2>2, <3>1 DEF ImportDone
    <3>2. CASE Swallow({j}, "import")
      BY <1>t, <2>2, <3>2 DEF ImportDone, Overlooked, Swallow, TypeOK
    <3> QED
      BY <1>6, <2>2, <3>1, <3>2 DEF FinishIngest
  <2>7. StatusDone(j)'
    BY <2>3, StatusDoneStays
  <2>8. TrueBody(b)'
    BY <2>3, <2>4 DEF TrueBody
  <2>9. Done(b)'
    BY <2>2, <2>6, <2>7, <2>8 DEF Done
  <2>10. request'[r].stage = "ok" => request'[r].body = b
    BY <1>t, <2>1, <2>2, <2>5, Responded DEF Free
  <2>11. request'[r].stage = "ok" => Done(request[r].body)'
    BY <2>9, <2>10
  <2>12. request'[r].stage # "ingesting"
    BY <1>t, <2>1, <2>5, Responded DEF Free
  <2>13. AnswerSettles'
    BY <1>k, <2>4, <2>5, <2>11, <2>12, AnswersStep
  <2>14. \A a \in Agents : awaited[a] = r => request'[r] # Free /\ request'[r].body = request[r].body
    BY <1>t, <2>1, <2>5, Responded
  <2> QED
    BY <2>4, <2>5, <2>13, <2>14, KeptByServer
<1>7. ASSUME ServerCrash
      PROVE  KeptInv'
  <2>1. \A r \in Slots : request[r] # Free => request[r] \in Request
    BY <1>t DEF TypeOK
  <2>2. \A r \in Slots : request'[r] = IF request[r] = Free THEN Free ELSE Respond(r, "error")
    BY <1>7 DEF ServerCrash
  <2>3. \A r \in Slots : request'[r].stage \notin {"ok", "ingesting"}
    BY <1>t, <2>1, <2>2, Responded DEF Free
  <2>4. AnswerSettles'
    BY <1>7, <1>k, <2>3, AnswersStep DEF ServerCrash
  <2>5. ASSUME NEW a \in Agents, awaited[a] \in Slots, request[awaited[a]] # Free
        PROVE  request'[awaited[a]] # Free /\ request'[awaited[a]].body = request[awaited[a]].body
    BY <1>t, <2>1, <2>2, <2>5, Responded
  <2> QED
    BY <1>7, <2>4, <2>5, KeptByServer DEF ServerCrash
<1>8. ASSUME NEW a \in Agents, FlushStart(a)
      PROVE  KeptInv'
  <2>1. Others(a) /\ pc[a] \notin Posting /\ pc'[a] \notin Posting
    BY <1>8, <1>t DEF Others, TypeOK, FlushStart, GoTo, Posting
  <2>2. Waits' /\ Alone'
    BY <1>8, <1>k, <2>1, WaitsByLoop DEF FlushStart
  <2>3. Holds'
    BY <1>8, <1>t, <1>k, <2>1 DEF Holds, TypeOK, FlushStart, GoTo
  <2>4. AnswerSettles'
    BY <1>8, <1>t, <1>k, AnswersStep DEF FlushStart, TypeOK
  <2>5. KeptAll'
    BY <1>8, <1>t, <1>k, KeptStep DEF FlushStart, TypeOK
  <2> QED
    BY <2>2, <2>3, <2>4, <2>5 DEF KeptInv
<1>9. ASSUME NEW a \in Agents, PollSend(a)
      PROVE  KeptInv'
  <2>1. Others(a) /\ pc[a] \notin Posting /\ pc'[a] \notin Posting
    BY <1>9, <1>t DEF Others, TypeOK, PollSend, GoTo, Posting
  <2>2. Waits' /\ Alone'
    BY <1>9, <1>k, <2>1, WaitsByLoop DEF PollSend
  <2>3. Holds'
    BY <1>9, <1>t, <1>k, <2>1 DEF Holds, TypeOK, PollSend, GoTo
  <2>4. AnswerSettles'
    BY <1>9, <1>t, <1>k, AnswersStep DEF PollSend, TypeOK
  <2>5. KeptAll'
    BY <1>9, <1>t, <1>k, KeptStep DEF PollSend, TypeOK
  <2> QED
    BY <2>2, <2>3, <2>4, <2>5 DEF KeptInv
<1>10. ASSUME NEW a \in Agents, PollReceived(a)
      PROVE  KeptInv'
  <2>1. Others(a) /\ pc[a] \notin Posting /\ pc'[a] \notin Posting
    BY <1>10, <1>t DEF Others, TypeOK, PollReceived, GoTo, Posting
  <2>2. Waits' /\ Alone'
    BY <1>10, <1>k, <2>1, WaitsByLoop DEF PollReceived
  <2>3. Holds'
    BY <1>10, <1>t, <1>k, <2>1 DEF Holds, TypeOK, PollReceived, GoTo
  <2>4. AnswerSettles'
    BY <1>10, <1>t, <1>k, AnswersStep DEF PollReceived, TypeOK
  <2>5. KeptAll'
    BY <1>10, <1>t, <1>k, KeptStep DEF PollReceived, TypeOK
  <2> QED
    BY <2>2, <2>3, <2>4, <2>5 DEF KeptInv
<1>11. ASSUME NEW a \in Agents, BatchDone(a)
      PROVE  KeptInv'
  <2>1. Others(a) /\ pc[a] \notin Posting /\ pc'[a] \notin Posting
    BY <1>11, <1>t DEF Others, TypeOK, BatchDone, GoTo, Posting
  <2>2. Waits' /\ Alone'
    BY <1>11, <1>k, <2>1, WaitsByLoop DEF BatchDone
  <2>3. Holds'
    BY <1>11, <1>t, <1>k, <2>1 DEF Holds, TypeOK, BatchDone, GoTo
  <2>4. AnswerSettles'
    BY <1>11, <1>t, <1>k, AnswersStep DEF BatchDone, TypeOK
  <2>5. KeptAll'
    BY <1>11, <1>t, <1>k, KeptStep DEF BatchDone, TypeOK
  <2> QED
    BY <2>2, <2>3, <2>4, <2>5 DEF KeptInv
<1>12. ASSUME NEW a \in Agents, AgentRestart(a)
      PROVE  KeptInv'
  <2>1. Others(a) /\ pc[a] \notin Posting /\ pc'[a] \notin Posting
    BY <1>12, <1>t DEF Others, TypeOK, AgentRestart, GoTo, Posting
  <2>2. Waits' /\ Alone'
    BY <1>12, <1>k, <2>1, WaitsByLoop DEF AgentRestart
  <2>3. Holds'
    BY <1>12, <1>t, <1>k, <2>1 DEF Holds, TypeOK, AgentRestart, GoTo
  <2>4. AnswerSettles'
    BY <1>12, <1>t, <1>k, AnswersStep DEF AgentRestart, TypeOK
  <2>5. KeptAll'
    BY <1>12, <1>t, <1>k, KeptStep DEF AgentRestart, TypeOK
  <2> QED
    BY <2>2, <2>3, <2>4, <2>5 DEF KeptInv
<1>13. ASSUME NEW a \in Agents, NEW unwritten \in BOOLEAN, FlushSave(a, unwritten)
      PROVE  KeptInv'
  <2>1. /\ Others(a) /\ pc[a] \notin Posting /\ pc'[a] \notin Posting
        /\ todo[a] = {} /\ todo' = todo /\ current' = current /\ acked' = acked
        /\ pc'[a] = "poll" /\ pc[a] = "flushing"
        /\ UNCHANGED <<request, awaited, outcome, crashed>>
    BY <1>13, <1>t, SaveMarks DEF Others, TypeOK, FlushSave, GoTo, Posting
  <2>2. Waits' /\ Alone'
    BY <1>k, <2>1, WaitsByLoop
  <2>3. Holds'
    BY <1>k, <2>1 DEF Holds, Others
  <2>4. AnswerSettles'
    BY <1>k, <2>1, AnswersStep
  <2>5. \A b \in acked[a] : Done(b)'
    BY <2>1, <2>4 DEF AnswerSettles
  <2>6. \A b \in file[a] \ acked[a] : b \in file'[a] \/ Done(b)'
    <3>1. TypeOK /\ AgentTrue
      BY <1>t DEF JobInv
    <3>2. file[a] \ acked[a] \in SUBSET Body
      BY <3>1 DEF TypeOK
    <3>3. \A b \in file[a] \ acked[a] : TrueBody(b)
      BY <3>1 DEF AgentTrue
    <3>4. SaveRows(a, file[a] \ acked[a], unwritten) /\ outcome' = outcome
      BY <1>13 DEF FlushSave
    <3> QED
      BY <3>1, <3>2, <3>3, <3>4, SaveLost
  <2>7. \A c \in Agents : \A b \in file[c] \cup {current[c]} :
           b \in file'[c] \cup {current'[c]} \/ Done(b)'
    BY <2>1, <2>5, <2>6 DEF Others
  <2>8. KeptAll'
    BY <1>t, <1>k, <2>1, <2>7, KeptStep DEF TypeOK
  <2> QED
    BY <2>2, <2>3, <2>4, <2>8 DEF KeptInv
<1>14. ASSUME NEW a \in Agents, NEW broken \in BOOLEAN, PollFailed(a, broken)
      PROVE  KeptInv'
  <2>1. Others(a) /\ pc[a] \notin Posting /\ pc'[a] \notin Posting
    BY <1>14, <1>t DEF Others, TypeOK, PollFailed, GoTo, Posting
  <2>2. Waits' /\ Alone'
    BY <1>14, <1>k, <2>1, WaitsByLoop DEF PollFailed
  <2>3. Holds'
    BY <1>14, <1>t, <1>k, <2>1 DEF Holds, TypeOK, PollFailed, GoTo
  <2>4. AnswerSettles'
    BY <1>14, <1>t, <1>k, AnswersStep DEF PollFailed, TypeOK
  <2>5. KeptAll'
    BY <1>14, <1>t, <1>k, KeptStep DEF PollFailed, TypeOK
  <2> QED
    BY <2>2, <2>3, <2>4, <2>5 DEF KeptInv
<1>15. ASSUME NEW a \in Agents, NEW j \in Jobs, NEW o \in Terminal, Execute(a, j, o)
      PROVE  KeptInv'
  <2>1. Others(a) /\ pc[a] \notin Posting /\ pc'[a] \notin Posting
    BY <1>15, <1>t DEF Others, TypeOK, Execute, GoTo, Posting
  <2>2. Waits' /\ Alone'
    BY <1>15, <1>k, <2>1, WaitsByLoop DEF Execute
  <2>3. Holds'
    BY <1>15, <1>t, <1>k, <2>1 DEF Holds, TypeOK, Execute, GoTo
  <2>4. AnswerSettles'
    BY <1>15, <1>t, <1>k, AnswersStep DEF Execute, TypeOK
  <2>5. AgentOf[j] = a /\ current[a] = NoBody
    BY <1>15, <1>k DEF Execute, JobInv, Handed, Holds
  <2>6. /\ current'[a] = [job |-> j, status |-> o] /\ outcome' \in [Jobs -> SUBSET Terminal]
        /\ outcome'[j] = outcome[j] \cup {o} /\ \A i \in Jobs \ {j} : outcome'[i] = outcome[i]
    BY <1>15, <1>t DEF Execute, TypeOK
  <2>7. \A i \in Jobs : \A x \in outcome'[i] :
            x \in outcome[i] \/ [job |-> i, status |-> x] \in {current'[AgentOf[i]]}
    BY <2>5, <2>6
  <2>8. \A c \in Agents : \A b \in file[c] \cup {current[c]} :
           b \in file'[c] \cup {current'[c]} \/ (b \in Body => Done(b)')
    BY <1>15, <1>t, <2>1, <2>5, NoBodyAssumption DEF Others, Execute, TypeOK
  <2>9. KeptAll'
    BY <1>15, <1>k, <2>6, <2>7, <2>8, KeptStep DEF Execute
  <2> QED
    BY <2>2, <2>3, <2>4, <2>9 DEF KeptInv
<1>16. ASSUME NEW a \in Agents, FlushPost(a)
      PROVE  KeptInv'
  <2> PICK b \in todo[a] : /\ Post(a, b)
                           /\ current' = [current EXCEPT ![a] = b]
                           /\ todo' = [todo EXCEPT ![a] = @ \ {b}]
    BY <1>16 DEF FlushPost
  <2>1. b \in Body /\ b \in file[a] /\ current[a] = NoBody
    BY <1>16, <1>t, <1>k DEF TypeOK, Holds, FlushPost
  <2>2. Others(a) /\ pc'[a] = "flushwait" /\ current'[a] = b
    BY <1>16, <1>t DEF Others, TypeOK, FlushPost, GoTo
  <2>3. Waits' /\ Alone'
    BY <1>t, <1>k, <2>1, <2>2, WaitsByPost DEF Posting
  <2>4. Holds'
    BY <1>16, <1>t, <1>k, <2>1, <2>2 DEF Holds, Others, TypeOK, FlushPost
  <2>5. \A r \in Slots : request'[r] = request[r] \/ request'[r].stage = "sent"
    BY <1>t, <1>k, <2>1, PostLink
  <2>6. AnswerSettles'
    BY <1>16, <1>k, <2>5, AnswersStep DEF FlushPost
  <2>7. \A c \in Agents : \A d \in file[c] \cup {current[c]} :
           d \in file'[c] \cup {current'[c]} \/ (d \in Body => Done(d)')
    BY <1>16, <2>1, <2>2, NoBodyAssumption DEF Others, FlushPost
  <2>8. KeptAll'
    BY <1>16, <1>t, <1>k, <2>7, KeptStep DEF FlushPost, TypeOK
  <2> QED
    BY <2>3, <2>4, <2>6, <2>8 DEF KeptInv
<1>17. ASSUME NEW a \in Agents, SendResult(a)
      PROVE  KeptInv'
  <2>1. current[a] \in Body /\ current' = current /\ Post(a, current[a])
    BY <1>17, <1>t DEF HasBody, SendResult
  <2>2. Others(a) /\ pc'[a] = "sendwait"
    BY <1>17, <1>t DEF Others, TypeOK, SendResult, GoTo
  <2>3. Waits' /\ Alone'
    BY <1>t, <1>k, <2>1, <2>2, WaitsByPost DEF Posting
  <2>4. Holds'
    BY <1>17, <1>t, <1>k, <2>1, <2>2 DEF Holds, Others, TypeOK, SendResult
  <2>5. \A r \in Slots : request'[r] = request[r] \/ request'[r].stage = "sent"
    BY <1>t, <1>k, <2>1, PostLink
  <2>6. AnswerSettles'
    BY <1>17, <1>k, <2>5, AnswersStep DEF SendResult
  <2>7. KeptAll'
    BY <1>17, <1>t, <1>k, KeptStep DEF SendResult, TypeOK
  <2> QED
    BY <2>3, <2>4, <2>6, <2>7 DEF KeptInv
<1>18. ASSUME NEW a \in Agents, FlushAcked(a)
      PROVE  KeptInv'
  <2>1. Others(a) /\ pc'[a] \notin Posting
    BY <1>18, <1>t DEF Others, TypeOK, FlushAcked, GoTo, Posting
  <2>2. HangUp(a) \/ Received(a, "ok")
    BY <1>18 DEF FlushAcked
  <2>3. Waits' /\ Alone'
    BY <1>t, <1>k, <2>1, <2>2, WaitsByLetGo
  <2>4. Holds'
    BY <1>18, <1>t, <1>k, <2>1 DEF Holds, Others, TypeOK, FlushAcked, GoTo
  <2>5. \A r \in Slots : request'[r] = request[r] \/ request'[r] = Free
    BY <1>t, <1>k, <2>2, LetGo
  <2>6. PICK b \in Body : b = current[a] /\ Done(b)
    <3>1. /\ awaited[a] \in Slots /\ request[awaited[a]].stage = "ok"
          /\ request[awaited[a]].body = current[a] /\ current[a] \in Body
      BY <1>18, <1>t, <1>k DEF FlushAcked, Received, Waits, Posting, HasBody, TypeOK
    <3> QED
      BY <1>k, <3>1 DEF AnswerSettles
  <2>7. Done(b)'
    BY <2>6, DoneStays
  <2>9. AnswerSettles'
    BY <1>18, <1>t, <1>k, <2>5, <2>6, <2>7, AnswersStep DEF FlushAcked, TypeOK, Free
  <2>10. \A c \in Agents : \A d \in file[c] \cup {current[c]} :
           d \in file'[c] \cup {current'[c]} \/ Done(d)'
    BY <1>18, <2>1, <2>6, <2>7 DEF Others, FlushAcked
  <2>11. KeptAll'
    BY <1>18, <1>t, <1>k, <2>10, KeptStep DEF FlushAcked, TypeOK
  <2> QED
    BY <2>3, <2>4, <2>9, <2>11 DEF KeptInv
<1>19. ASSUME NEW a \in Agents, ResultSent(a)
      PROVE  KeptInv'
  <2>1. Others(a) /\ pc'[a] \notin Posting
    BY <1>19, <1>t DEF Others, TypeOK, ResultSent, GoTo, Posting
  <2>2. HangUp(a) \/ Received(a, "ok")
    BY <1>19 DEF ResultSent
  <2>3. Waits' /\ Alone'
    BY <1>t, <1>k, <2>1, <2>2, WaitsByLetGo
  <2>4. Holds'
    BY <1>19, <1>t, <1>k, <2>1 DEF Holds, Others, TypeOK, ResultSent, GoTo
  <2>5. \A r \in Slots : request'[r] = request[r] \/ request'[r] = Free
    BY <1>t, <1>k, <2>2, LetGo
  <2>6. PICK b \in Body : b = current[a] /\ Done(b)
    <3>1. /\ awaited[a] \in Slots /\ request[awaited[a]].stage = "ok"
          /\ request[awaited[a]].body = current[a] /\ current[a] \in Body
      BY <1>19, <1>t, <1>k DEF ResultSent, Received, Waits, Posting, HasBody, TypeOK
    <3> QED
      BY <1>k, <3>1 DEF AnswerSettles
  <2>7. Done(b)'
    BY <2>6, DoneStays
  <2>9. AnswerSettles'
    BY <1>19, <1>t, <1>k, <2>5, AnswersStep DEF ResultSent, TypeOK, Free
  <2>10. \A c \in Agents : \A d \in file[c] \cup {current[c]} :
           d \in file'[c] \cup {current'[c]} \/ Done(d)'
    BY <1>19, <2>1, <2>6, <2>7 DEF Others, ResultSent
  <2>11. KeptAll'
    BY <1>19, <1>t, <1>k, <2>10, KeptStep DEF ResultSent, TypeOK
  <2> QED
    BY <2>3, <2>4, <2>9, <2>11 DEF KeptInv
<1>20. ASSUME NEW a \in Agents, NEW broken \in BOOLEAN, FlushFailed(a, broken)
      PROVE  KeptInv'
  <2>1. Others(a) /\ pc'[a] \notin Posting
    BY <1>20, <1>t DEF Others, TypeOK, FlushFailed, GoTo, Posting
  <2>2. HangUp(a) \/ Received(a, "error")
    BY <1>20 DEF FlushFailed
  <2>3. Waits' /\ Alone'
    BY <1>t, <1>k, <2>1, <2>2, WaitsByLetGo
  <2>4. Holds'
    BY <1>20, <1>t, <1>k, <2>1 DEF Holds, Others, TypeOK, FlushFailed, GoTo
  <2>5. \A r \in Slots : request'[r] = request[r] \/ request'[r] = Free
    BY <1>t, <1>k, <2>2, LetGo
  <2>9. AnswerSettles'
    BY <1>20, <1>t, <1>k, <2>5, AnswersStep DEF FlushFailed, TypeOK, Free
  <2>10. \A c \in Agents : \A d \in file[c] \cup {current[c]} :
           d \in file'[c] \cup {current'[c]}
    BY <1>20, <1>t, <1>k, <2>1 DEF Others, Holds, FlushFailed, TypeOK
  <2>11. KeptAll'
    BY <1>20, <1>t, <1>k, <2>10, KeptStep DEF FlushFailed, TypeOK
  <2> QED
    BY <2>3, <2>4, <2>9, <2>11 DEF KeptInv
<1>21. ASSUME NEW a \in Agents, NEW broken \in BOOLEAN, NEW unwritten \in BOOLEAN,
              QueueOffline(a, broken, unwritten)
      PROVE  KeptInv'
  <2>1. /\ Others(a) /\ pc'[a] \notin Posting /\ pc'[a] = "run" /\ current'[a] = NoBody
        /\ todo' = todo /\ acked' = acked /\ outcome' = outcome /\ crashed' = crashed
    BY <1>21, <1>t, SaveMarks DEF Others, TypeOK, QueueOffline, GoTo, Posting
  <2>2. HangUp(a) \/ Received(a, "error")
    BY <1>21 DEF QueueOffline
  <2>3. Waits' /\ Alone'
    BY <1>t, <1>k, <2>1, <2>2, WaitsByLetGo
  <2>5. \A r \in Slots : request'[r] = request[r] \/ request'[r] = Free
    BY <1>t, <1>k, <2>2, LetGo
  <2>6. AnswerSettles'
    BY <1>k, <2>1, <2>5, AnswersStep DEF Free
  <2>7. \A b \in file[a] \cup {current[a]} : b \in file'[a] \/ Done(b)'
    <3>1. /\ pc[a] = "sendwait" /\ current[a] \in Body /\ TrueBody(current[a])
          /\ \A b \in file[a] : b \in Body /\ TrueBody(b)
      BY <1>21, <1>t DEF QueueOffline, HasBody, TypeOK, JobInv, AgentTrue
    <3>2. SaveRows(a, file[a] \cup {current[a]}, unwritten)
      BY <1>21 DEF QueueOffline
    <3>3. TypeOK /\ outcome' = outcome /\ file[a] \cup {current[a]} \in SUBSET Body
          /\ \A b \in file[a] \cup {current[a]} : TrueBody(b)
      BY <1>21, <1>t, <3>1 DEF QueueOffline
    <3> QED
      BY <3>2, <3>3, SaveLost
  <2>8. \A c \in Agents : \A b \in file[c] \cup {current[c]} :
           b \in file'[c] \cup {current'[c]} \/ Done(b)'
    BY <2>1, <2>7 DEF Others
  <2>9. KeptAll'
    BY <1>t, <1>k, <2>1, <2>8, KeptStep DEF TypeOK
  <2>10. Holds'
    BY <1>21, <1>t, <1>k, <2>1 DEF Holds, Others, TypeOK, QueueOffline
  <2> QED
    BY <2>3, <2>6, <2>9, <2>10 DEF KeptInv
<1>22. ASSUME NEW a \in Agents, SendAgain(a)
      PROVE  KeptInv'
  <2>1. Others(a) /\ pc'[a] \notin Posting
    BY <1>22, <1>t DEF Others, TypeOK, SendAgain, GoTo, Posting
  <2>2. HangUp(a) \/ Received(a, "error")
    BY <1>22 DEF SendAgain
  <2>3. Waits' /\ Alone'
    BY <1>t, <1>k, <2>1, <2>2, WaitsByLetGo
  <2>4. Holds'
    BY <1>22, <1>t, <1>k, <2>1 DEF Holds, Others, TypeOK, SendAgain, GoTo
  <2>5. \A r \in Slots : request'[r] = request[r] \/ request'[r] = Free
    BY <1>t, <1>k, <2>2, LetGo
  <2>9. AnswerSettles'
    BY <1>22, <1>t, <1>k, <2>5, AnswersStep DEF SendAgain, TypeOK, Free
  <2>10. \A c \in Agents : \A d \in file[c] \cup {current[c]} :
           d \in file'[c] \cup {current'[c]}
    BY <1>22, <1>t, <1>k, <2>1 DEF Others, Holds, SendAgain, TypeOK
  <2>11. KeptAll'
    BY <1>22, <1>t, <1>k, <2>10, KeptStep DEF SendAgain, TypeOK
  <2> QED
    BY <2>3, <2>4, <2>9, <2>11 DEF KeptInv
<1>23. ASSUME NEW a \in Agents, AgentCrash(a)
      PROVE  KeptInv'
  <2>1. Others(a) /\ pc'[a] = "down"
    BY <1>23, <1>t DEF Others, TypeOK, AgentCrash, GoTo
  <2>2. Waits' /\ Alone' /\ \A r \in Slots : request'[r] = request[r] \/ request'[r] = Free
    <3>1. CASE HangUp(a)
      BY <1>t, <1>k, <2>1, <3>1, WaitsByLetGo, LetGo DEF Posting
    <3>2. CASE awaited[a] = NoSlot /\ UNCHANGED <<request, awaited>>
      <4>1. pc[a] \notin Posting
        BY <1>k, <3>2, QueueAssumption DEF Waits
      <4> QED
        BY <1>k, <2>1, <3>2, <4>1, WaitsByLoop DEF Posting
    <3> QED
      BY <1>23, <3>1, <3>2 DEF AgentCrash, Waiting
  <2>3. todo'[a] = {} /\ current'[a] = NoBody /\ acked'[a] = {} /\ a \in crashed'
    BY <1>23, <1>t DEF AgentCrash, TypeOK
  <2>4. Holds'
    BY <1>k, <2>1, <2>3 DEF Holds, Others
  <2>5. AnswerSettles'
    BY <1>23, <1>t, <1>k, <2>2, AnswersStep DEF AgentCrash, TypeOK, Free
  <2>6. \A c \in Agents : \A d \in file[c] \cup {current[c]} :
           d \in file'[c] \cup {current'[c]} \/ c \in crashed'
    BY <2>1, <2>3 DEF Others
  <2>7. KeptAll'
    BY <1>23, <1>t, <1>k, <2>6, KeptStep DEF AgentCrash, TypeOK
  <2> QED
    BY <2>2, <2>4, <2>5, <2>7 DEF KeptInv
<1> QED
  BY <1>1, <1>2, <1>3, <1>4, <1>5, <1>6, <1>7, <1>8, <1>9, <1>10, <1>11, <1>12, <1>13, <1>14, <1>15, <1>16, <1>17, <1>18, <1>19, <1>20, <1>21, <1>22, <1>23
     DEF Next, Server, AgentLoop, AgentFault

\* ResultKept: while the agent has not crashed, the server gets what it still needs of a
\* result, but for the writes and imports whose failure is only logged.
THEOREM ResultsKept == Spec => []ResultKept
<1>1. JobInv /\ KeptInv => ResultKept
  BY KeptImplies DEF KeptInv
<1> QED
  BY <1>1, KeptInit, KeptInvStep, JobInvariant, PTL DEF Spec

-----------------------------------------------------------------------------
(* The queue implements the abstract relay.                                *)

\* Seen from the relay nothing happened.
Quiet == UNCHANGED <<status, outcome, waiter>> /\ \A j \in Jobs : Marked(j)' = Marked(j)

\* Every step of the polling loop but Execute is invisible to the relay's callers.
LEMMA LoopStutters ==
  ASSUME TypeOK, NEW a \in Agents,
         \/ AgentFault(a)
         \/ AgentLoop(a) /\ ~ \E j \in Jobs, o \in Terminal : Execute(a, j, o)
  PROVE  Quiet
<1>1. CASE UNCHANGED <<status, outcome, waiter, swallowed>>
  BY <1>1 DEF Quiet, Marked
<1>2. ASSUME NEW u \in BOOLEAN, FlushSave(a, u)
      PROVE  Quiet
  BY <1>2, SaveMarks DEF Quiet, FlushSave, serverVars
<1>3. ASSUME NEW b \in BOOLEAN, NEW u \in BOOLEAN, QueueOffline(a, b, u)
      PROVE  Quiet
  BY <1>3, SaveMarks DEF Quiet, QueueOffline
<1> QED
  BY <1>1, <1>2, <1>3 DEF AgentFault, AgentLoop, FlushStart, FlushPost, FlushAcked,
     FlushFailed, PollSend, PollReceived, PollFailed, BatchDone, SendResult, ResultSent,
     SendAgain, AgentCrash, AgentRestart, serverVars, history

LEMMA RelayInit == Init => Relay!Init
BY DEF Init, Relay!Init, Overlooked

\* The relay's view of the jobs whose hand-out left no record.
Slipped == {j \in Jobs : Overlooked(j, {"claim"})}

LEMMA SlippedMarks ==
  ASSUME NEW j \in Jobs PROVE j \in Slipped <=> ~Marked(j)
BY DEF Slipped, Overlooked, Marked

LEMMA SameSlipped ==
  ASSUME \A j \in Jobs : Marked(j)' = Marked(j) PROVE Slipped' = Slipped
BY DEF Slipped, Overlooked, Marked

LEMMA RelayStep == JobInv /\ [Next]_vars => [Relay!Next]_Relay!vars
<1> SUFFICES ASSUME JobInv, [Next]_vars
             PROVE  Relay!Next \/ Quiet
  BY SameSlipped DEF Relay!vars, Quiet, Slipped
<1> USE DEF JobInv, TypeInv
<1>1. ASSUME NEW j \in Jobs, NEW w \in {"none", "waiting"}, CreateJob(j, w)
      PROVE  Relay!Next
  <2>1. Relay!Submit(j)
    BY <1>1 DEF Relay!Submit, CreateJob, TypeOK, Overlooked
  <2> QED
    BY <2>1 DEF Relay!Next
<1>2. ASSUME NEW a \in Agents, PollJobs(a) \/ PollJobsLate(a)
      PROVE  Relay!Next \/ Quiet
  <2>1. PICK S \in SUBSET Pending(a) : Claim(S) /\ UNCHANGED <<outcome, waiter>>
    BY <1>2 DEF PollJobs, PollJobsLate, Claimable
  <2>2. S \in SUBSET Jobs /\ \A j \in S : status[j] = "pending"
    BY <2>1 DEF Pending, TypeOK
  <2>3. CASE S = {}
    BY <2>1, <2>3 DEF Claim, TypeOK, Quiet, Marked
  <2>4. CASE S # {} /\ UNCHANGED swallowed
    <3>1. Slipped' = Slipped
      BY <2>4 DEF Slipped, Overlooked
    <3>2. CASE status' = [j \in Jobs |-> IF j \in S THEN "in_progress" ELSE status[j]]
      <4>1. \A j \in Jobs : status'[j] = IF j \in S THEN "in_progress" ELSE status[j]
        BY <3>2
      <4>2. Relay!HandOut(S)
        BY <2>1, <2>2, <2>4, <3>1, <4>1 DEF Relay!HandOut, Slipped
      <4> QED
        BY <2>2, <4>2 DEF Relay!Next
    <3>3. CASE UNCHANGED status
      <4>1. \A j \in Jobs : Marked(j)' = Marked(j)
        BY <2>4 DEF Marked
      <4> QED
        BY <2>1, <3>3, <4>1 DEF Quiet
    <3> QED
      BY <2>1, <3>2, <3>3 DEF Claim
  <2>5. CASE S # {} /\ Swallow(S, "claim") /\ UNCHANGED status
    <3>1. \A j \in Jobs : Marked(j)' = (Marked(j) /\ j \notin S)
      BY <2>5, SwallowMarks DEF Calls
    <3>2. Slipped' = Slipped \cup S
      BY <2>2, <3>1 DEF Slipped, Overlooked, Marked
    <3>3. Relay!Slip(S)
      BY <2>1, <2>2, <2>5, <3>2 DEF Relay!Slip, Slipped
    <3> QED
      BY <2>2, <3>3 DEF Relay!Next
  <2> QED
    BY <2>1, <2>3, <2>4, <2>5 DEF Claim
<1>3. ASSUME NEW r \in Slots, SubmitResult(r)
      PROVE  Relay!Next \/ Quiet
  <2> DEFINE b == request[r].body
  <2>1. b \in Body /\ b.status \in outcome[b.job]
    BY <1>3 DEF SubmitResult, TypeOK, Request, Free, RequestTrue, TrueBody
  <2>2. PICK k \in Jobs : k = b.job
    BY <2>1 DEF Body
  <2>3. PICK s \in Terminal : s = b.status
    BY <2>1 DEF Body
  <2>4. UNCHANGED <<outcome, waiter>> /\ (swallowed' = swallowed \/ Swallow({k}, "result"))
    BY <1>3, <2>2 DEF SubmitResult, Complete
  <2>5. \A j \in Jobs : Marked(j)' = Marked(j)
    BY <2>4, SwallowMarks DEF Calls, Marked
  <2>6. status' = status \/ status' = [status EXCEPT ![k] = s]
    BY <1>3, <2>2, <2>3 DEF SubmitResult, Complete
  <2>7. CASE status' = status
    BY <2>4, <2>5, <2>7 DEF Quiet
  <2>8. CASE status' = [status EXCEPT ![k] = s] /\ status' # status
    <3>1. s \in outcome[k]
      BY <2>1, <2>2, <2>3
    <3>2. status[k] = "in_progress" \/ ~Marked(k)
      <4>1. CASE status[k] \in Terminal /\ Marked(k)
        <5>1. status[k] = s
          BY <3>1, <4>1 DEF RanOnce, StatusTrue
        <5> QED
          BY <2>8, <5>1 DEF TypeOK
      <4>2. status[k] \notin {"none", "pending"} \/ ~Marked(k)
        BY <3>1 DEF RanOnce
      <4> QED
        BY <4>1, <4>2 DEF TypeOK
    <3>3. Slipped' = Slipped
      BY <2>5, SameSlipped
    <3>4. status[k] = "in_progress" \/ k \in Slipped
      BY <3>2, SlippedMarks
    <3>5. \A j \in Jobs : status'[j] = IF j = k THEN s ELSE status[j]
      BY <2>8 DEF TypeOK
    <3>6. s \notin {"none", "pending", "in_progress"}
      BY DEF Terminal
    <3>7. Relay!Report(k)
      BY <2>4, <3>1, <3>3, <3>4, <3>5, <3>6 DEF Relay!Report, Slipped
    <3> QED
      BY <3>7 DEF Relay!Next
  <2> QED
    BY <2>6, <2>7, <2>8
<1>4. ASSUME NEW a \in Agents, NEW j \in Jobs, NEW o \in Terminal, Execute(a, j, o)
      PROVE  Relay!Next
  <2>1. (status[j] = "in_progress" /\ outcome[j] = {}) \/ ~Marked(j)
    BY <1>4 DEF Execute, Handed, RanOnce
  <2>2. (status[j] = "in_progress" /\ outcome[j] = {}) \/ j \in Slipped
    BY <2>1, SlippedMarks
  <2>3. Slipped' = Slipped
    BY <1>4 DEF Execute, Slipped, Overlooked
  <2>4. Relay!Act(j, o)
    BY <1>4, <2>2, <2>3 DEF Relay!Act, Execute, serverVars, Slipped
  <2> QED
    BY <2>4 DEF Relay!Next, Relay!Outcomes, Terminal
<1>5. ASSUME NEW j \in Jobs, WaiterStep(j)
      PROVE  Relay!Next
  <2>1. PICK ans \in {"ok", "failed", "gave_up"} :
           /\ ans = "ok" => status[j] = "success"
           /\ ans = "failed" => status[j] \in Terminal \ {"success"}
           /\ waiter' = [waiter EXCEPT ![j] = ans]
    BY <1>5 DEF WaiterStep
  <2>2. waiter[j] = "waiting" /\ UNCHANGED <<status, outcome, swallowed>>
    BY <1>5 DEF WaiterStep, history
  <2>3. CASE ans = "gave_up"
    <3>1. Relay!GiveUp({j})
      BY <2>1, <2>2, <2>3 DEF Relay!GiveUp, TypeOK, Overlooked
    <3> QED
      BY <3>1 DEF Relay!Next
  <2>4. CASE ans # "gave_up"
    <3>1. Relay!Answer(j)
      BY <2>1, <2>2, <2>4 DEF Relay!Answer, Relay!Outcomes, Terminal, Overlooked
    <3> QED
      BY <3>1 DEF Relay!Next
  <2> QED
    BY <2>3, <2>4
<1>6. CASE ServerCrash
  <2> DEFINE S == {j \in Jobs : waiter[j] = "waiting"}
  <2>1. CASE S = {}
    BY <1>6, <2>1 DEF ServerCrash, TypeOK, Quiet, Marked
  <2>2. CASE S # {}
    <3>1. Relay!GiveUp(S)
      BY <1>6, <2>2 DEF ServerCrash, Relay!GiveUp, Overlooked
    <3> QED
      BY <3>1 DEF Relay!Next
  <2> QED
    BY <2>1, <2>2
<1>7. CASE UNCHANGED vars
  BY <1>7 DEF vars, serverVars, history, Quiet, Marked
<1>8. ASSUME NEW r \in Slots, FinishIngest(r)
      PROVE  Quiet
  <2>1. swallowed' = swallowed \/ Swallow({request[r].body.job}, "import")
    BY <1>8 DEF FinishIngest
  <2>2. \A j \in Jobs : Marked(j)' = Marked(j)
    BY <2>1, SwallowMarks DEF Calls, Marked
  <2> QED
    BY <1>8, <2>2 DEF FinishIngest, Quiet
<1>9. ASSUME NEW a \in Agents, AgentLoop(a) \/ AgentFault(a)
      PROVE  Relay!Next \/ Quiet
  BY <1>4, <1>9, LoopStutters
<1> QED
  BY <1>1, <1>2, <1>3, <1>5, <1>6, <1>7, <1>8, <1>9 DEF Next, Server

\* RelayPromise: whatever the network, the agent and the server do, callers see a relay that
\* hands a job out once and acts on it at most once, except for a hand-out the JSON file has
\* no record of, and that reports only what happened.
THEOREM QueueImplementsRelay == Spec => RelayPromise
BY RelayInit, RelayStep, JobInvariant, PTL DEF Spec, Relay!Spec, RelayPromise

-----------------------------------------------------------------------------
(* The terminal page: the inductive invariant.                             *)

Commands == {"unlock", "bulk", "privilege"}
Lists == Commands \cup {"load"}

\* What a handler of a kind is doing, and with whom.
Route(k) ==
  /\ k.at \in {"agent", "show"} => k.kind \in Lists
  /\ k.at = "unlock" => k.kind \in {"unlock", "bulk"}
  /\ k.at \in {"write", "late", "unlock again"} => k.kind \in {"bulk", "privilege"}
  /\ k.at = "call" => k.kind \in {"import", "pull", "process", "test"}
  /\ k.at = "refresh" => k.kind \in {"mount", "import", "pull", "test"}
  /\ k.kind \in Lists => k.d \in Devices
  /\ k.kind = "bulk" => ~k.grant
  /\ k.at = "late" => k.left

\* The users still to be written are some of those that were named; there are such
\* until the last is written.
Rest(k) ==
  /\ k.todo \subseteq k.users
  /\ k.kind = "bulk" /\ k.at \in {"unlock", "write", "late"} => k.todo # {}
  /\ k.kind = "bulk" /\ k.at \in {"unlock again", "agent"} => k.todo = {}
  /\ k.kind = "privilege" /\ k.at \in {"write", "late"} => \E u \in User : k.todo = {u}

\* The administrators of terminal d are listed as such, but for the ones changed since.
Covers(a, d, rows, changed) ==
  \A u \in a : u[1] = d => u \in changed \/ \E r \in rows : r.user = u /\ r.admin

\* A handler names and lists people of its terminal, unless a bridge lists another's; who
\* administers the terminal is listed as such or known to be missing.
OwnPeople(k) ==
  /\ k.clean => \A u \in k.users : u[1] = k.d
  /\ k.at = "show" /\ Direct(k.d) => \A r \in k.rows : r.user[1] = k.d

HasRead(a, k) == k.at = "show" /\ k.ok => Covers(a, k.d, k.rows, k.changed)

\* Who is still an administrator is still to be written.
StillTo(a, k) ==
  k.kind = "bulk" /\ k.clean /\ ~k.left /\ k.at \in {"unlock", "write", "unlock again", "agent"}
    => \A u \in a : u[1] = k.d => u \in k.todo \cup k.changed

Sound(a, k) == Route(k) /\ Rest(k) /\ OwnPeople(k) /\ HasRead(a, k) /\ StillTo(a, k)

\* The dialog shows its terminal.
OwnDialog(a, p, c) ==
  p.picker # None /\ ~c /\ Direct(p.picker) =>
    /\ \A r \in p.rows : r.user[1] = p.picker
    /\ \A u \in p.ticked : u[1] = p.picker
    /\ ~p.loading /\ ~p.failed => Covers(a, p.picker, p.rows, p.stale)

\* The handlers of the page that is there: the lists they will show are of the dialog's
\* terminal, and a command keeps the buttons of the others disabled.
Belongs(p, c, k) ==
  /\ k.kind \in Lists /\ p.picker # None /\ ~c => k.d = p.picker
  /\ k.kind \in {"unlock", "bulk"} => "bulk" \in p.busy
  /\ k.kind = "privilege" => "privilege" \in p.busy

Here(k) == k # Idle /\ ~k.left

Whole(a, p, f, c) ==
  /\ \A t \in Tasks : f[t] # Idle => Sound(a, f[t])
  /\ OwnDialog(a, p, c)
  /\ \A t \in Tasks : Here(f[t]) => Belongs(p, c, f[t])
  /\ \A s, t \in Tasks :
       /\ Here(f[s]) /\ f[s].kind \in Commands
       /\ Here(f[t]) /\ f[t].kind \in Commands
       => s = t

PageInv == PageTypeOK /\ Whole(admins, page, tasks, crossed)

-----------------------------------------------------------------------------
(* Pages and handlers as values: what each kind of step leaves whole.      *)

\* Some number is the least.
LEMMA Least ==
  ASSUME NEW T, T \subseteq Nat, T # {}
  PROVE  \E x \in T : \A y \in T : x <= y
<1> DEFINE R == StrictSubsetOrdering(Nat)
           U == {1 .. n : n \in T}
<1>1. IsWellFoundedOn(R, FiniteSubsetsOf(Nat))
  BY FS_StrictSubsetOrderingWellFounded
<1>2. U \subseteq FiniteSubsetsOf(Nat) /\ U # {}
  <2>1. \A n \in Nat : IsFiniteSet(1 .. n) /\ 1 .. n \subseteq Nat
    BY FS_Interval
  <2> QED
    BY <2>1 DEF FiniteSubsetsOf
<1>3. \E u \in U : \A v \in U : <<v, u>> \notin R
  <2> HIDE DEF R, U
  <2> QED
    BY <1>1, <1>2, WFMin
<1>4. PICK x \in T : \A v \in U : <<v, 1 .. x>> \notin R
  BY <1>3
<1>5. ASSUME NEW y \in T, y < x
      PROVE  FALSE
  <2>1. 1 .. y \in U
    OBVIOUS
  <2>2. 1 .. y \subseteq 1 .. x /\ x \in 1 .. x /\ x \notin 1 .. y /\ 1 .. x \subseteq Nat
    BY <1>5
  <2>3. <<1 .. y, 1 .. x>> \in R
    BY <2>2 DEF StrictSubsetOrdering
  <2> QED
    BY <1>4, <2>1, <2>3
<1> QED
  BY <1>5

\* The user with the lowest uid is one of them.
LEMMA LowestIn ==
  ASSUME NEW S \in SUBSET User, S # {}
  PROVE  Lowest(S) \in S
<1> DEFINE T == {u[2] : u \in S}
<1>1. \A u \in S : u[2] \in Nat
  BY SyncAssumption DEF User
<1>2. PICK x \in T : \A y \in T : x <= y
  <2>1. T \subseteq Nat /\ T # {}
    BY <1>1
  <2> HIDE DEF T
  <2> QED
    BY <2>1, Least
<1>3. \E u \in S : \A v \in S : u[2] <= v[2]
  BY <1>2
<1> QED
  BY <1>3 DEF Lowest

\* The user a handler changes next is one of its terminal, and one that was named.
Whom(k) == <<k.d, Lowest(k.todo)[2]>>

LEMMA SubjectFacts ==
  ASSUME NEW k \in Underway, Route(k), Rest(k), k.at \in {"write", "late"}
  PROVE  /\ Lowest(k.todo) \in k.todo
         /\ Whom(k) \in User
         /\ OwnPeople(k) /\ k.clean => Whom(k) = Lowest(k.todo)
<1>1. k.kind \in {"bulk", "privilege"} /\ k.d \in Devices /\ k.todo \in SUBSET User
      /\ k.todo # {}
  BY DEF Underway, Route, Rest, Lists, Commands
<1>2. Lowest(k.todo) \in k.todo
  BY <1>1, LowestIn
<1>3. PICK w \in k.todo : w = Lowest(k.todo)
  BY <1>2
<1>4. w \in Devices \X Uids
  BY <1>1 DEF User
<1>5. Whom(k) \in User
  BY <1>1, <1>3, <1>4 DEF Whom, User
<1>6. ASSUME OwnPeople(k), k.clean
      PROVE  Whom(k) = Lowest(k.todo)
  <2>1. w[1] = k.d
    BY <1>6 DEF OwnPeople, Rest
  <2> QED
    BY <1>3, <1>4, <2>1 DEF Whom
<1> QED
  BY <1>2, <1>5, <1>6

\* A handler remains sound when administrators are taken away, and when it is told of
\* a change.
LEMMA FewerSound ==
  ASSUME NEW a, NEW b, b \subseteq a, NEW k \in Underway, Sound(a, k)
  PROVE  Sound(b, k)
BY DEF Sound, HasRead, StillTo, Covers

LEMMA ToldSound ==
  ASSUME NEW a, NEW b, NEW u \in User, b \subseteq a \cup {u},
         NEW k \in Underway, Sound(a, k)
  PROVE  LET j == [k EXCEPT !.changed = @ \cup {u}] IN j \in Underway /\ Sound(b, j)
<1> DEFINE j == [k EXCEPT !.changed = @ \cup {u}]
<1>1. /\ j \in Underway /\ j.changed = k.changed \cup {u}
      /\ j.kind = k.kind /\ j.at = k.at /\ j.d = k.d /\ j.users = k.users /\ j.todo = k.todo
      /\ j.grant = k.grant /\ j.clean = k.clean /\ j.rows = k.rows /\ j.ok = k.ok
      /\ j.left = k.left
  BY DEF Underway
<1> HIDE DEF j
<1>2. Route(j) /\ Rest(j) /\ OwnPeople(j)
  BY <1>1 DEF Sound, Route, Rest, OwnPeople
<1>3. HasRead(b, j)
  BY <1>1 DEF Sound, HasRead, Covers
<1>4. StillTo(b, j)
  BY <1>1 DEF Sound, StillTo
<1> QED
  BY <1>1, <1>2, <1>3, <1>4 DEF Sound, j

\* A handler that has no list to show does not mind another administrator, unless it
\* takes all away.
LEMMA OtherSound ==
  ASSUME NEW a, NEW b, NEW k \in Underway, Sound(a, k), k.at # "show",
         ~(k.kind = "bulk" /\ ~k.left)
  PROVE  Sound(b, k)
BY DEF Sound, HasRead, StillTo

\* The flags of a page.
LEMMA HereKind ==
  ASSUME NEW a, NEW p, NEW f \in [Tasks -> {Idle} \cup Underway], NEW c, Whole(a, p, f, c),
         NEW t \in Tasks, f[t] # Idle
  PROVE  f[t] \in Underway /\ Sound(a, f[t])
BY DEF Whole

\* A click.
LEMMA ClickWhole ==
  ASSUME NEW a, NEW p, NEW f \in [Tasks -> {Idle} \cup Underway], NEW c, Whole(a, p, f, c),
         NEW t \in Tasks, f[t] = Idle, NEW q, NEW e, NEW k \in Underway,
         Sound(a, k), OwnDialog(a, q, e), Belongs(q, e, k), p.busy \subseteq q.busy,
         q.picker # None /\ ~e =>
           \A s \in Tasks : Here(f[s]) /\ f[s].kind \in Lists => f[s].d = q.picker,
         k.kind \in Commands => p.busy \cap {"bulk", "privilege"} = {}
  PROVE  Whole(a, q, [f EXCEPT ![t] = k], e)
<1> DEFINE g == [f EXCEPT ![t] = k]
<1>1. g[t] = k /\ \A s \in Tasks : s # t => g[s] = f[s]
  OBVIOUS
<1> HIDE DEF g
<1>2. \A s \in Tasks : g[s] # Idle => Sound(a, g[s])
  BY <1>1 DEF Whole
<1>3. \A s \in Tasks : Here(g[s]) => Belongs(q, e, g[s])
  BY <1>1 DEF Whole, Belongs
<1>4. ASSUME k.kind \in Commands, NEW s \in Tasks, s # t, Here(g[s]), g[s].kind \in Commands
      PROVE  FALSE
  BY <1>1, <1>4 DEF Whole, Belongs, Commands
<1>5. \A r, s \in Tasks :
        /\ Here(g[r]) /\ g[r].kind \in Commands
        /\ Here(g[s]) /\ g[s].kind \in Commands
        => r = s
  BY <1>1, <1>4 DEF Whole
<1> QED
  BY <1>2, <1>3, <1>5 DEF Whole, g

\* A handler goes on or ends; the dialog may be closed, and when it ends the buttons it
\* had disabled work again.
LEMMA OnwardWhole ==
  ASSUME NEW a, NEW p, NEW f \in [Tasks -> {Idle} \cup Underway], NEW c, Whole(a, p, f, c),
         NEW t \in Tasks, f[t] # Idle, NEW q, NEW k \in {Idle} \cup Underway,
         k # Idle => /\ Sound(a, k) /\ k.kind = f[t].kind /\ k.d = f[t].d
                     /\ f[t].left => k.left,
         OwnDialog(a, q, c), q.picker \in {None, p.picker},
         \/ q.busy = p.busy
         \/ ~Here(k) /\ ~f[t].left /\ q.busy = p.busy \ Flags(f[t].kind)
  PROVE  Whole(a, q, [f EXCEPT ![t] = k], c)
<1> DEFINE g == [f EXCEPT ![t] = k]
<1>1. g[t] = k /\ \A s \in Tasks : s # t => g[s] = f[s]
  OBVIOUS
<1> HIDE DEF g
<1>2. f[t] \in Underway
  OBVIOUS
<1>3. \A s \in Tasks : g[s] # Idle => Sound(a, g[s])
  BY <1>1 DEF Whole
<1>4. Here(k) => Here(f[t]) /\ k.kind = f[t].kind /\ k.d = f[t].d
  BY DEF Here
<1>5. ASSUME NEW s \in Tasks, Here(g[s])
      PROVE  Belongs(q, c, g[s])
  <2>1. CASE s = t
    <3>1. q.busy = p.busy
      BY <1>1, <1>5, <2>1
    <3> QED
      BY <1>1, <1>4, <1>5, <2>1, <3>1 DEF Whole, Belongs
  <2>2. CASE s # t
    <3>1. Here(f[s]) /\ g[s] = f[s] /\ Belongs(p, c, f[s])
      BY <1>1, <1>5, <2>2 DEF Whole
    <3>2. f[s].kind \in Commands => {"bulk", "privilege"} \cap p.busy \subseteq q.busy
      <4>1. CASE q.busy = p.busy
        BY <4>1
      <4>2. CASE q.busy # p.busy
        <5>1. Here(f[t]) /\ q.busy = p.busy \ Flags(f[t].kind)
          BY <4>2 DEF Here
        <5>2. f[s].kind \in Commands => f[t].kind \notin Commands
          BY <2>2, <3>1, <5>1 DEF Whole
        <5>3. f[t].kind \notin Commands => Flags(f[t].kind) \cap {"bulk", "privilege"} = {}
          BY <1>2 DEF Flags, Commands
        <5> QED
          BY <5>1, <5>2, <5>3
      <4> QED
        BY <4>1, <4>2
    <3> QED
      BY <3>1, <3>2 DEF Belongs, Commands
  <2> QED
    BY <2>1, <2>2
<1>6. \A r, s \in Tasks :
        /\ Here(g[r]) /\ g[r].kind \in Commands
        /\ Here(g[s]) /\ g[s].kind \in Commands
        => r = s
  BY <1>1, <1>4 DEF Whole
<1> QED
  BY <1>3, <1>5, <1>6 DEF Whole, g

\* What is ticked, and the dialog, change.
LEMMA TouchWhole ==
  ASSUME NEW a, NEW p, NEW f, NEW c, Whole(a, p, f, c),
         NEW q, OwnDialog(a, q, c), q.picker \in {None, p.picker}, q.busy = p.busy
  PROVE  Whole(a, q, f, c)
BY DEF Whole, Belongs

\* Somebody else changes a user.
LEMMA NotedWhole ==
  ASSUME NEW a, NEW p \in Content, NEW f \in [Tasks -> {Idle} \cup Underway], NEW c,
         Whole(a, p, f, c), NEW b, NEW u \in User, b \subseteq a \cup {u}
  PROVE  /\ Noted(f, u) \in [Tasks -> {Idle} \cup Underway]
         /\ Outdated(p, u) \in Content
         /\ Whole(b, Outdated(p, u), Noted(f, u), c)
<1> DEFINE g == Noted(f, u)
           q == Outdated(p, u)
<1>1. \A s \in Tasks : g[s] = IF f[s] = Idle THEN Idle
                               ELSE [f[s] EXCEPT !.changed = @ \cup {u}]
  BY DEF Noted
<1>2. ASSUME NEW s \in Tasks
      PROVE  /\ f[s] = Idle => g[s] = Idle
             /\ f[s] # Idle => /\ g[s] \in Underway /\ Sound(b, g[s])
                               /\ g[s].kind = f[s].kind /\ g[s].d = f[s].d
                               /\ g[s].left = f[s].left
  <2>1. CASE f[s] = Idle
    BY <1>1, <2>1
  <2>2. CASE f[s] # Idle
    <3>1. f[s] \in Underway /\ Sound(a, f[s])
      BY <2>2 DEF Whole
    <3>2. PICK k : k = f[s]
      OBVIOUS
    <3>3. g[s] = [k EXCEPT !.changed = @ \cup {u}]
      BY <1>1, <2>2, <3>2
    <3>4. g[s] \in Underway /\ Sound(b, g[s])
      BY <3>1, <3>2, <3>3, ToldSound
    <3>5. g[s].kind = k.kind /\ g[s].d = k.d /\ g[s].left = k.left
      BY <3>1, <3>2, <3>3 DEF Underway
    <3> QED
      BY <2>2, <3>2, <3>4, <3>5
  <2> QED
    BY <2>1, <2>2
<1>3. /\ q \in Content /\ q.picker = p.picker /\ q.rows = p.rows /\ q.ticked = p.ticked
      /\ q.loading = p.loading /\ q.failed = p.failed /\ q.busy = p.busy
      /\ q.stale = p.stale \cup {u}
  BY DEF Outdated, Content
<1>4. OwnDialog(b, q, c)
  <2> HIDE DEF q
  <2> QED
    BY <1>3 DEF Whole, OwnDialog, Covers
<1>5. g \in [Tasks -> {Idle} \cup Underway]
  <2>1. g = [s \in Tasks |-> g[s]]
    BY DEF Noted
  <2> HIDE DEF g
  <2> QED
    BY <1>2, <2>1
<1>6. Whole(b, q, g, c)
  <2> HIDE DEF g, q
  <2>1. \A s \in Tasks : Here(g[s]) => Here(f[s]) /\ g[s].kind = f[s].kind /\ g[s].d = f[s].d
    BY <1>2 DEF Here
  <2>2. \A s \in Tasks : g[s] # Idle => Sound(b, g[s])
    BY <1>2
  <2>3. \A s \in Tasks : Here(g[s]) => Belongs(q, c, g[s])
    BY <1>3, <2>1 DEF Whole, Belongs
  <2>4. \A r, s \in Tasks :
          /\ Here(g[r]) /\ g[r].kind \in Commands
          /\ Here(g[s]) /\ g[s].kind \in Commands
          => r = s
    BY <2>1 DEF Whole
  <2> QED
    BY <1>4, <2>2, <2>3, <2>4 DEF Whole
<1> QED
  BY <1>3, <1>5, <1>6

\* The page changes a user: it takes administrators away, or reads its list again.
LEMMA RereadWhole ==
  ASSUME NEW a, NEW p \in Content, NEW f \in [Tasks -> {Idle} \cup Underway], NEW c,
         Whole(a, p, f, c), NEW b, NEW u \in User, b \subseteq a \cup {u},
         \/ b \subseteq a
         \/ /\ p.loading
            /\ \E t \in Tasks : Here(f[t]) /\ f[t].kind = "privilege"
  PROVE  /\ Reread(f, u) \in [Tasks -> {Idle} \cup Underway]
         /\ Whole(b, p, Reread(f, u), c)
<1> DEFINE g == Reread(f, u)
<1>1. \A s \in Tasks : g[s] = IF f[s] # Idle /\ f[s].at = "show"
                               THEN [f[s] EXCEPT !.changed = @ \cup {u}] ELSE f[s]
  BY DEF Reread
<1>2. ASSUME NEW s \in Tasks
      PROVE  /\ f[s] = Idle => g[s] = Idle
             /\ f[s] # Idle => /\ g[s] \in Underway /\ Sound(b, g[s])
                               /\ g[s].kind = f[s].kind /\ g[s].d = f[s].d
                               /\ g[s].left = f[s].left
  <2>1. CASE f[s] = Idle
    BY <1>1, <2>1
  <2>2. CASE f[s] # Idle /\ f[s].at = "show"
    <3>1. f[s] \in Underway /\ Sound(a, f[s])
      BY <2>2 DEF Whole
    <3>2. PICK k : k = f[s]
      OBVIOUS
    <3>3. g[s] = [k EXCEPT !.changed = @ \cup {u}]
      BY <1>1, <2>2, <3>2
    <3>4. g[s] \in Underway /\ Sound(b, g[s])
      BY <3>1, <3>2, <3>3, ToldSound
    <3>5. g[s].kind = k.kind /\ g[s].d = k.d /\ g[s].left = k.left
      BY <3>1, <3>2, <3>3 DEF Underway
    <3> QED
      BY <2>2, <3>2, <3>4, <3>5
  <2>3. CASE f[s] # Idle /\ f[s].at # "show"
    <3>1. f[s] \in Underway /\ Sound(a, f[s]) /\ g[s] = f[s]
      BY <1>1, <2>3 DEF Whole
    <3>2. CASE b \subseteq a
      BY <2>3, <3>1, <3>2, FewerSound
    <3>3. CASE \E t \in Tasks : Here(f[t]) /\ f[t].kind = "privilege"
      <4>1. PICK t \in Tasks : Here(f[t]) /\ f[t].kind = "privilege"
        BY <3>3
      <4>2. ~(f[s].kind = "bulk" /\ ~f[s].left)
        BY <2>3, <4>1 DEF Whole, Commands, Here
      <4> QED
        BY <2>3, <3>1, <4>2, OtherSound
    <3> QED
      BY <3>2, <3>3
  <2> QED
    BY <2>1, <2>2, <2>3
<1>3. OwnDialog(b, p, c)
  BY DEF Whole, OwnDialog, Covers
<1>4. g \in [Tasks -> {Idle} \cup Underway]
  <2>1. g = [s \in Tasks |-> g[s]]
    BY DEF Reread
  <2> HIDE DEF g
  <2> QED
    BY <1>2, <2>1
<1>5. Whole(b, p, g, c)
  <2> HIDE DEF g
  <2>1. \A s \in Tasks : Here(g[s]) => Here(f[s]) /\ g[s].kind = f[s].kind /\ g[s].d = f[s].d
    BY <1>2 DEF Here
  <2>2. \A s \in Tasks : g[s] # Idle => Sound(b, g[s])
    BY <1>2
  <2>3. \A s \in Tasks : Here(g[s]) => Belongs(p, c, g[s])
    BY <2>1 DEF Whole, Belongs
  <2>4. \A r, s \in Tasks :
          /\ Here(g[r]) /\ g[r].kind \in Commands
          /\ Here(g[s]) /\ g[s].kind \in Commands
          => r = s
    BY <2>1 DEF Whole
  <2> QED
    BY <1>3, <2>2, <2>3, <2>4 DEF Whole
<1> QED
  BY <1>4, <1>5
-----------------------------------------------------------------------------
(* The steps of the page.                                                  *)

LEMMA PageStart == PageInit => PageInv
<1> SUFFICES ASSUME PageInit PROVE PageInv
  OBVIOUS
<1>1. page \in Content /\ crossed \in BOOLEAN /\ admins \in SUBSET User /\ events \in 0 .. MaxEvents
  <2>1. page = Fresh /\ crossed = FALSE /\ events = 0
    BY DEF PageInit
  <2>4. admins \in SUBSET User
    BY SyncAssumption DEF PageInit, User
  <2>2. Fresh \in Content
    BY DEF Fresh, Content
  <2>3. 0 \in 0 .. MaxEvents
    BY SyncAssumption
  <2> QED
    BY <2>1, <2>2, <2>3, <2>4, Zenon
<1>2. PICK t \in Tasks : tasks = Mount(t)
  BY DEF PageInit
<1> DEFINE k == Task("mount", "refresh", None, {}, FALSE)
<1>3. k \in Underway /\ k.kind = "mount" /\ k.at = "refresh" /\ k.users = {} /\ k.todo = {}
  BY <1>1 DEF Task, Underway, Content
<1>4. \A s \in Tasks : tasks[s] = IF s = t THEN k ELSE Idle
  BY <1>2 DEF Mount
<1>5. tasks \in [Tasks -> {Idle} \cup Underway]
  BY <1>2, <1>3 DEF Mount
<1> HIDE DEF k
<1>6. Sound(admins, k)
  BY <1>3 DEF Sound, Route, Rest, OwnPeople, HasRead, StillTo, Lists, Commands
<1>7. Belongs(page, crossed, k) /\ k.kind \notin Commands
  BY <1>3 DEF Belongs, Lists, Commands
<1>8. OwnDialog(admins, page, crossed)
  BY DEF PageInit, Fresh, OwnDialog
<1>9. Whole(admins, page, tasks, crossed)
  BY <1>4, <1>6, <1>7, <1>8 DEF Whole, Here
<1> QED
  BY <1>1, <1>5, <1>9 DEF PageInv, PageTypeOK

LEMMA Fields ==
  ASSUME PageInv
  PROVE  /\ admins \in SUBSET User /\ page \in Content /\ crossed \in BOOLEAN
         /\ tasks \in [Tasks -> {Idle} \cup Underway]
         /\ events \in 0 .. MaxEvents
         /\ OwnDialog(admins, page, crossed)
         /\ \A t \in Tasks : Active(t) =>
              /\ tasks[t] \in Underway /\ Sound(admins, tasks[t])
              /\ Here(tasks[t]) => Belongs(page, crossed, tasks[t])
BY DEF PageInv, PageTypeOK, Whole, Active

\* The list is being read: nobody is shown.
LEMMA LoadingFacts ==
  ASSUME NEW p \in Content
  PROVE  LET q == Loading(p) IN
         /\ q \in Content /\ q.picker = p.picker /\ q.busy = p.busy /\ q.loading
         /\ \A a, c : OwnDialog(a, p, c) => OwnDialog(a, q, c)
<1> DEFINE q == Loading(p)
<1>1. /\ q \in Content /\ q.picker = p.picker /\ q.busy = p.busy /\ q.loading
      /\ q.rows = {} /\ q.ticked = p.ticked
  BY DEF Loading, Content
<1> HIDE DEF q
<1>2. ASSUME NEW a, NEW c, OwnDialog(a, p, c)
      PROVE  OwnDialog(a, q, c)
  BY <1>1, <1>2 DEF OwnDialog
<1> QED
  BY <1>1, <1>2 DEF q

LEMMA ReleaseFacts ==
  ASSUME PageInv, NEW t \in Tasks, Active(t)
  PROVE  LET q == Release(t, page) IN
         /\ q \in Content /\ q.picker = page.picker /\ q.busy = page.busy \ Flags(tasks[t].kind)
         /\ OwnDialog(admins, q, crossed)
<1> DEFINE q == Release(t, page)
<1>1. /\ q \in Content /\ q.picker = page.picker /\ q.busy = page.busy \ Flags(tasks[t].kind)
      /\ q.rows = page.rows /\ q.ticked = page.ticked /\ q.stale = page.stale
      /\ q.loading = page.loading /\ q.failed = page.failed
  BY Fields DEF Release, Content
<1> HIDE DEF q
<1>2. OwnDialog(admins, q, crossed)
  BY <1>1, Fields DEF OwnDialog
<1> QED
  BY <1>1, <1>2 DEF q

LEMMA ClickStep ==
  ASSUME PageInv, NEW t \in Tasks, NEW k \in Underway, Click(t, k), Sound(admins, k),
         page' \in Content, crossed' \in BOOLEAN, OwnDialog(admins, page', crossed'),
         Belongs(page', crossed', k), page.busy \subseteq page'.busy,
         page'.picker # None /\ ~crossed' =>
           \A s \in Tasks : Here(tasks[s]) /\ tasks[s].kind \in Lists => tasks[s].d = page'.picker,
         k.kind \in Commands => NoCommand
  PROVE  PageInv'
<1>1. tasks[t] = Idle /\ tasks' = [tasks EXCEPT ![t] = k] /\ admins' = admins
      /\ events' \in 0 .. MaxEvents
  BY SyncAssumption, Fields DEF Click, Event, Active
<1>2. Whole(admins, page, tasks, crossed)
  BY DEF PageInv
<1>3. Whole(admins, page', tasks', crossed')
  BY <1>1, <1>2, Fields, ClickWhole DEF NoCommand
<1>4. tasks' \in [Tasks -> {Idle} \cup Underway]
  BY <1>1, Fields
<1> QED
  BY <1>1, <1>3, <1>4, Fields DEF PageInv, PageTypeOK

\* A button that is disabled meanwhile.
LEMMA BusyFacts ==
  ASSUME PageInv, NEW flag \in {"bulk", "privilege", "import", "pull", "process"}, Busy(flag)
  PROVE  /\ page' \in Content /\ crossed' = crossed /\ page'.picker = page.picker
         /\ page'.busy = page.busy \cup {flag}
         /\ OwnDialog(admins, page', crossed')
         /\ page'.picker # None /\ ~crossed' =>
              \A s \in Tasks : Here(tasks[s]) /\ tasks[s].kind \in Lists => tasks[s].d = page'.picker
<1>1. PICK q : q = [page EXCEPT !.busy = @ \cup {flag}]
  OBVIOUS
<1>2. page' = q /\ crossed' = crossed
  BY <1>1 DEF Busy
<1>3. /\ q \in Content /\ q.picker = page.picker /\ q.busy = page.busy \cup {flag}
      /\ q.rows = page.rows /\ q.ticked = page.ticked /\ q.stale = page.stale
      /\ q.loading = page.loading /\ q.failed = page.failed
  BY <1>1, Fields DEF Content
<1>4. OwnDialog(admins, q, crossed)
  BY <1>3, Fields DEF OwnDialog
<1>5. \A s \in Tasks : Here(tasks[s]) => Belongs(page, crossed, tasks[s])
  BY Fields DEF Here, Active
<1>6. q.picker # None /\ ~crossed =>
        \A s \in Tasks : Here(tasks[s]) /\ tasks[s].kind \in Lists => tasks[s].d = q.picker
  BY <1>3, <1>5 DEF Belongs
<1> QED
  BY <1>2, <1>3, <1>4, <1>6

LEMMA OpenPickerStep ==
  ASSUME PageInv, NEW t \in Tasks, NEW d \in Devices, OpenPicker(t, d)
  PROVE  PageInv'
<1> DEFINE k == Task("load", "agent", d, {}, FALSE)
           q == [Loading(page) EXCEPT !.picker = d, !.ticked = {}]
<1>1. page' = q /\ Click(t, k)
  BY DEF OpenPicker
<1>2. /\ k \in Underway /\ k.kind = "load" /\ k.at = "agent" /\ k.d = d /\ k.users = {}
      /\ k.todo = {}
  BY Fields DEF Task, Underway, Content
<1>3. q \in Content /\ q.picker = d /\ q.rows = {} /\ q.ticked = {} /\ q.loading
      /\ q.busy = page.busy
  BY Fields DEF Loading, Content
<1> HIDE DEF k, q
<1>4. Sound(admins, k)
  BY <1>2 DEF Sound, Route, Rest, OwnPeople, HasRead, StillTo, Lists, Commands
<1>5. crossed' \in BOOLEAN /\ OwnDialog(admins, q, crossed')
  BY <1>3 DEF OwnDialog, OpenPicker
<1>6. Belongs(q, crossed', k)
  BY <1>2, <1>3 DEF Belongs
<1>7. ~crossed' => \A s \in Tasks : Here(tasks[s]) /\ tasks[s].kind \in Lists => tasks[s].d = d
  BY DEF OpenPicker, Mine, Active, Here, Lists, Commands
<1>8. k.kind \notin Commands
  BY <1>2 DEF Commands
<1> QED
  BY <1>1, <1>2, <1>3, <1>4, <1>5, <1>6, <1>7, <1>8, ClickStep

LEMMA IncludePasswordStep ==
  ASSUME PageInv, NEW t \in Tasks, IncludePassword(t)
  PROVE  PageInv'
<1> DEFINE k == Task("load", "agent", page.picker, {}, FALSE)
           q == Loading(page)
<1>1. page' = q /\ Click(t, k) /\ crossed' = crossed /\ page.picker # None
  BY DEF IncludePassword
<1>2. page.picker \in Devices
  BY <1>1, Fields DEF Content
<1>3. /\ k \in Underway /\ k.kind = "load" /\ k.at = "agent" /\ k.d = page.picker /\ k.users = {}
      /\ k.todo = {}
  BY <1>2, Fields DEF Task, Underway, Content
<1>4. q \in Content /\ q.picker = page.picker /\ q.busy = page.busy /\ OwnDialog(admins, q, crossed)
  BY Fields, LoadingFacts
<1> HIDE DEF k, q
<1>5. Sound(admins, k)
  BY <1>2, <1>3 DEF Sound, Route, Rest, OwnPeople, HasRead, StillTo, Lists, Commands
<1>6. Belongs(q, crossed, k)
  BY <1>3, <1>4 DEF Belongs
<1>7. \A s \in Tasks : Here(tasks[s]) => Belongs(page, crossed, tasks[s])
  BY Fields DEF Here, Active
<1>8. ~crossed => \A s \in Tasks :
        Here(tasks[s]) /\ tasks[s].kind \in Lists => tasks[s].d = page.picker
  BY <1>1, <1>7 DEF Belongs
<1>9. k.kind \notin Commands
  BY <1>3 DEF Commands
<1> QED
  BY <1>1, <1>3, <1>4, <1>5, <1>6, <1>8, <1>9, ClickStep, Fields

LEMMA UnlockScreenStep ==
  ASSUME PageInv, NEW t \in Tasks, UnlockScreen(t)
  PROVE  PageInv'
<1> DEFINE k == Task("unlock", "unlock", page.picker, {}, FALSE)
<1>1. Click(t, k) /\ NoCommand /\ page.picker \in Devices
  BY Fields DEF UnlockScreen, Shown, Content
<1>2. /\ k \in Underway /\ k.kind = "unlock" /\ k.at = "unlock" /\ k.d = page.picker
      /\ k.users = {} /\ k.todo = {}
  BY <1>1, Fields DEF Task, Underway, Content
<1>3. Busy("bulk")
  BY DEF UnlockScreen
<1> HIDE DEF k
<1>4. Sound(admins, k)
  BY <1>1, <1>2 DEF Sound, Route, Rest, OwnPeople, HasRead, StillTo, Lists, Commands
<1>5. Belongs(page', crossed', k)
  BY <1>2, <1>3, BusyFacts DEF Belongs
<1> QED
  BY <1>1, <1>2, <1>3, <1>4, <1>5, BusyFacts, ClickStep, Fields

LEMMA ClearElevatedStep ==
  ASSUME PageInv, NEW t \in Tasks, ClearElevated(t)
  PROVE  PageInv'
<1> DEFINE k == Task("bulk", "unlock", page.picker, Elevated, FALSE)
<1>1. Click(t, k) /\ NoCommand /\ page.picker \in Devices /\ Elevated # {} /\ ~page.loading
      /\ ~page.failed /\ page.picker # None
  BY Fields DEF ClearElevated, Shown, Content
<1>2. Elevated \in SUBSET User
  BY Fields DEF Elevated, Content, Entry
<1>3. /\ k \in Underway /\ k.kind = "bulk" /\ k.at = "unlock" /\ k.d = page.picker
      /\ k.users = Elevated /\ k.todo = Elevated /\ ~k.grant /\ k.clean = (~crossed /\ Direct(page.picker))
      /\ k.changed = page.stale
  BY <1>1, <1>2, Fields DEF Task, Underway, Content
<1>4. Busy("bulk")
  BY DEF ClearElevated
<1> HIDE DEF k
<1>5. ~crossed /\ Direct(page.picker) => \A u \in Elevated : u[1] = page.picker
  BY <1>1, Fields DEF OwnDialog, Elevated
<1>6. ~crossed /\ Direct(page.picker) =>
        \A u \in admins : u[1] = page.picker => u \in Elevated \cup page.stale
  BY <1>1, Fields DEF OwnDialog, Covers, Elevated
<1>7. Route(k) /\ Rest(k)
  BY <1>1, <1>3 DEF Route, Rest, Lists, Commands
<1>8. OwnPeople(k) /\ HasRead(admins, k) /\ StillTo(admins, k)
  BY <1>3, <1>5, <1>6 DEF OwnPeople, HasRead, StillTo
<1>9. Sound(admins, k)
  BY <1>7, <1>8 DEF Sound
<1>10. Belongs(page', crossed', k)
  BY <1>3, <1>4, BusyFacts DEF Belongs
<1> QED
  BY <1>1, <1>3, <1>4, <1>9, <1>10, BusyFacts, ClickStep, Fields

LEMMA ApplyPrivilegeStep ==
  ASSUME PageInv, NEW t \in Tasks, NEW r \in page.rows, ApplyPrivilege(t, r)
  PROVE  PageInv'
<1> DEFINE k == Task("privilege", "write", page.picker, {r.user}, ~r.admin)
<1>1. Click(t, k) /\ NoCommand /\ page.picker \in Devices /\ page.picker # None
  BY Fields DEF ApplyPrivilege, Shown, Content
<1>2. r.user \in User /\ {r.user} \in SUBSET User /\ (~r.admin) \in BOOLEAN
  <2>1. r \in Entry
    BY Fields DEF Content
  <2>2. r.user \in User /\ r.admin \in BOOLEAN
    BY <2>1 DEF Entry
  <2>3. (~r.admin) \in BOOLEAN
    OBVIOUS
  <2> QED
    BY <2>2, <2>3
<1>3. /\ k \in Underway /\ k.kind = "privilege" /\ k.at = "write" /\ k.d = page.picker
      /\ k.users = {r.user} /\ k.todo = {r.user} /\ k.clean = (~crossed /\ Direct(page.picker))
  BY <1>1, <1>2, Fields DEF Task, Underway, Content
<1>4. Busy("privilege")
  BY DEF ApplyPrivilege
<1> HIDE DEF k
<1>5. ~crossed /\ Direct(page.picker) => r.user[1] = page.picker
  BY <1>1, Fields DEF OwnDialog
<1>6. Sound(admins, k)
  BY <1>1, <1>2, <1>3, <1>5
     DEF Sound, Route, Rest, OwnPeople, HasRead, StillTo, Lists, Commands
<1>7. Belongs(page', crossed', k)
  BY <1>3, <1>4, BusyFacts DEF Belongs
<1> QED
  BY <1>1, <1>3, <1>4, <1>6, <1>7, BusyFacts, ClickStep, Fields

LEMMA SubmitImportStep ==
  ASSUME PageInv, NEW t \in Tasks, SubmitImport(t)
  PROVE  PageInv'
<1> DEFINE k == Task("import", "call", page.picker, page.ticked, FALSE)
<1>1. Click(t, k) /\ page.picker \in Devices /\ page.picker # None /\ Busy("import")
      /\ page.ticked \in SUBSET User
  BY Fields DEF SubmitImport, Content
<1>2. /\ k \in Underway /\ k.kind = "import" /\ k.at = "call" /\ k.d = page.picker
      /\ k.users = page.ticked /\ k.todo = page.ticked /\ k.clean = (~crossed /\ Direct(page.picker))
  BY <1>1, Fields DEF Task, Underway, Content
<1> HIDE DEF k
<1>3. ~crossed /\ Direct(page.picker) => \A u \in page.ticked : u[1] = page.picker
  BY <1>1, Fields DEF OwnDialog
<1>4. Sound(admins, k)
  BY <1>2, <1>3 DEF Sound, Route, Rest, OwnPeople, HasRead, StillTo, Lists, Commands
<1>5. Belongs(page', crossed', k) /\ k.kind \notin Commands
  BY <1>2 DEF Belongs, Lists, Commands
<1> QED
  BY <1>1, <1>2, <1>4, <1>5, BusyFacts, ClickStep, Fields

\* Pulling punches, processing them, testing a terminal: nobody is named.
LEMMA NamelessStep ==
  ASSUME PageInv, NEW t \in Tasks, NEW kind \in {"pull", "process", "test"},
         NEW d \in Devices \cup {None}, Click(t, Task(kind, "call", d, {}, FALSE)),
         page' \in Content, crossed' = crossed, page'.picker = page.picker,
         page.busy \subseteq page'.busy, OwnDialog(admins, page', crossed)
  PROVE  PageInv'
<1> DEFINE k == Task(kind, "call", d, {}, FALSE)
<1>1. k \in Underway /\ k.kind = kind /\ k.at = "call" /\ k.users = {} /\ k.todo = {} /\ Click(t, k)
  BY Fields DEF Task, Underway, Content
<1> HIDE DEF k
<1>2. Sound(admins, k)
  BY <1>1 DEF Sound, Route, Rest, OwnPeople, HasRead, StillTo, Lists, Commands
<1>3. Belongs(page', crossed', k) /\ k.kind \notin Commands
  BY <1>1 DEF Belongs, Lists, Commands
<1>4. \A s \in Tasks : Here(tasks[s]) => Belongs(page, crossed, tasks[s])
  BY Fields DEF Here, Active
<1>5. page'.picker # None /\ ~crossed' => \A s \in Tasks :
        Here(tasks[s]) /\ tasks[s].kind \in Lists => tasks[s].d = page'.picker
  BY <1>4 DEF Belongs
<1> QED
  BY <1>1, <1>2, <1>3, <1>5, ClickStep, Fields

LEMMA SyncZkStep ==
  ASSUME PageInv, NEW t \in Tasks, NEW d \in Devices, SyncZk(t, d)
  PROVE  PageInv'
BY BusyFacts, NamelessStep DEF SyncZk

LEMMA RunProcessStep ==
  ASSUME PageInv, NEW t \in Tasks, RunProcess(t)
  PROVE  PageInv'
BY BusyFacts, NamelessStep DEF RunProcess

LEMMA SyncDeviceStep ==
  ASSUME PageInv, NEW t \in Tasks, NEW d \in Devices, SyncDevice(t, d)
  PROVE  PageInv'
<1>1. PICK q : q = [page EXCEPT !.testing = @ \cup {d}]
  OBVIOUS
<1>2. page' = q /\ crossed' = crossed /\ Click(t, Task("test", "call", d, {}, FALSE))
  BY <1>1 DEF SyncDevice
<1>3. /\ q \in Content /\ q.picker = page.picker /\ q.busy = page.busy
      /\ q.rows = page.rows /\ q.ticked = page.ticked /\ q.stale = page.stale
      /\ q.loading = page.loading /\ q.failed = page.failed
  BY <1>1, Fields DEF Content
<1>4. OwnDialog(admins, q, crossed)
  BY <1>3, Fields DEF OwnDialog
<1> QED
  BY <1>2, <1>3, <1>4, NamelessStep
-----------------------------------------------------------------------------
(* What handlers do then.                                                  *)

LEMMA OnwardStep ==
  ASSUME PageInv, NEW t \in Tasks, Active(t), NEW k \in {Idle} \cup Underway,
         tasks' = [tasks EXCEPT ![t] = k],
         k # Idle => /\ Sound(admins, k) /\ k.kind = tasks[t].kind /\ k.d = tasks[t].d
                     /\ tasks[t].left => k.left,
         UNCHANGED <<admins, crossed, events>>,
         page' \in Content, OwnDialog(admins, page', crossed), page'.picker \in {None, page.picker},
         \/ page'.busy = page.busy
         \/ ~Here(k) /\ ~tasks[t].left /\ page'.busy = page.busy \ Flags(tasks[t].kind)
  PROVE  PageInv'
<1>1. Whole(admins, page, tasks, crossed) /\ tasks[t] # Idle
  BY DEF PageInv, Active
<1>2. Whole(admins, page', tasks', crossed)
  BY <1>1, Fields, OnwardWhole
<1>3. tasks' \in [Tasks -> {Idle} \cup Underway]
  BY Fields
<1> QED
  BY <1>2, <1>3, Fields DEF PageInv, PageTypeOK

\* A handler ends: the page that is still there enables its buttons.
LEMMA EndStep ==
  ASSUME PageInv, NEW t \in Tasks, Active(t), Quit(t), UNCHANGED <<admins, crossed, events>>,
         NEW q \in Content, Show(t, q), q.picker = page.picker,
         tasks[t].left \/ OwnDialog(admins, q, crossed),
         q.busy = page.busy \ Flags(tasks[t].kind)
  PROVE  PageInv'
<1>1. tasks' = [tasks EXCEPT ![t] = Idle] /\ Idle \in {Idle} \cup Underway
  BY DEF Quit
<1>2. ~Here(Idle)
  BY DEF Here
<1>3. CASE tasks[t].left
  <2>1. page' = page
    BY <1>3 DEF Show
  <2> QED
    BY <1>1, <2>1, Fields, OnwardStep
<1>4. CASE ~tasks[t].left
  <2>1. page' = q
    BY <1>4 DEF Show
  <2> QED
    BY <1>1, <1>2, <1>4, <2>1, Fields, OnwardStep
<1> QED
  BY <1>3, <1>4

LEMMA FailsStep ==
  ASSUME PageInv, NEW t \in Tasks, Active(t), Fails(t), UNCHANGED <<admins, crossed, events>>
  PROVE  PageInv'
BY ReleaseFacts, EndStep DEF Fails

LEMMA ReloadStep ==
  ASSUME PageInv, NEW t \in Tasks, Active(t), Reload(t), UNCHANGED <<admins, crossed, events>>,
         \/ tasks[t].at = "unlock" /\ tasks[t].kind = "unlock"
         \/ tasks[t].at = "unlock again"
  PROVE  PageInv'
<1>1. PICK j : j = tasks[t]
  OBVIOUS
<1>2. j \in Underway /\ Sound(admins, j)
  BY <1>1, Fields
<1> DEFINE q == Loading(page)
           k == [j EXCEPT !.at = "agent"]
<1>3. /\ q \in Content /\ q.picker = page.picker /\ q.busy = page.busy
      /\ OwnDialog(admins, q, crossed)
  BY Fields, LoadingFacts
<1>4. Show(t, q)
  BY DEF Reload
<1> HIDE DEF q
<1>5. CASE j.left
  <2>1. Quit(t) /\ page' = page
    BY <1>1, <1>4, <1>5 DEF Reload, Show
  <2>2. tasks' = [tasks EXCEPT ![t] = Idle] /\ Idle \in {Idle} \cup Underway
    BY <2>1 DEF Quit
  <2> QED
    BY <2>1, <2>2, Fields, OnwardStep
<1>6. CASE ~j.left
  <2>1. page' = q /\ tasks' = [tasks EXCEPT ![t] = k]
    BY <1>1, <1>4, <1>6, Fields DEF Reload, Show, Go
  <2>2. /\ k \in Underway /\ k.at = "agent" /\ k.kind = j.kind /\ k.d = j.d
        /\ k.users = j.users /\ k.todo = j.todo /\ k.clean = j.clean /\ k.left = j.left
        /\ k.grant = j.grant /\ k.changed = j.changed
    BY <1>2 DEF Underway
  <2> HIDE DEF k
  <2>3. Route(k) /\ Rest(k)
    BY <1>1, <1>2, <2>2 DEF Sound, Route, Rest, Lists, Commands
  <2>4. OwnPeople(k) /\ HasRead(admins, k)
    BY <1>2, <2>2 DEF Sound, OwnPeople, HasRead
  <2>5. StillTo(admins, k)
    BY <1>1, <1>2, <2>2 DEF Sound, StillTo
  <2>6. Sound(admins, k)
    BY <2>3, <2>4, <2>5 DEF Sound
  <2> QED
    BY <1>1, <1>3, <2>1, <2>2, <2>6, OnwardStep
<1> QED
  BY <1>5, <1>6

\* A list holds entries; without a bridge they are of the terminal asked for.
LEMMA MayListFacts ==
  ASSUME PageInv, NEW d \in Devices \cup {None}, NEW rows \in {{}} \cup MayList(d)
  PROVE  /\ rows \in SUBSET Entry
         /\ Direct(d) => \A r \in rows : r.user[1] = d
<1>1. ASSUME NEW r \in Listing(d)
      PROVE  r \in Entry /\ r.user[1] = d
  <2>1. PICK u \in User : u[1] = d /\ r = [user |-> u, admin |-> u \in admins]
    BY <1>1 DEF Listing
  <2>2. (u \in admins) \in BOOLEAN
    OBVIOUS
  <2> QED
    BY <2>1, <2>2 DEF Entry
<1>2. CASE rows = {}
  BY <1>2
<1>3. CASE rows \in SUBSET Listing(d)
  BY <1>1, <1>3
<1>4. CASE Bridge # None /\ rows \in Kept
  <2>1. rows \in SUBSET Entry /\ \A r \in rows : r.user[1] = Bridge
    BY <1>4 DEF Kept
  <2> QED
    BY <1>4, <2>1 DEF Direct
<1> QED
  BY <1>2, <1>3, <1>4 DEF MayList

\* An administrator of the terminal is listed as one or known to be missing.
LEMMA UntoldFacts ==
  ASSUME PageInv, NEW d, NEW rows
  PROVE  /\ Untold(d, rows) \subseteq User
         /\ \A u \in admins : u[1] = d =>
              u \in Untold(d, rows) \/ \E r \in rows : r.user = u /\ r.admin
<1>1. Untold(d, rows) \subseteq User
  BY DEF Untold
<1>2. ASSUME NEW u \in admins, u[1] = d, u \notin Untold(d, rows)
      PROVE  \E r \in rows : r.user = u /\ r.admin
  <2>1. u \in User
    BY Fields
  <2>2. [user |-> u, admin |-> u \in admins] \in rows
    BY <1>2, <2>1 DEF Untold
  <2> QED
    BY <1>2, <2>2
<1> QED
  BY <1>1, <1>2

LEMMA ReadListStep ==
  ASSUME PageInv, NEW t \in Tasks, ReadList(t)
  PROVE  PageInv'
<1>1. PICK j : j = tasks[t]
  OBVIOUS
<1>2. j \in Underway /\ Sound(admins, j) /\ j.at = "agent" /\ Active(t)
  BY <1>1, Fields DEF ReadList, Step
<1>3. PICK ok \in BOOLEAN, rows \in {{}} \cup MayList(j.d) : Read(t, ok, rows)
  <2>1. Read(t, FALSE, {}) \/ \E rows \in MayList(j.d) : Read(t, TRUE, rows)
    BY <1>1 DEF ReadList
  <2> QED
    BY <2>1, Zenon
<1> DEFINE k == [j EXCEPT !.at = "show", !.ok = ok, !.rows = rows, !.changed = Untold(j.d, rows)]
<1>4. tasks' = [tasks EXCEPT ![t] = k]
  BY <1>1, <1>3, Fields DEF Read
<1>5. /\ rows \in SUBSET Entry
      /\ Direct(j.d) => \A r \in rows : r.user[1] = j.d
  <2>1. j.d \in Devices \cup {None}
    BY <1>2 DEF Underway
  <2> QED
    BY <1>3, <2>1, MayListFacts
<1>u. /\ Untold(j.d, rows) \subseteq User
      /\ \A u \in admins : u[1] = j.d =>
           u \in Untold(j.d, rows) \/ \E r \in rows : r.user = u /\ r.admin
  BY UntoldFacts
<1>6. /\ k \in Underway /\ k.at = "show" /\ k.kind = j.kind /\ k.d = j.d
      /\ k.changed = Untold(j.d, rows) /\ k.users = j.users /\ k.todo = j.todo /\ k.clean = j.clean /\ k.left = j.left
      /\ k.grant = j.grant /\ k.rows = rows /\ k.ok = ok
  BY <1>2, <1>5, <1>u DEF Underway
<1> HIDE DEF k
<1>7. Route(k) /\ Rest(k) /\ OwnPeople(k)
  BY <1>2, <1>5, <1>6 DEF Sound, Route, Rest, OwnPeople
<1>8. HasRead(admins, k) /\ StillTo(admins, k)
  BY <1>2, <1>u, <1>6 DEF Sound, HasRead, Covers, StillTo
<1>9. Sound(admins, k)
  BY <1>7, <1>8 DEF Sound
<1>10. UNCHANGED <<admins, crossed, events>> /\ page' = page
  BY DEF ReadList, Step
<1> QED
  BY <1>1, <1>2, <1>4, <1>6, <1>9, <1>10, Fields, OnwardStep

LEMMA ShowListStep ==
  ASSUME PageInv, NEW t \in Tasks, ShowList(t)
  PROVE  PageInv'
<1>1. PICK j : j = tasks[t]
  OBVIOUS
<1>2. j \in Underway /\ Sound(admins, j) /\ j.at = "show" /\ Active(t)
      /\ (~j.left => Belongs(page, crossed, j))
  BY <1>1, Fields DEF ShowList, Step, Here, Active
<1> DEFINE q == [Release(t, page) EXCEPT !.rows = j.rows, !.stale = j.changed,
                                         !.loading = FALSE, !.failed = ~j.ok]
<1>3. Show(t, q) /\ Quit(t) /\ UNCHANGED <<admins, crossed, events>>
  BY <1>1 DEF ShowList, Step
<1>4. /\ q \in Content /\ q.picker = page.picker /\ q.busy = page.busy \ Flags(j.kind)
      /\ q.rows = j.rows /\ q.stale = j.changed /\ q.failed = ~j.ok /\ q.ticked = page.ticked
  BY <1>1, <1>2, Fields DEF Release, Content, Underway
<1> HIDE DEF q
<1>5. ASSUME ~j.left
      PROVE  OwnDialog(admins, q, crossed)
  <2>1. j.kind \in Lists
    BY <1>2 DEF Sound, Route
  <2>2. q.picker # None /\ ~crossed => j.d = q.picker
    BY <1>2, <1>4, <1>5, <2>1 DEF Belongs
  <2>3. OwnPeople(j) /\ HasRead(admins, j)
    BY <1>2 DEF Sound
  <2>4. j.ok \in BOOLEAN
    BY <1>2 DEF Underway
  <2> QED
    BY <1>2, <1>4, <2>2, <2>3, <2>4, Fields DEF OwnDialog, OwnPeople, HasRead
<1> QED
  BY <1>1, <1>2, <1>3, <1>4, <1>5, EndStep

LEMMA UnlockStep ==
  ASSUME PageInv, NEW t \in Tasks, Unlock(t)
  PROVE  PageInv'
<1>1. Active(t) /\ tasks[t].at = "unlock" /\ UNCHANGED <<admins, crossed, events>>
  BY DEF Unlock, Step
<1>2. CASE Fails(t)
  BY <1>1, <1>2, FailsStep
<1>3. CASE tasks[t].kind = "unlock" /\ Reload(t)
  BY <1>1, <1>3, ReloadStep
<1>4. CASE tasks[t].kind = "bulk" /\ Go(t, "write") /\ UNCHANGED page
  <2>1. PICK j : j = tasks[t]
    OBVIOUS
  <2>2. j \in Underway /\ Sound(admins, j) /\ j.at = "unlock" /\ j.kind = "bulk"
    BY <1>1, <1>4, <2>1, Fields
  <2> DEFINE k == [j EXCEPT !.at = "write"]
  <2>3. tasks' = [tasks EXCEPT ![t] = k]
    BY <1>4, <2>1, Fields DEF Go
  <2>4. /\ k \in Underway /\ k.at = "write" /\ k.kind = j.kind /\ k.d = j.d
        /\ k.users = j.users /\ k.todo = j.todo /\ k.clean = j.clean /\ k.left = j.left
        /\ k.grant = j.grant /\ k.changed = j.changed
    BY <2>2 DEF Underway
  <2> HIDE DEF k
  <2>5. Route(k) /\ Rest(k)
    BY <2>2, <2>4 DEF Sound, Route, Rest
  <2>6. OwnPeople(k) /\ HasRead(admins, k) /\ StillTo(admins, k)
    BY <2>2, <2>4 DEF Sound, OwnPeople, HasRead, StillTo
  <2>7. Sound(admins, k)
    BY <2>5, <2>6 DEF Sound
  <2> QED
    BY <1>1, <1>4, <2>1, <2>3, <2>4, <2>7, Fields, OnwardStep
<1> QED
  BY <1>2, <1>3, <1>4 DEF Unlock

LEMMA UnlockAgainStep ==
  ASSUME PageInv, NEW t \in Tasks, UnlockAgain(t)
  PROVE  PageInv'
<1>1. Active(t) /\ tasks[t].at = "unlock again" /\ UNCHANGED <<admins, crossed, events>>
  BY DEF UnlockAgain, Step
<1>2. CASE Fails(t)
  BY <1>1, <1>2, FailsStep
<1>3. CASE Reload(t)
  BY <1>1, <1>3, ReloadStep
<1> QED
  BY <1>2, <1>3 DEF UnlockAgain

LEMMA CalledStep ==
  ASSUME PageInv, NEW t \in Tasks, Called(t)
  PROVE  PageInv'
<1>1. Active(t) /\ tasks[t].at = "call" /\ UNCHANGED <<admins, crossed, events>>
  BY DEF Called, Step
<1>2. CASE Fails(t)
  BY <1>1, <1>2, FailsStep
<1>3. CASE Quit(t) /\ Show(t, Release(t, page))
  BY <1>1, <1>3, ReleaseFacts, EndStep
<1>4. CASE ~Fails(t) /\ ~(Quit(t) /\ Show(t, Release(t, page)))
  <2>1. PICK j : j = tasks[t]
    OBVIOUS
  <2>2. j \in Underway /\ Sound(admins, j) /\ j.at = "call" /\ j.kind \in {"import", "pull", "test"}
        /\ Go(t, "refresh")
    BY <1>1, <1>4, <2>1, Fields DEF Called
  <2> DEFINE q == [page EXCEPT !.listing = TRUE,
                      !.picker = IF j.kind = "import" THEN None ELSE @,
                      !.testing = IF j.kind = "test" THEN @ \ {j.d} ELSE @]
             k == [j EXCEPT !.at = "refresh"]
  <2>3. Show(t, q)
    BY <1>4, <2>1 DEF Called
  <2>4. /\ q \in Content /\ q.picker \in {None, page.picker} /\ q.busy = page.busy
        /\ q.rows = page.rows /\ q.ticked = page.ticked /\ q.stale = page.stale
        /\ q.loading = page.loading /\ q.failed = page.failed
    BY Fields DEF Content
  <2>5. tasks' = [tasks EXCEPT ![t] = k]
    BY <2>1, <2>2, Fields DEF Go
  <2>6. /\ k \in Underway /\ k.at = "refresh" /\ k.kind = j.kind /\ k.d = j.d
        /\ k.users = j.users /\ k.todo = j.todo /\ k.clean = j.clean /\ k.left = j.left
    BY <2>2 DEF Underway
  <2> HIDE DEF q, k
  <2>7. OwnDialog(admins, q, crossed)
    BY <2>4, Fields DEF OwnDialog
  <2>8. Sound(admins, k)
    BY <2>2, <2>6 DEF Sound, Route, Rest, OwnPeople, HasRead, StillTo, Lists, Commands
  <2>9. page' = q \/ page' = page
    BY <2>3 DEF Show
  <2> QED
    BY <1>1, <2>1, <2>4, <2>5, <2>6, <2>7, <2>8, <2>9, Fields, OnwardStep
<1> QED
  BY <1>2, <1>3, <1>4

LEMMA RefreshedStep ==
  ASSUME PageInv, NEW t \in Tasks, Refreshed(t)
  PROVE  PageInv'
<1>1. Active(t) /\ UNCHANGED <<admins, crossed, events>> /\ Quit(t)
  BY DEF Refreshed, Step
<1> DEFINE q == [page EXCEPT !.listing = FALSE, !.busy = @ \ Flags(tasks[t].kind)]
<1>2. Show(t, q)
  BY DEF Refreshed
<1>3. /\ q \in Content /\ q.picker = page.picker /\ q.busy = page.busy \ Flags(tasks[t].kind)
      /\ q.rows = page.rows /\ q.ticked = page.ticked /\ q.stale = page.stale
      /\ q.loading = page.loading /\ q.failed = page.failed
  BY Fields DEF Content
<1> HIDE DEF q
<1>4. OwnDialog(admins, q, crossed)
  BY <1>3, Fields DEF OwnDialog
<1> QED
  BY <1>1, <1>2, <1>3, <1>4, EndStep
-----------------------------------------------------------------------------
(* Terminals change.                                                       *)

LEMMA SetWithin == ASSUME NEW u, NEW grant PROVE Set(u, grant) \subseteq admins \cup {u}
BY DEF Set

\* Somebody has changed u, and a handler may have ended before that.
LEMMA ChangedStep ==
  ASSUME PageInv, NEW f \in [Tasks -> {Idle} \cup Underway], NEW p \in Content,
         Whole(admins, p, f, crossed), NEW u \in User,
         admins' \subseteq admins \cup {u}, tasks' = Noted(f, u), page' = Outdated(p, u),
         crossed' = crossed, events' \in 0 .. MaxEvents
  PROVE  PageInv'
<1>1. admins' \in SUBSET User
  BY Fields
<1>2. tasks' \in [Tasks -> {Idle} \cup Underway] /\ page' \in Content
      /\ Whole(admins', page', tasks', crossed)
  BY <1>1, NotedWhole
<1> QED
  BY <1>1, <1>2, Fields DEF PageInv, PageTypeOK

LEMMA KeypadStep ==
  ASSUME PageInv, NEW u \in User, Keypad(u)
  PROVE  PageInv'
<1>1. Whole(admins, page, tasks, crossed)
  BY DEF PageInv
<1>2. events' \in 0 .. MaxEvents
  BY SyncAssumption, Fields DEF Keypad, Event
<1>3. admins' \subseteq admins \cup {u}
  BY SetWithin DEF Keypad
<1> QED
  BY <1>1, <1>2, <1>3, Fields, ChangedStep DEF Keypad

\* The handler that is about to write, and the handlers without it.
LEMMA WriterFacts ==
  ASSUME PageInv, NEW t \in Tasks, Active(t), tasks[t].at \in {"write", "late"}
  PROVE  /\ tasks[t] \in Underway /\ Sound(admins, tasks[t])
         /\ Lowest(tasks[t].todo) \in tasks[t].todo
         /\ Subject(t) = Whom(tasks[t]) /\ Subject(t) \in User
         /\ tasks[t].clean => Subject(t) = Lowest(tasks[t].todo)
         /\ tasks[t].grant \in BOOLEAN /\ tasks[t].left \in BOOLEAN
         /\ [tasks EXCEPT ![t] = Idle] \in [Tasks -> {Idle} \cup Underway]
         /\ Whole(admins, page, [tasks EXCEPT ![t] = Idle], crossed)
<1>1. PICK j : j = tasks[t]
  OBVIOUS
<1>2. j \in Underway /\ Sound(admins, j) /\ Route(j) /\ Rest(j) /\ OwnPeople(j)
  BY <1>1, Fields DEF Sound
<1>3. /\ Lowest(j.todo) \in j.todo /\ Whom(j) \in User
      /\ j.clean => Whom(j) = Lowest(j.todo)
  BY <1>1, <1>2, SubjectFacts
<1>4. Subject(t) = Whom(j)
  BY <1>1 DEF Subject, Whom
<1>5. j.grant \in BOOLEAN /\ j.left \in BOOLEAN
  BY <1>2 DEF Underway
<1>6. Whole(admins, page, tasks, crossed) /\ tasks[t] # Idle
  BY DEF PageInv, Active
<1>7. Whole(admins, page, [tasks EXCEPT ![t] = Idle], crossed)
  BY <1>6, Fields, OnwardWhole
<1>8. [tasks EXCEPT ![t] = Idle] \in [Tasks -> {Idle} \cup Underway]
  BY Fields
<1> QED
  BY <1>1, <1>2, <1>3, <1>4, <1>5, <1>7, <1>8

LEMMA LateStep ==
  ASSUME PageInv, NEW t \in Tasks, Late(t)
  PROVE  PageInv'
<1>1. Active(t) /\ tasks[t].at = "late" /\ crossed' = crossed /\ events' = events
      /\ admins' = Set(Subject(t), tasks[t].grant)
      /\ tasks' = Noted([tasks EXCEPT ![t] = Idle], Subject(t))
      /\ page' = Outdated(page, Subject(t))
  BY DEF Late, Step
<1>2. admins' \subseteq admins \cup {Subject(t)}
  BY <1>1, SetWithin
<1> QED
  BY <1>1, <1>2, WriterFacts, Fields, ChangedStep

LEMMA WriteFailsStep ==
  ASSUME PageInv, NEW t \in Tasks, WriteFails(t)
  PROVE  PageInv'
<1>1. Active(t) /\ tasks[t].at = "write" /\ crossed' = crossed /\ events' = events
  BY DEF WriteFails, Step
<1> DEFINE q == IF tasks[t].left THEN page ELSE Release(t, page)
<1>2. /\ q \in Content /\ q.picker = page.picker /\ OwnDialog(admins, q, crossed)
      /\ \/ q.busy = page.busy
         \/ ~tasks[t].left /\ q.busy = page.busy \ Flags(tasks[t].kind)
  BY <1>1, Fields, ReleaseFacts
<1>3. \/ Quit(t) /\ page' = q /\ UNCHANGED admins
      \/ /\ tasks' = Noted([tasks EXCEPT ![t] = Idle], Subject(t))
         /\ admins' = Set(Subject(t), tasks[t].grant)
         /\ page' = Outdated(q, Subject(t))
      \/ /\ tasks' = [tasks EXCEPT ![t].at = "late", ![t].left = TRUE]
         /\ page' = q /\ UNCHANGED admins
  BY DEF WriteFails
<1> HIDE DEF q
<1>4. CASE Quit(t) /\ page' = q /\ UNCHANGED admins
  <2>1. tasks' = [tasks EXCEPT ![t] = Idle] /\ Idle \in {Idle} \cup Underway /\ ~Here(Idle)
    BY <1>4 DEF Quit, Here
  <2> QED
    BY <1>1, <1>2, <1>4, <2>1, OnwardStep
<1>5. CASE /\ tasks' = Noted([tasks EXCEPT ![t] = Idle], Subject(t))
           /\ admins' = Set(Subject(t), tasks[t].grant)
           /\ page' = Outdated(q, Subject(t))
  <2>1. PICK f : f = [tasks EXCEPT ![t] = Idle]
    OBVIOUS
  <2>2. Whole(admins, page, tasks, crossed) /\ tasks[t] # Idle /\ ~Here(Idle)
    BY <1>1 DEF PageInv, Active, Here
  <2>3. Whole(admins, q, f, crossed)
    BY <1>2, <2>1, <2>2, Fields, OnwardWhole
  <2>4. f \in [Tasks -> {Idle} \cup Underway] /\ Subject(t) \in User
    BY <1>1, <2>1, WriterFacts
  <2>5. admins' \subseteq admins \cup {Subject(t)}
    BY <1>5, SetWithin
  <2> QED
    BY <1>1, <1>2, <1>5, <2>1, <2>3, <2>4, <2>5, Fields, ChangedStep
<1>6. CASE /\ tasks' = [tasks EXCEPT ![t].at = "late", ![t].left = TRUE]
           /\ page' = q /\ UNCHANGED admins
  <2>1. PICK j : j = tasks[t]
    OBVIOUS
  <2>2. j \in Underway /\ Sound(admins, j) /\ j.at = "write"
    BY <1>1, <2>1, Fields
  <2> DEFINE k == [j EXCEPT !.at = "late", !.left = TRUE]
  <2>3. tasks' = [tasks EXCEPT ![t] = k]
    BY <1>6, <2>1, Fields
  <2>4. /\ k \in Underway /\ k.at = "late" /\ k.kind = j.kind /\ k.d = j.d
        /\ k.users = j.users /\ k.todo = j.todo /\ k.clean = j.clean /\ k.left
        /\ k.grant = j.grant
    BY <2>2 DEF Underway
  <2> HIDE DEF k
  <2>5. Sound(admins, k) /\ ~Here(k)
    BY <2>2, <2>4 DEF Sound, Route, Rest, OwnPeople, HasRead, StillTo, Here
  <2> QED
    BY <1>1, <1>2, <1>6, <2>1, <2>3, <2>4, <2>5, OnwardStep
<1> QED
  BY <1>3, <1>4, <1>5, <1>6

\* A handler that writes a single privilege has written the last.
LEMMA LastOne ==
  ASSUME NEW j \in Underway, Route(j), Rest(j), j.at = "write", Lowest(j.todo) \in j.todo
  PROVE  /\ j.kind \in {"bulk", "privilege"}
         /\ j.kind # "bulk" => j.todo \ {Lowest(j.todo)} = {}
         /\ j.kind = "bulk" => ~j.grant
BY DEF Route, Rest

\* The last of a handler that grants: the list is read again.
LEMMA GrantStep ==
  ASSUME PageInv, NEW t \in Tasks, Active(t), tasks[t].at = "write",
         tasks[t].grant, tasks[t].todo \ {Lowest(tasks[t].todo)} = {},
         admins' = Set(Subject(t), TRUE), crossed' = crossed, events' = events,
         page' = IF tasks[t].left THEN Outdated(page, Subject(t)) ELSE Loading(page),
         tasks' = [IF tasks[t].left THEN Noted(tasks, Subject(t)) ELSE Reread(tasks, Subject(t))
                     EXCEPT ![t] = IF tasks[t].left THEN Idle
                                   ELSE [@ EXCEPT !.todo = {}, !.at = "agent"]]
  PROVE  PageInv'
<1>1. PICK j : j = tasks[t]
  OBVIOUS
<1>2. PICK u : u = Subject(t)
  OBVIOUS
<1>3. /\ j \in Underway /\ Sound(admins, j) /\ j.at = "write" /\ u \in User
      /\ j.kind = "privilege" /\ j.grant /\ j # Idle
      /\ admins' \subseteq admins \cup {u}
  BY <1>1, <1>2, WriterFacts, LastOne, SetWithin DEF Sound, Active
<1>4. CASE j.left
  <2>1. PICK f : f = [tasks EXCEPT ![t] = Idle]
    OBVIOUS
  <2>2. page' = Outdated(page, u)
    BY <1>1, <1>2, <1>4
  <2>3. tasks' = Noted(f, u)
    <3>1. tasks' = [Noted(tasks, u) EXCEPT ![t] = Idle]
      BY <1>1, <1>2, <1>4
    <3> QED
      BY <2>1, <3>1, Fields DEF Noted
  <2>4. f \in [Tasks -> {Idle} \cup Underway] /\ Whole(admins, page, f, crossed)
    BY <2>1, WriterFacts
  <2> QED
    BY <1>3, <2>2, <2>3, <2>4, Fields, ChangedStep
<1>5. CASE ~j.left
  <2> DEFINE k == [j EXCEPT !.todo = {}, !.at = "agent"]
             q == Loading(page)
  <2>1. page' = q /\ tasks' = [Reread(tasks, u) EXCEPT ![t] = [@ EXCEPT !.todo = {}, !.at = "agent"]]
    BY <1>1, <1>2, <1>5
  <2>2. /\ k \in Underway /\ k.at = "agent" /\ k.kind = "privilege" /\ k.d = j.d /\ k.users = j.users
        /\ k.todo = {} /\ k.clean = j.clean /\ k.left = j.left /\ k.grant = j.grant
    BY <1>3 DEF Underway
  <2>3. PICK f : f = [tasks EXCEPT ![t] = k]
    OBVIOUS
  <2>4. /\ f \in [Tasks -> {Idle} \cup Underway] /\ f[t] = k
        /\ \A s \in Tasks : s # t => f[s] = tasks[s]
    BY <2>2, <2>3, Fields
  <2>5. k # Idle
    BY <2>2 DEF Idle, Underway
  <2>6. tasks' = Reread(f, u)
    <3>1. Reread(tasks, u)[t] = j
      BY <1>1, <1>3 DEF Reread
    <3>2. tasks' = [Reread(tasks, u) EXCEPT ![t] = k]
      BY <2>1, <3>1
    <3>3. \A s \in Tasks : Reread(f, u)[s] = IF s = t THEN k ELSE Reread(tasks, u)[s]
      BY <2>2, <2>4 DEF Reread
    <3>4. DOMAIN Reread(f, u) = Tasks /\ DOMAIN Reread(tasks, u) = Tasks
          /\ Reread(f, u) = [s \in Tasks |-> Reread(f, u)[s]]
      BY DEF Reread
    <3> HIDE DEF k
    <3> QED
      BY <3>2, <3>3, <3>4
  <2>7. /\ q \in Content /\ q.picker = page.picker /\ q.busy = page.busy
        /\ q.loading /\ OwnDialog(admins, q, crossed)
    BY Fields, LoadingFacts
  <2> HIDE DEF k, q
  <2>8. Sound(admins, k)
    BY <1>3, <2>2 DEF Sound, Route, Rest, OwnPeople, HasRead, StillTo, Lists, Commands
  <2>9. Whole(admins, q, f, crossed)
    <3>1. Whole(admins, page, tasks, crossed)
      BY DEF PageInv
    <3>2. k.kind = tasks[t].kind /\ k.d = tasks[t].d /\ (tasks[t].left => k.left) /\ tasks[t] # Idle
      BY <1>1, <1>3, <2>2
    <3> QED
      BY <2>2, <2>3, <2>7, <2>8, <3>1, <3>2, Fields, OnwardWhole
  <2>10. admins' \in SUBSET User
    BY <1>3, Fields
  <2>11. \E s \in Tasks : Here(f[s]) /\ f[s].kind = "privilege"
    BY <1>5, <2>2, <2>4, <2>5 DEF Here
  <2>12. /\ Reread(f, u) \in [Tasks -> {Idle} \cup Underway]
         /\ Whole(admins', q, Reread(f, u), crossed)
    BY <1>3, <2>4, <2>7, <2>9, <2>11, RereadWhole
  <2>13. tasks' \in [Tasks -> {Idle} \cup Underway] /\ Whole(admins', q, tasks', crossed)
    BY <2>6, <2>12
  <2> QED
    BY <2>1, <2>7, <2>10, <2>13, Fields DEF PageInv, PageTypeOK
<1> QED
  BY <1>4, <1>5

\* One more is written: there is another, or the screen is unlocked next.
LEMMA OneMoreStep ==
  ASSUME PageInv, NEW t \in Tasks, Active(t), tasks[t].at = "write",
         NEW rest, rest = tasks[t].todo \ {Lowest(tasks[t].todo)},
         rest # {} \/ ~tasks[t].grant,
         admins' = Set(Subject(t), tasks[t].grant), crossed' = crossed, events' = events,
         page' = IF tasks[t].left THEN Outdated(page, Subject(t)) ELSE page,
         tasks' = [IF tasks[t].left THEN Noted(tasks, Subject(t)) ELSE Reread(tasks, Subject(t))
                     EXCEPT ![t].todo = rest,
                            ![t].at = IF rest = {} THEN "unlock again" ELSE "write"]
  PROVE  PageInv'
<1>1. PICK j : j = tasks[t]
  OBVIOUS
<1>2. PICK u : u = Subject(t)
  OBVIOUS
<1>3. /\ j \in Underway /\ Sound(admins, j) /\ j.at = "write" /\ u \in User /\ j # Idle
      /\ Lowest(j.todo) \in j.todo /\ (j.clean => u = Lowest(j.todo))
      /\ rest = j.todo \ {Lowest(j.todo)} /\ Route(j) /\ Rest(j)
  BY <1>1, <1>2, WriterFacts DEF Sound, Active
<1>4. (j.kind = "bulk" \/ rest = {}) /\ ~j.grant /\ j.grant \in BOOLEAN
  BY <1>1, <1>3, LastOne, WriterFacts
<1>5. admins' = Set(u, FALSE) /\ admins' = admins \ {u}
  BY <1>1, <1>2, <1>4 DEF Set
<1> DEFINE k == [j EXCEPT !.todo = rest, !.at = IF rest = {} THEN "unlock again" ELSE "write"]
<1>6. /\ k \in Underway /\ k.kind = j.kind /\ k.d = j.d /\ k.clean = j.clean
      /\ k.left = j.left /\ k.todo = rest /\ k.changed = j.changed
      /\ k.at \in {"unlock again", "write"}
      /\ Route(k) /\ Rest(k) /\ OwnPeople(k) /\ \A b : HasRead(b, k)
  <2>1. rest \in SUBSET User /\ rest \subseteq j.users
    BY <1>3 DEF Rest, Underway
  <2>2. /\ k \in Underway /\ k.kind = j.kind /\ k.d = j.d /\ k.users = j.users /\ k.todo = rest
        /\ k.grant = j.grant /\ k.changed = j.changed /\ k.clean = j.clean /\ k.left = j.left
        /\ k.at = IF rest = {} THEN "unlock again" ELSE "write"
    BY <1>3, <2>1 DEF Underway
  <2> HIDE DEF k
  <2>3. Route(k)
    BY <1>3, <2>2 DEF Route
  <2>4. Rest(k)
    BY <1>3, <1>4, <2>1, <2>2 DEF Route, Rest
  <2>5. OwnPeople(k) /\ \A b : HasRead(b, k)
    BY <1>3, <2>2 DEF Sound, OwnPeople, HasRead
  <2> QED
    BY <2>2, <2>3, <2>4, <2>5
<1>7. k # Idle
  BY <1>6 DEF Idle, Underway
<1>8. CASE j.left
  <2>1. PICK f : f = [tasks EXCEPT ![t] = k]
    OBVIOUS
  <2>2. /\ f \in [Tasks -> {Idle} \cup Underway] /\ f[t] = k
        /\ \A s \in Tasks : s # t => f[s] = tasks[s]
    BY <1>6, <2>1, Fields
  <2>3. page' = Outdated(page, u)
        /\ tasks' = [Noted(tasks, u) EXCEPT ![t].todo = rest,
                          ![t].at = IF rest = {} THEN "unlock again" ELSE "write"]
    BY <1>1, <1>2, <1>8
  <2>4. tasks' = Noted(f, u)
    <3>1. PICK F : F = Noted(tasks, u)
      OBVIOUS
    <3>2. PICK G : G = Noted(f, u)
      OBVIOUS
    <3>3. F = [s \in Tasks |-> F[s]] /\ G = [s \in Tasks |-> G[s]]
      BY <3>1, <3>2 DEF Noted
    <3>4. \A s \in Tasks : s # t => F[s] = G[s]
      BY <2>2, <3>1, <3>2 DEF Noted
    <3>5. F[t] = [j EXCEPT !.changed = @ \cup {u}]
      BY <1>1, <1>3, <3>1 DEF Noted
    <3>6. G[t] = [k EXCEPT !.changed = @ \cup {u}]
      BY <1>7, <2>2, <3>2 DEF Noted
    <3>7. G[t] = [F[t] EXCEPT !.todo = rest, !.at = IF rest = {} THEN "unlock again" ELSE "write"]
      BY <1>3, <3>5, <3>6 DEF Underway
    <3>8. tasks' = [F EXCEPT ![t] = G[t]]
      BY <2>3, <3>1, <3>3, <3>7
    <3>9. tasks' = G
      BY <3>3, <3>4, <3>8
    <3> QED
      BY <3>2, <3>9
  <2> HIDE DEF k
  <2>5. Sound(admins, k)
    BY <1>6, <1>8 DEF Sound, StillTo
  <2>6. Whole(admins, page, tasks, crossed)
    BY DEF PageInv
  <2>7. Whole(admins, page, f, crossed)
    BY <1>1, <1>3, <1>6, <2>1, <2>5, <2>6, Fields, OnwardWhole
  <2> QED
    BY <1>3, <1>5, <2>2, <2>3, <2>4, <2>7, Fields, ChangedStep
<1>9. CASE ~j.left
  <2>1. PICK f : f = Reread(tasks, u)
    OBVIOUS
  <2>2. Whole(admins, page, tasks, crossed)
    BY DEF PageInv
  <2>3. f \in [Tasks -> {Idle} \cup Underway] /\ Whole(admins', page, f, crossed)
    BY <1>3, <1>5, <2>1, <2>2, Fields, RereadWhole
  <2>4. f[t] = j
    BY <1>1, <1>3, <2>1 DEF Reread
  <2>5. page' = page /\ tasks' = [f EXCEPT ![t] = k]
    BY <1>1, <1>2, <1>9, <2>1, <2>3, <2>4
  <2> HIDE DEF k
  <2>6. StillTo(admins', k)
    <3>1. StillTo(admins, j)
      BY <1>3 DEF Sound
    <3> QED
      BY <1>3, <1>5, <1>6, <3>1 DEF StillTo
  <2>7. Sound(admins', k)
    BY <1>6, <2>6 DEF Sound
  <2>8. OwnDialog(admins', page, crossed)
    BY <2>3 DEF Whole
  <2>9. PICK b : b = admins'
    OBVIOUS
  <2>10. Whole(b, page, f, crossed) /\ OwnDialog(b, page, crossed) /\ Sound(b, k)
    BY <2>3, <2>7, <2>8, <2>9
  <2>11. f[t] # Idle /\ k.kind = f[t].kind /\ k.d = f[t].d /\ (f[t].left => k.left)
    BY <1>3, <1>6, <2>4
  <2>12. Whole(b, page, [f EXCEPT ![t] = k], crossed)
    BY <1>6, <2>3, <2>10, <2>11, OnwardWhole
  <2>13. [f EXCEPT ![t] = k] \in [Tasks -> {Idle} \cup Underway]
    BY <1>6, <2>3
  <2>14. admins' \in SUBSET User
    BY <1>5, Fields
  <2> QED
    BY <2>5, <2>9, <2>12, <2>13, <2>14, Fields DEF PageInv, PageTypeOK
<1> QED
  BY <1>8, <1>9, <1>3 DEF Underway

LEMMA WriteStep ==
  ASSUME PageInv, NEW t \in Tasks, Write(t)
  PROVE  PageInv'
<1>1. PICK rest : rest = tasks[t].todo \ {Lowest(tasks[t].todo)}
  OBVIOUS
<1>2. Active(t) /\ tasks[t].at = "write" /\ crossed' = crossed /\ events' = events
      /\ admins' = Set(Subject(t), tasks[t].grant)
  BY DEF Write, Step
<1>3. CASE rest = {} /\ tasks[t].grant
  <2>1. tasks[t].grant = TRUE
    BY <1>2, <1>3, WriterFacts
  <2> QED
    BY <1>1, <1>2, <1>3, <2>1, GrantStep DEF Write
<1>4. CASE rest # {} \/ ~tasks[t].grant
  BY <1>1, <1>2, <1>4, OneMoreStep DEF Write
<1> QED
  BY <1>3, <1>4

-----------------------------------------------------------------------------
(* The rest of the page, and the theorems.                                 *)

LEMMA RevisitStep ==
  ASSUME PageInv, NEW t \in Tasks, Revisit(t)
  PROVE  PageInv'
<1> DEFINE k == Task("mount", "refresh", None, {}, FALSE)
<1>1. /\ k \in Underway /\ k.kind = "mount" /\ k.at = "refresh" /\ k.users = {} /\ k.todo = {}
  BY Fields DEF Task, Underway, Content
<1> HIDE DEF k
<1>2. Sound(admins, k) /\ k.kind \notin Lists
  BY <1>1 DEF Sound, Route, Rest, OwnPeople, HasRead, StillTo, Lists, Commands
<1>3. ASSUME NEW s \in Tasks
      PROVE  /\ tasks'[s] \in {Idle, k} \cup Underway
             /\ tasks'[s] # Idle => Sound(admins, tasks'[s])
             /\ Here(tasks'[s]) => tasks'[s] = k
  <2>1. PICK j : j = tasks[s]
    OBVIOUS
  <2>2. CASE Active(s) /\ j.at \in {"unlock", "write", "late"}
    <3>1. tasks'[s] = [j EXCEPT !.left = TRUE] /\ j \in Underway /\ Sound(admins, j)
      BY <2>1, <2>2, Fields DEF Revisit
    <3>2. PICK i : i = [j EXCEPT !.left = TRUE]
      OBVIOUS
    <3>3. /\ i \in Underway /\ i.left /\ i.at = j.at /\ i.kind = j.kind /\ i.d = j.d
          /\ i.users = j.users /\ i.todo = j.todo /\ i.clean = j.clean /\ i.grant = j.grant
      BY <3>1, <3>2 DEF Underway
    <3>4. Sound(admins, i) /\ ~Here(i)
      BY <2>2, <3>1, <3>3 DEF Sound, Route, Rest, OwnPeople, HasRead, StillTo, Here
    <3> QED
      BY <3>1, <3>2, <3>3, <3>4
  <2>3. CASE ~(Active(s) /\ j.at \in {"unlock", "write", "late"})
    <3>1. tasks'[s] = Mount(t)[s]
      BY <2>1, <2>3 DEF Revisit
    <3>2. tasks'[s] = k \/ tasks'[s] = Idle
      BY <3>1 DEF Mount, k
    <3>3. ~Here(Idle)
      BY DEF Here
    <3> QED
      BY <1>2, <3>2, <3>3
  <2> QED
    BY <2>2, <2>3
<1>4. tasks' \in [Tasks -> {Idle} \cup Underway]
  <2>1. tasks' = [s \in Tasks |-> tasks'[s]]
    BY DEF Revisit
  <2>2. \A s \in Tasks : tasks'[s] \in {Idle} \cup Underway
    BY <1>1, <1>3
  <2> QED
    BY <2>1, <2>2
<1>5. page' \in Content /\ page'.picker = None
  BY DEF Revisit, Fresh, Content
<1>6. Whole(admins, page', tasks', crossed)
  <2>1. OwnDialog(admins, page', crossed)
    BY <1>5 DEF OwnDialog
  <2>2. Belongs(page', crossed, k)
    BY <1>2 DEF Belongs, Lists, Commands
  <2>3. k.kind \notin Commands
    BY <1>2 DEF Lists
  <2> QED
    BY <1>3, <2>1, <2>2, <2>3 DEF Whole
<1>7. events' \in 0 .. MaxEvents
  BY SyncAssumption, Fields DEF Revisit, Event
<1> QED
  BY <1>4, <1>5, <1>6, <1>7, Fields DEF PageInv, PageTypeOK, Revisit

LEMMA TouchStep ==
  ASSUME PageInv, NEW q, Touch(q), q \in Content, q.picker \in {None, page.picker},
         q.busy = page.busy, OwnDialog(admins, q, crossed)
  PROVE  PageInv'
<1>1. Whole(admins, page, tasks, crossed)
  BY DEF PageInv
<1>2. Whole(admins, q, tasks, crossed)
  BY <1>1, TouchWhole
<1>3. page' = q /\ UNCHANGED <<admins, tasks, crossed, events>>
  BY DEF Touch
<1> QED
  BY <1>2, <1>3, Fields DEF PageInv, PageTypeOK

LEMMA CloseStep == ASSUME PageInv, Close PROVE PageInv'
<1>1. PICK q : q = [page EXCEPT !.picker = None]
  OBVIOUS
<1>2. q \in Content /\ q.picker = None /\ q.busy = page.busy
  BY <1>1, Fields DEF Content
<1>3. OwnDialog(admins, q, crossed)
  BY <1>2 DEF OwnDialog
<1> QED
  BY <1>1, <1>2, <1>3, TouchStep DEF Close

\* Ticks are of people who are shown.
LEMMA TickStep ==
  ASSUME PageInv, NEW S, S \subseteq page.ticked \cup {r.user : r \in page.rows},
         Touch([page EXCEPT !.ticked = S])
  PROVE  PageInv'
<1>1. PICK q : q = [page EXCEPT !.ticked = S]
  OBVIOUS
<1>2. S \in SUBSET User
  BY Fields DEF Content, Entry
<1>3. /\ q \in Content /\ q.picker = page.picker /\ q.busy = page.busy /\ q.ticked = S
      /\ q.rows = page.rows /\ q.stale = page.stale /\ q.loading = page.loading
      /\ q.failed = page.failed
  BY <1>1, <1>2, Fields DEF Content
<1>4. OwnDialog(admins, q, crossed)
  BY <1>3, Fields DEF OwnDialog
<1> QED
  BY <1>1, <1>3, <1>4, TouchStep

LEMMA ToggleStep ==
  ASSUME PageInv, NEW u \in Uids, ToggleUid(u)
  PROVE  PageInv'
<1> DEFINE same == {x \in page.ticked : x[2] = u}
           S == IF same = {} THEN page.ticked \cup {r.user : r \in {x \in page.rows : x.user[2] = u}}
                ELSE page.ticked \ same
<1>1. Touch([page EXCEPT !.ticked = S])
  BY Fields DEF ToggleUid, Content
<1>2. S \subseteq page.ticked \cup {r.user : r \in page.rows}
  OBVIOUS
<1> HIDE DEF S
<1> QED
  BY <1>1, <1>2, TickStep

LEMMA PageGoesOn == PageInv /\ [PageNext]_pageVars => PageInv'
<1> SUFFICES ASSUME PageInv, [PageNext]_pageVars PROVE PageInv'
  OBVIOUS
<1>1. CASE UNCHANGED pageVars
  BY <1>1 DEF pageVars, PageInv, PageTypeOK
<1>2. ASSUME NEW t \in Tasks, NEW d \in Devices, OpenPicker(t, d) \/ SyncZk(t, d) \/ SyncDevice(t, d)
      PROVE  PageInv'
  BY <1>2, OpenPickerStep, SyncZkStep, SyncDeviceStep
<1>3. ASSUME NEW t \in Tasks,
             \/ IncludePassword(t) \/ UnlockScreen(t) \/ ClearElevated(t)
             \/ SubmitImport(t) \/ RunProcess(t)
      PROVE  PageInv'
  BY <1>3, IncludePasswordStep, UnlockScreenStep, ClearElevatedStep, SubmitImportStep, RunProcessStep
<1>4. ASSUME NEW t \in Tasks, NEW r \in page.rows, ApplyPrivilege(t, r)
      PROVE  PageInv'
  BY <1>4, ApplyPrivilegeStep
<1>5. ASSUME NEW t \in Tasks,
             \/ ReadList(t) \/ ShowList(t) \/ Unlock(t) \/ UnlockAgain(t)
             \/ Called(t) \/ Refreshed(t) \/ Revisit(t)
      PROVE  PageInv'
  BY <1>5, ReadListStep, ShowListStep, UnlockStep, UnlockAgainStep, CalledStep, RefreshedStep,
     RevisitStep
<1>6. ASSUME NEW t \in Tasks, Write(t) \/ WriteFails(t) \/ Late(t)
      PROVE  PageInv'
  BY <1>6, WriteStep, WriteFailsStep, LateStep
<1>7. CASE Close
  BY <1>7, CloseStep
<1>8. CASE SelectAll
  <2>1. Touch([page EXCEPT !.ticked = {r.user : r \in page.rows}])
    BY <1>8 DEF SelectAll
  <2> QED
    BY <2>1, TickStep
<1>9. CASE ClearSelection
  <2>1. Touch([page EXCEPT !.ticked = {}])
    BY <1>9 DEF ClearSelection
  <2> QED
    BY <2>1, TickStep
<1>10. ASSUME NEW u \in Uids, ToggleUid(u)
       PROVE  PageInv'
  BY <1>10, ToggleStep
<1>11. ASSUME NEW u \in User, Keypad(u)
       PROVE  PageInv'
  BY <1>11, KeypadStep
<1> QED
  BY <1>1, <1>2, <1>3, <1>4, <1>5, <1>6, <1>7, <1>8, <1>9, <1>10, <1>11 DEF PageNext

\* The terminal page: what its dialog shows and what its handlers know always fit
\* together (the type invariant, Sound, OwnDialog, Belongs, one command at a time).
THEOREM PageHolds == PageSpec => []PageInv
<1> QED
  BY PageStart, PageGoesOn, PTL DEF PageSpec

\* RightTerminal: a command names people of the terminal it is sent to, for any terminals,
\* uids and handlers, unless a bridge lists another terminal or the dialog was opened while
\* another terminal's list was awaited.
THEOREM PeopleOfTheTerminal == PageSpec => []RightTerminal
<1>1. PageInv => RightTerminal
  BY DEF PageInv, Whole, Sound, OwnPeople, RightTerminal, Active
<1> QED
  BY <1>1, PageHolds, PTL

\* NoneLeft: when taking all privileges away is reported done, none of the administrators
\* the list truly named is left, but for those changed since.
THEOREM AllTakenAway == PageSpec => []NoneLeft
<1>1. ASSUME PageInv
      PROVE  NoneLeft
  <2>1. SUFFICES ASSUME NEW t \in Tasks, Mine(t), tasks[t].clean, tasks[t].kind = "bulk",
                        tasks[t].at = "agent"
                 PROVE  \A u \in admins : u[1] = tasks[t].d => u \in tasks[t].changed
    BY DEF NoneLeft
  <2>2. Sound(admins, tasks[t]) /\ ~tasks[t].left
    BY <1>1, <2>1, Fields DEF Mine
  <2> QED
    BY <2>1, <2>2 DEF Sound, Rest, StillTo
<1> QED
  BY <1>1, PageHolds, PTL

=============================================================================
