------------------------------ MODULE AgentJobs ------------------------------
(***************************************************************************)
(* What the office-agent relay promises to its callers, without the queue, *)
(* the polling loop, the network or the retry file: a submitted job is     *)
(* handed out once, the device acts on it at most once, the status the     *)
(* server reports is what happened at the device and never changes, and a  *)
(* caller told "success" was told the truth.  A hand-out that slips from   *)
(* the record may be repeated; what is reported of it is still the truth.  *)
(***************************************************************************)
CONSTANTS Jobs

VARIABLES
  phase,    \* what the server's job row says
  device,   \* what happened at the device, over all runs of the job
  answer,   \* what the caller waiting for the job was told
  slipped   \* jobs once handed out without a record of it

vars == <<phase, device, answer, slipped>>

Outcomes == {"success", "failed", "timeout"}

TypeOK ==
  /\ phase \in [Jobs -> {"absent", "queued", "handed"} \cup Outcomes]
  /\ device \in [Jobs -> SUBSET Outcomes]
  /\ answer \in [Jobs -> {"none", "waiting", "ok", "failed", "gave_up"}]
  /\ slipped \subseteq Jobs

Init ==
  /\ phase = [j \in Jobs |-> "absent"]
  /\ device = [j \in Jobs |-> {}]
  /\ answer = [j \in Jobs |-> "none"]
  /\ slipped = {}

Submit(j) ==
  /\ phase[j] = "absent"
  /\ phase' = [phase EXCEPT ![j] = "queued"]
  /\ \E w \in {"none", "waiting"} : answer' = [answer EXCEPT ![j] = w]
  /\ UNCHANGED <<device, slipped>>

\* One poll takes several jobs at once.
HandOut(S) ==
  /\ S # {}
  /\ \A j \in S : phase[j] = "queued"
  /\ phase' = [j \in Jobs |-> IF j \in S THEN "handed" ELSE phase[j]]
  /\ UNCHANGED <<device, answer, slipped>>

\* One poll takes them and the record still calls them queued.
Slip(S) ==
  /\ S # {}
  /\ \A j \in S : phase[j] = "queued"
  /\ slipped' = slipped \cup S
  /\ UNCHANGED <<phase, device, answer>>

Act(j, o) ==
  /\ (phase[j] = "handed" /\ device[j] = {}) \/ j \in slipped
  /\ device' = [device EXCEPT ![j] = @ \cup {o}]
  /\ UNCHANGED <<phase, answer, slipped>>

Report(j) ==
  /\ phase[j] = "handed" \/ j \in slipped
  /\ \E o \in device[j] : phase' = [phase EXCEPT ![j] = o]
  /\ UNCHANGED <<device, answer, slipped>>

Answer(j) ==
  /\ answer[j] = "waiting"
  /\ phase[j] \in Outcomes
  /\ answer' = [answer EXCEPT ![j] = IF phase[j] = "success" THEN "ok" ELSE "failed"]
  /\ UNCHANGED <<phase, device, slipped>>

\* The caller's wait ends with an error of the relay itself: deadline, crash, lost row.
GiveUp(S) ==
  /\ S # {}
  /\ \A j \in S : answer[j] = "waiting"
  /\ answer' = [j \in Jobs |-> IF j \in S THEN "gave_up" ELSE answer[j]]
  /\ UNCHANGED <<phase, device, slipped>>

Next ==
  \/ \E j \in Jobs : Submit(j) \/ Report(j) \/ Answer(j)
  \/ \E j \in Jobs, o \in Outcomes : Act(j, o)
  \/ \E S \in SUBSET Jobs : HandOut(S) \/ Slip(S) \/ GiveUp(S)

Spec == Init /\ [][Next]_vars
=============================================================================
