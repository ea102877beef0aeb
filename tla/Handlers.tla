------------------------------ MODULE Handlers ------------------------------
(***************************************************************************)
(* Requests the server handles at the same time.  A handler that awaits    *)
(* the database lets the others run, so each statement is a step of its    *)
(* own; what it has read so far is kept in op.  A process may die between  *)
(* two statements.                                                         *)
(***************************************************************************)
EXTENDS Integers

CONSTANTS
  Handlers,     \* requests handled at once
  MaxRequests,  \* bound: requests altogether
  MaxDeaths     \* bound: handlers that die half way

ASSUME HandlersAssumption == MaxRequests \in Nat /\ MaxDeaths \in Nat

VARIABLES op, requests, deaths

server == <<op, requests, deaths>>

Idle == [at |-> "idle"]

InitHandlers ==
  /\ op = [h \in Handlers |-> Idle]
  /\ requests = 0 /\ deaths = 0

\* The handler has read something and remembers it for its next statement.
Do(h, what) == op' = [op EXCEPT ![h] = what]

Arrive(h) ==
  /\ op[h] = Idle /\ requests < MaxRequests
  /\ requests' = requests + 1
  /\ UNCHANGED deaths

\* The handler goes on from the step it has reached.
At(h, step) == op[h].at = step /\ UNCHANGED <<requests, deaths>>

Others(h, steps) == {g \in Handlers \ {h} : op[g].at \in steps}

Die(h) ==
  /\ op[h] # Idle /\ deaths < MaxDeaths
  /\ deaths' = deaths + 1 /\ Do(h, Idle)
  /\ UNCHANGED requests
=============================================================================
