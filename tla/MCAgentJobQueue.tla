--------------------------- MODULE MCAgentJobQueue ---------------------------
(* Instances of AgentJobQueue for TLC.                                      *)
EXTENDS AgentJobQueue, TLC

CONSTANTS a1, a2, j1, j2, j3

\* One office: every job goes to the same agent.
OneAgent == [j \in Jobs |-> a1]

\* Two offices: the last job belongs to the second agent.
TwoAgents == [j \in Jobs |-> IF j = j3 THEN a2 ELSE a1]

Symmetry == Permutations(Slots)
=============================================================================
