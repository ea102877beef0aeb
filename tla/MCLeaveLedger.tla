---------------------------- MODULE MCLeaveLedger ----------------------------
(* Instances of LeaveLedger for TLC.                                        *)
EXTENDS LeaveLedger, TLC

CONSTANTS l1, l2, l3

\* The first leave takes two days, the others one each.
SomeDays == [l \in Leaves |-> IF l = l1 THEN 2 ELSE 1]

\* The handlers of reviews and cancellations are interchangeable.
ActorSymmetry == Permutations(Actors)
=============================================================================
