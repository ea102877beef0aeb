----------------------- MODULE MCAttendanceRequests -----------------------
(* Instances of AttendanceRequests for TLC.                                *)
EXTENDS AttendanceRequests, TLC

CONSTANTS in1, out1

SomeKinds == [r \in Requests |-> IF r = out1 THEN "CHECK_OUT" ELSE "CHECK_IN"]

HandlerSymmetry == Permutations(Handlers)
============================================================================
