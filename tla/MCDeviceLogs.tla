---------------------------- MODULE MCDeviceLogs ----------------------------
(* An instance of DeviceLogs for TLC: one employee, who checks in at k1    *)
(* and out at k2; an import takes k2 for a punch of another date.           *)
EXTENDS DeviceLogs, TLC

CONSTANTS k1, k2, e1

Owner == [k \in Punches |-> e1]

Logs == [k \in Punches |-> IF k = k1 THEN [type |-> "CHECK_IN", time |-> 480]
                                     ELSE [type |-> "CHECK_OUT", time |-> 900]]

SurprisePunches == {k1}

Symmetry == Permutations(Requests)
=============================================================================
