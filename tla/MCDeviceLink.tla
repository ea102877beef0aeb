---------------------------- MODULE MCDeviceLink ----------------------------
(* An instance of DeviceLink for TLC: one person punches twice on a day     *)
(* and never presses a direction key.                                       *)
EXTENDS DeviceLink, TLC

CONSTANTS h1, h2

OneDay == [p \in Punches |-> 1]
OneCard == [p \in Punches |-> 1]
NoKeys == [p \in Punches |-> "CHECK_IN"]

Alike == Permutations(Handlers)
=============================================================================
