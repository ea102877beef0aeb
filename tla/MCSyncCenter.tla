---------------------------- MODULE MCSyncCenter ----------------------------
(* An instance of SyncCenter for TLC.                                       *)
EXTENDS SyncCenter, TLC

CONSTANTS d1, d2, t1, t2

\* Everybody administers, everybody of one terminal, somebody of each, or nobody.
SomeAdmins == {Devices \X Uids, {d1} \X Uids, {<<d1, 1>>, <<d2, 2>>}, {}}

Alike == Permutations(Tasks)
=============================================================================
