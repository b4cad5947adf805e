--------------------------- MODULE MCNotifications ---------------------------
(***************************************************************************)
(* Instances of Notifications for TLC.                                     *)
(***************************************************************************)
EXTENDS Notifications

CONSTANTS k1, k2, th1, th2

TwoTasks   == {k1, k2}
TwoThreads == {th1, th2}
=============================================================================
