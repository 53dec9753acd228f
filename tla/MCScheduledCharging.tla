------------------------ MODULE MCScheduledCharging ------------------------
(* One driver, one transaction that starts and ends.                       *)
EXTENDS ScheduledCharging

CONSTANTS r1, t1

StartAndEnd == [kind : {"started", "ended"}, tx : Tx, copy : {1}]
=============================================================================
