------------------------- MODULE MCPrepaidCharging -------------------------
(* One driver, one connector, one transaction; totals within and above the *)
(* budget of one unit.                                                     *)
EXTENDS ScheduledPrepaid

CONSTANTS r1, t1, w1, q1, wallet

MCAmount == 0..1

(* The end is sent twice: under a new event id it can complete a session   *)
(* under review, whose operator then generates another version.            *)
StartStop == [kind : {"started", "ended"}, tx : Tx, copy : {1}]
               \cup [kind : {"ended"}, tx : Tx, copy : {2}]
=============================================================================
