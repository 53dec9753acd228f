-------------------------- MODULE ScheduledPrepaid --------------------------
(***************************************************************************)
(* Prepaid charging by one driver, and what the runs of                    *)
(* charging:monitor-prepaid owe it.  A run reconciles every session of     *)
(* every tenant that is not settled, one after the other, and catches      *)
(* nothing: a session elsewhere whose reconciliation throws, as a stop the *)
(* connector's index refuses does, ends the run and every one after it.    *)
(***************************************************************************)
EXTENDS PrepaidCharging

VARIABLE
  elsewhere   \* a session of another driver aborts the runs

scheduledVars == <<prepaidVars, elsewhere>>

ScheduledInit == PrepaidInit /\ elsewhere \in BOOLEAN

ThrowsElsewhere ==
  /\ ~elsewhere
  /\ elsewhere' = TRUE
  /\ UNCHANGED prepaidVars

ResolvedElsewhere ==
  /\ elsewhere
  /\ elsewhere' = FALSE
  /\ UNCHANGED prepaidVars

ScheduledNext ==
  \/ PrepaidNext /\ UNCHANGED elsewhere
  \/ ThrowsElsewhere
  \/ ResolvedElsewhere

(* The runs come every ten seconds; only those that reach the session      *)
(* reconcile it, and nothing promises that the cause elsewhere is ever     *)
(* resolved.                                                               *)
Schedule ==
  \A r \in CustomerRequest :
    WF_scheduledVars(~elsewhere /\ Monitor(r) /\ UNCHANGED elsewhere)

ScheduledSpec ==
  ScheduledInit /\ [][ScheduledNext]_scheduledVars /\ Schedule

-----------------------------------------------------------------------------
(* Properties.                                                             *)

SettlementDue(r) ==
  \/ state[r] = "completed" /\ Chargeable(r)
  \/ state[r] \in Terminal \ {"completed"} /\ NeverDelivered(r)

(* No session with a final charge, or with proof that nothing was started, *)
(* keeps the driver's funds on hold for ever                               *)
(* (PrepaidChargingMonitor::reconcile), unless the runs are aborted        *)
(* elsewhere again and again.  A charge stops being final when another     *)
(* generation, estimated, unbillable or above the budget, becomes the      *)
(* latest one before the monitor comes by.                                 *)
DueSettles ==
  <>[]~elsewhere =>
    \A r \in CustomerRequest : ~<>[](SettlementDue(r) /\ Funds!Active(r))
=============================================================================
