-------------------------- MODULE ScheduledCharging --------------------------
(***************************************************************************)
(* Charging at one connector, and what the scheduled runs of the whole     *)
(* platform owe it.  A run of charging:expire-operations goes through the  *)
(* tenants, in each first through the due commands, then through the       *)
(* overdue starts.  It catches nothing: one command whose outcome throws,  *)
(* wherever its connector, ends the run, the next one, and so on until     *)
(* that command is dealt with.                                             *)
(***************************************************************************)
EXTENDS Charging

VARIABLE
  elsewhere   \* a due command of another connector aborts the runs

scheduledVars == <<vars, elsewhere>>

ScheduledInit == Init /\ elsewhere \in BOOLEAN

(* A start of a session under review passes its deadline elsewhere; an     *)
(* operator may finish that review.                                        *)
PoisonedElsewhere ==
  /\ ~elsewhere
  /\ elsewhere' = TRUE
  /\ UNCHANGED vars

ResolvedElsewhere ==
  /\ elsewhere
  /\ elsewhere' = FALSE
  /\ UNCHANGED vars

ScheduledNext ==
  \/ Next /\ UNCHANGED elsewhere
  \/ PoisonedElsewhere
  \/ ResolvedElsewhere

(* The runs come every minute and time passes; a run that is aborted       *)
(* elsewhere may not reach this connector, and nothing promises that the   *)
(* cause is ever resolved.                                                 *)
RunsReachUs == ~elsewhere /\ ~RunAborts /\ UNCHANGED elsewhere

Schedule ==
  /\ \A c \in Command :
       /\ WF_scheduledVars(DeadlinePasses(c) /\ UNCHANGED elsewhere)
       /\ WF_scheduledVars(RunsReachUs /\ ExpireCommand(c))
  /\ \A r \in Request : WF_scheduledVars(RunsReachUs /\ ExpireSession(r))

ScheduledSpec ==
  ScheduledInit /\ [][ScheduledNext]_scheduledVars /\ Schedule

-----------------------------------------------------------------------------
(* Properties.                                                             *)

(* A start whose deadline passed stops blocking the connector, or a        *)
(* driver's is put down as unconfirmed, unless commands of other           *)
(* connectors abort the runs again and again (ExpireChargingOperations).   *)
PendingResolves ==
  <>[]~elsewhere =>
    \A r \in Request : Pending(r) ~> ~Pending(r) \/ r \in unconfirmed
=============================================================================
