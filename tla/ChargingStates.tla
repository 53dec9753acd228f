--------------------------- MODULE ChargingStates ---------------------------
(***************************************************************************)
(* The state machines of the Charging domain, as data: the values of each  *)
(* backed enum and the transitions its canTransitionTo() admits.           *)
(***************************************************************************)

-----------------------------------------------------------------------------
(* Charging sessions: ChargingSessionState.                                *)

SessionState == {"requested", "authorizing", "authorized", "starting",
                 "charging", "suspended_by_ev", "suspended_by_evse",
                 "stopping", "finalizing", "review_required",
                 "completed", "failed", "cancelled", "expired"}

Terminal == {"completed", "failed", "cancelled", "expired"}

PhysicallyActive == {"charging", "suspended_by_ev", "suspended_by_evse",
                     "stopping"}

(* The states the partial unique index on sessions ranges over.            *)
OccupiesConnector == PhysicallyActive \cup {"finalizing"}

SessionNext ==
  LET closing == {"stopping", "finalizing"} IN
  [requested         |-> {"authorizing", "starting", "cancelled", "expired"},
   authorizing       |-> {"authorized", "starting", "failed", "cancelled",
                          "expired"},
   authorized        |-> {"starting", "cancelled", "expired"},
   starting          |-> {"charging", "suspended_by_ev", "suspended_by_evse",
                          "failed", "cancelled", "expired"} \cup closing,
   charging          |-> {"suspended_by_ev", "suspended_by_evse"} \cup closing,
   suspended_by_ev   |-> {"charging", "suspended_by_evse"} \cup closing,
   suspended_by_evse |-> {"charging", "suspended_by_ev"} \cup closing,
   stopping          |-> {"charging", "suspended_by_ev", "suspended_by_evse",
                          "finalizing"},
   finalizing        |-> {"review_required", "completed"},
   review_required   |-> {"finalizing", "completed"},
   completed |-> {}, failed |-> {}, cancelled |-> {}, expired |-> {}]

(* Mutant: late evidence may reopen a session that is over.                *)
MayReopen(from, to) ==
  from = to \/ to \in SessionNext[from] \/ to \in PhysicallyActive

(* A transition to the current state is accepted and changes nothing.      *)
SessionMay(from, to) == from = to \/ to \in SessionNext[from]

-----------------------------------------------------------------------------
(* Charger commands: ChargerCommandState.                                  *)

CommandState == {"requested", "dispatched", "acknowledged", "rejected",
                 "timed_out", "delivery_unknown", "expired"}

CommandTerminal == CommandState \ {"requested", "dispatched"}

CommandNext ==
  [requested  |-> {"dispatched", "expired", "rejected"},
   dispatched |-> {"acknowledged", "rejected", "timed_out",
                   "delivery_unknown"},
   acknowledged |-> {}, rejected |-> {}, timed_out |-> {},
   delivery_unknown |-> {}, expired |-> {}]

CommandMay(from, to) == from = to \/ to \in CommandNext[from]

-----------------------------------------------------------------------------
(* Connector availability: ConnectorAvailability.                          *)

Availability == {"available", "occupied", "reserved", "unavailable",
                 "faulted", "offline", "unknown"}

(* What a known availability may not become, beyond the other values.      *)
ConnectorBlocked ==
  [a \in Availability |->
     CASE a = "unavailable" -> {"occupied"}
       [] a = "faulted"     -> {"occupied", "reserved"}
       [] OTHER             -> {}]

ConnectorMay(from, to) == to \notin ConnectorBlocked[from]
=============================================================================
