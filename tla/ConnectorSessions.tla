-------------------------- MODULE ConnectorSessions --------------------------
(***************************************************************************)
(* What Charging promises of the sessions on one connector, whatever web   *)
(* requests, jobs, scheduler, event consumer and operators do.  A start    *)
(* waits alone; it is given up, or evidence of a physical transaction      *)
(* begins it; a session that began only ends in a record, final or under   *)
(* review.                                                                 *)
(***************************************************************************)
EXTENDS ChargingStates

CONSTANTS Request, Tx, None

VARIABLES
  state,      \* of a session, None before it exists
  tx,         \* the physical transaction a session stands for
  reserved    \* sessions the connector is reserved for

sessionsVars == <<state, tx, reserved>>

Session == Request \cup Tx

Init ==
  /\ state = [s \in Session |-> None]
  /\ tx = [s \in Session |-> None]
  /\ reserved = {}

Become(s, next) == state' = [state EXCEPT ![s] = next]

(* A start is taken when every session is over.                            *)
Accept(r) ==
  /\ state[r] = None
  /\ \A s \in Session : state[s] \in Terminal \cup {None}
  /\ Become(r, "starting")
  /\ reserved' = {r}
  /\ UNCHANGED tx

(* A start nothing physical is known of.                                   *)
GiveUp(s) ==
  /\ state[s] = "starting"
  /\ \E end \in Terminal \ {"completed"} : Become(s, end)
  /\ reserved' = reserved \ {s}
  /\ UNCHANGED tx

(* The first evidence of transaction t that is consumed: of the start that *)
(* waits, or of a session nobody asked for.                                *)
Begin(s, t) ==
  /\ \A other \in Session : tx[other] # t
  /\ \/ s \in Request /\ state[s] = "starting"
     \/ s = t /\ state[s] = None
  /\ \A other \in Session : state[other] \notin OccupiesConnector
  /\ \E next \in PhysicallyActive \ {"stopping"} : Become(s, next)
  /\ tx' = [tx EXCEPT ![s] = t]
  /\ reserved' = reserved \ {s}

(* Suspensions, stop requests and their rejection.                         *)
Continue(s) ==
  /\ state[s] \in PhysicallyActive
  /\ \E next \in PhysicallyActive : Become(s, next)
  /\ UNCHANGED <<tx, reserved>>

(* The end of its transaction, or an operator's decision on its review.    *)
End(s) ==
  /\ state[s] \in PhysicallyActive \cup {"review_required"}
  /\ \E next \in {"review_required", "completed"} : Become(s, next)
  /\ UNCHANGED <<tx, reserved>>

Next ==
  \/ \E r \in Request : Accept(r)
  \/ \E s \in Session : GiveUp(s) \/ Continue(s) \/ End(s)
  \/ \E s \in Session, t \in Tx : Begin(s, t)

Spec == Init /\ [][Next]_sessionsVars
=============================================================================
