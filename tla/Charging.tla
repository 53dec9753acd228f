------------------------------ MODULE Charging ------------------------------
(***************************************************************************)
(* The Charging aggregate around ONE connector: sessions, charger          *)
(* commands, the connector reservation, charge detail records and manual   *)
(* reviews, as rows that web requests, queued jobs, the scheduler and the  *)
(* event consumer change in database transactions.                         *)
(*                                                                         *)
(* One action is one database transaction (plus the reads before it).  A   *)
(* handler whose transaction throws changes nothing, so its action is      *)
(* disabled or only consumes its trigger.  A handler with several          *)
(* transactions is several actions, and other actors run in between.       *)
(***************************************************************************)
EXTENDS ChargingStates, Naturals, Sequences, FiniteSets

CONSTANTS
  Request,          \* remote starts, each with its idempotency key
  CustomerRequest,  \* those placed by a driver through CustomerCharging
  Tx,               \* physical transactions of the charger
  StopKey,          \* idempotency keys a session's remote stops use
  Event,            \* pieces of evidence the charger may send, by event id
  Reported,         \* connector statuses it may report
  Reviewer,         \* operators resolving reviews
  Total,            \* totals the tariff engine may return
  MaxJobs,          \* bound: queue messages per command
  MaxVersion,       \* bound: charge detail record versions per session
  Adjusted,         \* marks measurements an operator adjusted
  None

(* A charger that got no answer sends the same evidence again under a new  *)
(* event id: a copy.                                                       *)
EvidenceKind == {"started", "charging", "suspended", "ended", "meter",
                 "unaddressed_meter"}

ASSUME ConstantsOK ==
  /\ CustomerRequest \subseteq Request
  /\ Request \cap Tx = {}
  /\ None \notin Request \cup Tx \cup SessionState \cup CommandState
  /\ "start" \notin StopKey
  /\ Event \subseteq [kind : EvidenceKind, tx : Tx, copy : Nat]
  /\ Adjusted \notin Event
  /\ Total \subseteq Nat /\ None \notin Nat
  /\ MaxJobs \in Nat \ {0} /\ MaxVersion \in Nat \ {0}

(* A session is created by a remote start or reconstructed from evidence   *)
(* of a transaction; either identifies it.                                 *)
Session == Request \cup Tx

StartCommand == Request \X {"start"}
StopCommand  == Session \X StopKey
Command      == StartCommand \cup StopCommand

Decision == {"complete", "estimated", "unbillable"}

VARIABLES
  state,       \* charging_sessions.state, None before the row exists
  tx,          \* protocol_transaction_id, written together with started_at
  flagged,     \* sessions carrying a blocking anomaly flag
  measured,    \* evidence behind energy_wh and duration_seconds
  unconfirmed, \* failure_reason = 'prepaid_start_unconfirmed'
  cmd,         \* charger_commands.state, None before the row exists
  sent,        \* commands with dispatched_at
  due,         \* commands whose expires_at passed (a start's session, too)
  resume,      \* expected_state.session_state of a stop command
  jobs,        \* per command: dispatch jobs waiting, calling, applying
  reserved,    \* sessions with an open connector reservation
  connector,   \* charging_connector_statuses.status
  preparing,   \* its reported_status = 'preparing'
  records,     \* charge detail records of a session, by version
  reviewing,   \* an operator between the two transactions of resolve()
  inbox,       \* fate of each piece of evidence
  phase,       \* the charger's own view of a transaction
  known        \* requests made before the source time of a start

sessionVars   == <<state, tx, flagged, measured, unconfirmed>>
commandVars   == <<cmd, sent, resume, jobs>>
connectorVars == <<reserved, connector, preparing>>
reviewVars    == <<records, reviewing>>
chargerVars   == <<phase, known>>
vars == <<sessionVars, commandVars, due, connectorVars, reviewVars, inbox,
          chargerVars>>

Jobs   == [waiting : 0..MaxJobs, calling : 0..MaxJobs, applying : 0..MaxJobs]
Record == [state : {"review_required", "finalized"},
           outcome : Decision \cup {None},
           total : Total \cup {None},
           measured : SUBSET (Event \cup {Adjusted})]

Init ==
  /\ state = [s \in Session |-> None]
  /\ tx = [s \in Session |-> None]
  /\ flagged = {} /\ unconfirmed = {}
  /\ measured = [s \in Session |-> {}]
  /\ cmd = [c \in Command |-> None]
  /\ sent = {} /\ due = {}
  /\ resume = [c \in StopCommand |-> None]
  /\ jobs = [c \in Command |-> [waiting |-> 0, calling |-> 0, applying |-> 0]]
  /\ reserved = {} /\ connector = "available" /\ preparing = FALSE
  /\ records = [s \in Session |-> <<>>]
  /\ reviewing = [w \in Reviewer |-> None]
  /\ inbox = [e \in Event |-> "pending"]
  /\ phase = [t \in Tx |-> "unused"]
  /\ known = [t \in Tx |-> {}]

-----------------------------------------------------------------------------
(* Shared steps.                                                           *)

Exists(s)  == state[s] # None
Started(s) == tx[s] # None
Pending(s) == state[s] \in {"requested", "authorizing", "authorized", "starting"}

(* connector_one_physical_session_unique lets s enter an occupying state.  *)
ConnectorFreeFor(s) ==
  \A other \in Session \ {s} : state[other] \notin OccupiesConnector

Become(s, next) == state' = [state EXCEPT ![s] = next]

(* Mutant: the connector is given back, the reservation row stays open.    *)
ReleaseConnectorOnly(s, restore) ==
  /\ connector' = IF restore /\ s \in reserved /\ connector = "reserved"
                  THEN "available" ELSE connector
  /\ UNCHANGED <<reserved, preparing>>

(* ConnectorReservationService.release().  The unique index leaves no      *)
(* other open reservation that could keep the connector reserved.          *)
Release(s, restore) ==
  /\ reserved' = reserved \ {s}
  /\ connector' = IF restore /\ s \in reserved /\ connector = "reserved"
                  THEN "available" ELSE connector
  /\ UNCHANGED preparing

KeepReservation == UNCHANGED connectorVars

Enqueue(c) == [jobs EXCEPT ![c].waiting = @ + 1]
JobsOf(c)  == jobs[c].waiting + jobs[c].calling + jobs[c].applying

Undelivered == {"timed_out", "delivery_unknown"}

(* Mutant: a driver's start is failed like any other.                      *)
FailsAnySession(c, outcome) ==
  /\ c \in StartCommand
  /\ outcome # "acknowledged"
  /\ state[c[1]] \notin Terminal \cup PhysicallyActive

(* A start that failed before anything physical fails its session ...      *)
FailsSession(c, outcome) ==
  /\ c \in StartCommand
  /\ outcome # "acknowledged"
  /\ ~(outcome \in Undelivered /\ c[1] \in CustomerRequest)
  /\ state[c[1]] \notin Terminal \cup PhysicallyActive

(* ... and throws where Failed is not a legal next state.                  *)
ApplyThrows(c, outcome) ==
  FailsSession(c, outcome) /\ ~SessionMay(state[c[1]], "failed")

(* A driver's start whose delivery is unknown keeps its hold.              *)
LeavesUnconfirmed(c, outcome) ==
  /\ c \in StartCommand
  /\ c[1] \in CustomerRequest
  /\ outcome \in Undelivered

(* Mutant: a stop that timed out resumes its session, a rejected one does  *)
(* not.                                                                    *)
ResumesTimedOut(c, outcome) ==
  /\ c \in StopCommand
  /\ outcome = "timed_out"
  /\ state[c[1]] = "stopping"
  /\ SessionMay("stopping", resume[c])

ResumesSession(c, outcome) ==
  /\ c \in StopCommand
  /\ outcome = "rejected"
  /\ state[c[1]] = "stopping"
  /\ SessionMay("stopping", resume[c])

(* CommandOutcomeService.apply(), when it does not throw.                  *)
ApplyOutcome(c, outcome) ==
  /\ ~ApplyThrows(c, outcome)
  /\ unconfirmed' = unconfirmed \cup
                      {s \in {c[1]} : LeavesUnconfirmed(c, outcome)}
  /\ \/ /\ FailsSession(c, outcome)
        /\ Become(c[1], "failed")
        /\ Release(c[1], TRUE)
     \/ /\ ResumesSession(c, outcome)
        /\ Become(c[1], resume[c])
        /\ KeepReservation
     \/ /\ ~FailsSession(c, outcome) /\ ~ResumesSession(c, outcome)
        /\ UNCHANGED state
        /\ KeepReservation
  /\ UNCHANGED <<tx, flagged, measured>>

-----------------------------------------------------------------------------
(* Remote start and stop requests.                                         *)

(* RemoteStartService.request(): the session is created and walks through  *)
(* authorizing and authorized to starting inside one transaction.          *)
RemoteStart(r) ==
  /\ ~Exists(r)
  /\ connector = "available" \/ (connector = "occupied" /\ preparing)
  /\ \A s \in Session : Exists(s) => state[s] \in Terminal
  /\ reserved = {}
  /\ Become(r, "starting")
  /\ reserved' = {r}
  /\ connector' = "reserved"
  /\ cmd' = [cmd EXCEPT ![<<r, "start">>] = "requested"]
  /\ jobs' = Enqueue(<<r, "start">>)
  /\ UNCHANGED <<tx, flagged, measured, unconfirmed, sent, due, resume,
                 preparing, reviewVars, inbox, chargerVars>>

(* A retry that passed the first idempotency check before the original     *)
(* committed finds the command inside its transaction and dispatches it    *)
(* again.  CustomerCharging.start() returns such a retry earlier.          *)
RepeatRequest(c) ==
  /\ cmd[c] # None
  /\ c \notin CustomerRequest \X {"start"}
  /\ JobsOf(c) < MaxJobs
  /\ jobs' = Enqueue(c)
  /\ UNCHANGED <<sessionVars, cmd, sent, due, resume, connectorVars,
                 reviewVars, inbox, chargerVars>>

Stoppable == {"starting", "charging", "suspended_by_ev", "suspended_by_evse"}

(* Mutant: a session that waits for its transaction can be stopped.        *)
StoppableSession(s) == state[s] \in Stoppable

StoppableTransaction(s) == state[s] \in Stoppable /\ Started(s)

(* RemoteStopService.request().                                            *)
RemoteStop(c) ==
  LET s == c[1] IN
  /\ cmd[c] = None
  /\ StoppableTransaction(s)
  /\ ConnectorFreeFor(s)
  /\ cmd' = [cmd EXCEPT ![c] = "requested"]
  /\ resume' = [resume EXCEPT ![c] = state[s]]
  /\ jobs' = Enqueue(c)
  /\ Become(s, "stopping")
  /\ UNCHANGED <<tx, flagged, measured, unconfirmed, sent, due,
                 connectorVars, reviewVars, inbox, chargerVars>>

(* SessionLifecycleService.cancel(): an operator withdraws a pending start;*)
(* its command is left as it is.                                           *)
CancelSession(s) ==
  /\ Exists(s)
  /\ state[s] \notin PhysicallyActive
  /\ ~Started(s)
  /\ state[s] # "cancelled" /\ SessionMay(state[s], "cancelled")
  /\ Become(s, "cancelled")
  /\ Release(s, TRUE)
  /\ UNCHANGED <<tx, flagged, measured, unconfirmed>>

OperatorCancel(s) ==
  /\ CancelSession(s)
  /\ UNCHANGED <<commandVars, due, reviewVars, inbox, chargerVars>>

(* Mutant: a start in delivery counts as undispatched, too.                *)
Unanswered(r) ==
  /\ cmd[<<r, "start">>] \in {"requested", "dispatched"}
  /\ ~Started(r) /\ state[r] \notin PhysicallyActive

(* CustomerCharging.cancel() of a start no worker has dispatched yet.      *)
Undispatched(r) ==
  /\ cmd[<<r, "start">>] = "requested" /\ <<r, "start">> \notin sent
  /\ ~Started(r) /\ state[r] \notin PhysicallyActive

WithdrawStart(r) ==
  /\ Undispatched(r)
  /\ cmd' = [cmd EXCEPT ![<<r, "start">>] = "expired"]
  /\ CancelSession(r)
  /\ UNCHANGED <<sent, resume, jobs, due, reviewVars, inbox, chargerVars>>

-----------------------------------------------------------------------------
(* DispatchChargerCommand: a queued job with three transactions.           *)

(* Mutant: only an acknowledgement counts as an answer.                    *)
Acknowledged(c) == cmd[c] = "acknowledged"

(* The row lock shows whether a job or the scheduler settled the command.  *)
Answered(c) == cmd[c] \in CommandTerminal

(* The first one claims the command, expires it, or throws for one that    *)
(* was dispatched and is past its deadline.                                *)
JobBegin(c) ==
  /\ jobs[c].waiting > 0
  /\ \/ /\ Answered(c)
        /\ jobs' = [jobs EXCEPT ![c].waiting = @ - 1, ![c].applying = @ + 1]
        /\ UNCHANGED <<cmd, sent>>
     \/ /\ cmd[c] = "requested" /\ c \in due
        /\ cmd' = [cmd EXCEPT ![c] = "expired"]
        /\ jobs' = [jobs EXCEPT ![c].waiting = @ - 1, ![c].applying = @ + 1]
        /\ UNCHANGED sent
     \/ /\ cmd[c] = "dispatched" /\ c \in due
        /\ jobs' = [jobs EXCEPT ![c].waiting = @ - 1]
        /\ UNCHANGED <<cmd, sent>>
     \/ /\ cmd[c] \in {"requested", "dispatched"} /\ c \notin due
        /\ cmd' = [cmd EXCEPT ![c] = "dispatched"]
        /\ sent' = sent \cup {c}
        /\ jobs' = [jobs EXCEPT ![c].waiting = @ - 1, ![c].calling = @ + 1]
  /\ UNCHANGED <<sessionVars, due, resume, connectorVars, reviewVars, inbox,
                 chargerVars>>

(* The outcome of a command that was terminal already is applied again.    *)
JobApply(c) ==
  /\ jobs[c].applying > 0
  /\ jobs' = [jobs EXCEPT ![c].applying = @ - 1]
  /\ \/ ApplyOutcome(c, cmd[c])
     \/ /\ ApplyThrows(c, cmd[c])
        /\ UNCHANGED <<sessionVars, connectorVars>>
  /\ UNCHANGED <<cmd, sent, resume, due, reviewVars, inbox, chargerVars>>

GatewayOutcome == {"acknowledged", "rejected", "timed_out", "delivery_unknown"}

(* The gateway answers.  An outcome that throws is retried as unknown      *)
(* delivery; if that throws too, the command stays dispatched.             *)
Settles(c, outcome) ==
  /\ cmd' = [cmd EXCEPT ![c] = outcome]
  /\ ApplyOutcome(c, outcome)

JobOutcome(c, outcome) ==
  /\ jobs[c].calling > 0
  /\ jobs' = [jobs EXCEPT ![c].calling = @ - 1]
  /\ \/ /\ Answered(c)
        /\ UNCHANGED <<cmd, sessionVars, connectorVars>>
     \/ /\ ~Answered(c)
        /\ Settles(c, outcome)
     \/ /\ ~Answered(c)
        /\ ApplyThrows(c, outcome)
        /\ Settles(c, "delivery_unknown")
     \/ /\ ~Answered(c)
        /\ ApplyThrows(c, outcome) /\ ApplyThrows(c, "delivery_unknown")
        /\ UNCHANGED <<cmd, sessionVars, connectorVars>>
  /\ UNCHANGED <<sent, resume, due, reviewVars, inbox, chargerVars>>

(* A worker dies with its job; the job has a single try.                   *)
WorkerDies(c) ==
  /\ \E p \in {"waiting", "calling", "applying"} :
       /\ jobs[c][p] > 0
       /\ jobs' = [jobs EXCEPT ![c][p] = @ - 1]
  /\ UNCHANGED <<sessionVars, cmd, sent, resume, due, connectorVars,
                 reviewVars, inbox, chargerVars>>

-----------------------------------------------------------------------------
(* charging:expire-operations, every minute.                               *)

(* expires_at, and with it a start's start_deadline_at, passes.            *)
DeadlinePasses(c) ==
  /\ c \notin due
  /\ \/ cmd[c] \in {"requested", "dispatched"}
     \/ c \in StartCommand /\ Pending(c[1])
  /\ due' = due \cup {c}
  /\ UNCHANGED <<sessionVars, commandVars, connectorVars, reviewVars, inbox,
                 chargerVars>>

ExpiredAs(c) == IF cmd[c] = "requested" THEN "expired" ELSE "timed_out"

Expirable(c) == c \in due /\ cmd[c] \in {"requested", "dispatched"}

ExpireCommand(c) ==
  /\ Expirable(c)
  /\ Settles(c, ExpiredAs(c))
  /\ UNCHANGED <<sent, resume, jobs, due, reviewVars, inbox, chargerVars>>

(* A command whose outcome throws aborts the run: nothing catches it.      *)
RunAborts == \E c \in Command : Expirable(c) /\ ApplyThrows(c, ExpiredAs(c))

(* Mutant: the scheduler trusts a start the charger acknowledged.          *)
OverdueUnlessAcknowledged(r) ==
  /\ Pending(r) /\ ~Started(r)
  /\ <<r, "start">> \in due
  /\ cmd[<<r, "start">>] # "acknowledged"

OverdueStart(r) == Pending(r) /\ ~Started(r) /\ <<r, "start">> \in due

ExpireSession(r) ==
  /\ OverdueStart(r)
  /\ ~RunAborts
  /\ \/ /\ r \in CustomerRequest
        /\ <<r, "start">> \in sent /\ cmd[<<r, "start">>] # "rejected"
        /\ unconfirmed' = unconfirmed \cup {r}
        /\ UNCHANGED <<state, connectorVars>>
     \/ /\ ~ /\ r \in CustomerRequest
             /\ <<r, "start">> \in sent
             /\ cmd[<<r, "start">>] # "rejected"
        /\ Become(r, "expired")
        /\ Release(r, TRUE)
        /\ UNCHANGED unconfirmed
  /\ UNCHANGED <<tx, flagged, measured, commandVars, due, reviewVars, inbox,
                 chargerVars>>

-----------------------------------------------------------------------------
(* OcppEventConsumer.  The stream redelivers and two consumers reorder, so *)
(* evidence that occurred is consumed in any order; event_id makes a       *)
(* redelivery a no-op.  What throws is rolled back and quarantined.        *)

Occurred(e) ==
  /\ inbox[e] = "pending"
  /\ IF e.kind = "ended" THEN phase[e.tx] = "over" ELSE phase[e.tx] # "unused"

Consumed(e, fate) ==
  /\ inbox' = [inbox EXCEPT ![e] = fate]
  /\ UNCHANGED <<commandVars, due, chargerVars, reviewing>>

Quarantined(e) ==
  /\ Consumed(e, "quarantined")
  /\ UNCHANGED <<sessionVars, connectorVars, records>>

(* Evidence may add a blocking anomaly flag (no start or stop register, an *)
(* invalid value, a meter reset, no tariff); a stored flag is never        *)
(* removed.                                                                *)
MayFlag(s) == flagged' \in {flagged, flagged \cup {s}}

(* MeterValueService.record() recomputes energy and duration from the      *)
(* readings alone, whatever the session's state.                           *)
Measures(s, e) ==
  /\ measured' = [measured EXCEPT ![s] = (@ \ {Adjusted}) \cup {e}]
  /\ MayFlag(s)

(* Transaction events may come without samples; reconstructing a session   *)
(* without a tariff flags it in any case.                                  *)
MayMeasure(s, e) ==
  \/ Measures(s, e)
  \/ /\ UNCHANGED measured
     /\ IF Exists(s) THEN UNCHANGED flagged ELSE MayFlag(s)

SessionsOf(t) == {s \in Session : tx[s] = t}

(* sessionForStart(): the session of the transaction, else the pending     *)
(* remote start made before it, else a reconstructed session.              *)
PendingFor(t) == {r \in Request : Pending(r) /\ r \in known[t]}

(* Mutant: the pending start is matched before the transaction itself.     *)
PendingFirst(t) ==
  CASE PendingFor(t) # {} -> PendingFor(t)
    [] PendingFor(t) = {} /\ SessionsOf(t) # {} -> SessionsOf(t)
    [] OTHER -> {t}

SessionForStart(t) ==
  CASE SessionsOf(t) # {} -> SessionsOf(t)
    [] SessionsOf(t) = {} /\ PendingFor(t) # {} -> PendingFor(t)
    [] OTHER -> {t}

FindOrReconstruct(t) == IF SessionsOf(t) = {} THEN {t} ELSE SessionsOf(t)

(* A reconstructed session passes requested and starting on its way.       *)
StateOrNew(s) == IF Exists(s) THEN state[s] ELSE "starting"

StartLegal(s) ==
  /\ SessionMay(StateOrNew(s), "charging")
  /\ ConnectorFreeFor(s)
  /\ ConnectorMay(connector, "occupied")

StartObserved(e) ==
  /\ e.kind = "started" /\ Occurred(e)
  /\ \E s \in SessionForStart(e.tx) :
       \/ /\ StartLegal(s)
          /\ Become(s, "charging")
          /\ tx' = [tx EXCEPT ![s] = e.tx]
          /\ reserved' = reserved \ {s}
          /\ connector' = "occupied" /\ preparing' = FALSE
          /\ MayMeasure(s, e)
          /\ UNCHANGED <<unconfirmed, records>>
          /\ Consumed(e, "processed")
       \/ ~StartLegal(s) /\ Quarantined(e)

(* TransactionEvent(Updated) of OCPP 2.0.1.  A transition that is not      *)
(* legal is skipped; the measurement is recorded all the same.             *)
UpdateTarget(e) ==
  IF e.kind = "charging" THEN {"charging"}
                         ELSE {"suspended_by_ev", "suspended_by_evse"}

(* Mutant: an update never asks whether the connector is free.             *)
UpdateAny(s, target) == SessionMay(StateOrNew(s), target)

UpdateLegal(s, target) ==
  SessionMay(StateOrNew(s), target) => ConnectorFreeFor(s)

TransactionUpdated(e) ==
  /\ e.kind \in {"charging", "suspended"} /\ Occurred(e)
  /\ \E s \in FindOrReconstruct(e.tx), target \in UpdateTarget(e) :
       \/ /\ UpdateLegal(s, target)
          /\ Become(s, IF SessionMay(StateOrNew(s), target)
                       THEN target ELSE state[s])
          /\ tx' = [tx EXCEPT ![s] = e.tx]
          /\ MayMeasure(s, e)
          /\ UNCHANGED <<unconfirmed, records, connectorVars>>
          /\ Consumed(e, "processed")
       \/ ~UpdateLegal(s, target) /\ Quarantined(e)

Finalized(s) == {i \in DOMAIN records[s] : records[s][i].state = "finalized"}

(* Mutant: the latest version is generated again although it is final.     *)
WithLatestRecord(s, record) ==
  IF records[s] = <<>> THEN <<record>>
  ELSE [records[s] EXCEPT ![Len(records[s])] = record]

(* The record generate() works on: the latest version, or a new one when   *)
(* there is none or the latest is finalized.                               *)
WithRecord(s, record) ==
  LET n == Len(records[s]) IN
  IF n = 0 \/ n \in Finalized(s)
  THEN Append(records[s], record)
  ELSE [records[s] EXCEPT ![n] = record]

(* ChargeDetailRecordGenerator.generate() on the evidence just recorded.   *)
ReviewRecord(s) ==
  /\ records' = [records EXCEPT ![s] = WithRecord(s,
       [state |-> "review_required", outcome |-> None, total |-> None,
        measured |-> {}])]
  /\ Become(s, "review_required")

FinalizeRecord(s, outcome, evidence) ==
  /\ \E total \in Total :
       records' = [records EXCEPT ![s] = WithRecord(s,
         [state |-> "finalized", outcome |-> outcome,
          total |-> IF outcome = "unbillable" THEN None ELSE total,
          measured |-> evidence])]
  /\ Become(s, "completed")

(* Mutant: a second end is taken, whatever the state.                      *)
StopAlways(s) == ConnectorFreeFor(s)

StopLegal(s) == SessionMay(state[s], "finalizing") /\ ConnectorFreeFor(s)

(* A tariff on the time energy flows needs complete evidence of the flow,  *)
(* which each generation judges anew and nothing stores: a session without *)
(* a flag may get a review all the same.                                   *)
Generate(s) ==
  \/ ReviewRecord(s)
  \/ s \notin flagged' /\ FinalizeRecord(s, "complete", measured'[s])

EndObserved(e) ==
  /\ e.kind = "ended" /\ Occurred(e)
  /\ \/ \E s \in SessionsOf(e.tx) :
          \/ /\ StopLegal(s)
             /\ Measures(s, e)
             /\ Generate(s)
             /\ Release(s, FALSE)
             /\ UNCHANGED <<tx, unconfirmed>>
             /\ Consumed(e, "processed")
          \/ ~StopLegal(s) /\ Quarantined(e)
     \/ SessionsOf(e.tx) = {} /\ Quarantined(e)

(* MeterValues with a transaction id goes to its session in any state,     *)
(* without one to the active session of the connector.                     *)
MeterTarget(e) ==
  IF e.kind = "meter"
  THEN SessionsOf(e.tx)
  ELSE {s \in Session : state[s] \in PhysicallyActive \cup {"starting"}}

MeterObserved(e) ==
  /\ e.kind \in {"meter", "unaddressed_meter"} /\ Occurred(e)
  /\ \/ \E s \in MeterTarget(e) :
          /\ Measures(s, e)
          /\ UNCHANGED <<state, tx, unconfirmed, connectorVars, records>>
          /\ Consumed(e, "processed")
     \/ MeterTarget(e) = {} /\ Quarantined(e)

(* Any failure of the transaction, a lost database connection included,    *)
(* quarantines the event for good.                                         *)
ConsumerFails(e) == Occurred(e) /\ Quarantined(e)

Consume(e) ==
  \/ StartObserved(e)
  \/ TransactionUpdated(e)
  \/ EndObserved(e)
  \/ MeterObserved(e)
  \/ ConsumerFails(e)

(* StatusNotification; an older report than the last one is ignored and an *)
(* illegal change is quarantined.                                          *)
(* Mutant: the statuses of a session in progress are stored as reported.   *)
AsReported(status) == status

AvailabilityOf(status) ==
  IF status \in Availability THEN status ELSE "occupied"

StatusReported(status) ==
  /\ ConnectorMay(connector, AvailabilityOf(status))
  /\ connector' = AvailabilityOf(status)
  /\ preparing' = (status = "preparing")
  /\ UNCHANGED <<sessionVars, commandVars, due, reserved, reviewVars, inbox,
                 chargerVars>>

-----------------------------------------------------------------------------
(* ManualSessionReviewService.resolve(): the decision and its adjustments  *)
(* commit in one transaction, the record is generated in another.          *)

ResolveReview(w, s, decision, adjusts) ==
  /\ reviewing[w] = None
  /\ state[s] = "review_required"
  /\ reviewing' = [reviewing EXCEPT ![w] =
                     [session |-> s, decision |-> decision]]
  /\ measured' = IF adjusts
                 THEN [measured EXCEPT ![s] = @ \cup {Adjusted}]
                 ELSE measured
  /\ UNCHANGED <<state, tx, flagged, unconfirmed, commandVars, due,
                 connectorVars, records, inbox, chargerVars>>

(* From review_required the session passes finalizing, which the index     *)
(* refuses while another session occupies the connector; a completed one   *)
(* stays completed and gets another version.                               *)
GenerateLegal(s) ==
  \/ state[s] = "review_required" /\ ConnectorFreeFor(s)
  \/ state[s] = "completed"

GenerateReviewed(w) ==
  /\ reviewing[w] # None
  /\ LET s == reviewing[w].session IN
     \/ /\ GenerateLegal(s)
        /\ Len(records[s]) < MaxVersion \/ Len(records[s]) \notin Finalized(s)
        /\ FinalizeRecord(s, reviewing[w].decision, measured[s])
     \/ /\ ~GenerateLegal(s)
        /\ UNCHANGED <<state, records>>
  /\ reviewing' = [reviewing EXCEPT ![w] = None]
  /\ UNCHANGED <<tx, flagged, measured, unconfirmed, commandVars, due,
                 connectorVars, inbox, chargerVars>>

(* The request dies between the two transactions.                          *)
ReviewerDies(w) ==
  /\ reviewing[w] # None
  /\ reviewing' = [reviewing EXCEPT ![w] = None]
  /\ UNCHANGED <<sessionVars, commandVars, due, connectorVars, records, inbox,
                 chargerVars>>

-----------------------------------------------------------------------------
(* The charger: one transaction at a time on the connector, begun by a     *)
(* remote start or locally.  Its clock may put the source time of the      *)
(* start before every request.                                             *)

BeginTx(t) ==
  /\ phase[t] = "unused"
  /\ \A other \in Tx : phase[other] # "running"
  /\ phase' = [phase EXCEPT ![t] = "running"]
  /\ \E requests \in {{}, {r \in Request : Exists(r)}} :
       known' = [known EXCEPT ![t] = requests]
  /\ UNCHANGED <<sessionVars, commandVars, due, connectorVars, reviewVars,
                 inbox>>

EndTx(t) ==
  /\ phase[t] = "running"
  /\ phase' = [phase EXCEPT ![t] = "over"]
  /\ UNCHANGED <<sessionVars, commandVars, due, connectorVars, reviewVars,
                 inbox, known>>

-----------------------------------------------------------------------------

(* Everything but the requests that create a session or a stop command and *)
(* the reports of the connector.                                           *)
Progress ==
  \/ \E r \in Request : ExpireSession(r)
  \/ \E s \in Session : OperatorCancel(s)
  \/ \E c \in Command :
       \/ RepeatRequest(c) \/ DeadlinePasses(c) \/ ExpireCommand(c)
       \/ JobBegin(c) \/ JobApply(c) \/ WorkerDies(c)
       \/ \E outcome \in GatewayOutcome : JobOutcome(c, outcome)
  \/ \E e \in Event : Consume(e)
  \/ \E w \in Reviewer :
       \/ \E s \in Session, decision \in Decision, adjusts \in BOOLEAN :
            ResolveReview(w, s, decision, adjusts)
       \/ GenerateReviewed(w) \/ ReviewerDies(w)
  \/ \E t \in Tx : BeginTx(t) \/ EndTx(t)

Next ==
  \/ \E r \in Request : RemoteStart(r)
  \/ \E r \in CustomerRequest : WithdrawStart(r)
  \/ \E c \in StopCommand : RemoteStop(c)
  \/ \E status \in Reported : StatusReported(status)
  \/ Progress

Spec == Init /\ [][Next]_vars

(* The scheduler runs charging:expire-operations every minute, time passes *)
(* and no other connector's command aborts its runs (ScheduledCharging     *)
(* drops that).  Nothing else is promised: workers, consumers, reviewers   *)
(* and the charger may stop.                                               *)
Fairness ==
  \A c \in Command : /\ WF_vars(DeadlinePasses(c))
                     /\ WF_vars(~RunAborts /\ ExpireCommand(c))

FairSpec == Spec /\ Fairness

-----------------------------------------------------------------------------
(* Properties.                                                             *)

(* Every variable holds a value its column or enum can hold.               *)
TypeOK ==
  /\ state \in [Session -> SessionState \cup {None}]
  /\ tx \in [Session -> Tx \cup {None}]
  /\ flagged \subseteq Session /\ unconfirmed \subseteq Request
  /\ measured \in [Session -> SUBSET (Event \cup {Adjusted})]
  /\ cmd \in [Command -> CommandState \cup {None}]
  /\ sent \subseteq Command /\ due \subseteq Command
  /\ resume \in [StopCommand -> SessionState \cup {None}]
  /\ jobs \in [Command -> Jobs]
  /\ reserved \subseteq Session
  /\ connector \in Availability /\ preparing \in BOOLEAN
  /\ records \in [Session -> Seq(Record)]
  /\ reviewing \in [Reviewer -> [session : Session, decision : Decision]
                                \cup {None}]
  /\ inbox \in [Event -> {"pending", "processed", "quarantined"}]
  /\ phase \in [Tx -> {"unused", "running", "over"}]
  /\ known \in [Tx -> SUBSET Request]

(* A physical transaction belongs to at most one session, although its     *)
(* start, updates and end each may be the one that creates or claims it.   *)
OneSessionPerTx ==
  \A s, other \in Session : Started(s) /\ tx[s] = tx[other] => s = other

(* Evidence alone makes a session physical, and once started it can only   *)
(* be finalized: no late command outcome, expiry or cancellation fails it. *)
StartedIffPhysical ==
  \A s \in Session :
    Started(s) <=> state[s] \in OccupiesConnector
                                 \cup {"review_required", "completed"}

(* The connector is reserved exactly for the session that waits to start:  *)
(* every way out of starting releases the reservation.                     *)
ReservedIffPending == \A s \in Session : s \in reserved <=> Pending(s)

(* A session is completed exactly when a finalized record exists for it.   *)
CompletedIffFinalized ==
  \A s \in Session : state[s] = "completed" <=> Finalized(s) # {}

(* A driver's start that may have reached the charger never fails or       *)
(* expires its session: only a rejection, or no dispatch at all, proves    *)
(* that nothing started.                                                   *)
UncertainStartKept ==
  \A r \in CustomerRequest :
    LET c == <<r, "start">> IN
    state[r] \in {"failed", "expired"} => c \notin sent \/ cmd[c] = "rejected"

(* Jobs, scheduler and driver decide a command only from states its state  *)
(* machine admits: an answer, once given, is never overwritten by a later  *)
(* one, an expired command never dispatched.                               *)
CommandsMoveLegally ==
  [][\A c \in Command :
       cmd[c] # None => CommandMay(cmd[c], cmd'[c])]_vars

(* A command reported expired was never handed to the gateway.             *)
ExpiredNeverSent == \A c \in sent : cmd[c] # "expired"

(* A stop the charger rejected never leaves its session stopping: some     *)
(* stop that was not rejected accounts for every stopping session.         *)
RejectedStopResumes ==
  \A s \in Session : state[s] = "stopping" =>
    \E k \in StopKey : cmd[<<s, k>>] \notin {None, "rejected"}

(* A terminal session never reopens.                                       *)
TerminalStays ==
  [][\A s \in Session : state[s] \in Terminal => state'[s] = state[s]]_vars

(* A finalized record is never edited or removed; later generations append.*)
FinalizedStays ==
  [][\A s \in Session : \A i \in Finalized(s) :
       i \in DOMAIN records'[s] /\ records'[s][i] = records[s][i]]_vars

(* Sessions, transactions and reservation change only as ConnectorSessions *)
(* promises, whatever order commands, jobs, evidence and reviews take.     *)
Sessions == INSTANCE ConnectorSessions
SessionsSpec == Sessions!Spec

(* docs/architecture/charging-command-state-machine.md: the scheduled run  *)
(* expires undispatched commands and times out dispatched ones.            *)
DueCommandsResolve == \A c \in Command : Expirable(c) ~> ~Expirable(c)

(* docs/architecture/charge-detail-record-state-machine.md: a correction   *)
(* supersedes the prior record, so at most one version is in force.        *)
OneFinalizedRecord == \A s \in Session : Cardinality(Finalized(s)) <= 1

(* docs/architecture/charging-session-state-machine.md: late evidence      *)
(* never rewrites the history of a terminal session.                       *)
TerminalMeasurementsStay ==
  [][\A s \in Session : state[s] \in Terminal
                          => measured'[s] = measured[s]]_vars
=============================================================================
