# Charging, prepaid payment, gateway connections and web maps in TLA+

TLA+ models of the core of the VTSA charging platform (`src/apps/platform`,
`src/services/ocpp-gateway`), in three independent parts:

- what happens to a charging session, its charger commands, its connector and
  the driver's money while web requests, queued jobs, two scheduled commands,
  the consumer of charger events and the charger itself run side by side;
- how the gateway's processes agree on which socket of a charger is its
  connection, and what the platform concludes from their events;
- how the pages with a map share one script loader, create and destroy maps
  across Livewire navigation, and keep list, markers and form fields together.

TLC checks the models on small instances; TLAPS proves the theorems for every
value of the constants.

Contents: [the system](#1-the-system), [the plan](#2-the-plan),
[modules and code](#3-modules-and-code), [checks](#4-what-is-checked),
[proofs](#5-what-is-proved), [disagreements with the
documents](#6-disagreements-with-the-documents),
[limits](#7-what-is-not-modelled).

## 1. The system

The platform is a Laravel application of modules over one PostgreSQL database;
a Python gateway holds the WebSocket connections of the chargers and talks to
the platform through HTTP (commands) and a Redis stream (events). State lives
in database rows. Each operation is a handler with one or several database
transactions; between two transactions, and between a read outside of a
transaction and its use, everything else may run.

| Component | State it keeps | Operations | Interacts through |
|---|---|---|---|
| Charging (`Modules/Charging`) | `charging_sessions`, `charger_commands`, `connector_reservations`, `charging_connector_statuses`, `charge_detail_records`, `manual_session_reviews`, `ocpp_event_inbox` | remote start, remote stop, cancel, dispatch job, outcome, expiry, evidence of the charger, record generation, review | HTTP to the gateway, Redis stream from it, jobs on a queue |
| Prepaid charging (`CustomerCharging`, `PrepaidChargingMonitor`) | `charging_customer_sessions` (ownership, budget, `payment_state`) | start, cancel, reconcile every ten seconds | calls Charging and the wallet inside its own transactions |
| Prepaid wallet (`Modules/Billing`) | `prepaid_accounts`, `prepaid_entries`, `prepaid_reservations`, `prepaid_spending_limits`, the ledger | credit, reserve, settle, set limit | row lock of the wallet |
| OCPP gateway | connection registry of each process, leases in Redis, lease tasks, pending calls, processed messages | register, renew, unregister, receive, dispatch command, publish | WebSocket, HTTP, Redis |
| Event stream (`ConsumeOcppEvents`) | Redis stream and consumer group | read new entries, consume, acknowledge | the inbox of Charging |
| Station connection | `charging_station_connections` | connected, disconnected, heartbeat; status and availability queries | events of the gateway |
| QR top-ups, payment intents, webhooks (`Modules/Payments`) | orders, intents, provider events | create, notify, confirm, reconcile; authorize, capture, refund | payment provider, wallet |
| Invoices, allocation, credit notes, settlements (`Billing`, `Settlements`) | invoices, allocations, revenue shares | issue, allocate, credit, share | records of Charging, ledger |
| Inventory, procurement, maintenance | stock balances and ledgers, transfers, orders, work orders | move, reserve, transfer, count, approve | each other |
| Web maps (`resources/js`) | the shared loader promise and its scripts, live map objects, registries of surfaces, markers, the finder's request and list, form fields | boot on navigation, load, fail, time out, fall back, destroy; fetch, filter, select, type, drag | Livewire events, the Google script, the station API |
| Identity, organizations, tenancy, KYC | users, accounts, roles, documents | sign in, authorize, verify | every request |
| Assets, locations, tariffs, reporting, CMS, notifications, integrations, panels, mobile app | catalogue, read models, presentation | create, read, update, delete | API |

Hard behaviours, each listed with its line under `hazards` in PROJECT.json:

- **Interleaving.** Every retried request queues another dispatch job for the
  same command; the scheduler expires commands while jobs call the gateway;
  two operators resolve one review; driver and monitor settle one session.
- **Ordering.** Evidence of the charger is consumed in any order: an update
  before its start, an end before both, a late end after the next session
  started, the same end twice under two event ids.
- **Failure.** A worker dies with its job (one try); a request dies between
  its two transactions; any exception of the consumer quarantines the event
  for good; an exception in the scheduler aborts the whole run.
- **Uncertainty.** A command that timed out may have reached the charger. For
  a driver's start the platform must keep the hold until it knows.
- **Connections.** A charger connects again, to the same or to another process
  of the gateway, before the old socket is known to be dead; Redis fails, a
  process dies, an answer is published after the end of its socket.
- **Browser.** Creations of maps await one shared promise while navigation
  removes the page they are for; answers of the server overtake each other.
- **Money.** Holds, settlements and ledger postings that must agree with each
  other and with the session they pay for.

What makes each component correct:

- *Charging*: one session occupies the connector; one session per physical
  transaction; only evidence makes a session physical, and a physical session
  is only ever finalized; the reservation exists exactly while a start is
  pending; terminal states and finalized records stay; a start that waits is
  resolved in the end.
- *Prepaid charging*: an unsettled session has its hold and a settled one does
  not; a full release only when nothing can start any more; a charge is the
  total of a complete final record within the approved budget; what can be
  settled is.
- *Wallet*: holds are covered, ledger and wallet agree, settlements are final.
- *Gateway*: the newest registered connection owns the charger's lease and the
  registry of its process; a superseded one never takes either away, and is
  closed in the end.
- *Event stream and station connection*: once everything is read, the station's
  row shows the newest connection and whether it lasts; a late disconnect, or a
  late answer, of a superseded connection changes nothing.
- *Web maps*: no creation waits for ever, no map object is lost, the list
  answers what the form asks, markers show the list, the pin shows the fields.
- *Payments*: a top-up is credited exactly once when paid, whichever of
  notification, answer and reconciliation comes first; captured and refunded
  amounts never exceed the authorized one.
- *Inventory*: stock moves are conserved and never below reserved quantities.

## 2. The plan

Written and checked, with the proofs named beside them, in this order:

1. `ChargingStates` - the state machines of the Charging domain as data.
2. `Charging` - the aggregate around one connector, and `ConnectorSessions`,
   what it promises of the sessions on that connector; `ChargingProofs`.
   `ScheduledCharging` - what the scheduled runs owe it.
3. `PrepaidWallet` - the wallet and its ledger; `PrepaidWalletProofs`, on
   `SumProofs`, the lemmas about sums over sets of rows.
4. `PrepaidCharging` - composes Charging and PrepaidWallet and implements the
   specification of each; `PrepaidChargingProofs`. `ScheduledPrepaid` - what the
   monitor's runs owe it.
5. `QrTopups` - creation, notification and reconciliation of a top-up, composed
   with the wallet; `QrTopupProofs`.
6. `MapAdapters`, `MarkerLayer`, `StationFinder`, composed in `WebMaps`;
   `WebMapProofs`.
7. `GatewayConnections`, composed with the platform's projection in
   `StationConnections`; `GatewayProofs`.

Left: `PaymentIntents` (repeated webhooks against a capture or refund from a
stale row), then `StockTransfer` (approval of a row read without a lock).

Abstract specifications: ConnectorSessions for Charging; Charging and
PrepaidWallet as the abstract sides of PrepaidCharging; PrepaidWallet as that of
QrTopups; the adapters (`AdapterNext` of MapAdapters) as that of every page of
WebMaps.

## 3. Modules and code

PROJECT.json maps every definition to its lines. In general one action is one
database transaction together with the reads before it. A handler whose
transaction throws changes nothing, so its action is disabled or only consumes
its trigger (a job, an event). A handler with two transactions is two actions
with a local state in between.

**ChargingStates** holds the values and legal transitions of the three enums
`ChargingSessionState`, `ChargerCommandState`, `ConnectorAvailability`, and the
set of states the partial unique index on sessions ranges over.

**Charging** is the aggregate around one connector.

| Variable | Column |
|---|---|
| `state`, `tx` | `charging_sessions.state`, `protocol_transaction_id` (set with `started_at`) |
| `flagged`, `measured` | blocking anomaly flags; the evidence behind `energy_wh` and `duration_seconds` |
| `unconfirmed` | `failure_reason = 'prepaid_start_unconfirmed'` |
| `cmd`, `sent`, `due`, `resume` | `charger_commands.state`, `dispatched_at`, `expires_at` in the past, `expected_state.session_state` |
| `jobs` | `DispatchChargerCommand` messages per command: waiting, calling the gateway, applying an outcome again |
| `reserved`, `connector`, `preparing` | open `connector_reservations`, `charging_connector_statuses.status` and `reported_status` |
| `records` | `charge_detail_records` by version |
| `reviewing` | an operator between the two transactions of `resolve()` |
| `inbox` | fate of every piece of evidence in `ocpp_event_inbox` |
| `phase`, `known` | the charger's own view of a transaction; the requests made before the source time of its start |

| Action | Code |
|---|---|
| `RemoteStart`, `RepeatRequest` | `RemoteStartService::request`; a retry that finds its command inside the transaction queues it again |
| `RemoteStop` | `RemoteStopService::request` |
| `OperatorCancel`, `WithdrawStart` | `SessionLifecycleService::cancel`; `CustomerCharging::cancel` before dispatch |
| `JobBegin`, `JobOutcome`, `JobApply`, `WorkerDies` | the transactions of `DispatchChargerCommand::handle`, its failure handler included |
| `DeadlinePasses`, `ExpireCommand`, `ExpireSession` | time, and the two loops of `ExpireChargingOperations` |
| `StartObserved`, `TransactionUpdated`, `EndObserved`, `MeterObserved`, `ConsumerFails` | handlers of `OcppEventConsumer` with `MeterValueService` and `ChargeDetailRecordGenerator`; quarantine |
| `StatusReported` | `OcppEventConsumer::status` |
| `ResolveReview`, `GenerateReviewed`, `ReviewerDies` | the two transactions of `ManualSessionReviewService::resolve` and a crash between them |
| `BeginTx`, `EndTx` | external: the charger, one transaction at a time on its connector |

What the data became: a meter value is the event it came in, so `measured` says
which evidence energy and duration rest on; whether evidence is anomalous is a
free choice (`MayFlag`), which only ever adds a flag, since none stored is
removed. Missing evidence of energy flow is no stored flag: each generation
judges it again, so an end may give a record under review or a final one
(`Generate`). The total the tariff engine returns is a free choice, too; the unique
index on occupying sessions is a guard, `ConnectorFreeFor`, of each action that
would enter such a state, because the database refuses the transaction
otherwise. Source times are reduced to the one comparison `sessionForStart()`
makes (`known`). The connector is the only one of its station. Illegal status
reports and stale ones are quarantined or ignored and change nothing modelled,
so `StatusReported` has no branch for them. `sessionForStart()` also refuses a
start dated ahead of the platform's clock; its quarantine is one of those of
`ConsumerFails`.

**ScheduledCharging** adds what one connector does not show. The runs of
`charging:expire-operations` go through all tenants and catch nothing, so a
command of any other connector whose outcome throws ends them before they get
here, for as long as it is due: `elsewhere`, which may become true and false at
any time.

**ConnectorSessions** keeps three of these variables, `state`, `tx` and
`reserved`, and says in five actions what Charging promises of them: a start is
accepted alone, given up, or begun by the first evidence of a transaction; a
session that began continues, and ends in a record, final or under review.
Charging implements it with the identity as refinement mapping.

**PrepaidWallet** is the class of that name with the ledger postings of the
live book: `Credit`, `Reserve`, `Settle`, `SetLimit`, each one transaction under
the lock of the wallet's row. Repeating an operation that took place returns or
throws and changes nothing.

**PrepaidCharging** EXTENDS Charging and INSTANCEs PrepaidWallet (as `Funds`).
`CustomerStart` is `RemoteStart` and `Reserve` and the ownership row in one
transaction; `CustomerCancel` withdraws an undispatched start, or records the
intent and reconciles; `Monitor` is `PrepaidChargingMonitor::reconcile`, which
settles a completed session (`Capture`), releases one that certainly never
started (`CloseUnstarted`, `ReleaseIdle`), or stops one near its budget
(`Stop`). `idle` and `obscured` are what `cancelConfirmedIdleStart()` reads of
the connector status and the inbox: an available report after the deadline plus
the margin, and quarantined evidence since the request. A quote is limited by the
driver's spending limit; the limits of vehicles, another minimum taken before the
wallet is asked, are left out. **ScheduledPrepaid** adds `elsewhere` for the
monitor's runs, which a session of another driver may abort in the same way.

**QrTopups** EXTENDS PrepaidWallet with the orders of the live book. `status`,
`order`, `invoice`, `qr` and `paidBy` are columns of `qr_topups`; `asking` holds
the requests that wait for the provider, `checking` the orders a reconciliation
has read and not yet updated.

| Action | Code |
|---|---|
| `Create` | `QrTopups::create` up to the call of the provider; a retry finds the order and asks nobody |
| `AnswerArrives`, `AnswerFails`, `RequestDies` | the rest of `create`: answer stored under the row's lock, the exception handler, a crash |
| `Confirm` | `notify` and `confirm`: wallet, ledger and order in one transaction |
| `ReconcileRead`, `ReconcileMark` | `wallet:reconcile` and `reconcile`, around the call of the provider |
| `Spending` | the wallet's own operations meanwhile |

**MapAdapters** is one JavaScript context through all its page visits; each
visit puts one canvas on the page. `promise`, `sdk` and `scripts` are
`googleLoaderPromise`, `window.google.maps` and the script elements the browser
may still run; `stage` is what the creation on a canvas has come to, `maps` the
providers that hold a live map object there, `registry` the canvases whose
surface the destroy functions will find.

| Action | Code |
|---|---|
| `Arrive`, `Leave` | `livewire:navigated` and `livewire:navigating`: the boot and destroy functions of the five surfaces around `MapProviderFactory.create` |
| `ScriptLoads`, `ScriptFails`, `ScriptTimesOut` | the callback, `onerror` and the timer of `loadGoogleMaps`, and in the same step every creation that awaited it (`Continue`), with the fallback of the factory's core |
| `LateScript` | external: the browser runs a script that timed out, without its callback |

Between the settling of a promise and the continuations that await it no other
task of the browser runs, so they are one step; everything else (navigation,
input, answers of the server) is a task of its own.

**MarkerLayer** (`setMarkers`, `selectMarker`) and **StationFinder**
(`fetchStations`, `fetchUrl`, its answers and failures, the end of `start`) are
functions of a record: the markers of an adapter, the state of one
`PublicStationMap`. **WebMaps** composes them with the adapters: `VisitFinder`,
`VisitPortal`, `VisitPicker`, `VisitDetail` and `Navigate` are `Arrive` and
`Leave` with what the surface does to its content, `LoadScript`, `FailScript` and
`TimeOutScript` the loader's steps with what the surface does once its map is
there (`Attach`), `PageStep` what the user and the server do meanwhile. `fields`,
`initial` and `pin` are the coordinate inputs of a site form, the data attributes
they were rendered with, and the picker's marker.

**GatewayConnections** is the sockets one charger opens to the gateway's
processes, numbered in the order of their ULIDs.

| Variable | Code |
|---|---|
| `stage`, `open`, `node` | how far `ocpp_socket` is, whether the transport is open, the process it runs in |
| `local`, `renewal`, `leaving` | the registry of a process, running lease tasks, unregistrations under way |
| `lease` | the Redis key of the charger's connection |
| `pending` | connections whose charger is asked |
| `stamped`, `writing`, `stream` | the clock of a connection's events; events stamped whose append is awaited; events not yet read by the platform |
| `latest`, `ended`, `unheard` | history: the connection whose claim Redis applied last, when each stamped its end, whose events were lost |

| Action | Code |
|---|---|
| `Accept`, `Claim`, `Register`, `RegisterFails`, `Announce`, `Hear`, `End` | `ocpp_socket`, cut at its awaits, with `ConnectionRegistry.register`: Redis applies the claim in one step, its reply arrives, or never does, in another |
| `Publish`, `PublishFails` | the append of an event `EventPublisher.emit` stamped (`Stamp`) before, with what the handler that awaited it does next (`Resume`); a failed append may have been applied |
| `Unregister`, `RenewLease`, `RenewalFails` | `unregister` and the lease task; a connection that lost its lease closes itself, and a close that throws leaves the unregistration to the handler (`CloseThrows`) |
| `Dispatch`, `CommandEnds` | `get` and `dispatch_command` |
| `LeaseExpires`, `PeerCloses`, `Crash` | external: the key's time to live, the transport, the death of a process |

**StationConnections** adds `row`, the station's row of
`charging_station_connections`, with `Consume` for `StationConnectionProjector`
(`Ignored` is its early returns) behind the stream client, and `LoseEvent`: only
new entries are read, so what a dying consumer read stays pending for good.

What the gateway's model takes from its libraries: the Redis client repeats a
command whose reply was lost, so a claim may be applied twice (`Claim`), while a
repeated append is dropped by the inbox of the platform (`OcppEventConsumer`), so
the stream has each event once; closing a socket twice does nothing. A claim gets
its reply, or fails, within the 45 seconds of the lease (`LeaseExpires`).

**MCCharging**, **MCScheduledCharging**, **MCQrTopups**, **MCPrepaidCharging**, **MCWebMaps** and
**MCGateway** only give constants their values.

Operators commented "Mutant ..." or "A bug: ..." are seeded faults: forms of the operator they
belong to with a plausible bug. Nothing uses them but PROJECT.json, where
each property names a fault that, put in place of the real operator, makes TLC
report that property violated.

## 4. What is checked

| Run | Question | Properties |
|---|---|---|
| `charging_start` | Two remote starts, one a driver's; duplicate jobs, deaths, deadlines, cancellations, start evidence, faults and reports of the connector in any order | `ReservedIffPending`, `UncertainStartKept`, `ExpiredNeverSent`, `CommandsMoveLegally` |
| `charging_order` | Starts, updates and an end of two transactions in any order around a pending start; reports of the connector | `TypeOK`, `OneSessionPerTx`, `SessionsSpec`, `TerminalStays` |
| `charging_stop` | A driver's start and its stop with duplicate jobs, against deadlines and the charger's own end; liveness while other connectors may abort the runs | `StartedIffPhysical`, `RejectedStopResumes`, `PendingResolves` |
| `charging_review` | Two operators, duplicate ends, late meter values, another transaction on the connector | `CompletedIffFinalized`, `FinalizedStays` |
| `topups` | Two orders of two wallets answered, failed, notified and reconciled in any order, while two sessions hold and settle funds under a limit | `TopupTypeOK`, `HoldsCovered`, `LedgerOwesBalance`, `RowsAddUp`, `SettlementFinal`, `CreditedIffPaid`, `ClearingHoldsPaid`, `PaidStays` |
| `prepaid` | One prepaid session from start to settlement, given up by driver, operator, scheduler or monitor, with reviews, a duplicate end, idle reports and totals within and above the budget; liveness while other sessions may abort the runs | `PrepaidTypeOK`, `HeldUntilSettled`, `ChargedPerRecord`, `FreeOnlyIfOver`, `WalletSpec`, `DueSettles` |
| `web_maps` | Two page visits in every interleaving of the script's arrival, failure and timeout, navigation, requests and input; liveness | `TypeOK`, `LoaderSound`, `MapsAccounted`, `ListAnswersForm`, `MarkersMatchList`, `PinIsFields`, `CreationSettles` |
| `gateway` | Two sockets of one charger to two processes, a command or a message, and one failure or crash, events stamped before they are appended; liveness | `TypeOK`, `LatestOwns`, `StationShown`, `EndIsFinal`, `StaleCloses` |
| `charging_poison`, `charging_twice`, `charging_late`, `web_leak` | Claims of the documents that the code does not keep (section 6) | `DueCommandsResolve`, `OneFinalizedRecord`, `TerminalMeasurementsStay`, `NoMapOutlivesPage` |

What the passing runs show, beyond types:

- However evidence is reordered, no transaction is claimed twice: the order of
  the lookups in `sessionForStart()` and the unique index carry this together
  (`OneSessionPerTx`). That at most one session occupies the connector is the
  index itself, a guard of the model and no property.
- Whatever the order, sessions change only in the five ways ConnectorSessions
  allows (`SessionsSpec`).
- Only evidence makes a session physical. A late rejection, expiry or
  cancellation never fails a session that started (`StartedIffPhysical`,
  `TerminalStays`), and every way out of `starting` closes the reservation
  (`ReservedIffPending`).
- A driver's start whose command was handed to the gateway is given up only
  when the charger rejected it (`UncertainStartKept`); a hold is released in
  full only when no job can send the command any more (`FreeOnlyIfOver`).
- Whichever of answer, notification and reconciliation comes first, an order is
  paid exactly when its wallet was credited, once and with what was ordered
  (`CreditedIffPaid`, `PaidStays`), and the books follow: what the provider owes
  is the sum of the paid orders (`ClearingHoldsPaid`), what is owed to a driver
  is the wallet's balance (`LedgerOwesBalance`).
- Wallet and ownership row never disagree (`HeldUntilSettled`), and what was
  captured is the total of a complete final record within the budget
  (`ChargedPerRecord`).
- Every step of driver and monitor is a step of PrepaidWallet (`WalletSpec`) and,
  as proved, of Charging, so the safety properties of both hold of the
  composition.
- The loader strands no creation: a load that failed or timed out releases those
  that wait and is forgotten, so the next page tries again (`LoaderSound`,
  `CreationSettles`). Whatever attempt failed before, a canvas holds one map
  exactly when its creation succeeded, and that map is found by the next
  navigation, except in the one case of section 6 (`MapsAccounted`).
- The finder's list answers the newest query or that query is under way or
  failed, although requests, answers, moves of the map and changes of the form
  overtake each other (`ListAnswersForm`). A portal's markers follow its list, the
  finder's those of an answer that came after its map was there (`drawn`, section
  6 for the one that did not); selection and pin follow list and fields, also
  those changed while the map was loading (`MarkersMatchList`, `PinIsFields`).
- No other socket that closes, unregisters, gives up or fails takes lease or
  registry from the one whose claim Redis applied last, once that is registered
  (`LatestOwns`), and the old one closes within a renewal (`StaleCloses`). Once
  everything is read and nothing was lost, the station's row shows the newest
  connection heard of, as connected while it lasts and as disconnected afterwards
  (`StationShown`), except for an answer stamped after the end and appended before
  it (section 6); one that was seen to end is never shown again (`EndIsFinal`).

**Bounds.** One connector: sessions of different connectors share nothing the
properties mention. Two requests in `charging_start`, because the second one
meets the remains of the first (its reservation, its late outcome); one where
the second actor is a transaction. Two transactions in `charging_order` and
`charging_review`, because a late end or update of one meets the other.
`MaxJobs = 2` where duplicate jobs race (start, stop), 1 elsewhere.
`MaxVersion = 2` where a second generation meets a finalized record. Each kind of
evidence at most once per transaction, and one duplicate end; a duplicate start
finds its own session and a duplicate under the same id is a no-op. In `prepaid`
two totals, below and above the budget, and one operator: the duplicate end may
complete the session under review before that operator generates the record, so
the monitor meets a charge that another version, estimated, unbillable or above
the budget, superseded. No stop attempts are left there (`StopKey` is empty): with
one, the instance with that second version is too large for a liveness check; the
stops themselves are those of `charging_stop`, and the safety properties of
`prepaid` are proved for any number of attempts. One stop key in `charging_stop`,
because two are too many for TLC. In `topups` two wallets, two
orders and two payments, so that one payment can confirm two orders and one
order can be paid twice; amounts are 0..2. Two page visits: a creation left
behind by the first meets the page of the second, and the second load of the
script follows a failed one; one configuration per surface, Google or
OpenStreetMap, with and without key and tiles; two stations, one viewport, a form
by name and one without. Two sockets and two processes: the newer one replaces
the older in its own or in the other process; one fault of any kind
(`MaxFaults`) and one command or message (`MaxMessages`), whose answer crosses the
end of its socket. Reviewers, and wallets, sessions, orders and payments of
`topups`, are symmetric; those runs check no liveness.

**Fairness.** The scheduler runs `charging:expire-operations` every minute and
`charging:monitor-prepaid` every ten seconds (`routes/console.php`), and time
passes: weak fairness of `DeadlinePasses`, `ExpireCommand`, `ExpireSession` and
`Monitor`. Neither command catches an exception, whichever connector, tenant or
driver it comes from: a run that meets one is aborted, by a command here
(`RunAborts`) or one elsewhere (`elsewhere`), so the three steps of a run are fair
only while none is met. Nothing in the code ends such a state for certain, so
`PendingResolves` and `DueSettles` speak of the behaviours in which `elsewhere`
is false from some time on (`<>[]~elsewhere`); `charging_poison` shows a command
that aborts all runs for ever. The browser fires the loader's timer of 12 s: weak
fairness of `TimeOutScript` alone, and of no answer of the network. Lease tasks
run on the event loop: weak fairness of `RenewLease` of each connection. Workers,
the consumer, the charger, drivers, operators, users and the network are not fair
at all: a start must resolve although every worker died and the charger went
silent.

**Deadlock** is not checked: every request may be used up and every row
terminal, where the system rightly stops.

## 5. What is proved

Every invariant and every action property of the passing runs is a theorem;
only liveness is left to TLC. The theorems about a part hold of the two modules
of its scheduled runs, whose steps are steps of that part or stutter.

`ChargingProofs`, for any requests, transactions, evidence, reviewers, totals
and bounds, from `ConstantsOK`: requests and transactions are different ids,
the null value is none of the others, and the bounds are positive. Every safety
property the Charging runs check is a theorem of `Spec`:

| Theorem | Property |
|---|---|
| `TypeCorrect` | `TypeOK` |
| `TransactionHasOneSession` | `OneSessionPerTx` |
| `StartedAreFinalized`, `ReservationsEnd` | `StartedIffPhysical`, `ReservedIffPending` |
| `ImplementsConnectorSessions`, `TerminalIsFinal` | `SessionsSpec`, `TerminalStays` |
| `AnswersAreFinal`, `ExpiredAreUnsent` | `CommandsMoveLegally`, `ExpiredNeverSent` |
| `RejectedStopsResume`, `UncertainStartsAreKept` | `RejectedStopResumes`, `UncertainStartKept` |
| `CompletedAreFinalized`, `FinalizedAreFinal` | `CompletedIffFinalized`, `FinalizedStays` |

The argument has three layers.

1. `Consistent` is the inductive invariant (`AlwaysConsistent`). `Typed` alone
   is not inductive: jobs stay within their type only because the messages of
   one command never exceed the bound and a command that does not exist has
   none (`JobsBounded`), and that an outcome meets an existing command needs
   `CommandRows` (a command not yet dispatched has no job at the gateway, one
   whose outcome is applied again is terminal, a start command has its
   session). `SessionRows` holds the session properties together with what they
   need of each other: no session rests in a state the code only passes
   through, and a reconstructed session stands for its own transaction.
2. `SessionStep` shows that each step taken from a consistent state is a step
   of ConnectorSessions or leaves its variables alone. That is the refinement,
   and it also keeps `SessionRows`, which `SessionRowsStep` derives from the
   five abstract actions instead of the twenty concrete ones. `TerminalStays`
   follows from it as well.
3. `Accounted` adds what commands say of sessions and is inductive relative to
   `Consistent`: a stop remembers a state that `stopping` may return to
   (`ResumeKnown`), so applying a rejection always resumes the session; and a
   driver's start that was given up was rejected or is unsent and can no longer
   be sent (`StartSettled`), because it is terminal or past its deadline.

`FinalizedStays` and `CompletedIffFinalized` rest on `WithRecordIs`, what a
generation does to the versions of a session, and on `RecordSteps`, which
generations there are.

`PrepaidWalletProofs`, for any wallets, drivers, sessions, top-ups and amounts,
from the assumption that amounts are natural numbers and that the null value is
no number, no hold and no entry (`WalletConstants`):

- `TypeCorrect`: rows and ledger balances keep their types (`RowsTyped`, with
  integers where `TypeOK` has naturals).
- `HoldsAlwaysCovered`: the sum on hold never exceeds the balance, so the
  wallet's CHECK constraint never fires and every hold can be settled in full.
- `LedgerAgrees`: the ledger's liability to an owner is the wallet's balance.
- `SumsCorrect` (`RowsAddUp`): balance and sum on hold, which the code updates
  in place, are what the rows of holds and top-ups add up to.
- `TypeOKCorrect` (`TypeOK`): no balance and no sum on hold is ever negative.
- `SettlementsFinal`: no operation changes a settled hold.

`HoldsCovered` is inductive together with `RowsTyped`: `Reserve` raises the sum
on hold by no more than what is available, `Settle` lowers balance by no more
than the hold it releases. That nothing is negative is not inductive: releasing
a hold keeps the sum on hold natural only because that hold is part of it, which
is `RowsAddUp`; the balance follows from there by `HoldsCovered`. The sums need
that only finitely many rows were ever written (`RowsFinite`), since wallets,
sessions and top-ups may be infinitely many. Each step lemma has one case per
operation.

`SumProofs` holds the lemmas those sums rest on, for `SumFunctionOnSet` of the
community modules: the sum of no rows is 0, of naturals a natural, the same when
the rows are, and one row more or less is that row's amount more or less
(`SumEmpty`, `SumType`, `SumSame`, `SumAdd`, `SumRemove`). The operator is a fold
that removes elements in an order of its choice. That the order does not matter,
and that the fold's recursive function exists, is induction over finite sets. The
library's induction theorems take a predicate as parameter, which the provers
cannot instantiate; here a predicate is the set of the subsets that satisfy it,
and the induction (`SmallerFirst`) takes the smallest counterexample in the
ordering by strict inclusion, which the library proves well-founded.

`QrTopupProofs`, for any orders and payments besides, with the null value no
status and no payment (`TopupConstants`):

- `ImplementsWallet`: every behaviour of QrTopups is one of PrepaidWallet, with
  the identity as refinement mapping; `WalletStep` maps `Confirm` to `Credit` and
  the other handlers to a stutter. The wallet's theorems therefore hold of the
  composition; `HoldsCoveredMeanwhile` and `SumsMeanwhile` (`RowsAddUp`) are the
  ones stated.
- `ClearingCorrect` (`ClearingHoldsPaid`): what the provider owes is the sum of
  the paid orders. `ClearingStep` needs `CreditedIffPaid`: an order that is
  confirmed was not among the paid ones, and one that is paid keeps its amount.
- `TopupTypeCorrect` (`TopupTypeOK`), from the types of both sides and the sums.
- `PaidAreCredited` (`CreditedIffPaid`), inductive with the types of both sides:
  each handler but `Confirm` either finds the order unpaid or leaves its status
  alone, and `Confirm` writes entry and status together.
- `PaidAreFinal` (`PaidStays`).

`PrepaidChargingProofs`, for any requests, transactions, evidence, totals and
amounts, from `ConstantsOK` and `PrepaidConstants`: the budget and zero are
amounts, so is each total within the budget, and the null value is no payment
state, no hold and no entry.

- `ImplementsCharging`: every behaviour of PrepaidCharging is one of Charging.
  `ReconcileAllowed` shows that a reconciliation cancels an idle start, requests
  one stop, or leaves Charging alone. So every theorem of `ChargingProofs` holds
  of the composition, and the proofs below use them.
- `ImplementsWallet` (`WalletSpec`): and one of PrepaidWallet. That a capture
  spends an amount needs that the latest finalized record of a completed session
  exists and is typed (`FinalRecordIs`, from `CompletedIffFinalized` and, for the
  latest, well-foundedness of the naturals).
- `HeldUntilSettledCorrect`, inductive with the types of both rows (`Money`).
  `MoneyMoves` reduces the steps to five: a start, a full release, a charge, a
  hold that stays, a credit.
- `FreeOnlyIfOverCorrect`: a hold is released once (`SettledOnce`), each of the
  three ways to release it meets a session that is over or ends it, and neither
  a session without a transaction nor an answered command goes on
  (`UnstartedStays`, `AnswerStays`, from Charging's invariant).
- `ChargedPerRecordCorrect`: a charge equals its record when it is taken, and
  holds and finalized records stay (`SettledOnce`, `FinalizedStep`).
- `WalletAddsUp`: the wallet's theorems about sums and signs hold here too. The
  wallet's proofs are an instance (`Books`) whose behaviours are those of
  `WalletSpec` (`SameWallet`) and whose assumption is proved (`BooksConstants`).
- `PrepaidTypeCorrect` (`PrepaidTypeOK`): types of both parts, of which those of
  the wallet need `WalletAddsUp`.

`WebMapProofs`, for any stations, forms, viewports, coordinates, configurations
and number of visits. `AdapterStep` shows that every step of a page is a step of
the adapters or none, so invariants of the adapters are proved once.

- `LoaderCorrect` (`LoaderSound`) from `LoaderInv`: a creation waits only while
  the promise is pending, and it is pending exactly while a script has its
  callback.
- `MapsCorrect` (`MapsAccounted`) from `CanvasInv`: a canvas holds at most one map,
  holds it exactly when its creation succeeded, and the canvas on the page is
  registered while its creation waits, unless its surface registers later.
- `ListCorrect` (`ListAnswersForm`) from `ListInv`, which says the same of the
  finder alone and is carried through each of its operations.
- `PinCorrect` (`PinIsFields`), inductive with the type of the fields.
- `MarkersCorrect` (`MarkersMatchList`) from `LayerInv`: a page without its map
  shows nothing, a portal with it shows its list, the finder its list once an
  answer was drawn. `FinderKeeps` is what every other step of the finder leaves of
  its list, also before the map is there.
- `ImplementsAdapters`: every behaviour of WebMaps is one of the adapters alone.
- `TypeOKCorrect` (`TypeOK`), from the invariants above: `ListInv` types the
  finder on its page, and off its page it is blank. It assumes that there is a
  form at all (`FinderAssumption`): the blank one the page opens with.

`GatewayProofs`, for any processes and bounds (`GatewayAssumption`: the bounds
are naturals and no process is the null value):

- `LatestOwnsCorrect` (`LatestOwns`) from `LeaseInv`: each connection that was
  accepted has its process (`Located`); an event under way is the one its handler
  awaits (`InFlight`); registry and lease tasks name registered connections
  (`Registered`); a claim that was applied last and not yet answered holds the
  lease, and no other register of its process runs (`Claims`). Each step that gives
  a lease or a registry entry away is guarded by the connection that owns it.
- `AlwaysTyped` (`TypeInv`) and `TypeOKCorrect` (`TypeOK`). That clocks stay
  within their bound needs `Clocked`: the clock of a connection is at most the
  number of messages, one for each phase it has passed, less the answer it still
  owes. `Timed` says that no event, under way or in the stream, and no row is dated
  after its connection's clock.
- `StationShownCorrect` (`StationShown`) from `Alive` (of a connection that is not
  over no end was appended) and `Told`: what a connection stamped is in the row, in
  the stream or under way (`Announced`); once it is over, its row says so or is
  dated after the end, a newer one has replaced it, or its end is in the stream
  (`EndShown`). `Told` leaves out the connections of which an event was lost, as the
  property does (`unheard`). The steps differ only in what they stamp, append and
  read, so `Moves` reduces them to those, and `KeptBehind` and `KeptRead` show `Told`
  of each kind.
- `EndIsFinalCorrect` (`EndIsFinal`), from `TypeInv` and what the projector
  ignores: a sign of life of an older connection, or of one that ended.

Model-checked only: liveness (`PendingResolves`, `DueSettles`, `CreationSettles`,
`StaleCloses`), which the prover cannot do. The four claims of section 6 are
false of the model, so theirs are the counterexamples TLC finds.

## 6. Disagreements with the documents

- `docs/architecture/charging-command-state-machine.md:29` says the scheduled
  run expires undispatched commands and times out dispatched ones. When the
  session of a due start is already under review, applying the outcome throws,
  nothing in `ExpireChargingOperations` catches it, and that run and each later
  one stops there (`charging_poison`).
- `docs/architecture/charge-detail-record-state-machine.md:24` says a correction
  supersedes the prior record. `ManualSessionReviewService::resolve` generates
  the record in a transaction of its own; two operators resolving one review
  leave two finalized versions and none superseded (`charging_twice`).
- `docs/architecture/charging-session-state-machine.md:134` says late evidence
  creates a correction or review. `MeterValueService::record` rewrites the
  energy and duration of a completed session (`charging_late`).
- `docs/maps/MAP-ARCHITECTURE.md:26` says the surfaces clean their provider
  objects during Livewire navigation, and `docs/audits/MAP-MIGRATION-REPORT.md:29`
  that repeated navigation destroys map instances. A page left while its creation
  awaits the Google script is forgotten without a provider; the script arrives, a
  Google map is built on the removed canvas, and nothing destroys it
  (`web_leak`; `location-picker.js:55` and its likes).

Observed while modelling, without a document that says otherwise:

- `app.py:229`: when the lease cannot be claimed, `ChargerDisconnected` is
  published for a connection that was never registered; being the newest, it
  hides an older one that still serves the charger. `StationShown` states it so.
- `app.py:208`, `store.py:195`: a claim that Redis applied though its reply never
  came leaves the lease with a connection that was refused, and nothing releases
  it. An older connection that is sound gives up at its next renewal.
  `docs/architecture/ocpp-gateway.md:35` speaks of stale sockets only, so
  `LatestOwns` is stated of the claims Redis applied.
- `telemetry.py:149`: an event is stamped before the append is awaited. The answer
  of a command stamped after its socket's end and appended before it makes the
  projection ignore that end (`StationConnectionProjector.php:33`): the row stays
  connected, though nothing was lost, until the charger connects again or the
  heartbeat's deadline passes on reading. `StationShown` excepts it by
  `row.last > ended[c]`.
- `ChargeDetailRecordGenerator.php:123`: a later generation overwrites
  `finalization_outcome`; one that is estimated or unbillable, committed before the
  monitor comes by, makes it require action for a session with a chargeable record.
- The gauge of open connections is incremented by each registration and
  decremented only by the unregistration of the connection in the registry, not
  for one that was replaced.
- A message claimed in Redis by a process that dies before it stored the response
  blocks its repetition until the claim runs out.
- `station-map.js:96`: a list that arrived before its Google map was ready shows
  no markers until the next answer, though
  `docs/architecture/public-web-and-map.md:50` speaks of a synchronized result list.
  `MarkersMatchList` says exactly that: no markers as long as no answer was drawn.
- A location picker with two empty fields reads them as 0 and puts its marker at
  (0, 0); `PinIsFields` speaks of fields that hold coordinates.
- A stop that expires or times out leaves its session stopping until the charger
  sends its own end; another stop is refused meanwhile.

## 7. What is not modelled

Listed with reasons under `components` in PROJECT.json. In short: payment intents
and inventory are planned; invoicing and settlements are arithmetic over final
rows; tariffs are a pure function whose result Charging takes from a set;
maintenance, procurement, assets, locations, reporting, CMS, notifications and the
mobile app have little interleaving; identity and KYC are cryptography and I/O.

Inside the modelled components:

- *Charging*: the arithmetic of meter readings, quotes and their expiry, the
  eligibility of driver and station, the spending limits of vehicles, opening a review by hand (no session leaves
  or enters review by it), summaries sent after settlement, audit entries.
- *Gateway*: deduplication and replay of messages, idempotency keys of commands,
  authentication, authorization, subprotocols, the payload of commands; a close that
  hangs in a lease task, a claim whose reply takes longer than the lease.
- *Event stream*: several consumers at once, events without an active tenant,
  trimming. Delivery is once and in the order of the stream; Charging, whose
  properties depend on order most, assumes none.
- *Web maps*: camera moves, resizing, the position marker of the user, icons and
  clusters, the drawer, more than one viewport besides none, the fit of the home map to its results, every text.
