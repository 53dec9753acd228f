--------------------------- MODULE PrepaidCharging ---------------------------
(***************************************************************************)
(* Charging by one driver who pays from a prepaid wallet: CustomerCharging *)
(* places and withdraws starts, PrepaidChargingMonitor follows every       *)
(* unsettled session, stops it near its budget and settles its hold.       *)
(* Composes Charging (one connector) with PrepaidWallet (one wallet); both *)
(* change in the same database transactions.                               *)
(***************************************************************************)
EXTENDS Charging

CONSTANTS
  Wallet,      \* the wallet every start of the driver is paid from
  Budget,      \* budget_minor approved with the quote
  Topup,
  Amount,
  CancelKey,   \* keys of the stops that enforce a withdrawal (three)
  BudgetKey    \* keys of the stops that enforce the budget (three)

PaymentState == {"authorized", "requires_action", "captured", "not_required"}

PrepaidHold == [account : {Wallet}, amount : Amount, spent : Amount \cup {None}]
PrepaidEntry == [account : {Wallet}, amount : Amount]

(* Every total within the budget is an amount a hold can be settled with.  *)
ASSUME PrepaidConstants ==
  /\ Amount \subseteq Nat /\ 0 \in Amount
  /\ Budget \in Amount /\ Budget > 0
  /\ \A total \in Total : total <= Budget => total \in Amount
  /\ None \notin PaymentState \cup PrepaidHold \cup PrepaidEntry
  /\ CancelKey \cup BudgetKey \subseteq StopKey
  /\ CancelKey \cap BudgetKey = {}

VARIABLES
  withdrawn,   \* cancellation_reason = 'customer_cancel_requested'
  payment,     \* payment_state of the ownership row, None before it exists
  idle,        \* starts after whose deadline the connector reported idle
  obscured,    \* starts since which evidence of the station was quarantined
  balance, holding, limit, topups, holds, liability, clearing, receivable

Funds == INSTANCE PrepaidWallet WITH
           Account <- {Wallet}, Driver <- {Wallet}, Reference <- CustomerRequest

walletVars == <<balance, holding, limit, topups, holds, liability, clearing,
                receivable>>
ownerVars  == <<withdrawn, payment>>
signalVars == <<idle, obscured>>
prepaidVars == <<vars, ownerVars, signalVars, walletVars>>

PrepaidInit ==
  /\ Init
  /\ withdrawn = {} /\ idle = {} /\ obscured = {}
  /\ payment = [r \in CustomerRequest |-> None]
  /\ Funds!Init

Owned(r)     == payment[r] # None
(* Mutant: a session that requires action is left to the operators.        *)
Authorized(r) == payment[r] = "authorized"

Unsettled(r) == payment[r] \in {"authorized", "requires_action"}
StartOf(r)   == <<r, "start">>

-----------------------------------------------------------------------------
(* What the monitor reads of the connector and of the inbox.  An available *)
(* report counts for the starts whose deadline (with its safety margin)    *)
(* passed before it, until another report or a start replaces it.          *)

Overdue == {r \in CustomerRequest : StartOf(r) \in due}

Newly(fate) == {e \in Event : inbox[e] # fate /\ inbox'[e] = fate}

Observe ==
  /\ idle' = IF \E e \in Newly("processed") : e.kind = "started"
             THEN {} ELSE idle
  /\ obscured' = IF Newly("quarantined") = {} THEN obscured
                 ELSE obscured \cup {r \in CustomerRequest : Exists(r)}

Report(status) ==
  /\ StatusReported(status)
  /\ idle' = IF status = "available" THEN Overdue ELSE {}
  /\ UNCHANGED <<obscured, ownerVars, walletVars>>

-----------------------------------------------------------------------------
(* PrepaidChargingMonitor.                                                 *)

Pay(r, status) == payment' = [payment EXCEPT ![r] = status]

(* Mutant: the ownership row is settled, the hold forgotten.               *)
PayOnly(r, status, spent) ==
  /\ Pay(r, status)
  /\ UNCHANGED walletVars

(* Mutant: the hold's row is deleted instead of settled.                   *)
DropHold(r, status, spent) ==
  /\ Pay(r, status)
  /\ Funds!Active(r)
  /\ holds' = [holds EXCEPT ![r] = None]
  /\ holding' = [holding EXCEPT ![Wallet] = @ - holds[r].amount]
  /\ UNCHANGED <<balance, limit, topups, liability, clearing, receivable>>

Settle(r, status, spent) ==
  /\ Pay(r, status)
  /\ Funds!Settle(r, spent)

(* The hold stays; only the ownership row changes.                         *)
Hold(r, status) ==
  /\ Pay(r, status)
  /\ UNCHANGED walletVars

Unrelated == UNCHANGED <<due, reviewVars, inbox, chargerVars, signalVars>>

(* cancelConfirmedIdleStart(): the evidence that a sent start stayed idle. *)
IdleConfirmed(r, wanted) ==
  /\ wanted
  /\ Pending(r) /\ ~Started(r) /\ measured[r] = {}
  /\ cmd[StartOf(r)] \in CommandTerminal
  /\ connector = "available" /\ r \in idle
  /\ r \notin obscured

ReleaseIdle(r) ==
  /\ CancelSession(r)
  /\ Settle(r, "not_required", 0)
  /\ UNCHANGED commandVars

(* Mutant: a command no worker has sent yet counts as never sent.          *)
NotSent(r) == cmd[StartOf(r)] = "rejected" \/ StartOf(r) \notin sent

(* A start the charger certainly did not get.                              *)
NeverDelivered(r) ==
  LET c == StartOf(r) IN
  cmd[c] = "rejected" \/ (c \notin sent /\ cmd[c] \in CommandTerminal)

CloseUnstarted(r) ==
  /\ \/ NeverDelivered(r) /\ Settle(r, "not_required", 0)
     \/ ~NeverDelivered(r) /\ Hold(r, "requires_action")
  /\ UNCHANGED <<sessionVars, commandVars, connectorVars>>

(* Only the latest finalized record settles, and only as complete, priced  *)
(* and within the budget.                                                  *)
FinalRecord(r) ==
  records[r][CHOOSE i \in Finalized(r) : \A j \in Finalized(r) : j <= i]

(* Mutant: an estimated record is charged, too.                            *)
Priced(r) ==
  FinalRecord(r).total # None /\ FinalRecord(r).total <= Budget

Chargeable(r) ==
  /\ FinalRecord(r).outcome = "complete"
  /\ FinalRecord(r).total # None /\ FinalRecord(r).total <= Budget

Capture(r) ==
  /\ \/ Chargeable(r) /\ Settle(r, "captured", FinalRecord(r).total)
     \/ ~Chargeable(r) /\ Hold(r, "requires_action")
  /\ UNCHANGED <<sessionVars, commandVars, connectorVars>>

(* What earlier checks of reconcile() leave in payment_state; a stop       *)
(* command may be older than two minutes.                                  *)
Marked(r) ==
  {IF r \in unconfirmed \/ state[r] = "review_required"
   THEN "requires_action" ELSE payment[r]}
  \cup {"requires_action" : k \in {k \in StopKey : state[r] = "stopping"
                                              /\ cmd[<<r, k>>] # None}}

Keep(r) ==
  /\ \E status \in Marked(r) : Hold(r, status)
  /\ UNCHANGED <<sessionVars, commandVars, connectorVars>>

(* One stop more on behalf of the driver, unless the attempts are used up. *)
Stop(r, keys) ==
  LET left == {k \in keys : cmd[<<r, k>>] = None} IN
  \/ /\ Started(r) /\ left # {}
     /\ \E k \in left : RemoteStop(<<r, k>>)
     /\ \E status \in Marked(r) : Hold(r, status)
  \/ /\ ~Started(r) \/ left = {}
     /\ Hold(r, "requires_action")
     /\ UNCHANGED <<sessionVars, commandVars, connectorVars>>

(* reconcile(): meters that went silent, or energy about to exceed the     *)
(* budget, call for a stop; so does a start that was given up.             *)
Reconcile(r, wanted) ==
  /\ Unsettled(r)
  /\ \/ IdleConfirmed(r, wanted) /\ ReleaseIdle(r)
     \/ /\ ~IdleConfirmed(r, wanted)
        /\ \/ state[r] = "completed" /\ Capture(r)
           \/ state[r] \in Terminal \ {"completed"} /\ CloseUnstarted(r)
           \/ state[r] \in Stoppable /\ wanted /\ Stop(r, CancelKey)
           \/ state[r] \in Stoppable \ {"starting"} /\ ~wanted
              /\ Stop(r, BudgetKey)
           \/ state[r] \in Stoppable \ {"starting"} /\ ~wanted
              /\ r \notin unconfirmed /\ Keep(r)
           \/ state[r] = "starting" /\ ~wanted /\ Keep(r)
           \/ state[r] \in {"stopping", "review_required"} /\ Keep(r)
  /\ Unrelated

Monitor(r) == Reconcile(r, r \in withdrawn) /\ UNCHANGED withdrawn

-----------------------------------------------------------------------------
(* CustomerCharging.                                                       *)

(* active(): a session in progress or not settled.                         *)
NoneActive ==
  \A other \in CustomerRequest :
    /\ Exists(other) => state[other] \in Terminal
    /\ ~Unsettled(other)

(* start(): one active session per driver; session, command, hold and      *)
(* ownership row commit together.                                          *)
CustomerStart(r) ==
  /\ NoneActive
  /\ RemoteStart(r)
  /\ Funds!Reserve(Wallet, Wallet, r, Budget)
  /\ Pay(r, "authorized")
  /\ UNCHANGED <<withdrawn, signalVars>>

(* cancel(): before dispatch the start is withdrawn for good; afterwards   *)
(* the intent is recorded and the monitor acts on it, first of all here.   *)
CustomerCancel(r) ==
  /\ Owned(r)
  /\ state[r] \notin {"cancelled", "finalizing", "review_required"}
  /\ \/ state[r] \in Terminal /\ Monitor(r)
     \/ /\ Undispatched(r) /\ state[r] \notin Terminal
        /\ WithdrawStart(r)
        /\ Settle(r, "not_required", 0)
        /\ UNCHANGED <<withdrawn, signalVars>>
     \/ /\ state[r] \notin Terminal /\ ~Undispatched(r)
        /\ withdrawn' = withdrawn \cup {r}
        /\ Reconcile(r, TRUE)

-----------------------------------------------------------------------------

Credit(t, amount) ==
  /\ Funds!Credit(Wallet, t, amount)
  /\ UNCHANGED <<vars, ownerVars, signalVars>>

PrepaidNext ==
  \/ \E r \in CustomerRequest :
       CustomerStart(r) \/ CustomerCancel(r) \/ Monitor(r)
  \/ \E t \in Topup, amount \in Amount : Credit(t, amount)
  \/ \E status \in Reported : Report(status)
  \/ /\ \/ \E r \in Request \ CustomerRequest : RemoteStart(r)
        \/ \E c \in Session \X (StopKey \ (CancelKey \cup BudgetKey)) :
             RemoteStop(c)
        \/ Progress
     /\ Observe
     /\ UNCHANGED <<ownerVars, walletVars>>

PrepaidSpec == PrepaidInit /\ [][PrepaidNext]_prepaidVars

-----------------------------------------------------------------------------
(* Properties.                                                             *)

(* The ownership rows and signals hold values of their columns.            *)
PrepaidTypeOK ==
  /\ Funds!TypeOK
  /\ withdrawn \subseteq CustomerRequest
  /\ payment \in [CustomerRequest -> PaymentState \cup {None}]
  /\ idle \subseteq CustomerRequest /\ obscured \subseteq CustomerRequest

(* A session that is not settled has its hold, and a settled one does not: *)
(* the wallet and the ownership row never disagree.                        *)
HeldUntilSettled ==
  \A r \in CustomerRequest : Unsettled(r) <=> Funds!Active(r)

(* A hold is released in full only for a session that ended without a      *)
(* transaction, and whose command no job can hand to the charger any more, *)
(* whichever of driver, operator, scheduler and monitor gave it up.        *)
FreeOnlyIfOver ==
  \A r \in CustomerRequest : payment[r] = "not_required" =>
    /\ state[r] \in Terminal /\ ~Started(r)
    /\ cmd[StartOf(r)] \in CommandTerminal

(* What a driver pays is the total of a finalized, complete record of that *)
(* very session, within the approved budget.                               *)
ChargedPerRecord ==
  \A r \in CustomerRequest : payment[r] = "captured" =>
    /\ state[r] = "completed"
    /\ holds[r].spent <= Budget
    /\ \E i \in Finalized(r) : /\ records[r][i].outcome = "complete"
                             /\ records[r][i].total = holds[r].spent

(* Monitor and driver change sessions, commands and connector only as the  *)
(* Charging services allow, and money only as the wallet allows.           *)
ChargingSpec == Spec
WalletSpec   == Funds!Spec
=============================================================================
