------------------------------- MODULE QrTopups -------------------------------
(***************************************************************************)
(* QR top-ups of the live book.  An order is persisted before the provider *)
(* is asked for a QR code; the answer, signed payment notifications and    *)
(* the reconciliation command then race for its row.  Only a notification  *)
(* credits the wallet, in the transaction that marks the order paid.       *)
(* Meanwhile charging sessions hold and spend the wallet's funds.          *)
(***************************************************************************)
EXTENDS PrepaidWallet

CONSTANT
  Payment      \* transaction ids of the provider

VARIABLES
  order,       \* qr_topups: destination wallet and amount
  status,      \* qr_topups.status, None before the row exists
  invoice,     \* orders with invoice_id
  qr,          \* orders with qr_content
  paidBy,      \* qr_topups.transaction_id
  asking,      \* create() waiting for the provider's answer
  checking     \* reconcile() between reading an order and updating it

orderVars == <<order, status, invoice, qr, paidBy, asking, checking>>
topupVars == <<walletVars, orderVars>>

Status == {"creating", "pending", "unknown", "review_required", "paid"}

(* The null value is no status and no transaction id.                      *)
ASSUME TopupConstants == None \notin Status \cup Payment

TopupInit ==
  /\ Init
  /\ order = [t \in Topup |-> None]
  /\ status = [t \in Topup |-> None]
  /\ invoice = {} /\ qr = {} /\ asking = {} /\ checking = {}
  /\ paidBy = [t \in Topup |-> None]

Mark(t, next) == status' = [status EXCEPT ![t] = next]

(* create(): a retry with the same key finds the order and never asks the  *)
(* provider again.                                                         *)
Create(t, a, amount) ==
  /\ status[t] = None
  /\ amount > 0
  /\ order' = [order EXCEPT ![t] = [account |-> a, amount |-> amount]]
  /\ Mark(t, "creating")
  /\ asking' = asking \cup {t}
  /\ UNCHANGED <<walletVars, invoice, qr, paidBy, checking>>

(* Mutant: whether the order was paid meanwhile is not looked at.          *)
Created(t) == status[t] # None

Unpaid(t) == status[t] # None /\ status[t] # "paid"

(* The provider's answer, stored under the lock of the row; a notification *)
(* that came first wins.  An invoice is kept even if the answer is of no   *)
(* other use.                                                              *)
StoreAnswer(t) ==
  \/ /\ Mark(t, "review_required")
     /\ invoice' \in {invoice, invoice \cup {t}}
     /\ UNCHANGED qr
  \/ /\ Mark(t, "pending")
     /\ invoice' \in {invoice, invoice \cup {t}}
     /\ qr' = qr \cup {t}

AnswerArrives(t) ==
  /\ t \in asking
  /\ asking' = asking \ {t}
  /\ \/ Unpaid(t) /\ StoreAnswer(t)
     \/ ~Unpaid(t) /\ UNCHANGED <<status, invoice, qr>>
  /\ UNCHANGED <<walletVars, order, paidBy, checking>>

(* A connection, an answer or an expiry date that fails: the order is      *)
(* unknown unless something else happened to it.                           *)
AnswerFails(t) ==
  /\ t \in asking
  /\ asking' = asking \ {t}
  /\ \/ status[t] = "creating" /\ Mark(t, "unknown")
     \/ status[t] # "creating" /\ UNCHANGED status
  /\ UNCHANGED <<walletVars, order, invoice, qr, paidBy, checking>>

(* The request dies while the provider is asked.                           *)
RequestDies(t) ==
  /\ t \in asking
  /\ asking' = asking \ {t}
  /\ UNCHANGED <<walletVars, order, status, invoice, qr, paidBy, checking>>

(* qr_topup_transaction_uq                                                 *)
UnusedPayment(p) == \A t \in Topup : paidBy[t] # p

(* Mutant: the amount notified is credited, whatever was ordered.          *)
Ordered(t, amount) == order[t] # None

Matches(t, amount) == order[t] # None /\ order[t].amount = amount

(* notify(): a signed confirmation of payment p for order t.  What does    *)
(* not match throws, the repetition of a confirmation changes nothing.     *)
Confirm(t, amount, p) ==
  /\ Matches(t, amount)
  /\ Unpaid(t)
  /\ UnusedPayment(p)
  /\ Credit(order[t].account, t, amount)
  /\ Mark(t, "paid")
  /\ paidBy' = [paidBy EXCEPT ![t] = p]
  /\ qr' = qr \ {t}
  /\ UNCHANGED <<order, invoice, asking, checking>>

(* wallet:reconcile reads ambiguous orders; only one with an invoice can   *)
(* be retrieved.  Age and expiry of the order are a matter of time.        *)
ReconcileRead(t) ==
  /\ status[t] \in {"creating", "pending", "unknown"}
  /\ t \in invoice
  /\ checking' = checking \cup {t}
  /\ UNCHANGED <<walletVars, order, status, invoice, qr, paidBy, asking>>

(* Mutant: what was read decides, not the row.                             *)
AsRead(t) == t \in checking

(* WHERE status != 'paid'                                                  *)
StillUnpaid(t) == Unpaid(t)

(* What the provider retrieves is ambiguous, or cannot be retrieved.       *)
ReconcileMark(t) ==
  /\ t \in checking
  /\ checking' = checking \ {t}
  /\ \/ StillUnpaid(t) /\ Mark(t, "review_required")
     \/ UNCHANGED status
  /\ UNCHANGED <<walletVars, order, invoice, qr, paidBy, asking>>

(* Sessions charging meanwhile.                                            *)
Spending ==
  /\ \/ \E a \in Account, d \in Driver, r \in Reference, amount \in Amount :
          Reserve(a, d, r, amount)
     \/ \E r \in Reference, spent \in Amount : Settle(r, spent)
     \/ \E a \in Account, d \in Driver, amount \in Amount \cup {None} :
          SetLimit(a, d, amount)
  /\ UNCHANGED orderVars

TopupNext ==
  \/ \E t \in Topup :
       \/ \E a \in Account, amount \in Amount : Create(t, a, amount)
       \/ AnswerArrives(t) \/ AnswerFails(t) \/ RequestDies(t)
       \/ \E amount \in Amount, p \in Payment : Confirm(t, amount, p)
       \/ ReconcileRead(t) \/ ReconcileMark(t)
  \/ Spending

TopupSpec == TopupInit /\ [][TopupNext]_topupVars

-----------------------------------------------------------------------------

(* Orders and wallets hold what their columns can hold.                    *)
TopupTypeOK ==
  /\ TypeOK
  /\ order \in [Topup -> Entry \cup {None}]
  /\ status \in [Topup -> Status \cup {None}]
  /\ invoice \subseteq Topup /\ qr \subseteq Topup
  /\ paidBy \in [Topup -> Payment \cup {None}]
  /\ asking \subseteq Topup /\ checking \subseteq Topup

(* An order is paid exactly when its wallet was credited, with the amount  *)
(* and to the wallet it was made for, and then shows no QR code any more,  *)
(* whichever of answer, notification and reconciliation came first.        *)
CreditedIffPaid ==
  \A t \in Topup :
    /\ status[t] = "paid" <=> topups[t] # None
    /\ topups[t] # None => topups[t] = order[t] /\ t \notin qr

(* The provider clearing account holds the amounts of the paid orders, so  *)
(* the ledger can be compared with the provider's settlement reports.      *)
ClearingHoldsPaid ==
  clearing = SumFunctionOnSet([t \in Topup |-> order[t].amount],
                              {t \in Topup : status[t] = "paid"})

(* A paid order stays paid, by the same payment.                           *)
PaidStays ==
  [][\A t \in Topup : status[t] = "paid" =>
       status'[t] = "paid" /\ paidBy'[t] = paidBy[t]]_topupVars
===============================================================================
