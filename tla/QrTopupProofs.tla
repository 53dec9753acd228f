---------------------------- MODULE QrTopupProofs ----------------------------
(***************************************************************************)
(* Theorems about QrTopups, for any orders, payments, wallets and amounts: *)
(* it implements PrepaidWallet, and an order is paid exactly when its      *)
(* wallet was credited with what was ordered.                              *)
(***************************************************************************)
EXTENDS QrTopups, PrepaidWalletProofs

(* The null value is no status and no entry.                               *)
LEMMA Nulls == None \notin Status /\ None \notin Entry
  BY TopupConstants, WalletConstants

(* The columns of an order that decide about it.                           *)
OrdersTyped ==
  /\ order \in [Topup -> Entry \cup {None}]
  /\ status \in [Topup -> Status \cup {None}]
  /\ paidBy \in [Topup -> Payment \cup {None}]

(* Every operation keeps the columns of an order well typed.               *)
LEMMA OrdersTypedStep == OrdersTyped /\ [TopupNext]_topupVars => OrdersTyped'
<1> SUFFICES ASSUME OrdersTyped, [TopupNext]_topupVars PROVE OrdersTyped'
  OBVIOUS
<1> USE DEF OrdersTyped, Mark, Status
<1>1. ASSUME NEW t \in Topup, NEW a \in Account, NEW amount \in Amount,
             Create(t, a, amount)
      PROVE  OrdersTyped'
  <2>1. [account |-> a, amount |-> amount] \in Entry
    BY DEF Entry
  <2> QED
    BY <1>1, <2>1 DEF Create
<1>2. ASSUME NEW t \in Topup, AnswerArrives(t) PROVE OrdersTyped'
  BY <1>2 DEF AnswerArrives, StoreAnswer
<1>3. ASSUME NEW t \in Topup, AnswerFails(t) \/ RequestDies(t)
      PROVE  OrdersTyped'
  BY <1>3 DEF AnswerFails, RequestDies
<1>4. ASSUME NEW t \in Topup, NEW amount \in Amount, NEW p \in Payment,
             Confirm(t, amount, p)
      PROVE  OrdersTyped'
  BY <1>4 DEF Confirm
<1>5. ASSUME NEW t \in Topup, ReconcileRead(t) \/ ReconcileMark(t)
      PROVE  OrdersTyped'
  BY <1>5 DEF ReconcileRead, ReconcileMark
<1>6. CASE Spending \/ UNCHANGED topupVars
  BY <1>6 DEF Spending, topupVars, orderVars
<1> QED
  BY <1>1, <1>2, <1>3, <1>4, <1>5, <1>6 DEF TopupNext

(* Orders keep their types.                                                *)
THEOREM OrdersCorrect == TopupSpec => []OrdersTyped
<1>1. TopupInit => OrdersTyped
  BY DEF TopupInit, OrdersTyped
<1> QED
  BY <1>1, OrdersTypedStep, PTL DEF TopupSpec

-----------------------------------------------------------------------------

(* A confirmation credits the wallet of the order, an operation of the     *)
(* wallet; the other handlers leave the wallet alone.                      *)
LEMMA WalletStep == OrdersTyped /\ [TopupNext]_topupVars => [Next]_walletVars
<1> SUFFICES ASSUME OrdersTyped, [TopupNext]_topupVars PROVE [Next]_walletVars
  OBVIOUS
<1>1. ASSUME NEW t \in Topup, NEW amount \in Amount, NEW p \in Payment,
             Confirm(t, amount, p)
      PROVE  Next
  <2>1. order[t] \in Entry
    BY <1>1 DEF OrdersTyped, Confirm, Matches
  <2>2. order[t].account \in Account /\ Credit(order[t].account, t, amount)
    BY <1>1, <2>1 DEF Confirm, Entry
  <2> QED
    BY <2>2 DEF Next
<1>2. ASSUME Spending PROVE Next
  BY <1>2 DEF Spending, Next
<1>3. ASSUME NEW t \in Topup,
             \/ \E a \in Account, amount \in Amount : Create(t, a, amount)
             \/ AnswerArrives(t) \/ AnswerFails(t) \/ RequestDies(t)
             \/ ReconcileRead(t) \/ ReconcileMark(t)
      PROVE  UNCHANGED walletVars
  BY <1>3 DEF Create, AnswerArrives, AnswerFails, RequestDies, ReconcileRead,
              ReconcileMark
<1>4. CASE UNCHANGED topupVars
  BY <1>4 DEF topupVars
<1> QED
  BY <1>1, <1>2, <1>3, <1>4 DEF TopupNext

(* Top-ups and charging together only do what the wallet allows, so the    *)
(* wallet's theorems hold of them.                                         *)
THEOREM ImplementsWallet == TopupSpec => Spec
<1>1. TopupInit => Init
  BY DEF TopupInit
<1> QED
  BY <1>1, WalletStep, OrdersCorrect, PTL DEF TopupSpec, Spec

(* Funds on hold stay covered while orders are created, confirmed and      *)
(* reconciled.                                                             *)
THEOREM HoldsCoveredMeanwhile == TopupSpec => []HoldsCovered
  BY ImplementsWallet, HoldsAlwaysCovered, PTL

-----------------------------------------------------------------------------

(* Orders and top-up entries agree, and every handler keeps it so.         *)
LEMMA CreditedStep ==
  OrdersTyped /\ RowsTyped /\ CreditedIffPaid /\ [TopupNext]_topupVars
    => CreditedIffPaid'
<1> SUFFICES ASSUME OrdersTyped, RowsTyped, CreditedIffPaid,
                    [TopupNext]_topupVars, NEW u \in Topup
             PROVE  /\ status'[u] = "paid" <=> topups'[u] # None
                    /\ topups'[u] # None
                         => topups'[u] = order'[u] /\ u \notin qr'
  BY DEF CreditedIffPaid
<1> DEFINE Agrees == /\ status'[u] = "paid" <=> topups'[u] # None
                     /\ topups'[u] # None
                          => topups'[u] = order'[u] /\ u \notin qr'
<1>0. /\ status[u] = "paid" <=> topups[u] # None
      /\ topups[u] # None => topups[u] = order[u] /\ u \notin qr
  BY DEF CreditedIffPaid
<1> USE DEF OrdersTyped, Mark
<1>1. ASSUME NEW t \in Topup, NEW a \in Account, NEW amount \in Amount,
             Create(t, a, amount)
      PROVE  Agrees
  <2>1. topups' = topups /\ qr' = qr
    BY <1>1 DEF Create, walletVars
  <2> QED
    BY <1>0, <1>1, <2>1, Nulls DEF Create, Status
<1>2. ASSUME NEW t \in Topup, AnswerArrives(t) PROVE Agrees
  <2>1. topups' = topups /\ order' = order
    BY <1>2 DEF AnswerArrives, walletVars
  <2>2. CASE Unpaid(t) /\ StoreAnswer(t)
    BY <1>0, <2>1, <2>2 DEF Unpaid, StoreAnswer
  <2>3. CASE UNCHANGED <<status, invoice, qr>>
    BY <1>0, <2>1, <2>3
  <2> QED
    BY <1>2, <2>2, <2>3 DEF AnswerArrives
<1>3. ASSUME NEW t \in Topup, AnswerFails(t) \/ RequestDies(t) PROVE Agrees
  <2>1. topups' = topups /\ order' = order /\ qr' = qr
    BY <1>3 DEF AnswerFails, RequestDies, walletVars
  <2> QED
    BY <1>0, <1>3, <2>1 DEF AnswerFails, RequestDies
<1>4. ASSUME NEW t \in Topup, NEW amount \in Amount, NEW p \in Payment,
             Confirm(t, amount, p)
      PROVE  Agrees
  <2>1. /\ order' = order /\ qr' = qr \ {t}
        /\ status' = [status EXCEPT ![t] = "paid"]
        /\ topups' = [topups EXCEPT
             ![t] = [account |-> order[t].account, amount |-> amount]]
    BY <1>4 DEF Confirm, Credit
  <2>2. order[t] \in Entry /\ order[t].amount = amount
    BY <1>4 DEF Confirm, Matches
  <2>3. [account |-> order[t].account, amount |-> amount] = order[t]
    BY <2>2 DEF Entry
  <2> QED
    BY <1>0, <2>1, <2>2, <2>3, Nulls DEF RowsTyped
<1>5. ASSUME NEW t \in Topup, ReconcileRead(t) \/ ReconcileMark(t) PROVE Agrees
  <2>1. topups' = topups /\ order' = order /\ qr' = qr
    BY <1>5 DEF ReconcileRead, ReconcileMark, walletVars
  <2> QED
    BY <1>0, <1>5, <2>1 DEF ReconcileRead, ReconcileMark, StillUnpaid, Unpaid
<1>6. CASE Spending \/ UNCHANGED topupVars
  <2>1. topups' = topups /\ UNCHANGED orderVars
    BY <1>6 DEF Spending, Reserve, Settle, SetLimit, topupVars, walletVars
  <2> QED
    BY <1>0, <2>1 DEF orderVars
<1> QED
  BY <1>1, <1>2, <1>3, <1>4, <1>5, <1>6 DEF TopupNext

(* A paid order was credited, once, with what was ordered; an order not    *)
(* paid was not.                                                           *)
THEOREM PaidAreCredited == TopupSpec => []CreditedIffPaid
<1>1. TopupInit => CreditedIffPaid
  BY Nulls DEF TopupInit, Init, CreditedIffPaid, Status
<1> QED
  BY <1>1, CreditedStep, OrdersCorrect, ImplementsWallet, TypeCorrect, PTL
  DEF TopupSpec

(* Neither a late answer nor a reconciliation that read the order before   *)
(* it was paid takes the payment back, and no other payment replaces it.   *)
THEOREM PaidAreFinal == TopupSpec => PaidStays
<1>1. ASSUME OrdersTyped, [TopupNext]_topupVars, NEW u \in Topup,
             status[u] = "paid"
      PROVE  status'[u] = "paid" /\ paidBy'[u] = paidBy[u]
  <2>1. CASE UNCHANGED topupVars
    BY <1>1, <2>1 DEF topupVars, orderVars
  <2>2. CASE TopupNext
    BY <1>1, <2>2, Nulls
    DEF OrdersTyped, Status, TopupNext, Create, AnswerArrives, StoreAnswer,
        AnswerFails, RequestDies, Confirm, ReconcileRead, ReconcileMark,
        StillUnpaid, Unpaid, Mark, Spending, orderVars
  <2> QED
    BY <1>1, <2>1, <2>2
<1>2. OrdersTyped /\ [TopupNext]_topupVars =>
        [\A t \in Topup : status[t] = "paid" =>
           status'[t] = "paid" /\ paidBy'[t] = paidBy[t]]_topupVars
  BY <1>1
<1> QED
  BY <1>2, OrdersCorrect, PTL DEF TopupSpec, PaidStays

-----------------------------------------------------------------------------

(* The amounts of the orders, and the orders paid.                         *)
OrderAmount == [t \in Topup |-> order[t].amount]
Paid == {t \in Topup : status[t] = "paid"}

(* A confirmation adds one order and its amount, nothing else changes what *)
(* the paid orders add up to.                                              *)
LEMMA ClearingStep ==
  OrdersTyped /\ RowsTyped /\ FiniteRows /\ CreditedIffPaid /\ ClearingHoldsPaid
    /\ [TopupNext]_topupVars => ClearingHoldsPaid'
<1> SUFFICES ASSUME OrdersTyped, RowsTyped, FiniteRows, CreditedIffPaid,
                    ClearingHoldsPaid, [TopupNext]_topupVars
             PROVE  ClearingHoldsPaid'
  OBVIOUS
<1>0. clearing = SumFunctionOnSet(OrderAmount, Paid)
  BY DEF ClearingHoldsPaid, Paid, OrderAmount
<1>1. Paid = {t \in Topup : topups[t] # None}
  BY DEF Paid, CreditedIffPaid
<1>2. IsFiniteSet(Paid) /\ \A t \in Paid : order[t] \in Entry /\ OrderAmount[t] \in Int
  <2>1. ASSUME NEW t \in Paid PROVE order[t] \in Entry
    BY <1>1 DEF CreditedIffPaid, RowsTyped, Paid
  <2>2. ASSUME NEW t \in Paid PROVE OrderAmount[t] \in Int
    <3>1. OrderAmount[t] = order[t].amount
      BY DEF OrderAmount, Paid
    <3> QED
      BY <2>1, <3>1, Amounts DEF Entry
  <2> QED
    BY <1>1, <2>1, <2>2 DEF FiniteRows
<1>3. ASSUME UNCHANGED clearing, Paid' = Paid, \A t \in Paid : order'[t] = order[t]
      PROVE  ClearingHoldsPaid'
  <2>1. \A t \in Paid : OrderAmount[t] = OrderAmount'[t]
    BY <1>3 DEF OrderAmount, Paid
  <2>2. SumFunctionOnSet(OrderAmount, Paid) = SumFunctionOnSet(OrderAmount', Paid)
    BY <1>2, <2>1, SumSame
  <2> QED
    BY <1>0, <1>3, <2>2 DEF ClearingHoldsPaid, Paid, OrderAmount
<1>4. ASSUME NEW t \in Topup, NEW amount \in Amount, NEW p \in Payment,
             Confirm(t, amount, p)
      PROVE  ClearingHoldsPaid'
  <2>1. /\ status' = [status EXCEPT ![t] = "paid"] /\ order' = order
        /\ clearing' = clearing + amount /\ order[t].amount = amount
        /\ status[t] # "paid"
    BY <1>4 DEF Confirm, Credit, Mark, Matches, Unpaid
  <2>2. t \notin Paid /\ Paid' = Paid \cup {t}
    BY <2>1 DEF Paid, OrdersTyped
  <2>3. OrderAmount' = OrderAmount /\ OrderAmount[t] = amount /\ amount \in Int
    BY <2>1, Amounts DEF OrderAmount
  <2>4. SumFunctionOnSet(OrderAmount, Paid \cup {t})
          = amount + SumFunctionOnSet(OrderAmount, Paid)
    BY <1>2, <2>2, <2>3, SumAdd
  <2>5. SumFunctionOnSet(OrderAmount, Paid) \in Int
    BY <1>2, SumType
  <2>6. clearing' = SumFunctionOnSet(OrderAmount', Paid')
    BY <1>0, <2>1, <2>2, <2>3, <2>4, <2>5
  <2> QED
    BY <2>6 DEF ClearingHoldsPaid, Paid, OrderAmount
<1>5. ASSUME NEW t \in Topup, NEW a \in Account, NEW amount \in Amount,
             Create(t, a, amount)
      PROVE  ClearingHoldsPaid'
  <2>1. UNCHANGED clearing /\ Paid' = Paid
    BY <1>5, Nulls DEF Create, Mark, walletVars, ledgerVars, Paid, OrdersTyped, Status
  <2>2. \A u \in Paid : order'[u] = order[u]
    BY <1>5, Nulls DEF Create, Paid, OrdersTyped, Status
  <2> QED
    BY <1>3, <2>1, <2>2
<1>6. ASSUME NEW t \in Topup,
             \/ AnswerArrives(t) \/ AnswerFails(t) \/ RequestDies(t)
             \/ ReconcileRead(t) \/ ReconcileMark(t)
      PROVE  ClearingHoldsPaid'
  <2>1. UNCHANGED <<clearing, order>>
    BY <1>6 DEF AnswerArrives, AnswerFails, RequestDies, ReconcileRead,
                ReconcileMark, walletVars, ledgerVars
  <2>2. Paid' = Paid
    BY <1>6 DEF Paid, OrdersTyped, AnswerArrives, StoreAnswer, AnswerFails,
                RequestDies, ReconcileRead, ReconcileMark, StillUnpaid, Unpaid, Mark
  <2> QED
    BY <1>3, <2>1, <2>2
<1>7. CASE Spending \/ UNCHANGED topupVars
  <2>1. UNCHANGED <<clearing, order, status>>
    BY <1>7 DEF Spending, Reserve, Settle, SetLimit, topupVars, walletVars,
                ledgerVars, orderVars
  <2> QED
    BY <1>3, <2>1 DEF Paid
<1> QED
  BY <1>4, <1>5, <1>6, <1>7 DEF TopupNext

(* The provider owes what the paid orders add up to, whichever of answer,  *)
(* notification and reconciliation comes first.                            *)
THEOREM ClearingCorrect == TopupSpec => []ClearingHoldsPaid
<1>1. TopupInit => ClearingHoldsPaid
  <2> SUFFICES ASSUME TopupInit PROVE ClearingHoldsPaid
    OBVIOUS
  <2>1. Paid = {} /\ clearing = 0
    BY Nulls DEF Paid, TopupInit, Init, Status
  <2>2. SumFunctionOnSet(OrderAmount, Paid) = 0
    BY <2>1, SumEmpty
  <2> QED
    BY <2>1, <2>2 DEF ClearingHoldsPaid, Paid, OrderAmount
<1> QED
  BY <1>1, ClearingStep, OrdersCorrect, PaidAreCredited, ImplementsWallet,
     TypeCorrect, RowsFinite, PTL DEF TopupSpec

(* The sums of the wallets hold while orders are created, confirmed and    *)
(* reconciled.                                                             *)
THEOREM SumsMeanwhile == TopupSpec => []RowsAddUp
  BY ImplementsWallet, SumsCorrect, PTL

-----------------------------------------------------------------------------

(* Orders and wallets keep their types: no handler leaves an order it does *)
(* not know behind, and no balance becomes negative.                       *)
THEOREM TopupTypeCorrect == TopupSpec => []TopupTypeOK
<1> DEFINE Sets == /\ invoice \subseteq Topup /\ qr \subseteq Topup
                   /\ asking \subseteq Topup /\ checking \subseteq Topup
<1>1. TopupInit => Sets
  BY DEF TopupInit
<1>2. Sets /\ [TopupNext]_topupVars => Sets'
  BY DEF TopupNext, topupVars, orderVars, Create, AnswerArrives, StoreAnswer,
         AnswerFails, RequestDies, Confirm, ReconcileRead, ReconcileMark, Spending
<1>3. TypeOK /\ OrdersTyped /\ Sets => TopupTypeOK
  BY DEF TopupTypeOK, OrdersTyped
<1> QED
  BY <1>1, <1>2, <1>3, OrdersCorrect, ImplementsWallet, TypeOKCorrect, PTL
  DEF TopupSpec
===============================================================================
