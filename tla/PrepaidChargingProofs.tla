------------------------ MODULE PrepaidChargingProofs ------------------------
(***************************************************************************)
(* Theorems about PrepaidCharging, for any requests, transactions,         *)
(* evidence, totals and amounts: driver and monitor do to sessions only    *)
(* what Charging allows and to money only what the wallet allows; the      *)
(* wallet agrees with the ownership rows; what is released and what is     *)
(* charged follows from the session.                                       *)
(***************************************************************************)
EXTENDS PrepaidCharging, ChargingProofs, WellFoundedInduction

(* The assumptions on constants.                                           *)
LEMMA Rates ==
  /\ Amount \subseteq Nat /\ 0 \in Amount
  /\ Budget \in Amount /\ Budget > 0
  /\ \A total \in Total : total <= Budget => total \in Amount
  /\ None \notin PaymentState \cup PrepaidHold \cup PrepaidEntry
  /\ CancelKey \cup BudgetKey \subseteq StopKey
  BY PrepaidConstants

-----------------------------------------------------------------------------
(* Sessions and commands.                                                  *)

(* Whatever it finds, a reconciliation cancels an idle start, requests one *)
(* stop, or leaves Charging alone.                                         *)
LEMMA ReconcileAllowed ==
  ASSUME NEW r \in CustomerRequest, NEW wanted, Reconcile(r, wanted)
  PROVE  \/ OperatorCancel(r)
         \/ \E k \in StopKey : RemoteStop(<<r, k>>)
         \/ UNCHANGED vars
<1>1. CASE IdleConfirmed(r, wanted) /\ ReleaseIdle(r)
  BY <1>1 DEF Reconcile, ReleaseIdle, Unrelated, OperatorCancel
<1>2. ASSUME UNCHANGED <<sessionVars, commandVars, connectorVars>>
      PROVE  UNCHANGED vars
  BY <1>2 DEF Reconcile, Unrelated, vars
<1>3. CASE Capture(r) \/ CloseUnstarted(r) \/ Keep(r)
  BY <1>2, <1>3 DEF Capture, CloseUnstarted, Keep
<1>4. ASSUME NEW keys \in {CancelKey, BudgetKey}, Stop(r, keys)
      PROVE  UNCHANGED vars \/ \E k \in StopKey : RemoteStop(<<r, k>>)
  BY <1>2, <1>4, Rates DEF Stop
<1> QED
  BY <1>1, <1>3, <1>4 DEF Reconcile

(* Every step of driver and monitor is one of Charging.                    *)
LEMMA ChargingStep == [PrepaidNext]_prepaidVars => [Next]_vars
<1> SUFFICES ASSUME [PrepaidNext]_prepaidVars PROVE [Next]_vars
  OBVIOUS
<1>1. ASSUME NEW r \in CustomerRequest, NEW wanted, Reconcile(r, wanted)
      PROVE  [Next]_vars
  <2>1. r \in Session /\ \A k \in StopKey : <<r, k>> \in StopCommand
    BY Constants, CommandParts
  <2> QED
    BY <1>1, <2>1, ReconcileAllowed DEF Next, Progress
<1>2. ASSUME NEW r \in CustomerRequest, CustomerStart(r) PROVE Next
  BY <1>2, Constants DEF CustomerStart, Next
<1>3. ASSUME NEW r \in CustomerRequest, CustomerCancel(r) PROVE [Next]_vars
  BY <1>1, <1>3 DEF CustomerCancel, Monitor, Next
<1>4. ASSUME NEW r \in CustomerRequest, Monitor(r) PROVE [Next]_vars
  BY <1>1, <1>4 DEF Monitor
<1>5. ASSUME NEW t \in Topup, NEW amount \in Amount, Credit(t, amount)
      PROVE  UNCHANGED vars
  BY <1>5 DEF Credit
<1>6. ASSUME NEW status \in Reported, Report(status) PROVE Next
  BY <1>6 DEF Report, Next
<1>7. ASSUME NEW c \in Session \X StopKey, RemoteStop(c) PROVE Next
  BY <1>7 DEF Next, StopCommand
<1>8. ASSUME NEW r \in Request, RemoteStart(r) PROVE Next
  BY <1>8 DEF Next
<1>9. CASE Progress
  BY <1>9 DEF Next
<1>10. CASE UNCHANGED prepaidVars
  BY <1>10 DEF prepaidVars
<1> QED
  BY <1>2, <1>3, <1>4, <1>5, <1>6, <1>7, <1>8, <1>9, <1>10 DEF PrepaidNext

(* Drivers and the monitor, acting in transactions of their own, do to     *)
(* sessions, commands and the connector only what the Charging services    *)
(* allow: the theorems of Charging hold of prepaid charging.               *)
THEOREM ImplementsCharging == PrepaidSpec => ChargingSpec
<1>1. PrepaidInit => Init
  BY DEF PrepaidInit
<1> QED
  BY <1>1, ChargingStep, PTL DEF PrepaidSpec, ChargingSpec, Spec

-----------------------------------------------------------------------------
(* The record a capture reads.                                             *)

(* A set of numbers up to a bound has a greatest one.                      *)
LEMMA Greatest ==
  ASSUME NEW n \in Nat, NEW T, T \subseteq 0..n, T # {}
  PROVE  \E i \in T : \A j \in T : j <= i
<1> DEFINE less == {ss \in Nat \X Nat : ss[1] < ss[2]}
           below == {n - i : i \in T}
<1>1. \A i \in T : i \in Nat /\ n - i \in Nat
  OBVIOUS
<1>2. below \subseteq Nat /\ below # {}
  BY <1>1
<1>3. IsWellFoundedOn(less, Nat)
  BY NatLessThanWellFounded DEF OpToRel
<1> HIDE DEF less, below
<1>4. PICK x \in below : \A y \in below : <<y, x>> \notin less
  BY <1>2, <1>3, WFMin
<1>5. PICK i \in T : x = n - i
  BY DEF below
<1>6. ASSUME NEW j \in T PROVE j <= i
  <2>1. <<n - j, n - i>> \notin less
    BY <1>4, <1>5 DEF below
  <2>2. ~ (n - j < n - i)
    BY <1>1, <2>1 DEF less
  <2> QED
    BY <1>1, <2>2
<1> QED
  BY <1>6

(* A completed session has a record to settle by: a finalized one of its   *)
(* own, whose total, when it has one, the tariff engine returned.          *)
LEMMA FinalRecordIs ==
  ASSUME Consistent, CompletedIffFinalized, NEW r \in CustomerRequest,
         state[r] = "completed"
  PROVE  /\ \E i \in Finalized(r) : FinalRecord(r) = records[r][i]
         /\ FinalRecord(r).total \in Total \cup {None}
<1>1. r \in Session /\ records[r] \in Seq(Record)
  BY Constants, CommandParts DEF Consistent, Typed, RowsTyped, RecordsTyped
<1>2. /\ Len(records[r]) \in Nat /\ DOMAIN records[r] = 1..Len(records[r])
      /\ \A i \in DOMAIN records[r] : records[r][i] \in Record
  BY <1>1
<1>3. Finalized(r) \subseteq DOMAIN records[r]
  BY DEF Finalized
<1>4. Finalized(r) # {}
  BY <1>1 DEF CompletedIffFinalized
<1>5. Finalized(r) \subseteq 0..Len(records[r])
  BY <1>2, <1>3
<1>6. \E i \in Finalized(r) : \A j \in Finalized(r) : j <= i
  BY <1>2, <1>4, <1>5, Greatest
<1>7. PICK latest : /\ latest = CHOOSE i \in Finalized(r) :
                                  \A j \in Finalized(r) : j <= i
                    /\ latest \in Finalized(r)
  BY <1>6
<1>8. FinalRecord(r) = records[r][latest]
  BY <1>7 DEF FinalRecord
<1>9. records[r][latest] \in Record
  BY <1>2, <1>3, <1>7
<1> QED
  BY <1>7, <1>8, <1>9 DEF Record

-----------------------------------------------------------------------------
(* Money.                                                                  *)

RowsOfMoney ==
  /\ payment \in [CustomerRequest -> PaymentState \cup {None}]
  /\ holds \in [CustomerRequest -> PrepaidHold \cup {None}]

Money == RowsOfMoney /\ HeldUntilSettled

(* A hold released in full: the start was never delivered, or the          *)
(* connector stayed idle after it, or the driver was in time.              *)
Released(r) ==
  /\ Settle(r, "not_required", 0)
  /\ \/ /\ UNCHANGED <<sessionVars, commandVars>>
        /\ state[r] \in Terminal \ {"completed"} /\ NeverDelivered(r)
     \/ CancelSession(r) /\ UNCHANGED commandVars
        /\ cmd[StartOf(r)] \in CommandTerminal
     \/ WithdrawStart(r)

(* A hold settled against the latest finalized record.                     *)
Charged(r) ==
  /\ Settle(r, "captured", FinalRecord(r).total)
  /\ state[r] = "completed" /\ Chargeable(r)
  /\ UNCHANGED <<sessionVars, records>>

(* What a reconciliation does to money: it settles the hold, with nothing  *)
(* or with the final charge, or leaves it.                                 *)
LEMMA ReconcileMoney ==
  ASSUME NEW r \in CustomerRequest, NEW wanted, Reconcile(r, wanted)
  PROVE  \/ Released(r) \/ Charged(r)
         \/ \E status \in {"authorized", "requires_action"} : Hold(r, status)
<1>1. payment[r] \in {"authorized", "requires_action"}
  BY DEF Reconcile, Unsettled
<1>2. Marked(r) \subseteq {"authorized", "requires_action"}
  BY <1>1 DEF Marked
<1>3. CASE IdleConfirmed(r, wanted) /\ ReleaseIdle(r)
  BY <1>3 DEF IdleConfirmed, ReleaseIdle, Released
<1>4. CASE state[r] = "completed" /\ Capture(r)
  BY <1>4 DEF Capture, Charged, Reconcile, Unrelated, reviewVars
<1>5. CASE state[r] \in Terminal \ {"completed"} /\ CloseUnstarted(r)
  BY <1>5 DEF CloseUnstarted, Released
<1>6. CASE Keep(r) \/ \E keys \in {CancelKey, BudgetKey} : Stop(r, keys)
  BY <1>2, <1>6 DEF Keep, Stop
<1> QED
  BY <1>3, <1>4, <1>5, <1>6 DEF Reconcile

(* What a step does to money.                                              *)
LEMMA MoneyMoves ==
  ASSUME [PrepaidNext]_prepaidVars
  PROVE  \/ \E r \in CustomerRequest :
              \/ CustomerStart(r) \/ Released(r) \/ Charged(r)
              \/ \E status \in {"authorized", "requires_action"} :
                   Unsettled(r) /\ Hold(r, status)
         \/ \E t \in Topup, amount \in Amount :
              Funds!Credit(Wallet, t, amount) /\ UNCHANGED payment
         \/ UNCHANGED <<payment, walletVars>>
<1>1. ASSUME NEW r \in CustomerRequest, NEW wanted, Reconcile(r, wanted)
      PROVE  \/ Released(r) \/ Charged(r)
             \/ \E status \in {"authorized", "requires_action"} :
                  Unsettled(r) /\ Hold(r, status)
  BY <1>1, ReconcileMoney DEF Reconcile
<1>2. ASSUME NEW r \in CustomerRequest, CustomerCancel(r)
      PROVE  \/ Released(r) \/ Charged(r)
             \/ \E status \in {"authorized", "requires_action"} :
                  Unsettled(r) /\ Hold(r, status)
  BY <1>1, <1>2 DEF CustomerCancel, Monitor, Released
<1>3. ASSUME NEW r \in CustomerRequest, Monitor(r)
      PROVE  \/ Released(r) \/ Charged(r)
             \/ \E status \in {"authorized", "requires_action"} :
                  Unsettled(r) /\ Hold(r, status)
  BY <1>1, <1>3 DEF Monitor
<1>4. ASSUME NEW t \in Topup, NEW amount \in Amount, Credit(t, amount)
      PROVE  Funds!Credit(Wallet, t, amount) /\ UNCHANGED payment
  BY <1>4 DEF Credit, ownerVars
<1>5. ASSUME NEW status \in Reported, Report(status)
      PROVE  UNCHANGED <<payment, walletVars>>
  BY <1>5 DEF Report, ownerVars
<1>6. CASE UNCHANGED prepaidVars
  BY <1>6 DEF prepaidVars, ownerVars
<1>7. CASE UNCHANGED <<ownerVars, walletVars>>
  BY <1>7 DEF ownerVars
<1> QED
  BY <1>2, <1>3, <1>4, <1>5, <1>6, <1>7 DEF PrepaidNext

(* What a settled hold spends is an amount.                                *)
LEMMA ChargeIsAmount ==
  ASSUME Consistent, CompletedIffFinalized, NEW r \in CustomerRequest, Charged(r)
  PROVE  FinalRecord(r).total \in Amount
<1>1. FinalRecord(r).total \in Total /\ FinalRecord(r).total <= Budget
  BY FinalRecordIs DEF Charged, Chargeable
<1> QED
  BY <1>1, Rates

(* Settling writes one row of each side.                                   *)
LEMMA SettleWrites ==
  ASSUME RowsOfMoney, NEW r \in CustomerRequest, NEW status \in PaymentState,
         NEW spent \in Amount, Settle(r, status, spent)
  PROVE  /\ RowsOfMoney' /\ payment'[r] = status
         /\ holds'[r] # None /\ holds'[r].spent = spent /\ spent # None
         /\ \A other \in CustomerRequest \ {r} :
              payment'[other] = payment[other] /\ holds'[other] = holds[other]
<1>1. holds[r] \in PrepaidHold /\ holds' = [holds EXCEPT ![r].spent = spent]
  BY DEF Settle, Funds!Settle, Funds!Active, RowsOfMoney
<1>2. [holds[r] EXCEPT !.spent = spent] \in PrepaidHold
  BY <1>1 DEF PrepaidHold
<1>3. holds' \in [CustomerRequest -> PrepaidHold \cup {None}]
  BY <1>1, <1>2 DEF RowsOfMoney
<1>4. holds'[r] \in PrepaidHold /\ holds'[r].spent = spent
  BY <1>1, <1>2 DEF RowsOfMoney, PrepaidHold
<1>5. holds'[r] # None /\ spent # None
  BY <1>4, Rates, Constants
<1>6. \A other \in CustomerRequest \ {r} : holds'[other] = holds[other]
  BY <1>1 DEF RowsOfMoney
<1>7. /\ payment' \in [CustomerRequest -> PaymentState \cup {None}]
      /\ payment'[r] = status
      /\ \A other \in CustomerRequest \ {r} : payment'[other] = payment[other]
  BY DEF Settle, Pay, RowsOfMoney
<1> QED
  BY <1>3, <1>4, <1>5, <1>6, <1>7 DEF RowsOfMoney

(* Placing a start writes one row of each side.                            *)
LEMMA StartWrites ==
  ASSUME RowsOfMoney, NEW r \in CustomerRequest, CustomerStart(r)
  PROVE  /\ RowsOfMoney' /\ payment'[r] = "authorized"
         /\ holds'[r] # None /\ holds'[r].spent = None
         /\ \A other \in CustomerRequest \ {r} :
              payment'[other] = payment[other] /\ holds'[other] = holds[other]
<1> DEFINE hold == [account |-> Wallet, amount |-> Budget, spent |-> None]
<1>1. hold \in PrepaidHold /\ hold # None /\ hold.spent = None
  BY Rates DEF PrepaidHold
<1>2. holds' = [holds EXCEPT ![r] = hold]
  BY DEF CustomerStart, Funds!Reserve
<1> HIDE DEF hold
<1>3. /\ holds' \in [CustomerRequest -> PrepaidHold \cup {None}]
      /\ holds'[r] = hold
      /\ \A other \in CustomerRequest \ {r} : holds'[other] = holds[other]
  BY <1>1, <1>2 DEF RowsOfMoney
<1>4. /\ payment' \in [CustomerRequest -> PaymentState \cup {None}]
      /\ payment'[r] = "authorized"
      /\ \A other \in CustomerRequest \ {r} : payment'[other] = payment[other]
  BY DEF CustomerStart, Pay, RowsOfMoney, PaymentState
<1> QED
  BY <1>1, <1>3, <1>4 DEF RowsOfMoney

(* A hold that stays leaves the wallet alone.                              *)
LEMMA HoldWrites ==
  ASSUME RowsOfMoney, NEW r \in CustomerRequest,
         NEW status \in {"authorized", "requires_action"}, Hold(r, status)
  PROVE  /\ RowsOfMoney' /\ payment'[r] = status /\ holds' = holds
         /\ \A other \in CustomerRequest \ {r} : payment'[other] = payment[other]
<1>1. status \in PaymentState
  BY DEF PaymentState
<1>2. holds' = holds /\ payment' = [payment EXCEPT ![r] = status]
  BY DEF Hold, Pay, walletVars
<1> QED
  BY <1>1, <1>2 DEF RowsOfMoney

(* Each step leaves unsettled sessions with their hold, and settled ones   *)
(* without.                                                                *)
LEMMA MoneyStep ==
  ASSUME Consistent, CompletedIffFinalized, Money, [PrepaidNext]_prepaidVars
  PROVE  Money'
<1> USE DEF Money
<1>1. ASSUME NEW r \in CustomerRequest, RowsOfMoney',
             Unsettled(r)' <=> Funds!Active(r)',
             \A other \in CustomerRequest \ {r} :
               payment'[other] = payment[other] /\ holds'[other] = holds[other]
      PROVE  Money'
  <2>1. ASSUME NEW other \in CustomerRequest, other # r
        PROVE  Unsettled(other)' <=> Funds!Active(other)'
    BY <1>1, <2>1 DEF HeldUntilSettled, Unsettled, Funds!Active
  <2> QED
    BY <1>1, <2>1 DEF HeldUntilSettled
<1>2. ASSUME NEW r \in CustomerRequest, NEW status \in {"captured", "not_required"},
             NEW spent \in Amount, Settle(r, status, spent)
      PROVE  Money'
  <2>1. status \in PaymentState
    BY DEF PaymentState
  <2>2. ~Unsettled(r)' /\ ~Funds!Active(r)'
    BY <1>2, <2>1, SettleWrites DEF Unsettled, Funds!Active
  <2> QED
    BY <1>1, <1>2, <2>1, <2>2, SettleWrites
<1>3. ASSUME NEW r \in CustomerRequest, Released(r) PROVE Money'
  BY <1>2, <1>3, Rates DEF Released
<1>4. ASSUME NEW r \in CustomerRequest, Charged(r) PROVE Money'
  BY <1>2, <1>4, ChargeIsAmount DEF Charged
<1>5. ASSUME NEW r \in CustomerRequest, CustomerStart(r) PROVE Money'
  <2>1. Unsettled(r)' /\ Funds!Active(r)'
    BY <1>5, StartWrites DEF Unsettled, Funds!Active
  <2> QED
    BY <1>1, <1>5, <2>1, StartWrites
<1>6. ASSUME NEW r \in CustomerRequest, NEW status \in {"authorized", "requires_action"},
             Unsettled(r), Hold(r, status)
      PROVE  Money'
  <2>1. Unsettled(r)'
    BY <1>6, HoldWrites DEF Unsettled
  <2>2. Funds!Active(r)'
    BY <1>6, HoldWrites DEF HeldUntilSettled, Funds!Active
  <2> QED
    BY <1>1, <1>6, <2>1, <2>2, HoldWrites
<1>7. CASE UNCHANGED <<payment, holds>>
  BY <1>7 DEF RowsOfMoney, HeldUntilSettled, Unsettled, Funds!Active
<1>8. ASSUME NEW t \in Topup, NEW amount \in Amount, Funds!Credit(Wallet, t, amount)
      PROVE  UNCHANGED holds
  BY <1>8 DEF Funds!Credit
<1> QED
  BY <1>3, <1>4, <1>5, <1>6, <1>7, <1>8, MoneyMoves DEF walletVars

(* A start, its hold and its ownership row are written together, and so    *)
(* are settlement and payment state: wallet and ownership row agree.       *)
THEOREM HoldsAgree == PrepaidSpec => []Money
<1>1. PrepaidInit => Money
  <2> SUFFICES ASSUME PrepaidInit PROVE Money
    OBVIOUS
  <2>1. /\ payment = [r \in CustomerRequest |-> None]
        /\ holds = [r \in CustomerRequest |-> None]
    BY DEF PrepaidInit, Funds!Init
  <2>2. None \notin {"authorized", "requires_action"}
    BY Rates DEF PaymentState
  <2> QED
    BY <2>1, <2>2 DEF Money, RowsOfMoney, HeldUntilSettled, Unsettled, Funds!Active
<1>2. Consistent /\ CompletedIffFinalized /\ Money /\ [PrepaidNext]_prepaidVars
        => Money'
  BY MoneyStep
<1> QED
  BY <1>1, <1>2, ImplementsCharging, AlwaysConsistent, CompletedAreFinalized, PTL
  DEF PrepaidSpec, ChargingSpec

(* A session that is not settled has its hold, and a settled one does not. *)
THEOREM HeldUntilSettledCorrect == PrepaidSpec => []HeldUntilSettled
<1>1. Money => HeldUntilSettled
  BY DEF Money
<1> QED
  BY <1>1, HoldsAgree, PTL

-----------------------------------------------------------------------------

(* Driver and monitor do to the wallet only what its operations allow.     *)
LEMMA WalletStep ==
  ASSUME Consistent, CompletedIffFinalized, [PrepaidNext]_prepaidVars
  PROVE  [Funds!Next]_walletVars
<1>1. ASSUME NEW r \in CustomerRequest, Released(r) PROVE Funds!Next
  BY <1>1, Rates DEF Released, Settle, Funds!Next
<1>2. ASSUME NEW r \in CustomerRequest, Charged(r) PROVE Funds!Next
  BY <1>2, ChargeIsAmount DEF Charged, Settle, Funds!Next
<1>3. ASSUME NEW r \in CustomerRequest, CustomerStart(r) PROVE Funds!Next
  BY <1>3, Rates DEF CustomerStart, Funds!Next
<1>4. ASSUME NEW r \in CustomerRequest, NEW status, Hold(r, status)
      PROVE  UNCHANGED walletVars
  BY <1>4 DEF Hold
<1>5. ASSUME NEW t \in Topup, NEW amount \in Amount, Funds!Credit(Wallet, t, amount)
      PROVE  Funds!Next
  BY <1>5 DEF Funds!Next
<1> QED
  BY <1>1, <1>2, <1>3, <1>4, <1>5, MoneyMoves

(* Prepaid charging implements the wallet.                                 *)
THEOREM ImplementsWallet == PrepaidSpec => WalletSpec
<1>1. PrepaidInit => Funds!Init
  BY DEF PrepaidInit
<1>2. Consistent /\ CompletedIffFinalized /\ [PrepaidNext]_prepaidVars
        => [Funds!Next]_walletVars
  BY WalletStep
<1>3. [Funds!Next]_walletVars => [Funds!Next]_Funds!walletVars
  BY DEF walletVars, Funds!walletVars, Funds!ledgerVars
<1> QED
  BY <1>1, <1>2, <1>3, ImplementsCharging, AlwaysConsistent,
     CompletedAreFinalized, PTL
  DEF PrepaidSpec, ChargingSpec, WalletSpec, Funds!Spec

-----------------------------------------------------------------------------
(* What a settled hold says of its session.                                *)

(* A hold is settled once: released or charged, it stays so.               *)
LEMMA SettledOnce ==
  ASSUME Money, [PrepaidNext]_prepaidVars, NEW r \in CustomerRequest
  PROVE  /\ payment'[r] = "not_required"
              => payment[r] = "not_required" \/ Released(r)
         /\ payment'[r] = "captured"
              => \/ payment[r] = "captured" /\ holds'[r] = holds[r]
                 \/ Charged(r)
<1> USE DEF Money
<1> DEFINE Goal == /\ payment'[r] = "not_required"
                        => payment[r] = "not_required" \/ Released(r)
                   /\ payment'[r] = "captured"
                        => \/ payment[r] = "captured" /\ holds'[r] = holds[r]
                           \/ Charged(r)
<1>1. ASSUME payment'[r] = payment[r], holds'[r] = holds[r]
      PROVE  Goal
  BY <1>1
<1>2. ASSUME NEW other \in CustomerRequest, NEW status \in {"captured", "not_required"},
             NEW spent, Settle(other, status, spent)
      PROVE  /\ payment'[other] = status
             /\ r # other => payment'[r] = payment[r] /\ holds'[r] = holds[r]
  BY <1>2 DEF Settle, Pay, Funds!Settle, RowsOfMoney
<1>3. ASSUME NEW other \in CustomerRequest, Released(other) PROVE Goal
  <2>1. /\ payment'[other] = "not_required"
        /\ r # other => payment'[r] = payment[r] /\ holds'[r] = holds[r]
    BY <1>2, <1>3 DEF Released
  <2> QED
    BY <1>1, <1>3, <2>1
<1>4. ASSUME NEW other \in CustomerRequest, Charged(other) PROVE Goal
  <2>1. /\ payment'[other] = "captured"
        /\ r # other => payment'[r] = payment[r] /\ holds'[r] = holds[r]
    BY <1>2, <1>4 DEF Charged
  <2> QED
    BY <1>1, <1>4, <2>1
<1>5. ASSUME NEW other \in CustomerRequest, CustomerStart(other) PROVE Goal
  BY <1>1, <1>5, StartWrites
<1>6. ASSUME NEW other \in CustomerRequest, NEW status \in {"authorized", "requires_action"},
             Hold(other, status)
      PROVE  Goal
  BY <1>1, <1>6, HoldWrites
<1>7. ASSUME NEW t \in Topup, NEW amount \in Amount,
             Funds!Credit(Wallet, t, amount), UNCHANGED payment
      PROVE  Goal
  BY <1>1, <1>7 DEF Funds!Credit
<1>8. CASE UNCHANGED <<payment, walletVars>>
  BY <1>1, <1>8 DEF walletVars
<1> QED
  BY <1>3, <1>4, <1>5, <1>6, <1>7, <1>8, MoneyMoves

(* A session without a transaction that is over stays both.                *)
LEMMA UnstartedStays ==
  ASSUME Consistent, [Next]_vars, NEW s \in Session,
         state[s] \in Terminal, ~Started(s)
  PROVE  state'[s] \in Terminal /\ ~Started(s)'
<1>1. state'[s] = state[s]
  BY TerminalStep
<1>2. StartedIffPhysical /\ StartedIffPhysical'
  BY ConsistentStep DEF Consistent, SessionRows
<1> QED
  BY <1>1, <1>2 DEF StartedIffPhysical

(* A command that was answered stays answered.                             *)
LEMMA AnswerStays ==
  ASSUME Consistent, [Next]_vars, NEW c \in Command, cmd[c] \in CommandTerminal
  PROVE  cmd'[c] \in CommandTerminal
<1>1. CommandMoves(c)
  BY CommandsMove DEF Consistent
<1>2. None \notin CommandTerminal
  BY Constants DEF CommandTerminal, CommandState
<1> QED
  BY <1>1, <1>2 DEF CommandMoves, CommandTerminal

(* A hold released in full stays with a session that is over and a command *)
(* no job hands over any more.                                             *)
LEMMA FreeStep ==
  ASSUME Consistent, Money, FreeOnlyIfOver, [PrepaidNext]_prepaidVars
  PROVE  FreeOnlyIfOver'
<1> SUFFICES ASSUME NEW r \in CustomerRequest, payment'[r] = "not_required"
             PROVE  /\ state'[r] \in Terminal /\ ~Started(r)'
                    /\ cmd'[StartOf(r)] \in CommandTerminal
  BY DEF FreeOnlyIfOver, StartOf
<1>1. [Next]_vars /\ r \in Session /\ StartOf(r) \in Command
  BY ChargingStep, Constants, CommandParts DEF StartOf
<1>2. CASE payment[r] = "not_required"
  BY <1>1, <1>2, UnstartedStays, AnswerStays DEF FreeOnlyIfOver
<1>3. CASE Released(r)
  <2>1. CASE /\ UNCHANGED <<sessionVars, commandVars>>
             /\ state[r] \in Terminal \ {"completed"} /\ NeverDelivered(r)
    <3>1. state[r] \notin OccupiesConnector \cup {"review_required", "completed"}
      BY <2>1 DEF Terminal, OccupiesConnector, PhysicallyActive
    <3>2. ~Started(r)
      BY <1>1, <3>1 DEF Consistent, SessionRows, StartedIffPhysical
    <3> QED
      BY <2>1, <3>2
      DEF NeverDelivered, StartOf, CommandTerminal, CommandState, sessionVars,
          commandVars, Started
  <2>2. ASSUME CancelSession(r)
        PROVE  state'[r] \in Terminal /\ ~Started(r)'
    BY <1>1, <2>2
    DEF CancelSession, Become, Started, Consistent, Typed, SessionsTyped, Terminal
  <2>3. CASE CancelSession(r) /\ UNCHANGED commandVars
             /\ cmd[StartOf(r)] \in CommandTerminal
    BY <2>2, <2>3 DEF commandVars, StartOf
  <2>4. CASE WithdrawStart(r)
    <3>1. cmd'[StartOf(r)] = "expired"
      BY <1>1, <2>4
      DEF WithdrawStart, Consistent, Typed, CommandsTyped, StartOf
    <3> QED
      BY <2>2, <2>4, <3>1 DEF WithdrawStart, CommandTerminal, CommandState
  <2> QED
    BY <1>3, <2>1, <2>3, <2>4 DEF Released
<1> QED
  BY <1>2, <1>3, SettledOnce

(* A driver pays nothing only for a start that is over for good, whoever   *)
(* gave it up.                                                             *)
THEOREM FreeOnlyIfOverCorrect == PrepaidSpec => []FreeOnlyIfOver
<1>1. PrepaidInit => FreeOnlyIfOver
  BY Rates DEF PrepaidInit, FreeOnlyIfOver, PaymentState
<1>2. Consistent /\ Money /\ FreeOnlyIfOver /\ [PrepaidNext]_prepaidVars
        => FreeOnlyIfOver'
  BY FreeStep
<1> QED
  BY <1>1, <1>2, ImplementsCharging, AlwaysConsistent, HoldsAgree, PTL
  DEF PrepaidSpec, ChargingSpec

(* A charge stays with the record it was taken from.                       *)
LEMMA ChargeStep ==
  ASSUME Consistent, CompletedIffFinalized, Money, ChargedPerRecord,
         [PrepaidNext]_prepaidVars
  PROVE  ChargedPerRecord'
<1> SUFFICES ASSUME NEW r \in CustomerRequest, payment'[r] = "captured"
             PROVE  /\ state'[r] = "completed"
                    /\ holds'[r].spent <= Budget
                    /\ \E i \in Finalized(r)' :
                         /\ records'[r][i].outcome = "complete"
                         /\ records'[r][i].total = holds'[r].spent
  BY DEF ChargedPerRecord
<1>1. [Next]_vars /\ r \in Session
  BY ChargingStep, Constants, CommandParts
<1>2. CASE payment[r] = "captured" /\ holds'[r] = holds[r]
  <2>1. PICK i \in Finalized(r) : /\ records[r][i].outcome = "complete"
                                /\ records[r][i].total = holds[r].spent
    BY <1>2 DEF ChargedPerRecord
  <2>2. i \in DOMAIN records'[r] /\ records'[r][i] = records[r][i]
    BY <1>1, FinalizedStep
  <2>3. i \in Finalized(r)'
    BY <2>2 DEF Finalized
  <2>4. state'[r] = "completed"
    BY <1>1, <1>2, CompletedStays DEF ChargedPerRecord
  <2> QED
    BY <1>2, <2>1, <2>2, <2>3, <2>4 DEF ChargedPerRecord
<1>3. CASE Charged(r)
  <2>1. PICK i \in Finalized(r) : FinalRecord(r) = records[r][i]
    BY <1>3, FinalRecordIs DEF Charged
  <2>2. holds'[r].spent = FinalRecord(r).total
    BY <1>3, ChargeIsAmount, SettleWrites DEF Charged, Money, PaymentState
  <2>3. state' = state /\ records' = records
    BY <1>3 DEF Charged, sessionVars
  <2>4. Finalized(r)' = Finalized(r)
    BY <2>3 DEF Finalized
  <2> QED
    BY <1>3, <2>1, <2>2, <2>3, <2>4 DEF Charged, Chargeable
<1> QED
  BY <1>2, <1>3, SettledOnce

(* What a driver pays is the total of a finalized, complete record of that *)
(* very session, within the approved budget.                               *)
THEOREM ChargedPerRecordCorrect == PrepaidSpec => []ChargedPerRecord
<1>1. PrepaidInit => ChargedPerRecord
  BY Rates DEF PrepaidInit, ChargedPerRecord, PaymentState
<1>2. Consistent /\ CompletedIffFinalized /\ Money /\ ChargedPerRecord
        /\ [PrepaidNext]_prepaidVars
        => ChargedPerRecord'
  BY ChargeStep
<1> QED
  BY <1>1, <1>2, ImplementsCharging, AlwaysConsistent, CompletedAreFinalized,
     HoldsAgree, PTL
  DEF PrepaidSpec, ChargingSpec

-----------------------------------------------------------------------------
(* The theorems of the wallet, for the driver's.                           *)

Books == INSTANCE PrepaidWalletProofs WITH
           Account <- {Wallet}, Driver <- {Wallet}, Reference <- CustomerRequest

(* What the wallet asks of its constants holds of the driver's.            *)
LEMMA BooksConstants == Books!WalletConstants
  BY Rates, Constants, ConstantsOK
  DEF PrepaidHold, PrepaidEntry, Books!Hold, Books!Entry, Books!WalletConstants

(* Both instances of the wallet have the same behaviours.                  *)
LEMMA SameWallet == WalletSpec => Books!Spec
<1>1. Funds!Init => Books!Init
  BY DEF Funds!Init, Books!Init
<1>2. [Funds!Next]_Funds!walletVars => [Books!Next]_Books!walletVars
  BY DEF Funds!Next, Books!Next, Funds!walletVars, Books!walletVars,
         Funds!ledgerVars, Books!ledgerVars, Funds!Credit, Books!Credit,
         Funds!Reserve, Books!Reserve, Funds!Settle, Books!Settle,
         Funds!SetLimit, Books!SetLimit, Funds!WithinCap, Books!WithinCap,
         Funds!Affordable, Books!Affordable, Funds!Available, Books!Available,
         Funds!Active, Books!Active, Funds!PostCharge, Books!PostCharge
<1> QED
  BY <1>1, <1>2, PTL DEF WalletSpec, Funds!Spec, Books!Spec

(* Whatever driver, monitor, operators and charger do, the driver's wallet *)
(* adds up: its columns are the sums over its top-ups and holds, the holds *)
(* are covered, and the ledger owes the balance.                           *)
THEOREM WalletAddsUp ==
  PrepaidSpec => [](Books!RowsAddUp /\ Books!HoldsCovered /\ Books!LedgerOwesBalance)
  BY BooksConstants, Books!SumsCorrect, Books!HoldsAlwaysCovered,
     Books!LedgerAgrees, ImplementsWallet, SameWallet, PTL

(* Withdrawals and evidence are of the driver's requests.                  *)
Signals ==
  withdrawn \subseteq CustomerRequest
  /\ idle \subseteq CustomerRequest /\ obscured \subseteq CustomerRequest

(* Only requests are withdrawn, found idle or obscured.                    *)
LEMMA SignalsStep == Signals /\ [PrepaidNext]_prepaidVars => Signals'
<1> SUFFICES ASSUME Signals, [PrepaidNext]_prepaidVars PROVE Signals'
  OBVIOUS
<1> USE DEF Signals
<1>1. ASSUME NEW r \in CustomerRequest,
             CustomerStart(r) \/ CustomerCancel(r) \/ Monitor(r)
      PROVE  Signals'
  <2>1. ASSUME NEW wanted, Reconcile(r, wanted) PROVE UNCHANGED signalVars
    BY <2>1 DEF Reconcile, Unrelated
  <2>2. UNCHANGED signalVars
    BY <1>1, <2>1 DEF CustomerStart, CustomerCancel, Monitor
  <2>3. withdrawn' \subseteq withdrawn \cup {r}
    BY <1>1 DEF CustomerStart, CustomerCancel, Monitor
  <2> QED
    BY <2>2, <2>3 DEF signalVars
<1>2. ASSUME NEW t \in Topup, NEW amount \in Amount, Credit(t, amount)
      PROVE  Signals'
  BY <1>2 DEF Credit, ownerVars, signalVars
<1>3. ASSUME NEW status \in Reported, Report(status) PROVE Signals'
  BY <1>3 DEF Report, Overdue, ownerVars
<1>4. CASE Observe /\ UNCHANGED ownerVars
  BY <1>4 DEF Observe, ownerVars
<1>5. CASE UNCHANGED prepaidVars
  BY <1>5 DEF prepaidVars, ownerVars, signalVars
<1> QED
  BY <1>1, <1>2, <1>3, <1>4, <1>5 DEF PrepaidNext

(* The ownership rows, the signals and the wallet hold values of their     *)
(* columns.                                                                *)
THEOREM PrepaidTypeCorrect == PrepaidSpec => []PrepaidTypeOK
<1>1. PrepaidInit => Signals
  BY DEF PrepaidInit, Signals
<1>2. Books!TypeOK => Funds!TypeOK
  BY DEF Books!TypeOK, Funds!TypeOK, Books!Hold, Funds!Hold, Books!Entry, Funds!Entry
<1>3. Money /\ Signals /\ Funds!TypeOK => PrepaidTypeOK
  BY DEF Money, RowsOfMoney, Signals, PrepaidTypeOK
<1> QED
  BY <1>1, <1>2, <1>3, SignalsStep, HoldsAgree, BooksConstants, Books!TypeOKCorrect,
     ImplementsWallet, SameWallet, PTL DEF PrepaidSpec
=============================================================================
