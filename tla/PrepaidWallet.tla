---------------------------- MODULE PrepaidWallet ----------------------------
(***************************************************************************)
(* Prepaid wallets: funds credited by top-ups, held for a charging session *)
(* and settled once against its final charge, with the ledger postings of  *)
(* the live book.  Every operation is one transaction holding the lock of  *)
(* the wallet's row; an operation that throws changes nothing, and so does *)
(* the repetition of one that took place.                                  *)
(***************************************************************************)
EXTENDS Integers, FiniteSets, Functions

CONSTANTS
  Account,     \* wallets: a driver's own, a charging account's
  Driver,      \* the driver a spending limit is set for
  Reference,   \* charging sessions
  Topup,       \* confirmed top-ups
  Amount,      \* amounts credited, held and spent
  None

VARIABLES
  balance,     \* prepaid_accounts.balance_minor
  holding,     \* prepaid_accounts.reserved_minor
  limit,       \* prepaid_spending_limits of a driver on an account
  topups,      \* 'topup' entries: wallet and amount
  holds,       \* prepaid_reservations
  liability,   \* ledger: credit balance of the wallet's liability account
  clearing,    \* ledger: debit balance of the provider clearing account
  receivable   \* ledger: credit balance taken from accounts receivable

ledgerVars == <<liability, clearing, receivable>>
walletVars == <<balance, holding, limit, topups, holds, ledgerVars>>

Hold == [account : Account, amount : Amount, spent : Amount \cup {None}]
Entry == [account : Account, amount : Amount]

(* The null value is no amount and no row.                                 *)
ASSUME WalletConstants ==
  /\ Amount \subseteq Nat
  /\ None \notin Nat \cup Hold \cup Entry

Init ==
  /\ balance = [a \in Account |-> 0]
  /\ holding = [a \in Account |-> 0]
  /\ limit = [a \in Account |-> [d \in Driver |-> None]]
  /\ topups = [t \in Topup |-> None]
  /\ holds = [r \in Reference |-> None]
  /\ liability = [a \in Account |-> 0]
  /\ clearing = 0 /\ receivable = 0

(* credit(): a reference is credited to its wallet once.                   *)
Credit(a, t, amount) ==
  /\ amount > 0
  /\ topups[t] = None
  /\ topups' = [topups EXCEPT ![t] = [account |-> a, amount |-> amount]]
  /\ balance' = [balance EXCEPT ![a] = @ + amount]
  /\ clearing' = clearing + amount
  /\ liability' = [liability EXCEPT ![a] = @ + amount]
  /\ UNCHANGED <<holding, limit, holds, receivable>>

(* sessionCap(): a limit only ever lowers what a session may hold.         *)
WithinCap(a, d, amount) == limit[a][d] # None => amount <= limit[a][d]

Available(a) == balance[a] - holding[a]

(* Mutant: funds already on hold count as available.                       *)
AffordableByBalance(a, amount) == amount <= balance[a]

(* Mutant: the balance is not looked at.                                   *)
AffordableAnyway(a, amount) == amount > 0

Affordable(a, amount) == amount <= Available(a)

(* reserve(): before charging starts.                                      *)
Reserve(a, d, r, amount) ==
  /\ amount > 0
  /\ holds[r] = None
  /\ WithinCap(a, d, amount)
  /\ Affordable(a, amount)
  /\ holds' = [holds EXCEPT ![r] =
                 [account |-> a, amount |-> amount, spent |-> None]]
  /\ holding' = [holding EXCEPT ![a] = @ + amount]
  /\ UNCHANGED <<balance, limit, topups, ledgerVars>>

(* Mutant: a settled hold can be settled again.                            *)
Placed(r) == holds[r] # None

Active(r) == holds[r] # None /\ holds[r].spent = None

(* Mutant: the revenue is posted, the liability is not.                    *)
PostRevenueOnly(a, amount) ==
  /\ receivable' = receivable + amount
  /\ UNCHANGED liability

(* The ledger transaction of a charge.                                     *)
PostCharge(a, amount) ==
  /\ receivable' = receivable + amount
  /\ liability' = [liability EXCEPT ![a] = @ - amount]

(* settle(): the final charge is spent, the rest of the hold released.     *)
Settle(r, spent) ==
  /\ Active(r)
  /\ spent <= holds[r].amount
  /\ LET a == holds[r].account IN
     /\ balance' = [balance EXCEPT ![a] = @ - spent]
     /\ holding' = [holding EXCEPT ![a] = @ - holds[r].amount]
     /\ PostCharge(a, spent)
  /\ holds' = [holds EXCEPT ![r].spent = spent]
  /\ UNCHANGED <<limit, topups, clearing>>

(* setLimit(): holds already placed keep their amount.                     *)
SetLimit(a, d, amount) ==
  /\ limit[a][d] # amount
  /\ limit' = [limit EXCEPT ![a][d] = amount]
  /\ UNCHANGED <<balance, holding, topups, holds, ledgerVars>>

Next ==
  \/ \E a \in Account, t \in Topup, amount \in Amount : Credit(a, t, amount)
  \/ \E a \in Account, d \in Driver, r \in Reference, amount \in Amount :
       Reserve(a, d, r, amount)
  \/ \E r \in Reference, spent \in Amount : Settle(r, spent)
  \/ \E a \in Account, d \in Driver, amount \in Amount \cup {None} :
       SetLimit(a, d, amount)

Spec == Init /\ [][Next]_walletVars

-----------------------------------------------------------------------------

(* Rows hold whole minor units, and neither a balance nor the sum on hold  *)
(* is ever negative.                                                       *)
TypeOK ==
  /\ balance \in [Account -> Nat]
  /\ holding \in [Account -> Nat]
  /\ limit \in [Account -> [Driver -> Amount \cup {None}]]
  /\ topups \in [Topup -> Entry \cup {None}]
  /\ holds \in [Reference -> Hold \cup {None}]
  /\ liability \in [Account -> Int]
  /\ clearing \in Int /\ receivable \in Int

(* Funds on hold are always covered by the balance, so every hold can be   *)
(* settled in full and the CHECK of prepaid_accounts never fires.          *)
HoldsCovered == \A a \in Account : holding[a] <= balance[a]

(* The wallet's balance is what the ledger owes its owner.                 *)
LedgerOwesBalance == \A a \in Account : liability[a] = balance[a]

HoldsOf(a)  == {r \in Reference : holds[r] # None /\ holds[r].account = a}
TopupsOf(a) == {t \in Topup : topups[t] # None /\ topups[t].account = a}
SpentOf(a)  == {r \in HoldsOf(a) : holds[r].spent # None}

(* The columns that are summed up.                                         *)
Held     == [r \in Reference |-> holds[r].amount]
Spent    == [r \in Reference |-> holds[r].spent]
Credited == [t \in Topup |-> topups[t].amount]

(* reserved_minor is the sum of the holds not settled yet, and the balance *)
(* is what was credited less what was spent: nothing is held, released or  *)
(* spent twice.                                                            *)
RowsAddUp ==
  \A a \in Account :
    /\ holding[a] = SumFunctionOnSet(Held, HoldsOf(a) \ SpentOf(a))
    /\ balance[a] = SumFunctionOnSet(Credited, TopupsOf(a))
                      - SumFunctionOnSet(Spent, SpentOf(a))

(* A settlement is final: neither its amount nor its wallet ever changes.  *)
SettlementFinal ==
  [][\A r \in Reference :
       holds[r] # None /\ holds[r].spent # None
         => holds'[r] = holds[r]]_walletVars
=============================================================================
