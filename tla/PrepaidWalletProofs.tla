------------------------- MODULE PrepaidWalletProofs -------------------------
(***************************************************************************)
(* Theorems about PrepaidWallet, for any wallets, sessions, top-ups and    *)
(* amounts: the CHECK constraint of prepaid_accounts never fires, the      *)
(* ledger agrees with the wallet, and a settlement is final.               *)
(***************************************************************************)
EXTENDS PrepaidWallet, SumProofs, TLAPS

(* Amounts are whole and never the absent value.                           *)
LEMMA Amounts ==
  Amount \subseteq Nat /\ None \notin Nat /\ None \notin Hold /\ None \notin Entry
  BY WalletConstants

USE Amounts

(* The part of TypeOK that is inductive.  That neither a balance nor the   *)
(* sum on hold is negative follows only from RowsAddUp.                    *)
RowsTyped ==
  /\ balance \in [Account -> Int]
  /\ holding \in [Account -> Int]
  /\ limit \in [Account -> [Driver -> Amount \cup {None}]]
  /\ topups \in [Topup -> Entry \cup {None}]
  /\ holds \in [Reference -> Hold \cup {None}]
  /\ liability \in [Account -> Int]
  /\ clearing \in Int /\ receivable \in Int

(* Every operation of the wallet keeps its rows and ledger well typed.     *)
LEMMA TypeStep == RowsTyped /\ [Next]_walletVars => RowsTyped'
<1> SUFFICES ASSUME RowsTyped, [Next]_walletVars PROVE RowsTyped'
  OBVIOUS
<1>1. ASSUME NEW a \in Account, NEW t \in Topup, NEW amount \in Amount,
             Credit(a, t, amount)
      PROVE  RowsTyped'
  <2>1. amount \in Nat
    OBVIOUS
  <2>2. topups' \in [Topup -> Entry \cup {None}]
    BY <1>1 DEF RowsTyped, Credit, Entry
  <2>3. balance' \in [Account -> Int] /\ liability' \in [Account -> Int]
        /\ clearing' \in Int
    BY <1>1, <2>1 DEF RowsTyped, Credit
  <2> QED
    BY <1>1, <2>2, <2>3 DEF RowsTyped, Credit
<1>2. ASSUME NEW a \in Account, NEW d \in Driver, NEW r \in Reference,
             NEW amount \in Amount, Reserve(a, d, r, amount)
      PROVE  RowsTyped'
  <2>1. amount \in Nat
    OBVIOUS
  <2>2. [account |-> a, amount |-> amount, spent |-> None] \in Hold
    BY DEF Hold
  <2>3. holds' \in [Reference -> Hold \cup {None}]
    BY <1>2, <2>2 DEF RowsTyped, Reserve
  <2>4. holding' \in [Account -> Int]
    BY <1>2, <2>1 DEF RowsTyped, Reserve
  <2> QED
    BY <1>2, <2>3, <2>4 DEF RowsTyped, Reserve, ledgerVars
<1>3. ASSUME NEW r \in Reference, NEW spent \in Amount, Settle(r, spent)
      PROVE  RowsTyped'
  <2>1. holds[r] \in Hold /\ holds[r].account \in Account
        /\ holds[r].amount \in Nat /\ spent \in Nat
    BY <1>3 DEF RowsTyped, Settle, Active, Hold
  <2>2. holds' \in [Reference -> Hold \cup {None}]
    BY <1>3, <2>1 DEF RowsTyped, Settle, Hold
  <2> QED
    BY <1>3, <2>1, <2>2 DEF RowsTyped, Settle, PostCharge
<1>4. ASSUME NEW a \in Account, NEW d \in Driver,
             NEW amount \in Amount \cup {None}, SetLimit(a, d, amount)
      PROVE  RowsTyped'
  BY <1>4 DEF RowsTyped, SetLimit, ledgerVars
<1>5. CASE UNCHANGED walletVars
  BY <1>5 DEF RowsTyped, walletVars, ledgerVars
<1> QED
  BY <1>1, <1>2, <1>3, <1>4, <1>5 DEF Next

(* Rows and ledger balances stay whole minor units.                        *)
THEOREM TypeCorrect == Spec => []RowsTyped
<1>1. Init => RowsTyped
  BY DEF Init, RowsTyped, Hold
<1> QED
  BY <1>1, TypeStep, PTL DEF Spec

-----------------------------------------------------------------------------

(* What Settle() of PrepaidWallet relies on: the amount that leaves the    *)
(* balance never exceeds the amount that leaves the holds.                 *)
LEMMA CoveredStep ==
  RowsTyped /\ HoldsCovered /\ [Next]_walletVars => HoldsCovered'
<1> SUFFICES ASSUME RowsTyped, HoldsCovered, [Next]_walletVars,
                    NEW b \in Account
             PROVE  holding'[b] <= balance'[b]
  BY DEF HoldsCovered
<1>0. holding[b] <= balance[b] /\ holding[b] \in Int /\ balance[b] \in Int
  BY DEF RowsTyped, HoldsCovered
<1>1. ASSUME NEW a \in Account, NEW t \in Topup, NEW amount \in Amount,
             Credit(a, t, amount)
      PROVE  holding'[b] <= balance'[b]
  <2>1. amount \in Nat
    OBVIOUS
  <2>2. holding' = holding /\ balance' = [balance EXCEPT ![a] = @ + amount]
    BY <1>1 DEF Credit
  <2> QED
    BY <1>0, <2>1, <2>2 DEF RowsTyped
<1>2. ASSUME NEW a \in Account, NEW d \in Driver, NEW r \in Reference,
             NEW amount \in Amount, Reserve(a, d, r, amount)
      PROVE  holding'[b] <= balance'[b]
  <2>1. amount \in Nat
    OBVIOUS
  <2>2. /\ amount <= balance[a] - holding[a] /\ balance' = balance
        /\ holding' = [holding EXCEPT ![a] = @ + amount]
    BY <1>2 DEF Reserve, Affordable, Available
  <2> QED
    BY <1>0, <2>1, <2>2 DEF RowsTyped
<1>3. ASSUME NEW r \in Reference, NEW spent \in Amount, Settle(r, spent)
      PROVE  holding'[b] <= balance'[b]
  <2>1. holds[r].amount \in Nat /\ spent \in Nat /\ spent <= holds[r].amount
    BY <1>3 DEF RowsTyped, Settle, Active, Hold
  <2> QED
    BY <1>0, <1>3, <2>1 DEF RowsTyped, Settle
<1>4. ASSUME NEW a \in Account, NEW d \in Driver,
             NEW amount \in Amount \cup {None}, SetLimit(a, d, amount)
      PROVE  holding'[b] <= balance'[b]
  BY <1>0, <1>4 DEF SetLimit
<1>5. CASE UNCHANGED walletVars
  BY <1>0, <1>5 DEF walletVars
<1> QED
  BY <1>1, <1>2, <1>3, <1>4, <1>5 DEF Next

(* The funds on hold never exceed the balance, whatever top-ups, holds,    *)
(* settlements and limits follow each other.                               *)
THEOREM HoldsAlwaysCovered == Spec => []HoldsCovered
<1>1. Init => HoldsCovered
  BY DEF Init, HoldsCovered
<1> QED
  BY <1>1, TypeCorrect, CoveredStep, PTL DEF Spec

-----------------------------------------------------------------------------

(* The ledger owes every owner exactly the balance of the wallet.          *)
THEOREM LedgerAgrees == Spec => []LedgerOwesBalance
<1>1. Init => LedgerOwesBalance
  BY DEF Init, LedgerOwesBalance
<1>2. RowsTyped /\ LedgerOwesBalance /\ [Next]_walletVars => LedgerOwesBalance'
  <2> SUFFICES ASSUME RowsTyped, LedgerOwesBalance, [Next]_walletVars
               PROVE  LedgerOwesBalance'
    OBVIOUS
  <2>1. ASSUME NEW a \in Account, NEW t \in Topup, NEW amount \in Amount,
               Credit(a, t, amount)
        PROVE  LedgerOwesBalance'
    <3>1. /\ balance' = [balance EXCEPT ![a] = @ + amount]
          /\ liability' = [liability EXCEPT ![a] = @ + amount]
      BY <2>1 DEF Credit
    <3> QED
      BY <3>1 DEF RowsTyped, LedgerOwesBalance
  <2>2. ASSUME NEW r \in Reference, NEW spent \in Amount, Settle(r, spent)
        PROVE  LedgerOwesBalance'
    <3> DEFINE a == holds[r].account
    <3>1. /\ balance' = [balance EXCEPT ![a] = @ - spent]
          /\ liability' = [liability EXCEPT ![a] = @ - spent]
      BY <2>2 DEF Settle, PostCharge
    <3> QED
      BY <3>1 DEF RowsTyped, LedgerOwesBalance
  <2>3. CASE UNCHANGED <<balance, liability>>
    BY <2>3 DEF LedgerOwesBalance
  <2> QED
    BY <2>1, <2>2, <2>3
    DEF Next, Reserve, SetLimit, walletVars, ledgerVars
<1> QED
  BY <1>1, <1>2, TypeCorrect, PTL DEF Spec

-----------------------------------------------------------------------------

(* Only finitely many holds and top-ups were ever written.                 *)
FiniteRows ==
  /\ IsFiniteSet({r \in Reference : holds[r] # None})
  /\ IsFiniteSet({t \in Topup : topups[t] # None})

(* An operation writes one row at most.                                    *)
LEMMA FiniteStep == RowsTyped /\ FiniteRows /\ [Next]_walletVars => FiniteRows'
<1> SUFFICES ASSUME RowsTyped, FiniteRows, [Next]_walletVars PROVE FiniteRows'
  OBVIOUS
<1> DEFINE H == {r \in Reference : holds[r] # None}
           T == {t \in Topup : topups[t] # None}
<1>0. IsFiniteSet(H) /\ IsFiniteSet(T)
  BY DEF FiniteRows
<1>1. ASSUME NEW a \in Account, NEW t \in Topup, NEW amount \in Amount,
             Credit(a, t, amount)
      PROVE  FiniteRows'
  <2>1. IsFiniteSet(T \cup {t}) /\ T' \subseteq T \cup {t} /\ H' = H
    BY <1>0, <1>1, FS_AddElement DEF RowsTyped, Credit
  <2> QED
    BY <1>0, <2>1, FS_Subset DEF FiniteRows
<1>2. ASSUME NEW r \in Reference, T' = T, H' \subseteq H \cup {r}
      PROVE  FiniteRows'
  <2>1. IsFiniteSet(H \cup {r})
    BY <1>0, FS_AddElement
  <2> QED
    BY <1>0, <1>2, <2>1, FS_Subset DEF FiniteRows
<1>3. ASSUME NEW a \in Account, NEW d \in Driver, NEW r \in Reference,
             NEW amount \in Amount, Reserve(a, d, r, amount)
      PROVE  FiniteRows'
  BY <1>2, <1>3 DEF RowsTyped, Reserve
<1>4. ASSUME NEW r \in Reference, NEW spent \in Amount, Settle(r, spent)
      PROVE  FiniteRows'
  BY <1>2, <1>4 DEF RowsTyped, Settle
<1>5. CASE UNCHANGED <<holds, topups>>
  BY <1>0, <1>5 DEF FiniteRows
<1> QED
  BY <1>1, <1>3, <1>4, <1>5 DEF Next, SetLimit, walletVars

(* At any time finitely many rows exist, so they can be summed up.         *)
THEOREM RowsFinite == Spec => []FiniteRows
<1>1. Init => FiniteRows
  BY FS_EmptySet DEF Init, FiniteRows
<1> QED
  BY <1>1, FiniteStep, TypeCorrect, PTL DEF Spec

(* What RowsAddUp sums up for a wallet: finitely many amounts.             *)
LEMMA Columns ==
  ASSUME RowsTyped, FiniteRows, NEW a \in Account
  PROVE  /\ IsFiniteSet(HoldsOf(a) \ SpentOf(a))
         /\ IsFiniteSet(SpentOf(a)) /\ IsFiniteSet(TopupsOf(a))
         /\ \A r \in HoldsOf(a) : Held[r] \in Nat
         /\ \A r \in SpentOf(a) : Spent[r] \in Nat
         /\ \A t \in TopupsOf(a) : Credited[t] \in Nat
         /\ SumFunctionOnSet(Held, HoldsOf(a) \ SpentOf(a)) \in Nat
         /\ SumFunctionOnSet(Spent, SpentOf(a)) \in Nat
         /\ SumFunctionOnSet(Credited, TopupsOf(a)) \in Nat
<1>1. /\ IsFiniteSet(HoldsOf(a) \ SpentOf(a))
      /\ IsFiniteSet(SpentOf(a)) /\ IsFiniteSet(TopupsOf(a))
  BY FS_Subset DEF FiniteRows, HoldsOf, SpentOf, TopupsOf
<1>2. \A r \in HoldsOf(a) : Held[r] \in Nat
  BY DEF RowsTyped, HoldsOf, Held, Hold
<1>3. \A r \in SpentOf(a) : Spent[r] \in Nat
  BY DEF RowsTyped, HoldsOf, SpentOf, Spent, Hold
<1>4. \A t \in TopupsOf(a) : Credited[t] \in Nat
  BY DEF RowsTyped, TopupsOf, Credited, Entry
<1> QED
  BY <1>1, <1>2, <1>3, <1>4, SumType

(* Both sums of RowsAddUp for one wallet.                                  *)
AddsUp(a) ==
  /\ holding[a] = SumFunctionOnSet(Held, HoldsOf(a) \ SpentOf(a))
  /\ balance[a] = SumFunctionOnSet(Credited, TopupsOf(a))
                    - SumFunctionOnSet(Spent, SpentOf(a))

(* Each operation changes one row and the sums it belongs to.              *)
LEMMA AddsUpStep ==
  ASSUME RowsTyped, FiniteRows, RowsAddUp, [Next]_walletVars, NEW b \in Account
  PROVE  AddsUp(b)'
<1> DEFINE open == HoldsOf(b) \ SpentOf(b)
           settled == SpentOf(b)
           credits == TopupsOf(b)
           held == SumFunctionOnSet(Held, open)
           spentSum == SumFunctionOnSet(Spent, settled)
           credited == SumFunctionOnSet(Credited, credits)
<1>0. holding[b] = held /\ balance[b] = credited - spentSum
  BY DEF RowsAddUp
<1>1. /\ IsFiniteSet(open) /\ IsFiniteSet(settled) /\ IsFiniteSet(credits)
      /\ \A r \in open : Held[r] \in Int
      /\ \A r \in settled : Spent[r] \in Int
      /\ \A t \in credits : Credited[t] \in Int
      /\ held \in Nat /\ spentSum \in Nat /\ credited \in Nat
  <2>1. \A r \in open : r \in HoldsOf(b)
    OBVIOUS
  <2> QED
    BY <2>1, Columns
<1>2. ASSUME holds' = holds
      PROVE  held' = held /\ spentSum' = spentSum
  BY <1>2 DEF Held, Spent, HoldsOf, SpentOf
<1>3. ASSUME topups' = topups
      PROVE  credited' = credited
  BY <1>3 DEF Credited, TopupsOf
<1>4. ASSUME NEW a \in Account, NEW t \in Topup, NEW amount \in Amount,
             Credit(a, t, amount)
      PROVE  AddsUp(b)'
  <2>1. /\ topups' = [topups EXCEPT ![t] = [account |-> a, amount |-> amount]]
        /\ balance' = [balance EXCEPT ![a] = @ + amount]
        /\ holding' = holding /\ holds' = holds /\ topups[t] = None
    BY <1>4 DEF Credit
  <2>2. t \notin credits /\ amount \in Int
    BY <2>1 DEF TopupsOf
  <2>3. Credited'[t] = amount
    BY <2>1 DEF RowsTyped, Credited
  <2>6. \A u \in credits : Credited'[u] = Credited[u]
    BY <2>1 DEF RowsTyped, TopupsOf, Credited
  <2>0. [account |-> a, amount |-> amount] \in Entry
    BY DEF Entry
  <2>4. CASE b = a
    <3>1. credits' = credits \cup {t}
      BY <2>0, <2>1, <2>4 DEF RowsTyped, TopupsOf
    <3>2. credited' = amount + credited
      BY <1>1, <2>2, <2>3, <2>6, <3>1, SumAdd
    <3>3. balance'[b] = balance[b] + amount
      BY <2>1, <2>4 DEF RowsTyped
    <3> QED
      BY <1>0, <1>1, <1>2, <2>1, <2>2, <3>2, <3>3 DEF AddsUp
  <2>5. CASE b # a
    <3>1. credits' = credits
      BY <2>1, <2>5 DEF RowsTyped, TopupsOf
    <3>2. credited' = credited
      BY <1>1, <2>6, <3>1, SumSame
    <3>3. balance'[b] = balance[b]
      BY <2>1, <2>5 DEF RowsTyped
    <3> QED
      BY <1>0, <1>2, <2>1, <3>2, <3>3 DEF AddsUp
  <2> QED
    BY <2>4, <2>5
<1>5. ASSUME NEW a \in Account, NEW d \in Driver, NEW r \in Reference,
             NEW amount \in Amount, Reserve(a, d, r, amount)
      PROVE  AddsUp(b)'
  <2>1. /\ holds' = [holds EXCEPT ![r] =
                       [account |-> a, amount |-> amount, spent |-> None]]
        /\ holding' = [holding EXCEPT ![a] = @ + amount]
        /\ balance' = balance /\ topups' = topups /\ holds[r] = None
    BY <1>5 DEF Reserve
  <2>2. r \notin open /\ r \notin settled /\ amount \in Int
    BY <2>1 DEF HoldsOf, SpentOf
  <2>3. Held'[r] = amount
    BY <2>1 DEF RowsTyped, Held
  <2>8. \A q \in open : Held'[q] = Held[q]
    BY <2>1 DEF RowsTyped, HoldsOf, Held
  <2>9. \A q \in settled : Spent'[q] = Spent[q]
    BY <2>1 DEF RowsTyped, HoldsOf, SpentOf, Spent
  <2>0. [account |-> a, amount |-> amount, spent |-> None] \in Hold
    BY DEF Hold
  <2>4. settled' = settled
    BY <2>1 DEF RowsTyped, HoldsOf, SpentOf
  <2>5. spentSum' = spentSum
    BY <1>1, <2>4, <2>9, SumSame
  <2>6. CASE b = a
    <3>1. open' = open \cup {r}
      BY <2>0, <2>1, <2>6 DEF RowsTyped, HoldsOf, SpentOf
    <3>2. held' = amount + held
      <4> HIDE DEF open
      <4> QED
        BY <1>1, <2>2, <2>3, <2>8, <3>1, SumAdd
    <3>3. holding'[b] = holding[b] + amount
      BY <2>1, <2>6 DEF RowsTyped
    <3> QED
      BY <1>0, <1>1, <1>3, <2>1, <2>2, <2>5, <3>2, <3>3 DEF AddsUp
  <2>7. CASE b # a
    <3>1. open' = open
      BY <2>1, <2>7 DEF RowsTyped, HoldsOf, SpentOf
    <3>2. held' = held
      BY <1>1, <2>8, <3>1, SumSame
    <3>3. holding'[b] = holding[b]
      BY <2>1, <2>7 DEF RowsTyped
    <3> QED
      BY <1>0, <1>3, <2>1, <2>5, <3>2, <3>3 DEF AddsUp
  <2> QED
    BY <2>6, <2>7
<1>6. ASSUME NEW r \in Reference, NEW spent \in Amount, Settle(r, spent)
      PROVE  AddsUp(b)'
  <2> DEFINE a == holds[r].account
  <2>1. /\ holds' = [holds EXCEPT ![r].spent = spent]
        /\ balance' = [balance EXCEPT ![a] = @ - spent]
        /\ holding' = [holding EXCEPT ![a] = @ - holds[r].amount]
        /\ topups' = topups /\ holds[r] # None /\ holds[r].spent = None
    BY <1>6 DEF Settle, Active
  <2>2. holds[r] \in Hold /\ a \in Account /\ spent \in Nat
    BY <2>1 DEF RowsTyped, Hold
  <2>3. r \notin settled /\ Spent'[r] = spent
    BY <2>1, <2>2 DEF RowsTyped, SpentOf, Spent, Hold
  <2>4. /\ \A q \in settled : Spent'[q] = Spent[q]
        /\ \A q \in open : Held'[q] = Held[q]
    BY <2>1, <2>2 DEF RowsTyped, HoldsOf, SpentOf, Held, Spent, Hold
  <2>5. CASE b = a
    <3>1. r \in open /\ open' = open \ {r} /\ settled' = settled \cup {r}
          /\ Held[r] = holds[r].amount
      BY <2>1, <2>2, <2>5 DEF RowsTyped, HoldsOf, SpentOf, Hold, Held
    <3>2. held = Held[r] + SumFunctionOnSet(Held, open \ {r})
      BY <1>1, <3>1, SumRemove
    <3>3. IsFiniteSet(open \ {r}) /\ SumFunctionOnSet(Held, open \ {r}) \in Int
      BY <1>1, FS_Subset, SumType
    <3>4. held' = SumFunctionOnSet(Held, open \ {r})
      BY <2>4, <3>1, <3>3, SumSame
    <3>5. spentSum' = spent + spentSum
      BY <1>1, <2>2, <2>3, <2>4, <3>1, SumAdd
    <3>6. balance'[b] = balance[b] - spent /\ holding'[b] = holding[b] - Held[r]
      BY <2>1, <2>5, <3>1 DEF RowsTyped
    <3>7. Held[r] \in Int
      BY <1>1, <3>1
    <3>8. held' = held - Held[r]
      BY <3>2, <3>3, <3>4, <3>7
    <3> QED
      BY <1>0, <1>1, <1>3, <2>1, <2>2, <3>5, <3>6, <3>7, <3>8 DEF AddsUp
  <2>6. CASE b # a
    <3>1. open' = open /\ settled' = settled
      BY <2>1, <2>2, <2>6 DEF RowsTyped, HoldsOf, SpentOf, Hold
    <3>2. held' = held /\ spentSum' = spentSum
      BY <1>1, <2>4, <3>1, SumSame
    <3>3. balance'[b] = balance[b] /\ holding'[b] = holding[b]
      BY <2>1, <2>6 DEF RowsTyped
    <3> QED
      BY <1>0, <1>3, <2>1, <3>2, <3>3 DEF AddsUp
  <2> QED
    BY <2>5, <2>6
<1>7. CASE UNCHANGED <<balance, holding, topups, holds>>
  BY <1>0, <1>2, <1>3, <1>7 DEF AddsUp
<1> QED
  BY <1>4, <1>5, <1>6, <1>7 DEF Next, SetLimit, walletVars

(* reserved_minor is the sum of the holds not settled, and the balance the *)
(* sum of the top-ups less the sum of the settlements, whatever operations *)
(* follow each other.                                                      *)
THEOREM SumsCorrect == Spec => []RowsAddUp
<1>1. Init => RowsAddUp
  <2> SUFFICES ASSUME Init, NEW a \in Account PROVE AddsUp(a)
    BY DEF RowsAddUp, AddsUp
  <2>1. HoldsOf(a) \ SpentOf(a) = {} /\ SpentOf(a) = {} /\ TopupsOf(a) = {}
    BY DEF Init, HoldsOf, SpentOf, TopupsOf
  <2>2. /\ SumFunctionOnSet(Held, HoldsOf(a) \ SpentOf(a)) = 0
        /\ SumFunctionOnSet(Spent, SpentOf(a)) = 0
        /\ SumFunctionOnSet(Credited, TopupsOf(a)) = 0
    BY <2>1, SumEmpty
  <2> QED
    BY <2>2 DEF Init, AddsUp
<1>2. RowsTyped /\ FiniteRows /\ RowsAddUp /\ [Next]_walletVars => RowsAddUp'
  BY AddsUpStep DEF AddsUp, RowsAddUp
<1> QED
  BY <1>1, <1>2, TypeCorrect, RowsFinite, PTL DEF Spec

(* Neither a balance nor the sum on hold is ever negative.                 *)
THEOREM TypeOKCorrect == Spec => []TypeOK
<1>1. RowsTyped /\ FiniteRows /\ RowsAddUp /\ HoldsCovered => TypeOK
  <2> SUFFICES ASSUME RowsTyped, FiniteRows, RowsAddUp, HoldsCovered PROVE TypeOK
    OBVIOUS
  <2>1. ASSUME NEW a \in Account PROVE holding[a] \in Nat /\ balance[a] \in Nat
    <3>1. holding[a] \in Nat
      BY Columns DEF RowsAddUp
    <3> QED
      BY <3>1 DEF RowsTyped, HoldsCovered
  <2>2. holding \in [Account -> Nat] /\ balance \in [Account -> Nat]
    BY <2>1 DEF RowsTyped
  <2> QED
    BY <2>2 DEF RowsTyped, TypeOK
<1> QED
  BY <1>1, TypeCorrect, RowsFinite, SumsCorrect, HoldsAlwaysCovered, PTL

-----------------------------------------------------------------------------

(* No operation, a repeated settlement with another amount included,       *)
(* changes a hold that was settled.                                        *)
THEOREM SettlementsFinal == Spec => SettlementFinal
<1>1. ASSUME RowsTyped, [Next]_walletVars, NEW r \in Reference,
             holds[r] # None, holds[r].spent # None
      PROVE  holds'[r] = holds[r]
  <2>1. CASE UNCHANGED walletVars
    BY <2>1 DEF walletVars
  <2>2. CASE Next
    BY <1>1, <2>2 DEF RowsTyped, Next, Credit, Reserve, Settle, SetLimit, Active
  <2> QED
    BY <1>1, <2>1, <2>2
<1>2. RowsTyped /\ [Next]_walletVars =>
        [\A r \in Reference :
           holds[r] # None /\ holds[r].spent # None
             => holds'[r] = holds[r]]_walletVars
  BY <1>1
<1> QED
  BY <1>2, TypeCorrect, PTL DEF Spec, SettlementFinal
=============================================================================
