--------------------------- MODULE DexLedgerProofs ---------------------------
(***************************************************************************)
(* The ledger's own steps keep its types and its solvency, and each of     *)
(* them is a step of the vault, for any accounts, assets and integer       *)
(* widths.  The components built on the ledger cite these lemmas for the   *)
(* steps they share and for the helpers they call.                         *)
(***************************************************************************)
EXTENDS DexLedger, FoldTheorems

Books == [Accounts -> Uint64]

\* A number that fits a width is not changed by cutting it to that width.
LEMMA CutFits ==
  ASSUME NEW n \in Nat, NEW width \in Nat, n <= width
  PROVE  n % (width + 1) = n
OBVIOUS

\* Whatever is cut to a width is within it.
LEMMA CutRange ==
  ASSUME NEW n \in Int, NEW width \in Nat
  PROVE  n % (width + 1) \in 0..width
OBVIOUS

\* The total of a book is natural and no less than any one balance.
LEMMA TotalBounds ==
  ASSUME NEW book \in Books
  PROVE  /\ Total(book) \in Nat
         /\ \A acc \in Accounts : book[acc] <= Total(book)
<1>1. book \in [Accounts -> Nat]
  BY WidthAssumption DEF Books, Uint64
<1> QED
  BY <1>1, SumBounds, AccountsAssumption DEF Total

\* A checked credit stays within uint64 and adds its amount to the total.
LEMMA AddEffect ==
  ASSUME NEW book \in Books, NEW acc \in Accounts, NEW amount \in Uint64,
         BalanceAddOK(book, acc, amount)
  PROVE  /\ BalanceAdd(book, acc, amount) \in Books
         /\ Total(BalanceAdd(book, acc, amount)) = Total(book) + amount
<1>1. book[acc] + amount \in Uint64
  BY WidthAssumption DEF Books, Uint64, BalanceAddOK
<1>2. BalanceAdd(book, acc, amount) = [book EXCEPT ![acc] = book[acc] + amount]
  BY DEF BalanceAdd
<1>3. book \in [Accounts -> Int] /\ book[acc] \in Int /\ amount \in Int
  BY WidthAssumption DEF Books, Uint64
<1>4. Total(BalanceAdd(book, acc, amount)) = Total(book) + (book[acc] + amount) - book[acc]
  <2> DEFINE v == book[acc] + amount
  <2>1. v \in Int
    BY <1>3
  <2>2. BalanceAdd(book, acc, amount) = [book EXCEPT ![acc] = v]
    BY <1>2
  <2> HIDE DEF v
  <2>3. \A w \in Int : Total([book EXCEPT ![acc] = w]) = Total(book) + w - book[acc]
    BY <1>3, SumUpdate, AccountsAssumption DEF Total
  <2>4. Total(BalanceAdd(book, acc, amount)) = Total(book) + v - book[acc]
    BY <2>1, <2>2, <2>3, Zenon
  <2> QED
    BY <2>4 DEF v
<1>5. BalanceAdd(book, acc, amount) \in Books
  BY <1>1, <1>2 DEF Books
<1> QED
  BY <1>3, <1>4, <1>5, TotalBounds

\* A checked debit stays within uint64 and takes its amount off the total.
LEMMA SubEffect ==
  ASSUME NEW book \in Books, NEW acc \in Accounts, NEW amount \in Uint64,
         BalanceSubOK(book, acc, amount)
  PROVE  /\ BalanceSub(book, acc, amount) \in Books
         /\ Total(BalanceSub(book, acc, amount)) = Total(book) - amount
         /\ amount <= Total(book)
<1>1. book[acc] - amount \in Uint64
  BY WidthAssumption DEF Books, Uint64, BalanceSubOK
<1>2. BalanceSub(book, acc, amount) = [book EXCEPT ![acc] = book[acc] - amount]
  BY DEF BalanceSub
<1>3. book \in [Accounts -> Int] /\ book[acc] \in Int /\ amount \in Int
  BY WidthAssumption DEF Books, Uint64
<1>4. Total(BalanceSub(book, acc, amount)) = Total(book) + (book[acc] - amount) - book[acc]
  <2> DEFINE v == book[acc] - amount
  <2>1. v \in Int
    BY <1>3
  <2>2. BalanceSub(book, acc, amount) = [book EXCEPT ![acc] = v]
    BY <1>2
  <2> HIDE DEF v
  <2>3. \A w \in Int : Total([book EXCEPT ![acc] = w]) = Total(book) + w - book[acc]
    BY <1>3, SumUpdate, AccountsAssumption DEF Total
  <2>4. Total(BalanceSub(book, acc, amount)) = Total(book) + v - book[acc]
    BY <2>1, <2>2, <2>3, Zenon
  <2> QED
    BY <2>4 DEF v
<1>5. BalanceSub(book, acc, amount) \in Books
  BY <1>1, <1>2 DEF Books
<1>6. amount <= Total(book)
  BY <1>3, TotalBounds DEF BalanceSubOK
<1> QED
  BY <1>3, <1>4, <1>5, <1>6, TotalBounds

\* A transfer keeps the holdings within uint64, and moves `amount` in or
\* out of the DEX account only.
LEMMA TransferEffect ==
  ASSUME NEW holdings \in Books, NEW from \in Accounts, NEW to \in Accounts,
         NEW amount \in Uint64, TransferOK(holdings, from, to, amount)
  PROVE  /\ Transfer(holdings, from, to, amount) \in Books
         /\ from # DexCtrAccount =>
              Transfer(holdings, from, to, amount)[DexCtrAccount] =
                holdings[DexCtrAccount] + IF to = DexCtrAccount THEN amount ELSE 0
         /\ from = DexCtrAccount =>
              Transfer(holdings, from, to, amount)[DexCtrAccount] =
                holdings[DexCtrAccount] - IF to = DexCtrAccount THEN 0 ELSE amount
<1> DEFINE after == Transfer(holdings, from, to, amount)
<1>0. DexCtrAccount \in Accounts
  BY AccountsAssumption
<1>1. \A acc \in Accounts : holdings[acc] \in Uint64 /\ holdings[acc] \in Int
  BY WidthAssumption DEF Books, Uint64
<1>2. amount \in Nat /\ amount <= holdings[from]
  BY WidthAssumption DEF Uint64, TransferOK
<1>3. CASE from = to
  <2>1. /\ after \in [Accounts -> Int]
        /\ \A acc \in Accounts : after[acc] = holdings[acc]
    BY <1>1, <1>2, <1>3 DEF Transfer, Books
  <2> QED
    BY <2>1, <1>0, <1>1, <1>3 DEF Books
<1>4. CASE from # to
  <2>1. holdings[to] + amount \in Uint64 /\ holdings[from] - amount \in Uint64
    BY <1>1, <1>2, <1>4, WidthAssumption DEF TransferOK, Uint64
  <2>2. /\ DOMAIN after = Accounts
        /\ after[from] = holdings[from] - amount
        /\ after[to] = holdings[to] + amount
        /\ \A acc \in Accounts \ {from, to} : after[acc] = holdings[acc]
    BY <1>4 DEF Transfer, Books
  <2>3. after \in Books
    BY <1>1, <2>1, <2>2 DEF Transfer, Books
  <2> QED
    BY <1>0, <1>1, <1>2, <1>4, <2>2, <2>3
<1> QED
  BY <1>3, <1>4

\* It neither makes nor loses tokens.
LEMMA TransferTotal ==
  ASSUME NEW holdings \in Books, NEW from \in Accounts, NEW to \in Accounts,
         NEW amount \in Uint64, TransferOK(holdings, from, to, amount)
  PROVE  Total(Transfer(holdings, from, to, amount)) = Total(holdings)
<1> DEFINE v == holdings[from] - amount
           taken == [holdings EXCEPT ![from] = v]
           w == taken[to] + amount
<1>1. holdings \in [Accounts -> Int] /\ amount \in Int /\ IsFiniteSet(Accounts)
  BY AccountsAssumption, WidthAssumption DEF Books, Uint64
<1>2. v \in Int /\ taken \in [Accounts -> Int] /\ taken[from] = v
  BY <1>1
<1>3. Total(taken) = Total(holdings) + v - holdings[from]
  <2>1. v \in Int
    BY <1>2
  <2> HIDE DEF v
  <2>2. SumFunctionOnSet([holdings EXCEPT ![from] = v], Accounts)
          = SumFunctionOnSet(holdings, Accounts) + v - holdings[from]
    BY <1>1, <2>1, SumUpdate
  <2> QED
    BY <2>2 DEF Total
<1>4. Transfer(holdings, from, to, amount) = [taken EXCEPT ![to] = w]
  BY <1>1, <1>2 DEF Transfer
<1>5. w \in Int
  BY <1>1, <1>2
<1>6. Total([taken EXCEPT ![to] = w]) = Total(taken) + w - taken[to]
  <2> HIDE DEF taken, w
  <2> QED
    BY <1>1, <1>2, <1>5, SumUpdate DEF Total
<1>7. Total(holdings) \in Int /\ holdings[from] \in Int /\ taken[to] \in Int
  BY <1>1, <1>2, TotalBounds
<1> HIDE DEF taken
<1> QED
  BY <1>1, <1>3, <1>4, <1>6, <1>7

\* Two accounts hold no more than all do.
LEMMA TwoWithin ==
  ASSUME NEW holdings \in Books, NEW one \in Accounts, NEW two \in Accounts, one # two
  PROVE  holdings[one] + holdings[two] <= Total(holdings)
<1> DEFINE rest == Accounts \ {one}
<1>1. IsFiniteSet(Accounts) /\ IsFiniteSet(rest) /\ two \in rest
  BY AccountsAssumption, FS_Subset
<1>2. \A acc \in Accounts : holdings[acc] \in Nat /\ holdings[acc] \in Int
  BY WidthAssumption DEF Books, Uint64
<1>3. Total(holdings) = holdings[one] + SumFunctionOnSet(holdings, rest)
  BY <1>1, <1>2, SumRemove DEF Total
<1>4. \A acc \in rest : holdings[acc] \in Nat
  BY <1>2
<1> HIDE DEF rest
<1>5. /\ SumFunctionOnSet(holdings, rest) \in Nat
      /\ holdings[two] <= SumFunctionOnSet(holdings, rest)
  BY <1>1, <1>4, SumBounds
<1> QED
  BY <1>2, <1>3, <1>5
-----------------------------------------------------------------------------
BookTypeOK == balance \in [Assets -> Books] /\ wallet \in [Assets -> Books]

(* What a step does to the two sides of one asset's account: `debt` more   *)
(* owed, `cash` more in the DEX account, and nothing else anywhere.        *)
Accounting(asset, debt, cash) ==
  /\ BookTypeOK'
  /\ Total(balance'[asset]) = Total(balance[asset]) + debt
  /\ wallet'[asset][DexCtrAccount] = wallet[asset][DexCtrAccount] + cash
  /\ \A other \in Assets \ {asset} :
       /\ balance'[other] = balance[other]
       /\ wallet'[other] = wallet[other]

\* Replacing one asset's two columns, with what the helpers return.
LEMMA ColumnUpdate ==
  ASSUME BookTypeOK, NEW asset \in Assets, NEW book \in Books, NEW holdings \in Books,
         balance' = [balance EXCEPT ![asset] = book],
         wallet' = [wallet EXCEPT ![asset] = holdings]
  PROVE  /\ BookTypeOK'
         /\ balance'[asset] = book
         /\ wallet'[asset] = holdings
         /\ \A other \in Assets \ {asset} :
              balance'[other] = balance[other] /\ wallet'[other] = wallet[other]
BY DEF BookTypeOK

\* A deposit owes its beneficiary exactly what it brought in.
LEMMA DepositAccounting ==
  ASSUME BookTypeOK, NEW asset \in Assets, NEW from \in Signers, NEW to \in Accounts,
         NEW amount \in Uint64, DoDeposit(asset, from, to, amount)
  PROVE  Accounting(asset, amount, amount)
<1> DEFINE book == BalanceAdd(balance[asset], to, amount)
           holdings == Transfer(wallet[asset], from, DexCtrAccount, amount)
<1>0. /\ from \in Accounts /\ from # DexCtrAccount /\ DexCtrAccount \in Accounts
      /\ balance[asset] \in Books /\ wallet[asset] \in Books
  BY AccountsAssumption DEF BookTypeOK
<1>1. /\ balance' = [balance EXCEPT ![asset] = book]
      /\ BalanceAddOK(balance[asset], to, amount)
  BY DEF DoDeposit
<1>2. /\ wallet' = [wallet EXCEPT ![asset] = holdings]
      /\ TransferOK(wallet[asset], from, DexCtrAccount, amount)
  BY DEF DoDeposit, DoTransfer
<1>3. book \in Books /\ Total(book) = Total(balance[asset]) + amount
  BY <1>0, <1>1, AddEffect
<1>4. /\ holdings \in Books
      /\ holdings[DexCtrAccount] = wallet[asset][DexCtrAccount] + amount
  BY <1>0, <1>2, TransferEffect
<1> HIDE DEF book, holdings
<1> QED
  BY <1>1, <1>2, <1>3, <1>4, ColumnUpdate DEF Accounting

\* A withdrawal takes off the book what it pays out, or more when it pays
\* the DEX account itself.
LEMMA WithdrawAccounting ==
  ASSUME BookTypeOK, NEW asset \in Assets, NEW from \in Accounts, NEW to \in Accounts,
         NEW amount \in Uint64, DoWithdraw(asset, from, to, amount)
  PROVE  Accounting(asset, -amount, IF to = DexCtrAccount THEN 0 ELSE -amount)
<1> DEFINE book == BalanceSub(balance[asset], from, amount)
           holdings == Transfer(wallet[asset], DexCtrAccount, to, amount)
<1>0. /\ DexCtrAccount \in Accounts
      /\ balance[asset] \in Books /\ wallet[asset] \in Books
  BY AccountsAssumption DEF BookTypeOK
<1>1. /\ balance' = [balance EXCEPT ![asset] = book]
      /\ BalanceSubOK(balance[asset], from, amount)
  BY DEF DoWithdraw
<1>2. /\ wallet' = [wallet EXCEPT ![asset] = holdings]
      /\ TransferOK(wallet[asset], DexCtrAccount, to, amount)
  BY DEF DoWithdraw, DoTransfer
<1>3. book \in Books /\ Total(book) = Total(balance[asset]) - amount
  BY <1>0, <1>1, SubEffect
<1>4. /\ holdings \in Books
      /\ holdings[DexCtrAccount] =
           wallet[asset][DexCtrAccount] - IF to = DexCtrAccount THEN 0 ELSE amount
  BY <1>0, <1>2, TransferEffect
<1>5. /\ Total(balance[asset]) \in Int /\ amount \in Int
      /\ wallet[asset][DexCtrAccount] \in Int
  BY <1>0, TotalBounds, WidthAssumption DEF Books, Uint64
<1>6. /\ Total(book) = Total(balance[asset]) + (-amount)
      /\ holdings[DexCtrAccount] =
           wallet[asset][DexCtrAccount] + IF to = DexCtrAccount THEN 0 ELSE -amount
  BY <1>3, <1>4, <1>5
<1> HIDE DEF book, holdings
<1> QED
  BY <1>1, <1>2, <1>3, <1>4, <1>6, ColumnUpdate DEF Accounting

\* Tokens moved outside the contract only ever add to the DEX account.
LEMMA OutsideAccounting ==
  ASSUME BookTypeOK, NEW asset \in Assets, NEW from \in Signers, NEW to \in Accounts,
         NEW amount \in Uint64, DoTransfer(asset, from, to, amount), UNCHANGED balance
  PROVE  Accounting(asset, 0, IF to = DexCtrAccount THEN amount ELSE 0)
<1> DEFINE holdings == Transfer(wallet[asset], from, to, amount)
<1>0. /\ from \in Accounts /\ from # DexCtrAccount
      /\ balance[asset] \in Books /\ wallet[asset] \in Books
  BY AccountsAssumption DEF BookTypeOK
<1>1. /\ wallet' = [wallet EXCEPT ![asset] = holdings]
      /\ TransferOK(wallet[asset], from, to, amount)
  BY DEF DoTransfer
<1>2. /\ holdings \in Books
      /\ holdings[DexCtrAccount] =
           wallet[asset][DexCtrAccount] + IF to = DexCtrAccount THEN amount ELSE 0
  BY <1>0, <1>1, TransferEffect
<1>3. Total(balance[asset]) + 0 = Total(balance[asset])
  BY <1>0, TotalBounds
<1> HIDE DEF holdings
<1>4. /\ BookTypeOK'
      /\ wallet'[asset] = holdings
      /\ \A other \in Assets \ {asset} : wallet'[other] = wallet[other]
  BY <1>1, <1>2 DEF BookTypeOK
<1> QED
  BY <1>2, <1>3, <1>4 DEF Accounting

\* A step that adds no more debt than cash keeps the DEX solvent.
LEMMA AccountingSolvent ==
  ASSUME BookTypeOK, Solvent, NEW asset \in Assets, NEW debt \in Int, NEW cash \in Int,
         debt <= cash, Accounting(asset, debt, cash)
  PROVE  Solvent'
<1>0. /\ Total(balance[asset]) \in Int
      /\ wallet[asset][DexCtrAccount] \in Int
  BY TotalBounds, AccountsAssumption, WidthAssumption DEF BookTypeOK, Books, Uint64
<1>1. Total(balance'[asset]) <= wallet'[asset][DexCtrAccount]
  BY <1>0 DEF Solvent, Accounting
<1>2. \A other \in Assets \ {asset} : Total(balance'[other]) <= wallet'[other][DexCtrAccount]
  BY DEF Solvent, Accounting
<1> QED
  BY <1>1, <1>2 DEF Solvent

\* n tokens come in and are owed or given; or a debt of n is struck off and
\* is paid or forgiven.
InOrOut(n, debt, cash) ==
  \/ cash = n /\ debt \in {0, n}
  \/ debt = -n /\ cash \in {0, -n}

\* A step with such an effect is a vault's.
LEMMA AccountingVault ==
  ASSUME BookTypeOK, NEW asset \in Assets, NEW n \in Uint64,
         NEW debt \in Int, NEW cash \in Int,
         InOrOut(n, debt, cash),
         Accounting(asset, debt, cash)
  PROVE  [Promise!Next]_(Promise!vaultVars)
<1> USE DEF InOrOut
<1> DEFINE owed == [a \in Assets |-> Total(balance[a])]
           held == [a \in Assets |-> wallet[a][DexCtrAccount]]
<1>0. /\ \A a \in Assets : Total(balance[a]) \in Int /\ wallet[a][DexCtrAccount] \in Int
      /\ Total(balance'[asset]) \in Nat
      /\ n \in Nat
  BY TotalBounds, AccountsAssumption, WidthAssumption
     DEF BookTypeOK, Books, Uint64, Accounting
<1>1. owed' = [owed EXCEPT ![asset] = @ + debt]
  BY DEF Accounting
<1>2. held' = [held EXCEPT ![asset] = @ + cash]
  BY DEF Accounting
<1>3. owed \in [Assets -> Int]
  BY <1>0
<1>4. held \in [Assets -> Int]
  BY <1>0
<1>5. n <= owed[asset] \/ debt >= 0
  BY <1>0 DEF Accounting
<1> HIDE DEF owed, held
<1>6. CASE n = 0
  <2>1. owed' = owed /\ held' = held
    BY <1>1, <1>2, <1>3, <1>4, <1>6
  <2> QED
    BY <2>1 DEF owed, held, Promise!vaultVars
<1>7. CASE n # 0 /\ cash = n /\ debt \in {0, n}
  <2>1. owed' \in {owed, [owed EXCEPT ![asset] = @ + n]}
    <3>1. CASE debt = 0
      BY <1>1, <1>3, <3>1
    <3>2. CASE debt = n
      BY <1>1, <3>2
    <3> QED
      BY <1>7, <3>1, <3>2
  <2>2. n \in 1..MaxUint64
    BY <1>7, WidthAssumption DEF Uint64
  <2> QED
    BY <1>2, <1>7, <2>1, <2>2 DEF owed, held, Promise!Next, Promise!Receive
<1>8. CASE n # 0 /\ debt = -n /\ cash \in {0, -n}
  <2>1. owed' = [owed EXCEPT ![asset] = @ - n]
    BY <1>1, <1>3, <1>4, <1>8
  <2>2. held' \in {held, [held EXCEPT ![asset] = @ - n]}
    <3>1. CASE cash = 0
      BY <1>2, <1>4, <3>1
    <3>2. CASE cash = -n
      BY <1>2, <1>4, <3>2
    <3> QED
      BY <1>8, <3>1, <3>2
  <2>3. n \in 1..MaxUint64 /\ n <= owed[asset]
    BY <1>0, <1>5, <1>8, WidthAssumption DEF Uint64
  <2> QED
    BY <2>1, <2>2, <2>3 DEF owed, held, Promise!Next, Promise!Settle
<1> QED
  BY <1>6, <1>7, <1>8
-----------------------------------------------------------------------------
\* Balances change hands inside the book, and no tokens move.
Rebooked ==
  /\ BookTypeOK'
  /\ UNCHANGED wallet
  /\ \A asset \in Assets : Total(balance'[asset]) = Total(balance[asset])

(* A step whose effect on the book and the DEX account adds up.            *)
Accounted ==
  \/ UNCHANGED bookVars
  \/ Rebooked
  \/ \E asset \in Assets, n \in Uint64 : \E debt, cash \in Int :
       InOrOut(n, debt, cash) /\ Accounting(asset, debt, cash)

\* Such a step keeps the types and the solvency, and is a step of the vault.
LEMMA AccountedStep ==
  ASSUME BookTypeOK, Accounted
  PROVE  BookTypeOK' /\ (Solvent => Solvent') /\ [Promise!Next]_(Promise!vaultVars)
<1>1. CASE UNCHANGED bookVars
  <2>1. BookTypeOK'
    BY <1>1 DEF bookVars, BookTypeOK
  <2>2. Solvent => Solvent'
    BY <1>1 DEF bookVars, Solvent
  <2>3. UNCHANGED Promise!vaultVars
    BY <1>1 DEF bookVars, Promise!vaultVars
  <2> QED
    BY <2>1, <2>2, <2>3
<1>2. ASSUME NEW asset \in Assets, NEW n \in Uint64, NEW debt \in Int, NEW cash \in Int,
             InOrOut(n, debt, cash), Accounting(asset, debt, cash)
      PROVE  BookTypeOK' /\ (Solvent => Solvent') /\ [Promise!Next]_(Promise!vaultVars)
  <2>1. n \in Nat
    BY WidthAssumption DEF Uint64
  <2>2. debt <= cash
    BY <1>2, <2>1 DEF InOrOut
  <2>3. [Promise!Next]_(Promise!vaultVars)
    BY <1>2, AccountingVault DEF InOrOut
  <2> QED
    BY <1>2, <2>2, <2>3, AccountingSolvent DEF Accounting
<1>3. CASE Rebooked
  <2>1. Solvent => Solvent'
    BY <1>3 DEF Rebooked, Solvent
  <2>2. UNCHANGED Promise!vaultVars
    BY <1>3 DEF Rebooked, Promise!vaultVars
  <2> QED
    BY <1>3, <2>1, <2>2 DEF Rebooked
<1> QED
  BY <1>1, <1>2, <1>3 DEF Accounted

\* Each of the ledger's own steps is one.
LEMMA LedgerStepAccounted ==
  ASSUME BookTypeOK, LedgerNext
  PROVE  Accounted
<1>0. /\ Uint64 \subseteq Int
      /\ \A n \in Uint64 : 0 \in Int /\ -n \in Int
  BY WidthAssumption DEF Uint64
<1>1. ASSUME NEW asset \in Assets, NEW from \in Accounts, NEW to \in Accounts,
             NEW amount \in Uint64, Deposit(asset, from, to, amount)
      PROVE  Accounted
  <2>1. Accounting(asset, amount, amount)
    BY <1>1, DepositAccounting DEF Deposit
  <2>2. InOrOut(amount, amount, amount)
    BY DEF InOrOut
  <2> QED
    BY <1>0, <2>1, <2>2 DEF Accounted
<1>2. ASSUME NEW asset \in Assets, NEW from \in Accounts, NEW to \in Accounts,
             NEW amount \in Uint64, Withdraw(asset, from, to, amount)
      PROVE  Accounted
  <2> DEFINE paid == IF to = DexCtrAccount THEN 0 ELSE -amount
  <2>1. Accounting(asset, -amount, paid)
    BY <1>2, WithdrawAccounting DEF Withdraw
  <2>2. InOrOut(amount, -amount, paid) /\ paid \in Int
    BY <1>0 DEF InOrOut
  <2> HIDE DEF paid
  <2> QED
    BY <1>0, <2>1, <2>2 DEF Accounted
<1>3. ASSUME NEW asset \in Assets, NEW from \in Accounts, NEW to \in Accounts,
             NEW amount \in Uint64, PayOutside(asset, from, to, amount)
      PROVE  Accounted
  <2>1. /\ DoTransfer(asset, from, to, amount)
        /\ from \in Signers
        /\ UNCHANGED balance
    BY <1>3 DEF PayOutside
  <2>2. Accounting(asset, 0, IF to = DexCtrAccount THEN amount ELSE 0)
    BY <2>1, OutsideAccounting
  <2>3. /\ InOrOut(amount, 0, amount)
        /\ 0 \in Uint64 /\ InOrOut(0, 0, 0)
    BY WidthAssumption DEF InOrOut, Uint64
  <2> QED
    BY <1>0, <2>2, <2>3 DEF Accounted
<1>4. ASSUME NEW from \in Accounts, NEW target \in Accounts, NEW value \in BOOLEAN,
             SetRelay(from, target, value)
      PROVE  Accounted
  BY <1>4 DEF SetRelay, Accounted, bookVars
<1>5. CASE Tick
  BY <1>5 DEF Tick, Accounted, bookVars
<1>6. CASE UpdateParams
  BY <1>6 DEF UpdateParams, Accounted, bookVars
<1> QED
  BY <1>1, <1>2, <1>3, <1>4, <1>5, <1>6 DEF LedgerNext

\* The rest of the ledger's state keeps its types as well.
LEMMA LedgerStepTypes ==
  ASSUME LedgerTypeOK, LedgerNext, BookTypeOK'
  PROVE  LedgerTypeOK'
<1>1. CASE UNCHANGED contextVars
  BY <1>1 DEF contextVars, LedgerTypeOK, BookTypeOK, Books
<1>2. ASSUME NEW from \in Accounts, NEW target \in Accounts, NEW value \in BOOLEAN,
             SetRelay(from, target, value)
      PROVE  LedgerTypeOK'
  BY <1>2 DEF SetRelay, LedgerTypeOK
<1>3. CASE Tick
  BY <1>3, WidthAssumption DEF Tick, LedgerTypeOK, Uint32
<1>4. CASE UpdateParams
  BY <1>4 DEF UpdateParams, LedgerTypeOK
<1> QED
  BY <1>1, <1>2, <1>3, <1>4 DEF LedgerNext, Deposit, Withdraw, PayOutside

\* The empty ledger is typed and owes nothing, whatever the DEX account holds.
LEMMA LedgerInitOK ==
  ASSUME LedgerInit
  PROVE  LedgerTypeOK /\ BookTypeOK /\ Solvent /\ Promise!Init
<1>1. LedgerTypeOK /\ BookTypeOK
  BY AccountsAssumption, WidthAssumption, ContextAssumption
     DEF LedgerInit, LedgerTypeOK, BookTypeOK, Books, Uint64, Uint32
<1>2. \A asset \in Assets : Total(balance[asset]) = 0
  BY SumZero, AccountsAssumption DEF LedgerInit, Total
<1>3. \A asset \in Assets : wallet[asset][DexCtrAccount] \in Nat
  BY <1>1, AccountsAssumption, WidthAssumption DEF LedgerTypeOK, Uint64
<1>4. Solvent
  BY <1>2, <1>3 DEF Solvent
<1>5. Promise!Init
  BY <1>2, <1>3 DEF Promise!Init
<1> QED
  BY <1>1, <1>4, <1>5
=============================================================================
