---------------------------- MODULE CustodyProofs ----------------------------
(***************************************************************************)
(* Theorems about custody, for any accounts, assets, requests and integer  *)
(* widths: its types, its solvency and the vault it implements; and, with  *)
(* its histories, what owners may expect of it: a commit pays what was     *)
(* asked for and has waited, and an owner who only signs loses what was    *)
(* signed, once.                                                           *)
(***************************************************************************)
EXTENDS CustodyHistory, DexLedgerProofs

Inv == CustodyTypeOK /\ BookTypeOK /\ Solvent

\* A relayed withdrawal pays out the amount less the fee, which stays owed,
\* now to the relay.
LEMMA DelegateAccounting ==
  ASSUME BookTypeOK, NEW req \in Requests, NEW relay \in Accounts,
         DelegateWithdraw(req, relay)
  PROVE  Accounted
<1> DEFINE asset == req.asset
           paid == req.amount - req.fee
           credited == PayFee(balance[asset], relay, req)
           book == BalanceSub(credited, req.from, req.amount)
           holdings == Transfer(wallet[asset], DexCtrAccount, req.to, paid)
           cash == IF req.to = DexCtrAccount THEN 0 ELSE -paid
<1>0. /\ asset \in Assets /\ req.from \in Accounts /\ req.to \in Accounts
      /\ req.amount \in Uint64 /\ req.fee \in Uint64
      /\ DexCtrAccount \in Accounts
  BY RequestAssumption, AccountsAssumption DEF DWithdrawArgs
<1>1. /\ req.fee <= req.amount
      /\ balance' = [balance EXCEPT ![asset] = book]
      /\ BalanceAddOK(balance[asset], relay, req.fee)
      /\ BalanceSubOK(credited, req.from, req.amount)
      /\ wallet' = [wallet EXCEPT ![asset] = holdings]
      /\ TransferOK(wallet[asset], DexCtrAccount, req.to, paid)
  BY DEF DelegateWithdraw, DoDelegateWithdraw, DoTransfer
<1>2. /\ paid \in Uint64 /\ paid \in Int /\ -paid \in Int
      /\ req.amount \in Int /\ req.fee \in Int
  BY <1>0, <1>1, WidthAssumption DEF Uint64
<1>3. balance[asset] \in Books /\ wallet[asset] \in Books
  BY <1>0 DEF BookTypeOK
<1>4. credited \in Books /\ Total(credited) = Total(balance[asset]) + req.fee
  BY <1>0, <1>1, <1>3, AddEffect DEF PayFee
<1> HIDE DEF credited
<1>5. book \in Books /\ Total(book) = Total(credited) - req.amount
  BY <1>0, <1>1, <1>4, SubEffect
<1> HIDE DEF asset, book
<1>6. /\ holdings \in Books
      /\ holdings[DexCtrAccount] =
           wallet[asset][DexCtrAccount] - IF req.to = DexCtrAccount THEN 0 ELSE paid
  BY <1>0, <1>1, <1>2, <1>3, TransferEffect
<1> HIDE DEF holdings
<1>7. /\ Total(balance[asset]) \in Int
      /\ wallet[asset][DexCtrAccount] \in Int
  BY <1>0, <1>3, TotalBounds, WidthAssumption DEF Books, Uint64
<1>8. /\ Total(book) = Total(balance[asset]) + (-paid)
      /\ holdings[DexCtrAccount] = wallet[asset][DexCtrAccount] + cash
      /\ cash \in Int /\ cash \in {0, -paid}
  BY <1>2, <1>4, <1>5, <1>6, <1>7
<1> HIDE DEF paid, cash
<1>9. Accounting(asset, -paid, cash)
  BY <1>0, <1>1, <1>5, <1>6, <1>8, ColumnUpdate DEF Accounting
<1>10. InOrOut(paid, -paid, cash)
  BY <1>8 DEF InOrOut
<1> QED
  BY <1>0, <1>2, <1>8, <1>9, <1>10 DEF Accounted

\* A commit pays the smaller of the record and the balance.
LEMMA CommitAccounting ==
  ASSUME BookTypeOK, RecordsTypeOK, NEW asset \in Assets, NEW from \in Accounts,
         CommitWithdraw(asset, from)
  PROVE  Accounted
<1> DEFINE amount == Payable(prepared[asset][from], balance[asset][from])
           cash == IF from = DexCtrAccount THEN 0 ELSE -amount
<1>1. amount \in Uint64
  BY DEF Payable, BookTypeOK, Books, RecordsTypeOK, PrepareWithdrawState
<1>2. DoWithdraw(asset, from, from, amount)
  BY DEF CommitWithdraw
<1> HIDE DEF amount
<1>3. Accounting(asset, -amount, cash)
  BY <1>1, <1>2, WithdrawAccounting
<1>4. amount \in Int /\ -amount \in Int /\ cash \in Int /\ InOrOut(amount, -amount, cash)
  BY <1>1, WidthAssumption DEF Uint64, InOrOut
<1> HIDE DEF cash
<1> QED
  BY <1>1, <1>3, <1>4 DEF Accounted

\* Every step of the component adds up.
LEMMA StepAccounted ==
  ASSUME BookTypeOK, RecordsTypeOK, CustodyNext
  PROVE  Accounted
<1>1. CASE LedgerNext
  BY <1>1, LedgerStepAccounted
<1>2. ASSUME NEW req \in Requests, NEW relay \in Accounts, DelegateWithdraw(req, relay)
      PROVE  Accounted
  BY <1>2, DelegateAccounting
<1>3. ASSUME NEW asset \in Assets, NEW from \in Accounts, NEW amount \in Uint64,
             PrepareWithdraw(asset, from, amount)
      PROVE  Accounted
  BY <1>3 DEF PrepareWithdraw, Accounted, ledgerVars, bookVars
<1>4. ASSUME NEW asset \in Assets, NEW from \in Accounts, CommitWithdraw(asset, from)
      PROVE  Accounted
  BY <1>4, CommitAccounting
<1> QED
  BY <1>1, <1>2, <1>3, <1>4 DEF CustodyNext, CustodyStep

\* The records and the marks keep their types.
LEMMA StepCustodyTypes ==
  ASSUME CustodyTypeOK, CustodyNext
  PROVE  RecordsTypeOK'
<1> NoRecord \in PrepareWithdrawState
  BY WidthAssumption DEF NoRecord, PrepareWithdrawState, Uint32, Uint64
<1>1. CASE UNCHANGED custodyVars
  BY <1>1 DEF custodyVars, CustodyTypeOK, RecordsTypeOK
<1>2. ASSUME NEW req \in Requests, NEW relay \in Accounts, DelegateWithdraw(req, relay)
      PROVE  RecordsTypeOK'
  BY <1>2 DEF DelegateWithdraw, MarkWithdrawn, CustodyTypeOK, RecordsTypeOK
<1>3. ASSUME NEW asset \in Assets, NEW from \in Accounts, NEW amount \in Uint64,
             PrepareWithdraw(asset, from, amount)
      PROVE  RecordsTypeOK'
  <2>1. prepared[asset][from].Amount \in Uint64 /\ timestamp \in Uint32
    BY WidthAssumption
       DEF CustodyTypeOK, RecordsTypeOK, LedgerTypeOK, PrepareWithdrawState, Uint32
  <2>2. prepared[asset][from].Amount + amount \in Uint64
    BY <1>3, <2>1, WidthAssumption DEF PrepareWithdraw, Uint64
  <2>3. Apply(prepared[asset][from], amount) \in PrepareWithdrawState
    BY <2>1, <2>2 DEF Apply, PrepareWithdrawState
  <2> QED
    BY <1>3, <2>3 DEF PrepareWithdraw, CustodyTypeOK, RecordsTypeOK
<1>4. ASSUME NEW asset \in Assets, NEW from \in Accounts, CommitWithdraw(asset, from)
      PROVE  RecordsTypeOK'
  BY <1>4 DEF CommitWithdraw, AfterCommit, CustodyTypeOK, RecordsTypeOK
<1> QED
  BY <1>1, <1>2, <1>3, <1>4 DEF CustodyNext, CustodyStep

\* The rest of the ledger is the ledger's own business.
LEMMA StepLedgerTypes ==
  ASSUME CustodyTypeOK, CustodyNext, BookTypeOK'
  PROVE  LedgerTypeOK'
<1>1. CASE LedgerNext
  BY <1>1, LedgerStepTypes DEF CustodyTypeOK
<1>2. CASE UNCHANGED contextVars
  BY <1>2 DEF contextVars, CustodyTypeOK, LedgerTypeOK, BookTypeOK, Books
<1> QED
  BY <1>1, <1>2 DEF CustodyNext, CustodyStep, DelegateWithdraw, PrepareWithdraw,
                    CommitWithdraw, ledgerVars, contextVars

\* The invariant holds initially, and the initial state is a vault's.
LEMMA InitOK ==
  ASSUME CustodyInit
  PROVE  Inv /\ Promise!Init
<1>1. RecordsTypeOK
  BY WidthAssumption
     DEF CustodyInit, RecordsInit, RecordsTypeOK, NoRecord, PrepareWithdrawState, Uint32, Uint64
<1> QED
  BY <1>1, LedgerInitOK DEF CustodyInit, Inv, CustodyTypeOK

\* One step keeps the invariant and is a vault's step.
LEMMA StepOK ==
  ASSUME Inv, [CustodyNext]_custodySpecVars
  PROVE  Inv' /\ [Promise!Next]_(Promise!vaultVars)
<1>1. CASE CustodyNext
  <2>1. Accounted
    BY <1>1, StepAccounted DEF Inv, CustodyTypeOK
  <2>2. BookTypeOK' /\ Solvent' /\ [Promise!Next]_(Promise!vaultVars)
    BY <2>1, AccountedStep DEF Inv
  <2>3. LedgerTypeOK' /\ RecordsTypeOK'
    BY <1>1, <2>2, StepCustodyTypes, StepLedgerTypes DEF Inv
  <2> QED
    BY <2>2, <2>3 DEF Inv, CustodyTypeOK
<1>2. CASE UNCHANGED custodySpecVars
  <2>1. UNCHANGED <<ledgerVars, custodyVars, bookVars, contextVars>>
    BY <1>2 DEF custodySpecVars, ledgerVars, bookVars, contextVars, custodyVars
  <2>2. Accounted
    BY <2>1 DEF Accounted
  <2>3. BookTypeOK' /\ Solvent' /\ [Promise!Next]_(Promise!vaultVars)
    BY <2>2, AccountedStep DEF Inv
  <2>4. LedgerTypeOK' /\ RecordsTypeOK'
    BY <2>1 DEF Inv, CustodyTypeOK, LedgerTypeOK, RecordsTypeOK, ledgerVars, custodyVars
  <2> QED
    BY <2>3, <2>4 DEF Inv, CustodyTypeOK
<1> QED
  BY <1>1, <1>2
-----------------------------------------------------------------------------
(* What an owner who sends no transactions loses.                          *)

SignedBy(acc, asset) ==
  {req \in Requests : /\ req.from = acc
                      /\ req.asset = asset
                      /\ [signer |-> acc, data |-> req] \in WithdrawSigs}

\* The sum of the requests an owner signed that are in a set, and of those a
\* relay has had paid.
SignedIn(acc, asset, reqs) ==
  SumFunctionOnSet([req \in Requests |-> req.amount], SignedBy(acc, asset) \cap reqs)
PaidFor(acc, asset) == SignedIn(acc, asset, withdrawn)

\* It is a natural number and never more than all that was signed.
LEMMA PaidWithin ==
  ASSUME NEW acc, NEW asset, NEW reqs
  PROVE  /\ SignedIn(acc, asset, reqs) \in Nat
         /\ SignedAway(acc, asset) \in Nat
         /\ SignedIn(acc, asset, reqs) <= SignedAway(acc, asset)
<1> DEFINE f == [req \in Requests |-> req.amount]
           S == SignedBy(acc, asset)
           T == S \cap reqs
<1>1. \A req \in Requests : f[req] \in Nat
  BY RequestAssumption, WidthAssumption DEF DWithdrawArgs, Uint64
<1>2. S \subseteq Requests /\ IsFiniteSet(Requests)
  BY RequestAssumption DEF SignedBy
<1> HIDE DEF f, S
<1>3. IsFiniteSet(S) /\ IsFiniteSet(T)
  BY <1>2, FS_Subset
<1>4. SumFunctionOnSet(f, T) <= SumFunctionOnSet(f, S)
  BY <1>1, <1>2, <1>3, SumPart
<1>5. SumFunctionOnSet(f, T) \in Nat /\ SumFunctionOnSet(f, S) \in Nat
  BY <1>1, <1>2, <1>3, SumBounds
<1> QED
  BY <1>4, <1>5 DEF f, S, SignedIn, SignedAway, SignedBy

\* A delegated withdrawal costs nobody but the owner who signed it, and that
\* owner no more than the request says, which is then counted as paid.
LEMMA DelegateLoss ==
  ASSUME BookTypeOK, NEW req \in Requests, NEW relay \in Accounts,
         DelegateWithdraw(req, relay),
         NEW asset \in Assets, NEW acc \in Accounts \ Signers
  PROVE  Loss(asset, acc) <= PaidFor(acc, asset)' - PaidFor(acc, asset)
<1> DEFINE f == [r \in Requests |-> r.amount]
           before == SignedBy(acc, asset) \cap withdrawn
           after == SignedBy(acc, asset) \cap withdrawn'
           mine == req \in SignedBy(acc, asset)
<1>0. /\ req.asset \in Assets /\ req.from \in Accounts
      /\ req.amount \in Nat /\ req.fee \in Nat
      /\ relay \in Accounts /\ relay # acc
  BY RequestAssumption, WidthAssumption DEF DWithdrawArgs, Uint64, DelegateWithdraw
<1>1. req \notin withdrawn /\ withdrawn' = withdrawn \cup {req}
  BY DEF DelegateWithdraw, MarkWithdrawn
<1>2. req.from = acc /\ req.asset = asset => mine
  BY RequestAssumption DEF DelegateWithdraw, Signed, SignedBy
<1>3. Loss(asset, acc) = IF req.from = acc /\ req.asset = asset THEN req.amount ELSE 0
  <2>1. balance' = [balance EXCEPT ![req.asset] =
                      BalanceSub(PayFee(balance[req.asset], relay, req), req.from, req.amount)]
    BY DEF DelegateWithdraw, DoDelegateWithdraw
  <2>2. balance[asset] \in Books /\ balance[req.asset] \in Books /\ balance[asset][acc] \in Int
    BY <1>0, WidthAssumption DEF BookTypeOK, Books, Uint64
  <2>3. CASE asset = req.asset
    <3>1. balance'[asset][acc] =
            balance[asset][acc] - IF req.from = acc THEN req.amount ELSE 0
      BY <1>0, <2>1, <2>2, <2>3 DEF BookTypeOK, Books, BalanceSub, BalanceAdd, PayFee
    <3> QED
      BY <1>0, <2>2, <2>3, <3>1 DEF Loss
  <2>4. CASE asset # req.asset
    <3>1. balance'[asset] = balance[asset]
      BY <2>1, <2>4 DEF BookTypeOK
    <3> QED
      BY <2>2, <2>4, <3>1 DEF Loss
  <2> QED
    BY <2>3, <2>4
<1>4. /\ \A r \in Requests : f[r] \in Int
      /\ f[req] = req.amount
  BY RequestAssumption, WidthAssumption DEF DWithdrawArgs, Uint64
<1>5. /\ before \subseteq Requests /\ after \subseteq Requests
      /\ IsFiniteSet(before) /\ IsFiniteSet(after)
  <2>1. before \subseteq Requests /\ after \subseteq Requests /\ IsFiniteSet(Requests)
    BY RequestAssumption DEF SignedBy
  <2> QED
    BY <2>1, FS_Subset
<1>6. IF mine THEN req \in after /\ after \ {req} = before ELSE after = before
  BY <1>1
<1> HIDE DEF f, before, after, mine
<1>7. SumFunctionOnSet(f, before) \in Int
  BY <1>4, <1>5, SumInteger
<1>8. CASE mine
  <2>1. SumFunctionOnSet(f, after) = f[req] + SumFunctionOnSet(f, after \ {req})
    BY <1>4, <1>5, <1>6, <1>8, SumRemove
  <2>2. SumFunctionOnSet(f, after) - SumFunctionOnSet(f, before) = req.amount
    <3>1. after \ {req} = before
      BY <1>6, <1>8
    <3>2. SumFunctionOnSet(f, after) = req.amount + SumFunctionOnSet(f, before)
      BY <1>4, <2>1, <3>1, Zenon
    <3> QED
      BY <1>0, <1>7, <3>2
  <2>3. Loss(asset, acc) <= req.amount
    BY <1>0, <1>3
  <2> QED
    BY <2>2, <2>3 DEF f, before, after, PaidFor, SignedIn
<1>9. CASE ~mine
  <2>1. SumFunctionOnSet(f, after) - SumFunctionOnSet(f, before) = 0
    BY <1>6, <1>7, <1>9
  <2>2. Loss(asset, acc) = 0
    BY <1>2, <1>3, <1>9
  <2> QED
    BY <2>1, <2>2 DEF f, before, after, PaidFor, SignedIn
<1> QED
  BY <1>8, <1>9

\* Deposits, the signers' own withdrawals and what happens outside cost an
\* account outside Signers nothing.
LEMMA LedgerLoss ==
  ASSUME BookTypeOK, LedgerNext, NEW asset \in Assets, NEW acc \in Accounts \ Signers
  PROVE  Loss(asset, acc) = 0
<1>0. \A a \in Assets : balance[a] \in Books /\ \A b \in Accounts : balance[a][b] \in Int
  BY WidthAssumption DEF BookTypeOK, Books, Uint64
<1> SUFFICES balance'[asset][acc] >= balance[asset][acc]
  <2>1. BookTypeOK'
    BY LedgerStepAccounted, AccountedStep
  <2>2. balance'[asset][acc] \in Int
    BY <2>1, WidthAssumption DEF BookTypeOK, Books, Uint64
  <2> QED
    BY <1>0, <2>2 DEF Loss
<1>1. ASSUME NEW a \in Assets, NEW from \in Accounts, NEW to \in Accounts,
             NEW amount \in Uint64, Deposit(a, from, to, amount)
      PROVE  balance'[asset][acc] >= balance[asset][acc]
  <2>1. balance' = [balance EXCEPT ![a] = BalanceAdd(balance[a], to, amount)]
    BY <1>1 DEF Deposit, DoDeposit
  <2>2. amount \in Nat
    BY WidthAssumption DEF Uint64
  <2>3. CASE a = asset /\ to = acc
    <3>1. balance'[asset][acc] = balance[asset][acc] + amount
      BY <1>0, <2>1, <2>3 DEF BookTypeOK, Books, BalanceAdd
    <3> QED
      BY <1>0, <2>2, <3>1
  <2>4. CASE ~(a = asset /\ to = acc)
    <3>1. balance'[asset][acc] = balance[asset][acc]
      BY <1>0, <2>1, <2>4 DEF BookTypeOK, Books, BalanceAdd
    <3> QED
      BY <1>0, <3>1
  <2> QED
    BY <2>3, <2>4
<1>2. ASSUME NEW a \in Assets, NEW from \in Accounts, NEW to \in Accounts,
             NEW amount \in Uint64, Withdraw(a, from, to, amount)
      PROVE  balance'[asset][acc] >= balance[asset][acc]
  <2>1. /\ from # acc
        /\ balance' = [balance EXCEPT ![a] = BalanceSub(balance[a], from, amount)]
    BY <1>2 DEF Withdraw, DoWithdraw
  <2>2. balance'[asset][acc] = balance[asset][acc]
    BY <1>0, <2>1 DEF BookTypeOK, Books, BalanceSub
  <2> QED
    BY <1>0, <2>2
<1>3. CASE UNCHANGED balance
  BY <1>0, <1>3
<1> QED
  BY <1>1, <1>2, <1>3 DEF LedgerNext, PayOutside, SetRelay, Tick, UpdateParams

\* Nor does a two-phase withdrawal, which its owner sends itself.
LEMMA TwoPhaseLoss ==
  ASSUME BookTypeOK, NEW a \in Assets, NEW from \in Accounts,
         \/ CommitWithdraw(a, from)
         \/ \E amount \in Uint64 : PrepareWithdraw(a, from, amount),
         NEW asset \in Assets, NEW acc \in Accounts \ Signers
  PROVE  Loss(asset, acc) = 0
<1>0. \A b \in Assets : balance[b] \in Books /\ \A c \in Accounts : balance[b][c] \in Int
  BY WidthAssumption DEF BookTypeOK, Books, Uint64
<1> SUFFICES balance'[asset][acc] = balance[asset][acc]
  BY <1>0 DEF Loss
<1>1. CASE CommitWithdraw(a, from)
  <2> DEFINE n == Payable(prepared[a][from], balance[a][from])
  <2>1. from # acc /\ DoWithdraw(a, from, from, n)
    BY <1>1 DEF CommitWithdraw
  <2> HIDE DEF n
  <2>2. balance' = [balance EXCEPT ![a] = BalanceSub(balance[a], from, n)]
    BY <2>1 DEF DoWithdraw
  <2> QED
    BY <1>0, <2>1, <2>2 DEF BookTypeOK, Books, BalanceSub
<1>2. CASE \E amount \in Uint64 : PrepareWithdraw(a, from, amount)
  BY <1>2 DEF PrepareWithdraw, ledgerVars
<1> QED
  BY <1>1, <1>2
-----------------------------------------------------------------------------
(* Types are kept by every behaviour of the component: in particular no    *)
(* checked addition or subtraction of amounts ever leaves uint64.          *)
THEOREM CustodyTypeCorrect == CustodySpec => []CustodyTypeOK
<1>1. CustodyInit => Inv
  BY InitOK
<1>2. Inv /\ [CustodyNext]_custodySpecVars => Inv'
  BY StepOK
<1>3. Inv => CustodyTypeOK
  BY DEF Inv
<1> QED
  BY <1>1, <1>2, <1>3, PTL DEF CustodySpec

(* Whatever deposits, withdrawals, fees and transfers happen in whatever   *)
(* order, the DEX account can pay every balance in the book.               *)
THEOREM CustodySolvent == CustodySpec => []Solvent
<1>1. CustodyInit => Inv
  BY InitOK
<1>2. Inv /\ [CustodyNext]_custodySpecVars => Inv'
  BY StepOK
<1>3. Inv => Solvent
  BY DEF Inv
<1> QED
  BY <1>1, <1>2, <1>3, PTL DEF CustodySpec

(* Custody implements the vault: the initial state is a vault's, and every *)
(* step is a vault's step or leaves debt and cash alone.                   *)
THEOREM CustodyKeepsPromise == CustodySpec => KeepsPromise
<1>1. CustodyInit => Inv /\ Promise!Init
  BY InitOK
<1>2. Inv /\ [CustodyNext]_custodySpecVars => Inv' /\ [Promise!Next]_(Promise!vaultVars)
  BY StepOK
<1> QED
  BY <1>1, <1>2, PTL DEF CustodySpec, KeepsPromise, Promise!Spec
-----------------------------------------------------------------------------
(* With the histories.                                                     *)

HistoryTypeOK ==
  /\ asked \in [Assets -> [Accounts -> Uint64]]
  /\ askTimes \in [Assets -> [Accounts -> SUBSET Uint32]]
  /\ debited \in [Assets -> [Accounts -> Nat]]

\* A pending record is the sum of the requests since the last commit, and
\* carries the time of the last of them.
RecordsAsAsked ==
  \A asset \in Assets, acc \in Accounts :
    LET ws == prepared[asset][acc] IN
      /\ ws.Amount = asked[asset][acc]
      /\ ws.Time <= timestamp
      /\ \A time \in askTimes[asset][acc] : time <= ws.Time

\* What an owner lost is covered by requests marked as paid, not just by
\* requests that were signed.
DebitedAsPaid ==
  \A asset \in Assets, acc \in Accounts \ Signers :
    debited[asset][acc] <= PaidFor(acc, asset)

HInv == Inv /\ HistoryTypeOK /\ RecordsAsAsked /\ DebitedAsPaid

\* The histories start with the empty records.
LEMMA HistoryInitOK ==
  ASSUME HistoryInit
  PROVE  HInv
<1>1. Inv
  BY InitOK DEF HistoryInit
<1>2. HistoryTypeOK
  BY WidthAssumption DEF HistoryInit, HistoryTypeOK, Uint64
<1>3. RecordsAsAsked
  BY DEF HistoryInit, CustodyInit, LedgerInit, RecordsInit, NoRecord, RecordsAsAsked
<1>4. DebitedAsPaid
  BY PaidWithin DEF HistoryInit, DebitedAsPaid, PaidFor
<1> QED
  BY <1>1, <1>2, <1>3, <1>4 DEF HInv

\* A step of the history is a step of custody.
LEMMA HistoryStepOK ==
  ASSUME HistoryNext
  PROVE  CustodyNext
BY DEF HistoryNext, Asking, Paying, Otherwise, CustodyNext, CustodyStep

\* What a step takes from an account outside Signers is marked as paid.
LEMMA LossPaid ==
  ASSUME Inv, HistoryNext, NEW asset \in Assets, NEW acc \in Accounts \ Signers
  PROVE  Loss(asset, acc) <= PaidFor(acc, asset)' - PaidFor(acc, asset)
<1>0. BookTypeOK /\ PaidFor(acc, asset) \in Int
  BY PaidWithin DEF Inv, PaidFor
<1>1. ASSUME NEW req \in Requests, NEW relay \in Accounts, DelegateWithdraw(req, relay)
      PROVE  Loss(asset, acc) <= PaidFor(acc, asset)' - PaidFor(acc, asset)
  BY <1>0, <1>1, DelegateLoss
<1>2. CASE Loss(asset, acc) = 0 /\ UNCHANGED withdrawn
  <2>1. PaidFor(acc, asset)' = PaidFor(acc, asset)
    BY <1>2 DEF PaidFor, SignedIn, SignedBy
  <2> QED
    BY <1>0, <1>2, <2>1
<1>3. CASE LedgerNext /\ UNCHANGED custodyVars
  BY <1>0, <1>2, <1>3, LedgerLoss DEF custodyVars
<1>4. ASSUME NEW a \in Assets, NEW from \in Accounts,
             \/ Paying(a, from)
             \/ \E amount \in Uint64 : Asking(a, from, amount)
      PROVE  Loss(asset, acc) <= PaidFor(acc, asset)' - PaidFor(acc, asset)
  <2>1. \/ CommitWithdraw(a, from)
        \/ \E amount \in Uint64 : PrepareWithdraw(a, from, amount)
    BY <1>4 DEF Paying, Asking
  <2>2. Loss(asset, acc) = 0
    BY <1>0, <2>1, TwoPhaseLoss
  <2>3. UNCHANGED withdrawn
    BY <2>1 DEF CommitWithdraw, PrepareWithdraw
  <2> QED
    BY <1>2, <2>2, <2>3
<1> QED
  BY <1>1, <1>3, <1>4 DEF HistoryNext, Otherwise

\* The debit of an account outside Signers stays within what was paid.
LEMMA DebitedStep ==
  ASSUME HInv, HistoryNext
  PROVE  DebitedAsPaid' /\ debited' \in [Assets -> [Accounts -> Nat]]
<1>0. BookTypeOK /\ BookTypeOK'
  <2>1. Accounted
    BY StepAccounted, HistoryStepOK DEF HInv, Inv, CustodyTypeOK
  <2> QED
    BY <2>1, AccountedStep DEF HInv, Inv
<1>1. \A asset \in Assets, acc \in Accounts :
        /\ Loss(asset, acc) \in Nat
        /\ debited[asset][acc] \in Nat
        /\ debited'[asset][acc] = debited[asset][acc] + Loss(asset, acc)
  <2>1. \A asset \in Assets, acc \in Accounts :
          balance[asset][acc] \in Int /\ balance'[asset][acc] \in Int
    BY <1>0, WidthAssumption DEF BookTypeOK, Books, Uint64
  <2>2. \A asset \in Assets, acc \in Accounts : Loss(asset, acc) \in Nat
    BY <2>1 DEF Loss
  <2>3. \A asset \in Assets, acc \in Accounts : debited[asset][acc] \in Nat
    BY DEF HInv, HistoryTypeOK
  <2>4. debited' = [asset \in Assets |-> [acc \in Accounts |->
                      debited[asset][acc] + Loss(asset, acc)]]
    BY DEF HistoryNext
  <2> QED
    BY <2>2, <2>3, <2>4
<1>2. debited' \in [Assets -> [Accounts -> Nat]]
  <2>1. debited' = [asset \in Assets |-> [acc \in Accounts |->
                      debited[asset][acc] + Loss(asset, acc)]]
    BY DEF HistoryNext
  <2>2. \A asset \in Assets, acc \in Accounts :
          debited[asset][acc] + Loss(asset, acc) \in Nat
    BY <1>1
  <2> HIDE DEF Loss
  <2> QED
    BY <2>1, <2>2
<1>3. ASSUME NEW asset \in Assets, NEW acc \in Accounts \ Signers
      PROVE  debited'[asset][acc] <= PaidFor(acc, asset)'
  <2>1. Loss(asset, acc) <= PaidFor(acc, asset)' - PaidFor(acc, asset)
    BY LossPaid DEF HInv
  <2>2. PaidFor(acc, asset) \in Int /\ PaidFor(acc, asset)' \in Int
    BY PaidWithin DEF PaidFor
  <2>3. debited[asset][acc] <= PaidFor(acc, asset)
    BY DEF HInv, DebitedAsPaid
  <2> QED
    BY <1>1, <2>1, <2>2, <2>3
<1> QED
  BY <1>2, <1>3 DEF DebitedAsPaid

\* Requests and commits keep the record and its history in step; nothing else
\* touches either.
LEMMA RecordsStep ==
  ASSUME HInv, HistoryNext
  PROVE  /\ RecordsAsAsked'
         /\ asked' \in [Assets -> [Accounts -> Uint64]]
         /\ askTimes' \in [Assets -> [Accounts -> SUBSET Uint32]]
<1>0. /\ prepared \in [Assets -> [Accounts -> PrepareWithdrawState]]
      /\ asked \in [Assets -> [Accounts -> Uint64]]
      /\ askTimes \in [Assets -> [Accounts -> SUBSET Uint32]]
      /\ timestamp \in Uint32
      /\ Uint32 \subseteq Int
  BY WidthAssumption
     DEF HInv, Inv, CustodyTypeOK, RecordsTypeOK, LedgerTypeOK, HistoryTypeOK, Uint32
<1>1. ASSUME NEW asset \in Assets, NEW from \in Accounts, NEW amount \in Uint64,
             Asking(asset, from, amount)
      PROVE  /\ RecordsAsAsked'
             /\ asked' \in [Assets -> [Accounts -> Uint64]]
             /\ askTimes' \in [Assets -> [Accounts -> SUBSET Uint32]]
  <2> DEFINE ws == prepared[asset][from]
             sum == asked[asset][from] + amount
             times == askTimes[asset][from] \cup {timestamp}
             now == Apply(ws, amount)
  <2>1. /\ prepared' = [prepared EXCEPT ![asset][from] = now]
        /\ asked' = [asked EXCEPT ![asset][from] = sum]
        /\ askTimes' = [askTimes EXCEPT ![asset][from] = times]
        /\ ws.Amount + amount <= MaxUint64
        /\ timestamp' = timestamp
    BY <1>1 DEF Asking, PrepareWithdraw, ledgerVars
  <2>2. ws.Amount = asked[asset][from] /\ ws.Time <= timestamp /\ ws.Time \in Int
    BY <1>0 DEF HInv, RecordsAsAsked, PrepareWithdrawState
  <2>3. sum \in Uint64 /\ times \in SUBSET Uint32
    BY <1>0, <2>1, <2>2, WidthAssumption DEF Uint64
  <2>4. now.Amount = sum /\ now.Time = timestamp
    BY <2>2 DEF Apply
  <2>5. \A time \in times : time <= timestamp
    BY <1>0, <2>2 DEF HInv, RecordsAsAsked
  <2> HIDE DEF ws, sum, times, now
  <2>6. ASSUME NEW a \in Assets, NEW acc \in Accounts
        PROVE  /\ prepared'[a][acc].Amount = asked'[a][acc]
               /\ prepared'[a][acc].Time <= timestamp'
               /\ \A time \in askTimes'[a][acc] : time <= prepared'[a][acc].Time
    <3>1. CASE a = asset /\ acc = from
      <4>1. /\ prepared'[a][acc] = now
            /\ asked'[a][acc] = sum
            /\ askTimes'[a][acc] = times
        BY <1>0, <2>1, <3>1
      <4> QED
        BY <1>0, <2>1, <2>4, <2>5, <4>1
    <3>2. CASE ~(a = asset /\ acc = from)
      <4>1. /\ prepared'[a][acc] = prepared[a][acc]
            /\ asked'[a][acc] = asked[a][acc]
            /\ askTimes'[a][acc] = askTimes[a][acc]
        BY <1>0, <2>1, <3>2
      <4> QED
        BY <2>1, <4>1 DEF HInv, RecordsAsAsked
    <3> QED
      BY <3>1, <3>2
  <2>7. /\ asked' \in [Assets -> [Accounts -> Uint64]]
        /\ askTimes' \in [Assets -> [Accounts -> SUBSET Uint32]]
    BY <1>0, <2>1, <2>3
  <2> QED
    BY <2>6, <2>7 DEF RecordsAsAsked
<1>2. ASSUME NEW asset \in Assets, NEW from \in Accounts, Paying(asset, from)
      PROVE  /\ RecordsAsAsked'
             /\ asked' \in [Assets -> [Accounts -> Uint64]]
             /\ askTimes' \in [Assets -> [Accounts -> SUBSET Uint32]]
  <2>1. /\ prepared' = [prepared EXCEPT ![asset][from] = NoRecord]
        /\ asked' = [asked EXCEPT ![asset][from] = 0]
        /\ askTimes' = [askTimes EXCEPT ![asset][from] = {}]
        /\ timestamp' = timestamp
    BY <1>2 DEF Paying, CommitWithdraw, AfterCommit, contextVars
  <2>2. ASSUME NEW a \in Assets, NEW acc \in Accounts
        PROVE  /\ prepared'[a][acc].Amount = asked'[a][acc]
               /\ prepared'[a][acc].Time <= timestamp'
               /\ \A time \in askTimes'[a][acc] : time <= prepared'[a][acc].Time
    <3>1. CASE a = asset /\ acc = from
      <4>1. /\ prepared'[a][acc] = NoRecord
            /\ asked'[a][acc] = 0
            /\ askTimes'[a][acc] = {}
        BY <1>0, <2>1, <3>1
      <4>2. 0 <= timestamp
        BY <1>0, WidthAssumption DEF Uint32
      <4> QED
        BY <2>1, <4>1, <4>2 DEF NoRecord
    <3>2. CASE ~(a = asset /\ acc = from)
      <4>1. /\ prepared'[a][acc] = prepared[a][acc]
            /\ asked'[a][acc] = asked[a][acc]
            /\ askTimes'[a][acc] = askTimes[a][acc]
        BY <1>0, <2>1, <3>2
      <4> QED
        BY <2>1, <4>1 DEF HInv, RecordsAsAsked
    <3> QED
      BY <3>1, <3>2
  <2>3. 0 \in Uint64 /\ {} \in SUBSET Uint32
    BY WidthAssumption DEF Uint64
  <2>4. /\ asked' \in [Assets -> [Accounts -> Uint64]]
        /\ askTimes' \in [Assets -> [Accounts -> SUBSET Uint32]]
    BY <1>0, <2>1, <2>3
  <2> QED
    BY <2>2, <2>4 DEF RecordsAsAsked
<1>3. ASSUME Otherwise
      PROVE  /\ RecordsAsAsked'
             /\ asked' \in [Assets -> [Accounts -> Uint64]]
             /\ askTimes' \in [Assets -> [Accounts -> SUBSET Uint32]]
  <2>1. UNCHANGED <<prepared, asked, askTimes>>
    BY <1>3 DEF Otherwise, custodyVars, DelegateWithdraw
  <2>2. timestamp' \in Int /\ timestamp <= timestamp'
    BY <1>0, <1>3, WidthAssumption
       DEF Otherwise, DelegateWithdraw, contextVars, LedgerNext, Deposit, Withdraw,
           PayOutside, SetRelay, Tick, UpdateParams, Uint32
  <2>3. \A a \in Assets, acc \in Accounts : prepared[a][acc].Time \in Int
    BY <1>0 DEF PrepareWithdrawState
  <2>4. \A a \in Assets, acc \in Accounts : prepared[a][acc].Time <= timestamp'
    BY <1>0, <2>2, <2>3 DEF HInv, RecordsAsAsked
  <2> QED
    BY <1>0, <2>1, <2>4 DEF HInv, RecordsAsAsked
<1> QED
  BY <1>1, <1>2, <1>3 DEF HistoryNext

\* One step keeps the invariant.
LEMMA HistoryInvStep ==
  ASSUME HInv, [HistoryNext]_historySpecVars
  PROVE  HInv'
<1>1. CASE HistoryNext
  <2>1. Inv'
    BY <1>1, HistoryStepOK, StepOK DEF HInv
  <2> QED
    BY <1>1, <2>1, DebitedStep, RecordsStep DEF HInv, HistoryTypeOK
<1>2. CASE UNCHANGED historySpecVars
  <2>1. UNCHANGED <<custodySpecVars, asked, askTimes, debited>>
    BY <1>2 DEF historySpecVars, historyVars
  <2>2. Inv'
    BY <2>1, StepOK DEF HInv
  <2>3. UNCHANGED <<prepared, timestamp, withdrawn>>
    BY <2>1 DEF custodySpecVars, custodyVars, ledgerVars
  <2>4. HistoryTypeOK' /\ RecordsAsAsked'
    BY <2>1, <2>3 DEF HInv, HistoryTypeOK, RecordsAsAsked
  <2>5. DebitedAsPaid'
    BY <2>1, <2>3 DEF HInv, DebitedAsPaid, PaidFor, SignedIn, SignedBy
  <2> QED
    BY <2>2, <2>4, <2>5 DEF HInv
<1> QED
  BY <1>1, <1>2
-----------------------------------------------------------------------------
(* The wait never carries a timestamp over the width of the clock.         *)
WaitsFit ==
  \A params \in ParamValues : Horizon + params.WithdrawApplyWaitTime <= MaxUint32

\* When a record may be committed, if the sum does not wrap.
LEMMA MaturityExact ==
  ASSUME WaitsFit, LedgerTypeOK, NEW time \in Nat, time <= timestamp
  PROVE  MaturesAt(time) = time + globalParams.WithdrawApplyWaitTime
<1> DEFINE wait == globalParams.WithdrawApplyWaitTime
<1>1. wait \in Nat /\ MaxUint32 \in Nat /\ time + wait <= MaxUint32 /\ wait <= MaxUint32
  BY ContextAssumption, WidthAssumption DEF WaitsFit, LedgerTypeOK, GlobalParams, Uint32
<1> HIDE DEF wait
<1>2. wait % (MaxUint32 + 1) = wait
  BY <1>1, CutFits
<1>3. (time + wait) % (MaxUint32 + 1) = time + wait
  BY <1>1, CutFits
<1> QED
  BY <1>2, <1>3 DEF MaturesAt, AddUint32, wait

\* A commit comes when all the requests behind its record have waited.
LEMMA CommitStep ==
  ASSUME WaitsFit, HInv, NEW asset \in Assets, NEW from \in Accounts, Paying(asset, from),
         NEW time \in askTimes[asset][from]
  PROVE  time + globalParams.WithdrawApplyWaitTime <= timestamp
<1> DEFINE at == prepared[asset][from].Time
           wait == globalParams.WithdrawApplyWaitTime
<1>1. /\ at \in Nat /\ timestamp \in Nat /\ wait \in Nat /\ time \in Nat
      /\ LedgerTypeOK
  BY WidthAssumption, ContextAssumption
     DEF HInv, Inv, CustodyTypeOK, RecordsTypeOK, LedgerTypeOK, HistoryTypeOK,
         PrepareWithdrawState, Uint32, GlobalParams
<1>2. time <= at /\ at <= timestamp
  BY DEF HInv, RecordsAsAsked
<1>3. ~ timestamp < MaturesAt(at)
  BY DEF Paying, CommitWithdraw
<1> HIDE DEF at, wait
<1>4. MaturesAt(at) = at + wait
  BY <1>1, <1>2, MaturityExact DEF wait
<1> QED
  BY <1>1, <1>2, <1>3, <1>4 DEF wait

\* What a commit pays into the owner's wallet is at most the record.
LEMMA PayoutStep ==
  ASSUME HInv, NEW asset \in Assets, NEW from \in Accounts, Paying(asset, from)
  PROVE  wallet'[asset][from] - wallet[asset][from] <= asked[asset][from]
<1> DEFINE n == Payable(prepared[asset][from], balance[asset][from])
<1>0. /\ wallet \in [Assets -> Books] /\ balance \in [Assets -> Books]
      /\ wallet[asset][from] \in Int /\ wallet[asset][DexCtrAccount] \in Int
      /\ from \in Accounts /\ from # DexCtrAccount /\ DexCtrAccount \in Accounts
  BY AccountsAssumption, WidthAssumption
     DEF HInv, Inv, BookTypeOK, Books, Uint64, Paying, CommitWithdraw
<1>1. prepared[asset][from].Amount = asked[asset][from] /\ asked[asset][from] \in Int
  BY WidthAssumption DEF HInv, RecordsAsAsked, HistoryTypeOK, Uint64
<1>2. n \in Int /\ n <= asked[asset][from]
  BY <1>0, <1>1, WidthAssumption DEF Payable, Books, Uint64
<1>3. DoTransfer(asset, DexCtrAccount, from, n)
  BY DEF Paying, CommitWithdraw, DoWithdraw
<1> HIDE DEF n
<1>4. wallet'[asset] = Transfer(wallet[asset], DexCtrAccount, from, n)
  BY <1>0, <1>3 DEF DoTransfer
<1>5. wallet'[asset][from] = wallet[asset][from] + n
  BY <1>0, <1>4 DEF Transfer, Books
<1> QED
  BY <1>0, <1>1, <1>2, <1>5
-----------------------------------------------------------------------------
(* Whatever requests are merged into one record, however the apply time    *)
(* changes meanwhile, a commit pays no request that has not waited in      *)
(* full, as long as timestamp plus wait fits the clock's width (dex.go     *)
(* CommitWithdraw, helper.go DoApplyWithdraw).                             *)
THEOREM CommitsMature == ASSUME WaitsFit PROVE HistorySpec => MatureCommit
<1>1. HistoryInit => HInv
  BY HistoryInitOK
<1>2. HInv /\ [HistoryNext]_historySpecVars => HInv'
  BY HistoryInvStep
<1>3. HInv => \A asset \in Assets, from \in Accounts : Paying(asset, from) =>
                \A time \in askTimes[asset][from] :
                  time + globalParams.WithdrawApplyWaitTime <= timestamp
  BY CommitStep
<1> QED
  BY <1>1, <1>2, <1>3, PTL DEF HistorySpec, MatureCommit

(* However requests, commits and partial payments alternate, no commit     *)
(* pays more than was asked for since the one before (dex.go               *)
(* CommitWithdraw deletes the record before it pays).                      *)
THEOREM PayoutsAsAsked == HistorySpec => PayoutAsAsked
<1>1. HistoryInit => HInv
  BY HistoryInitOK
<1>2. HInv /\ [HistoryNext]_historySpecVars => HInv'
  BY HistoryInvStep
<1>3. HInv => \A asset \in Assets, from \in Accounts : Paying(asset, from) =>
                wallet'[asset][from] - wallet[asset][from] <= asked[asset][from]
  BY PayoutStep
<1> QED
  BY <1>1, <1>2, <1>3, PTL DEF HistorySpec, PayoutAsAsked

(* An owner who only ever signs requests loses at most their sum, however  *)
(* many relays submit and resubmit them in whatever order (dex.go          *)
(* DelegateWithdraw).                                                      *)
THEOREM OwnersLoseAsSigned == HistorySpec => []DebitedAsSigned
<1>1. HistoryInit => HInv
  BY HistoryInitOK
<1>2. HInv /\ [HistoryNext]_historySpecVars => HInv'
  BY HistoryInvStep
<1>3. HInv => DebitedAsSigned
  <2> SUFFICES ASSUME HInv, NEW asset \in Assets, NEW acc \in Accounts \ Signers
               PROVE  debited[asset][acc] <= SignedAway(acc, asset)
    BY DEF DebitedAsSigned
  <2>1. debited[asset][acc] \in Nat /\ debited[asset][acc] <= PaidFor(acc, asset)
    BY DEF HInv, HistoryTypeOK, DebitedAsPaid
  <2>2. /\ PaidFor(acc, asset) \in Nat /\ SignedAway(acc, asset) \in Nat
        /\ PaidFor(acc, asset) <= SignedAway(acc, asset)
    BY PaidWithin DEF PaidFor
  <2> QED
    BY <2>1, <2>2
<1> QED
  BY <1>1, <1>2, <1>3, PTL DEF HistorySpec
=============================================================================
