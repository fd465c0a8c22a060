------------------------------ MODULE DexProofs ------------------------------
(***************************************************************************)
(* Theorems about the whole contract, where trades, fees, claims and both  *)
(* ways of withdrawing spend the same balances: its types, its solvency,   *)
(* the vault it implements, what an owner who only signs can lose and what *)
(* its events tell a follower, for any accounts, orders, requests, rates   *)
(* and integer widths.                                                     *)
(***************************************************************************)
EXTENDS DexHistory, EventLog, CustodyProofs, TradingProofs

\* Every step adds up if the fees do.
LEMMA InvokeAccounted ==
  ASSUME RatesFit, DexTypeOK, [Invoke]_dexVars
  PROVE  Accounted
<1>1. CASE CustodyStep
  BY <1>1, StepAccounted
     DEF CustodyNext, DexTypeOK, TradingTypeOK, LedgerTypeOK, BookTypeOK, Books
<1>2. CASE TradingNext
  BY <1>2, TradingStepAccounted DEF DexTypeOK
<1>3. CASE UNCHANGED dexVars
  BY <1>3 DEF Accounted, dexVars, ledgerVars, bookVars
<1> QED
  BY <1>1, <1>2, <1>3 DEF Invoke

\* The types are kept whether or not the fees fit.
LEMMA InvokeTypes ==
  ASSUME DexTypeOK, [Invoke]_dexVars
  PROVE  DexTypeOK'
<1>0. /\ BookTypeOK /\ CustodyTypeOK /\ LedgerTypeOK /\ RecordsTypeOK
      /\ TradingTypeOK /\ RoundsTypeOK /\ OrdersTypeOK
  BY DEF DexTypeOK, TradingTypeOK, CustodyTypeOK, LedgerTypeOK, BookTypeOK, Books
<1>1. CASE CustodyStep /\ UNCHANGED <<governanceVars, orderVars>>
  <2>1. CustodyNext
    BY <1>1 DEF CustodyNext
  <2>2. BookTypeOK'
    BY <1>0, <2>1, StepAccounted, AccountedStep
  <2>3. LedgerTypeOK' /\ RecordsTypeOK'
    BY <1>0, <2>1, <2>2, StepCustodyTypes, StepLedgerTypes
  <2>4. RoundsTypeOK' /\ OrdersTypeOK'
    BY <1>0, <1>1 DEF RoundsTypeOK, OrdersTypeOK, governanceVars, orderVars
  <2> QED
    BY <2>3, <2>4 DEF DexTypeOK, TradingTypeOK
<1>2. CASE TradingNext /\ UNCHANGED custodyVars
  <2>1. TradingTypeOK'
    BY <1>0, <1>2, TradingStepTypes
  <2>2. RecordsTypeOK'
    BY <1>0, <1>2 DEF RecordsTypeOK, custodyVars
  <2> QED
    BY <2>1, <2>2 DEF DexTypeOK
<1>3. CASE UNCHANGED dexVars
  BY <1>0, <1>3
     DEF dexVars, ledgerVars, custodyVars, governanceVars, orderVars, DexTypeOK,
         TradingTypeOK, LedgerTypeOK, RoundsTypeOK, OrdersTypeOK, RecordsTypeOK
<1> QED
  BY <1>1, <1>2, <1>3 DEF Invoke

\* Only trading touches orders, and it overfills none.
LEMMA InvokeOrders ==
  ASSUME DexTypeOK, OrdersKept, [Invoke]_dexVars
  PROVE  OrdersKept'
<1>0. TradingTypeOK /\ OrdersTypeOK
  BY DEF DexTypeOK, TradingTypeOK
<1>1. CASE TradingNext
  BY <1>0, <1>1, TradingStepOrders
<1>2. CASE UNCHANGED orderVars
  <2>1. \A order \in Orders : orderState'[order].Filled = orderState[order].Filled
    BY <1>2 DEF orderVars
  <2> QED
    BY <1>0, <2>1, NothingFilled
<1> QED
  BY <1>1, <1>2 DEF Invoke, dexVars

\* The contract starts well typed, with nothing owed or filled.
LEMMA DexInitOK ==
  ASSUME DexInit
  PROVE  DexTypeOK /\ OrdersKept /\ Solvent /\ Promise!Init
<1>1. TradingTypeOK /\ Solvent /\ Promise!Init /\ OrdersKept
  BY TradingInitOK, TradingInitOrders DEF DexInit
<1>2. RecordsTypeOK
  BY WidthAssumption
     DEF DexInit, RecordsInit, RecordsTypeOK, NoRecord, PrepareWithdrawState, Uint32, Uint64
<1> QED
  BY <1>1, <1>2 DEF DexTypeOK

(* Types are kept by every behaviour of the contract, the balances within  *)
(* uint64 whatever the rates are.                                          *)
THEOREM DexTypeCorrect == DexSpec => []DexTypeOK
<1>1. DexInit => DexTypeOK
  BY DexInitOK
<1>2. DexTypeOK /\ [Invoke]_dexVars => DexTypeOK'
  BY InvokeTypes
<1> QED
  BY <1>1, <1>2, PTL DEF DexSpec

\* One step of the whole keeps types and solvency and is a vault's step.
LEMMA InvokeSolvent ==
  ASSUME RatesFit, DexTypeOK, Solvent, [Invoke]_dexVars
  PROVE  DexTypeOK' /\ Solvent' /\ [Promise!Next]_(Promise!vaultVars)
<1>1. BookTypeOK
  BY DEF DexTypeOK, TradingTypeOK, LedgerTypeOK, BookTypeOK, Books
<1> QED
  BY <1>1, InvokeTypes, InvokeAccounted, AccountedStep

(* If the rates fit, the DEX account can pay every balance in the book,    *)
(* however trades, fees, claims, relayed and two-phase withdrawals of the  *)
(* same balances follow each other.                                        *)
THEOREM DexSolvent ==
  ASSUME RatesFit
  PROVE  DexSpec => []Solvent
<1>1. DexInit => DexTypeOK /\ Solvent
  BY DexInitOK
<1>2. DexTypeOK /\ Solvent /\ [Invoke]_dexVars => (DexTypeOK /\ Solvent)'
  BY InvokeSolvent
<1> QED
  BY <1>1, <1>2, PTL DEF DexSpec

(* And the whole contract implements the vault.                            *)
THEOREM DexKeepsPromise ==
  ASSUME RatesFit
  PROVE  DexSpec => KeepsPromise
<1>1. DexInit => DexTypeOK /\ Solvent /\ Promise!Init
  BY DexInitOK
<1>2. DexTypeOK /\ Solvent /\ [Invoke]_dexVars
        => (DexTypeOK /\ Solvent)' /\ [Promise!Next]_(Promise!vaultVars)
  BY InvokeSolvent
<1> QED
  BY <1>1, <1>2, PTL DEF DexSpec, KeepsPromise, Promise!Spec
-----------------------------------------------------------------------------
(* What an owner who sends no transactions loses.  Paid requests and       *)
(* filled orders only ever add to each other.                              *)

LossesCovered ==
  \A asset \in Assets, acc \in Accounts \ Signers :
    lost[asset][acc] <= PaidFor(acc, asset) + CostOf(acc, asset, orderState)

LossInv ==
  /\ DexTypeOK
  /\ OrdersKept
  /\ lost \in [Assets -> [Accounts -> Int]]
  /\ LossesCovered

\* What backs a loss is a natural number.
LEMMA BudgetFacts ==
  ASSUME DexTypeOK, FilledWithinAmount, NEW acc, NEW asset
  PROVE  /\ PaidFor(acc, asset) \in Nat /\ PaidFor(acc, asset) <= SignedAway(acc, asset)
         /\ CostOf(acc, asset, orderState) \in Nat
         /\ CostOf(acc, asset, orderState) <= Committed(acc, asset)
         /\ SignedAway(acc, asset) \in Nat /\ Committed(acc, asset) \in Nat
<1>1. \A order \in Orders :
        orderState[order].Filled \in Nat /\ orderState[order].Filled <= order.Amount
  BY WidthAssumption
     DEF FilledWithinAmount, DexTypeOK, TradingTypeOK, OrdersTypeOK, OrderState, Uint64
<1> QED
  BY <1>1, PaidWithin, CostWithin DEF PaidFor

\* A claim of the governance contract, which sends it itself, costs nobody else.
LEMMA GovernanceLoss ==
  ASSUME BookTypeOK, GovernanceStep, NEW asset \in Assets, NEW acc \in Accounts \ Signers
  PROVE  Loss(asset, acc) = 0
<1>0. \A a \in Assets : balance[a] \in Books /\ \A b \in Accounts : balance[a][b] \in Int
  BY WidthAssumption DEF BookTypeOK, Books, Uint64
<1> SUFFICES balance'[asset][acc] = balance[asset][acc]
  BY <1>0 DEF Loss
<1>1. ASSUME NEW a \in Assets, ClaimSpProfit(a)
      PROVE  balance'[asset][acc] = balance[asset][acc]
  <2> DEFINE n == Claimable(spProfit[a])
  <2>1. /\ GovernanceCtrAccount # acc
        /\ balance' = [balance EXCEPT ![a] = BalanceSub(balance[a], GovernanceCtrAccount, n)]
    BY <1>1 DEF ClaimSpProfit, DoWithdraw
  <2> HIDE DEF n
  <2> QED
    BY <1>0, <2>1 DEF BookTypeOK, Books, BalanceSub
<1>2. ASSUME NEW round \in Rounds, EpochEnd(round)
      PROVE  balance'[asset][acc] = balance[asset][acc]
  BY <1>2 DEF EpochEnd, ledgerVars
<1> QED
  BY <1>1, <1>2 DEF GovernanceStep

\* A step that fills no order and pays no request.
LEMMA SameBudget ==
  ASSUME NEW acc, NEW asset
  PROVE  /\ UNCHANGED withdrawn => SignedIn(acc, asset, withdrawn') = PaidFor(acc, asset)
         /\ PaidFor(acc, asset)' = SignedIn(acc, asset, withdrawn')
         /\ (\A order \in Orders : orderState'[order].Filled = orderState[order].Filled)
              => CostOf(acc, asset, orderState') = CostOf(acc, asset, orderState)
<1>1. UNCHANGED withdrawn => SignedIn(acc, asset, withdrawn') = PaidFor(acc, asset)
  BY DEF PaidFor
<1>2. ASSUME \A order \in Orders : orderState'[order].Filled = orderState[order].Filled
      PROVE  CostOf(acc, asset, orderState') = CostOf(acc, asset, orderState)
  <2>1. [order \in Orders |-> Cost(order, asset, orderState'[order].Filled)]
          = [order \in Orders |-> Cost(order, asset, orderState[order].Filled)]
    BY <1>2
  <2> QED
    BY <2>1, Zenon DEF CostOf
<1>3. PaidFor(acc, asset)' = SignedIn(acc, asset, withdrawn')
  BY DEF PaidFor, SignedIn, SignedBy
<1> QED
  BY <1>1, <1>2, <1>3

\* Every step takes from such an owner no more than it adds to what the
\* owner's paid requests and filled orders say.
LEMMA InvokeLoss ==
  ASSUME LossInv, DexTypeOK', OrdersKept', [Invoke]_dexVars,
         NEW asset \in Assets, NEW acc \in Accounts \ Signers
  PROVE  /\ Loss(asset, acc) \in Int
         /\ Loss(asset, acc) <= (SignedIn(acc, asset, withdrawn') - PaidFor(acc, asset))
              + (CostOf(acc, asset, orderState') - CostOf(acc, asset, orderState))
<1> DEFINE paid == PaidFor(acc, asset)
           due == SignedIn(acc, asset, withdrawn')
           cost == CostOf(acc, asset, orderState)
           more == CostOf(acc, asset, orderState')
           loss == Loss(asset, acc)
<1>0. BookTypeOK /\ TradingTypeOK
  BY DEF LossInv, DexTypeOK, TradingTypeOK, LedgerTypeOK, BookTypeOK, Books
<1>1. paid \in Int /\ cost \in Int
  BY BudgetFacts DEF LossInv, OrdersKept
<1>2. due \in Int /\ paid' = due
  BY PaidWithin, SameBudget
<1>3. more \in Int
  <2>1. \A order \in Orders :
          orderState'[order].Filled \in Nat /\ orderState'[order].Filled <= order.Amount
    BY WidthAssumption DEF OrdersKept, FilledWithinAmount, DexTypeOK, TradingTypeOK,
                           OrdersTypeOK, OrderState, Uint64
  <2>2. more \in Nat
    BY <2>1, CostWithin
  <2> QED
    BY <2>2
<1>4. loss \in Int /\ (UNCHANGED balance => loss = 0)
  <2>1. balance[asset][acc] \in Int /\ balance'[asset][acc] \in Int
    BY WidthAssumption DEF LossInv, DexTypeOK, TradingTypeOK, LedgerTypeOK, Uint64
  <2> QED
    BY <2>1 DEF Loss
<1>5. UNCHANGED withdrawn => due = paid
  BY SameBudget
<1>6. (\A order \in Orders : orderState'[order].Filled = orderState[order].Filled)
        => more = cost
  BY SameBudget
<1>7. ASSUME NEW req \in Requests, NEW relay \in Accounts, DelegateWithdraw(req, relay)
      PROVE  loss <= due - paid
  BY <1>0, <1>2, <1>7, DelegateLoss
<1>8. ASSUME NEW a \in Assets, NEW from \in Accounts,
             \/ CommitWithdraw(a, from)
             \/ \E amount \in Uint64 : PrepareWithdraw(a, from, amount)
      PROVE  loss = 0 /\ UNCHANGED withdrawn
  <2>1. loss = 0
    BY <1>0, <1>8, TwoPhaseLoss
  <2> QED
    BY <1>8, <2>1 DEF CommitWithdraw, PrepareWithdraw
<1>9. ASSUME LedgerNext PROVE loss = 0
  BY <1>0, <1>9, LedgerLoss
<1>10. ASSUME GovernanceStep PROVE loss = 0
  BY <1>0, <1>10, GovernanceLoss
<1>11. ASSUME NEW maker \in Orders, NEW taker \in Orders, NEW relay \in Accounts,
              NEW amount \in Uint64, Trade(maker, taker, relay, amount)
       PROVE  loss <= more - cost
  BY <1>0, <1>11, TradeLoss
<1>12. UNCHANGED balance => loss = 0
  BY <1>4
<1>13. ASSUME Canceling
       PROVE  loss = 0 /\ \A order \in Orders : orderState'[order].Filled = orderState[order].Filled
  BY <1>0, <1>12, <1>13, CancelingEffect DEF ledgerVars
<1>14. UNCHANGED orderVars => \A order \in Orders : orderState'[order].Filled = orderState[order].Filled
  BY DEF orderVars
<1> HIDE DEF paid, due, cost, more, loss
<1>15. ASSUME CustodyStep, UNCHANGED <<governanceVars, orderVars>>
       PROVE  loss <= (due - paid) + (more - cost)
  <2>1. more = cost
    BY <1>6, <1>14, <1>15
  <2>2. CASE \E req \in Requests, relay \in Accounts : DelegateWithdraw(req, relay)
    BY <1>1, <1>2, <1>3, <1>4, <1>7, <2>1, <2>2
  <2>3. CASE \E a \in Assets, from \in Accounts :
               \/ CommitWithdraw(a, from)
               \/ \E amount \in Uint64 : PrepareWithdraw(a, from, amount)
    BY <1>1, <1>2, <1>3, <1>5, <1>8, <2>1, <2>3
  <2> QED
    BY <1>15, <2>2, <2>3 DEF CustodyStep
<1>16. ASSUME TradingNext, UNCHANGED custodyVars
       PROVE  loss <= (due - paid) + (more - cost)
  <2>1. due = paid
    BY <1>5, <1>16 DEF custodyVars
  <2>2. CASE \E maker, taker \in Orders, relay \in Accounts, amount \in Uint64 :
               Trade(maker, taker, relay, amount)
    BY <1>1, <1>3, <1>4, <1>11, <2>1, <2>2
  <2>3. CASE Canceling
    BY <1>1, <1>3, <1>6, <1>13, <2>1, <2>3
  <2>4. CASE (LedgerNext \/ GovernanceStep) /\ UNCHANGED orderVars
    BY <1>1, <1>3, <1>6, <1>9, <1>10, <1>14, <2>1, <2>4
  <2> QED
    BY <1>16, <2>2, <2>3, <2>4 DEF TradingNext, TradingStep
<1>17. ASSUME UNCHANGED dexVars
       PROVE  loss <= (due - paid) + (more - cost)
  <2>1. UNCHANGED balance /\ UNCHANGED withdrawn /\ UNCHANGED orderVars
    BY <1>17 DEF dexVars, ledgerVars, custodyVars, orderVars
  <2> QED
    BY <1>1, <1>3, <1>5, <1>6, <1>12, <1>14, <2>1
<1> QED
  BY <1>4, <1>15, <1>16, <1>17 DEF Invoke, paid, due, cost, more, loss

\* The invariant is inductive.
LEMMA LossyStep ==
  ASSUME LossInv, [LossyNext]_dexHistoryVars
  PROVE  LossInv'
<1>0. DexTypeOK /\ OrdersKept /\ [Invoke]_dexVars
  BY DEF LossInv, LossyNext, dexHistoryVars
<1>1. DexTypeOK' /\ OrdersKept'
  BY <1>0, InvokeTypes, InvokeOrders
<1>2. CASE LossyNext
  <2>1. lost' = [asset \in Assets |-> [acc \in Accounts |->
                  lost[asset][acc] + Loss(asset, acc)]]
    BY <1>2 DEF LossyNext
  <2>2. lost' \in [Assets -> [Accounts -> Int]]
    <3>1. \A asset \in Assets, acc \in Accounts :
            balance[asset][acc] \in Int /\ balance'[asset][acc] \in Int
      BY <1>0, <1>1, WidthAssumption DEF DexTypeOK, TradingTypeOK, LedgerTypeOK, Uint64
    <3>2. \A asset \in Assets, acc \in Accounts : Loss(asset, acc) \in Int
      BY <3>1 DEF Loss
    <3> QED
      BY <2>1, <3>2 DEF LossInv
  <2>3. ASSUME NEW asset \in Assets, NEW acc \in Accounts \ Signers
        PROVE  lost'[asset][acc] <= PaidFor(acc, asset)' + CostOf(acc, asset, orderState')
    <3> DEFINE paid == PaidFor(acc, asset)
               due == SignedIn(acc, asset, withdrawn')
               cost == CostOf(acc, asset, orderState)
               more == CostOf(acc, asset, orderState')
               loss == Loss(asset, acc)
               before == lost[asset][acc]
    <3>1. loss \in Int /\ loss <= (due - paid) + (more - cost)
      BY <1>0, <1>1, InvokeLoss
    <3>2. paid \in Int /\ cost \in Int
      BY <1>0, BudgetFacts DEF OrdersKept
    <3>3. due \in Int /\ PaidFor(acc, asset)' = due
      BY PaidWithin, SameBudget
    <3>4. more \in Int
      <4>1. \A order \in Orders :
              orderState'[order].Filled \in Nat /\ orderState'[order].Filled <= order.Amount
        BY <1>1, WidthAssumption
           DEF OrdersKept, FilledWithinAmount, DexTypeOK, TradingTypeOK, OrdersTypeOK,
               OrderState, Uint64
      <4>2. more \in Nat
        BY <4>1, CostWithin
      <4> QED
        BY <4>2
    <3>5. before \in Int /\ before <= paid + cost
      BY DEF LossInv, LossesCovered
    <3>6. lost'[asset][acc] = before + loss
      BY <2>1
    <3> HIDE DEF paid, due, cost, more, loss, before
    <3>7. before + loss <= due + more
      BY <3>1, <3>2, <3>3, <3>4, <3>5
    <3> QED
      BY <3>3, <3>6, <3>7 DEF more, due
  <2>4. LossesCovered'
    BY <2>3 DEF LossesCovered, CostOf
  <2> QED
    BY <1>1, <2>2, <2>4 DEF LossInv
<1>3. CASE UNCHANGED dexHistoryVars
  <2>1. UNCHANGED <<lost, withdrawn, orderState>>
    BY <1>3 DEF dexHistoryVars, dexVars, custodyVars, orderVars
  <2>2. LossesCovered'
    BY <2>1 DEF LossInv, LossesCovered, PaidFor, SignedIn, SignedBy, CostOf
  <2> QED
    BY <1>1, <2>1, <2>2 DEF LossInv
<1> QED
  BY <1>2, <1>3

\* Nothing is lost at the start.
LEMMA LossInit ==
  ASSUME DexInit, NothingLost
  PROVE  LossInv
<1>1. DexTypeOK /\ OrdersKept
  BY DexInitOK
<1>2. ASSUME NEW asset \in Assets, NEW acc \in Accounts \ Signers
      PROVE  lost[asset][acc] <= PaidFor(acc, asset) + CostOf(acc, asset, orderState)
  <2>1. PaidFor(acc, asset) \in Nat /\ CostOf(acc, asset, orderState) \in Nat
    BY <1>1, BudgetFacts DEF OrdersKept
  <2>2. lost[asset][acc] = 0
    BY DEF NothingLost
  <2> QED
    BY <2>1, <2>2
<1> QED
  BY <1>1, <1>2 DEF LossInv, LossesCovered, NothingLost

(* An owner who only ever signs, orders and withdrawals alike, loses no    *)
(* more than the distinct things signed, in whatever order relays submit   *)
(* and resubmit them between other people's trades and withdrawals.  This  *)
(* needs no assumption on rates.                                           *)
THEOREM OwnersLoseNoMoreThanSigned == LossySpec => []LostAsSigned
<1>1. DexInit /\ NothingLost => LossInv
  BY LossInit
<1>2. LossInv /\ [LossyNext]_dexHistoryVars => LossInv'
  BY LossyStep
<1>3. LossInv => LostAsSigned
  <2> SUFFICES ASSUME LossInv, NEW asset \in Assets, NEW acc \in Accounts \ Signers
               PROVE  lost[asset][acc] <= SignedAway(acc, asset) + Committed(acc, asset)
    BY DEF LostAsSigned
  <2>1. /\ PaidFor(acc, asset) \in Nat /\ PaidFor(acc, asset) <= SignedAway(acc, asset)
        /\ CostOf(acc, asset, orderState) \in Nat
        /\ CostOf(acc, asset, orderState) <= Committed(acc, asset)
        /\ SignedAway(acc, asset) \in Nat /\ Committed(acc, asset) \in Nat
    BY BudgetFacts DEF LossInv, OrdersKept
  <2>2. /\ lost[asset][acc] \in Int
        /\ lost[asset][acc] <= PaidFor(acc, asset) + CostOf(acc, asset, orderState)
    BY DEF LossInv, LossesCovered
  <2> QED
    BY <2>1, <2>2
<1> QED
  BY <1>1, <1>2, <1>3, PTL DEF LossySpec
-----------------------------------------------------------------------------
(* The way out.  ENABLED is beyond the provers, so ExitOpen is stated here *)
(* by what CommitWithdraw asks for: the caller, the time, a record, and a  *)
(* payout that the DEX account, the owner's wallet and the book allow.     *)

CommitAllowed(asset, from) ==
  LET ws == prepared[asset][from]
      withdrawAmount == Payable(ws, balance[asset][from])
  IN  /\ from \in Signers
      /\ ~ timestamp < MaturesAt(ws.Time)
      /\ ws.Amount # 0
      /\ TransferOK(wallet[asset], DexCtrAccount, from, withdrawAmount)
      /\ BalanceSubOK(balance[asset], from, withdrawAmount)

WayOut ==
  \A asset \in Assets, from \in Signers :
    Mature(prepared[asset][from]) => CommitAllowed(asset, from)

\* A token's whole supply can be held by one account.
SupplyFits == \A asset \in Assets : Total(InitialWallet[asset]) <= MaxUint64

\* Tokens only ever move.
TokensKept == \A asset \in Assets : Total(wallet[asset]) = Total(InitialWallet[asset])

Moves ==
  \/ UNCHANGED wallet
  \/ \E asset \in Assets, from, to \in Accounts, amount \in Uint64 :
       DoTransfer(asset, from, to, amount)

\* Every handler that touches token contracts transfers, once.
LEMMA InvokeMoves ==
  ASSUME DexTypeOK, [Invoke]_dexVars
  PROVE  Moves
<1>0. /\ DexCtrAccount \in Accounts /\ GovernanceCtrAccount \in Accounts
      /\ BookTypeOK /\ RecordsTypeOK /\ RoundsTypeOK
  BY AccountsAssumption
     DEF DexTypeOK, TradingTypeOK, LedgerTypeOK, BookTypeOK, Books
<1>1. ASSUME NEW asset \in Assets, NEW from \in Accounts, NEW to \in Accounts,
             NEW amount \in Uint64,
             \/ Deposit(asset, from, to, amount)
             \/ Withdraw(asset, from, to, amount)
             \/ PayOutside(asset, from, to, amount)
      PROVE  Moves
  BY <1>0, <1>1 DEF Deposit, DoDeposit, Withdraw, DoWithdraw, PayOutside, Moves
<1>2. CASE LedgerNext
  BY <1>1, <1>2 DEF LedgerNext, SetRelay, Tick, UpdateParams, Moves
<1>3. ASSUME NEW req \in Requests, NEW relay \in Accounts, DelegateWithdraw(req, relay)
      PROVE  Moves
  <2>1. /\ DoTransfer(req.asset, DexCtrAccount, req.to, req.amount - req.fee)
        /\ req.fee <= req.amount
    BY <1>3 DEF DelegateWithdraw, DoDelegateWithdraw
  <2>2. req.asset \in Assets /\ req.to \in Accounts /\ req.amount \in Uint64 /\ req.fee \in Uint64
    BY RequestAssumption DEF DWithdrawArgs
  <2>3. req.amount - req.fee \in Uint64
    BY <2>1, <2>2, WidthAssumption DEF Uint64
  <2> QED
    BY <1>0, <2>1, <2>2, <2>3 DEF Moves
<1>4. ASSUME NEW asset \in Assets, NEW from \in Accounts,
             \/ CommitWithdraw(asset, from)
             \/ \E amount \in Uint64 : PrepareWithdraw(asset, from, amount)
      PROVE  Moves
  <2> DEFINE n == Payable(prepared[asset][from], balance[asset][from])
  <2>1. n \in Uint64
    BY <1>0 DEF Payable, BookTypeOK, Books, RecordsTypeOK, PrepareWithdrawState
  <2>2. CASE CommitWithdraw(asset, from)
    <3>1. DoTransfer(asset, DexCtrAccount, from, n)
      BY <2>2 DEF CommitWithdraw, DoWithdraw
    <3> HIDE DEF n
    <3> QED
      BY <1>0, <2>1, <3>1 DEF Moves
  <2>3. CASE \E amount \in Uint64 : PrepareWithdraw(asset, from, amount)
    BY <2>3 DEF PrepareWithdraw, ledgerVars, Moves
  <2> QED
    BY <1>4, <2>2, <2>3
<1>5. ASSUME NEW asset \in Assets, ClaimSpProfit(asset)
      PROVE  Moves
  <2> DEFINE n == Claimable(spProfit[asset])
  <2>1. n \in Uint64
    <3>1. spProfit[asset] \in SpProfit
      BY <1>0 DEF RoundsTypeOK
    <3> QED
      BY <1>0, <3>1, ClaimTyped
  <2>2. DoTransfer(asset, DexCtrAccount, GovernanceCtrAccount, n)
    BY <1>5 DEF ClaimSpProfit, DoWithdraw
  <2> HIDE DEF n
  <2> QED
    BY <1>0, <2>1, <2>2 DEF Moves
<1>6. CASE GovernanceStep
  BY <1>5, <1>6 DEF GovernanceStep, EpochEnd, ledgerVars, Moves
<1>7. CASE TradingStep
  <2>1. \A order \in Orders : CancelOrder(order) => UNCHANGED wallet
    BY DEF CancelOrder, ledgerVars
  <2>2. \A relay, user \in Accounts, number \in CancelNumbers :
          DelegateCancelOrder(relay, user, number) => UNCHANGED wallet
    BY DEF DelegateCancelOrder, ledgerVars
  <2>3. \A maker, taker \in Orders, relay \in Accounts, amount \in Uint64 :
          Trade(maker, taker, relay, amount) => UNCHANGED wallet
    BY DEF Trade
  <2> QED
    BY <1>7, <2>1, <2>2, <2>3 DEF TradingStep, Canceling, Moves
<1>8. CASE UNCHANGED dexVars
  BY <1>8 DEF dexVars, ledgerVars, Moves
<1> QED
  BY <1>2, <1>3, <1>4, <1>6, <1>7, <1>8 DEF Invoke, CustodyStep, TradingNext

\* So tokens are kept.
LEMMA InvokeTokens ==
  ASSUME DexTypeOK, TokensKept, [Invoke]_dexVars
  PROVE  TokensKept'
<1>1. CASE UNCHANGED wallet
  BY <1>1 DEF TokensKept
<1>2. ASSUME NEW asset \in Assets, NEW from \in Accounts, NEW to \in Accounts,
             NEW amount \in Uint64, DoTransfer(asset, from, to, amount)
      PROVE  TokensKept'
  <2> DEFINE after == Transfer(wallet[asset], from, to, amount)
  <2>1. wallet[asset] \in Books /\ wallet \in [Assets -> Books]
    BY DEF DexTypeOK, TradingTypeOK, LedgerTypeOK, Books
  <2>2. TransferOK(wallet[asset], from, to, amount) /\ wallet' = [wallet EXCEPT ![asset] = after]
    BY <1>2 DEF DoTransfer
  <2>3. Total(after) = Total(wallet[asset])
    BY <2>1, <2>2, TransferTotal
  <2> HIDE DEF after
  <2>4. \A other \in Assets : Total(wallet'[other]) = Total(wallet[other])
    BY <2>1, <2>2, <2>3
  <2> QED
    BY <2>4 DEF TokensKept
<1> QED
  BY <1>1, <1>2, InvokeMoves DEF Moves

\* Solvency and the supply leave room for every payout.
LEMMA PayoutFits ==
  ASSUME SupplyFits, DexTypeOK, Solvent, TokensKept
  PROVE  WayOut
<1> SUFFICES ASSUME NEW asset \in Assets, NEW from \in Signers, Mature(prepared[asset][from])
             PROVE  CommitAllowed(asset, from)
  BY DEF WayOut
<1> DEFINE ws == prepared[asset][from]
           n == Payable(ws, balance[asset][from])
<1>1. from \in Accounts /\ DexCtrAccount \in Accounts /\ from # DexCtrAccount
  BY AccountsAssumption
<1>2. /\ balance[asset] \in Books /\ wallet[asset] \in Books
      /\ balance[asset][from] \in Nat
      /\ wallet[asset][from] \in Int /\ wallet[asset][DexCtrAccount] \in Int
      /\ ws.Amount \in Nat /\ MaxUint64 \in Nat
  BY <1>1, WidthAssumption
     DEF DexTypeOK, TradingTypeOK, LedgerTypeOK, RecordsTypeOK, PrepareWithdrawState,
         Books, Uint64
<1>3. n \in Nat /\ n <= balance[asset][from]
  BY <1>2 DEF Payable
<1>4. /\ Total(balance[asset]) \in Nat /\ balance[asset][from] <= Total(balance[asset])
      /\ Total(balance[asset]) <= wallet[asset][DexCtrAccount]
  BY <1>1, <1>2, TotalBounds DEF Solvent
<1>5. /\ Total(wallet[asset]) \in Nat /\ Total(wallet[asset]) <= MaxUint64
      /\ wallet[asset][from] + wallet[asset][DexCtrAccount] <= Total(wallet[asset])
  BY <1>1, <1>2, TotalBounds, TwoWithin DEF SupplyFits, TokensKept
<1>6. ~ timestamp < MaturesAt(ws.Time) /\ ws.Amount # 0
  <2>1. timestamp \in Int /\ MaturesAt(ws.Time) \in Int
    <3>1. /\ timestamp \in Int /\ ws.Time \in Int /\ MaxUint32 \in Nat
          /\ globalParams.WithdrawApplyWaitTime \in Int
      BY <1>1, WidthAssumption, ContextAssumption
         DEF DexTypeOK, TradingTypeOK, LedgerTypeOK, RecordsTypeOK, PrepareWithdrawState,
             GlobalParams, Uint32
    <3>2. \A k \in Int : k % (MaxUint32 + 1) \in Int
      BY <3>1, CutRange
    <3> QED
      BY <3>1, <3>2 DEF MaturesAt, AddUint32
  <2>2. ws.Amount > 0 /\ timestamp >= MaturesAt(ws.Time)
    BY DEF Mature
  <2> HIDE DEF ws
  <2> QED
    BY <1>2, <2>1, <2>2
<1> HIDE DEF n
<1>7. TransferOK(wallet[asset], DexCtrAccount, from, n)
  BY <1>1, <1>2, <1>3, <1>4, <1>5 DEF TransferOK
<1>8. BalanceSubOK(balance[asset], from, n)
  BY <1>2, <1>3 DEF BalanceSubOK
<1> QED
  BY <1>6, <1>7, <1>8 DEF CommitAllowed, n

(* The way out stays open: whatever trades, delegated withdrawals, fees    *)
(* and claims did to the balance since the request, a withdrawal that has  *)
(* waited can be committed in that very state.                             *)
THEOREM WayOutStaysOpen ==
  ASSUME RatesFit, SupplyFits
  PROVE  DexSpec => []WayOut
<1>1. DexInit => DexTypeOK /\ Solvent /\ TokensKept
  BY DexInitOK DEF DexInit, TradingInit, LedgerInit, TokensKept
<1>2. (DexTypeOK /\ Solvent /\ TokensKept) /\ [Invoke]_dexVars
        => (DexTypeOK /\ Solvent /\ TokensKept)'
  BY InvokeSolvent, InvokeTokens
<1>3. DexTypeOK /\ Solvent /\ TokensKept => WayOut
  BY PayoutFits
<1> QED
  BY <1>1, <1>2, <1>3, PTL DEF DexSpec
-----------------------------------------------------------------------------
(* The events.  What is pending is read as a fold, which the lemmas below  *)
(* unfold: the copies a follower goes through are a sequence that each     *)
(* event takes one step further.                                           *)

Decimals == [units : Int, scale : Nat \ {0}]

Events ==
  [name : {"deposit", "withdraw", "prepareWithdraw", "commitWithdraw"}, asset : Assets,
   from : Accounts, to : Accounts, amount : Int, balance : Int]
  \cup [name : {"delegateWithdraw"}, asset : Assets, relay : Accounts, from : Accounts,
        to : Accounts, amount : Int, fee : Int, balance : Int]
  \cup [name : {"trade"}, maker : Ids, taker : Ids, price : [units : Int, scale : Int],
        amount : Decimals, quoteAmount : Decimals, makerFee : Decimals,
        takerFee : Decimals, makerChannelFee : Decimals, takerChannelFee : Decimals]
  \cup [name : {"cancel"}, from : Accounts, id : Ids]
  \cup [name : {"delegateCancel"}, from : Accounts, user : Accounts, number : Int]
  \cup [name : {"setRelay"}, target : Accounts, value : BOOLEAN]

\* A copy of the accounts and orders, whatever it says.
Copies == [Assets -> [Accounts -> Int]]
Views ==
  [balance : Copies, prepared : Copies,
   orders : [Ids -> [Filled : Int, Canceled : BOOLEAN]],
   canceled : [Accounts -> Int], relays : SUBSET Accounts]

LEMMA BookChange ==
  ASSUME NEW book \in Copies, NEW acc \in Accounts,
         NEW asset \in Assets, NEW n \in Int
  PROVE  /\ Credited(book, acc, asset, n) \in Copies
         /\ Debited(book, acc, asset, n) \in Copies
         /\ \A a \in Assets, b \in Accounts :
              /\ Credited(book, acc, asset, n)[a][b]
                   = book[a][b] + Part(a, asset, Part(b, acc, n))
              /\ Debited(book, acc, asset, n)[a][b]
                   = book[a][b] - Part(a, asset, Part(b, acc, n))
BY DEF Credited, Debited, Part, Copies

LEMMA UnitsTyped ==
  ASSUME NEW decimal \in Decimals, NEW asset \in Assets
  PROVE  InUnits(decimal, asset) \in Int
<1>1. Precision[asset] \in Nat \ {0}
  BY OrdersAssumption
<1>2. decimal.units \in Int /\ decimal.scale \in Nat \ {0}
  BY DEF Decimals
<1> DEFINE n == decimal.units * Precision[asset]
<1>3. n \in Int
  BY <1>1, <1>2
<1> HIDE DEF n
<1>4. n \div decimal.scale \in Int
  BY <1>2, <1>3
<1> QED
  BY <1>4 DEF InUnits, n

\* What a follower makes of a trade's bookings: taker u and maker w, their
\* channels c and d, the assets t and m each receives.
TradedBook(book, u, w, c, d, t, m, tGets, tGives, mGets, mGives, tFee, mFee) ==
  LET b1 == Credited(book, u, t, tGets)
      b2 == Debited(b1, u, m, tGives)
      b3 == Credited(b2, w, m, mGets)
      b4 == Debited(b3, w, t, mGives)
      b5 == Credited(b4, c, t, tFee)
  IN  Credited(b5, d, m, mFee)

LEMMA TradedBookEffect ==
  ASSUME NEW book \in Copies,
         NEW u \in Accounts, NEW w \in Accounts, NEW c \in Accounts, NEW d \in Accounts,
         NEW t \in Assets, NEW m \in Assets,
         NEW tGets \in Int, NEW tGives \in Int, NEW mGets \in Int, NEW mGives \in Int,
         NEW tFee \in Int, NEW mFee \in Int
  PROVE  LET after == TradedBook(book, u, w, c, d, t, m, tGets, tGives, mGets, mGives, tFee, mFee)
         IN  /\ after \in Copies
             /\ \A a \in Assets, b \in Accounts :
                  after[a][b] = book[a][b]
                    + Part(a, t, Part(b, u, tGets) - Part(b, w, mGives) + Part(b, c, tFee))
                    + Part(a, m, Part(b, w, mGets) - Part(b, u, tGives) + Part(b, d, mFee))
<1> DEFINE b1 == Credited(book, u, t, tGets)
           b2 == Debited(b1, u, m, tGives)
           b3 == Credited(b2, w, m, mGets)
           b4 == Debited(b3, w, t, mGives)
           b5 == Credited(b4, c, t, tFee)
           b6 == Credited(b5, d, m, mFee)
<1>0. TradedBook(book, u, w, c, d, t, m, tGets, tGives, mGets, mGives, tFee, mFee) = b6
  BY DEF TradedBook
<1>1. /\ b1 \in Copies
      /\ \A a \in Assets, b \in Accounts : b1[a][b] = book[a][b] + Part(a, t, Part(b, u, tGets))
  BY BookChange
<1> HIDE DEF b1
<1>2. /\ b2 \in Copies
      /\ \A a \in Assets, b \in Accounts : b2[a][b] = b1[a][b] - Part(a, m, Part(b, u, tGives))
  BY <1>1, BookChange
<1> HIDE DEF b2
<1>3. /\ b3 \in Copies
      /\ \A a \in Assets, b \in Accounts : b3[a][b] = b2[a][b] + Part(a, m, Part(b, w, mGets))
  BY <1>2, BookChange
<1> HIDE DEF b3
<1>4. /\ b4 \in Copies
      /\ \A a \in Assets, b \in Accounts : b4[a][b] = b3[a][b] - Part(a, t, Part(b, w, mGives))
  BY <1>3, BookChange
<1> HIDE DEF b4
<1>5. /\ b5 \in Copies
      /\ \A a \in Assets, b \in Accounts : b5[a][b] = b4[a][b] + Part(a, t, Part(b, c, tFee))
  BY <1>4, BookChange
<1> HIDE DEF b5
<1>6. /\ b6 \in Copies
      /\ \A a \in Assets, b \in Accounts : b6[a][b] = b5[a][b] + Part(a, m, Part(b, d, mFee))
  BY <1>5, BookChange
<1> HIDE DEF b6
<1>7. ASSUME NEW a \in Assets, NEW b \in Accounts
      PROVE  b6[a][b] = book[a][b]
               + Part(a, t, Part(b, u, tGets) - Part(b, w, mGives) + Part(b, c, tFee))
               + Part(a, m, Part(b, w, mGets) - Part(b, u, tGives) + Part(b, d, mFee))
  <2> DEFINE p1 == Part(b, u, tGets)
             p2 == Part(b, u, tGives)
             p3 == Part(b, w, mGets)
             p4 == Part(b, w, mGives)
             p5 == Part(b, c, tFee)
             p6 == Part(b, d, mFee)
  <2>1. /\ p1 \in Int /\ p2 \in Int /\ p3 \in Int /\ p4 \in Int /\ p5 \in Int /\ p6 \in Int
        /\ book[a][b] \in Int /\ b1[a][b] \in Int /\ b2[a][b] \in Int /\ b3[a][b] \in Int
        /\ b4[a][b] \in Int /\ b5[a][b] \in Int /\ b6[a][b] \in Int
    BY <1>1, <1>2, <1>3, <1>4, <1>5, <1>6 DEF Part, Copies
  <2> HIDE DEF p1, p2, p3, p4, p5, p6
  <2>2. /\ b1[a][b] = book[a][b] + Part(a, t, p1) /\ b2[a][b] = b1[a][b] - Part(a, m, p2)
        /\ b3[a][b] = b2[a][b] + Part(a, m, p3) /\ b4[a][b] = b3[a][b] - Part(a, t, p4)
        /\ b5[a][b] = b4[a][b] + Part(a, t, p5) /\ b6[a][b] = b5[a][b] + Part(a, m, p6)
    BY <1>1, <1>2, <1>3, <1>4, <1>5, <1>6 DEF p1, p2, p3, p4, p5, p6
  <2>3. b6[a][b] = book[a][b] + Part(a, t, p1 - p4 + p5) + Part(a, m, p3 - p2 + p6)
    BY <2>1, <2>2 DEF Part
  <2> QED
    BY <2>3 DEF p1, p2, p3, p4, p5, p6
<1> QED
  BY <1>0, <1>6, <1>7

\* An order is found by its id, in whatever store holds it.
LEMMA BehindIs ==
  ASSUME NEW store \in SUBSET Orders, NEW order \in store
  PROVE  Behind(store, OrderId[order]) = order
BY IdsAssumption DEF Behind

\* So an event is read with the orders it names as with all of them.
LEMMA EnoughHeld ==
  ASSUME NEW store \in SUBSET Orders, NEW v, NEW e \in Events, Needed(e) \subseteq store
  PROVE  LearnWith(store, v, e) = Learn(v, e)
<1>1. CASE e.name = "trade"
  <2>1. e.maker \in Ids /\ e.taker \in Ids
    BY <1>1 DEF Events
  <2>2. PICK maker \in Orders, taker \in Orders :
          e.maker = OrderId[maker] /\ e.taker = OrderId[taker]
    BY <2>1 DEF Ids
  <2>3. Behind(Orders, e.maker) = maker /\ Behind(Orders, e.taker) = taker
    BY <2>2, BehindIs
  <2>4. maker \in store /\ taker \in store
    BY <1>1, <2>3 DEF Needed
  <2>5. Behind(store, e.maker) = maker /\ Behind(store, e.taker) = taker
    BY <2>2, <2>4, BehindIs
  <2>6. AfterTrade(store, v, e) = AfterTrade(Orders, v, e)
    BY <2>3, <2>5 DEF AfterTrade
  <2> QED
    BY <1>1, <2>6 DEF LearnWith, Learn
<1>2. CASE e.name # "trade"
  BY <1>2 DEF LearnWith, Learn, Events
<1> QED
  BY <1>1, <1>2

\* The governance account's part.
SystemPaid(book, t, m, tSys, mSys) ==
  Credited(Credited(book, GovernanceCtrAccount, t, tSys), GovernanceCtrAccount, m, mSys)

LEMMA SystemPaidEffect ==
  ASSUME NEW book \in Copies, NEW t \in Assets, NEW m \in Assets,
         NEW tSys \in Int, NEW mSys \in Int
  PROVE  LET after == SystemPaid(book, t, m, tSys, mSys)
             gov == GovernanceCtrAccount
         IN  /\ after \in Copies
             /\ \A a \in Assets, b \in Accounts :
                  after[a][b] = book[a][b] + Part(a, t, Part(b, gov, tSys))
                                  + Part(a, m, Part(b, gov, mSys))
<1> DEFINE gov == GovernanceCtrAccount
           first == Credited(book, gov, t, tSys)
           second == Credited(first, gov, m, mSys)
<1>0. gov \in Accounts
  BY AccountsAssumption
<1> HIDE DEF gov
<1>1. /\ first \in Copies
      /\ \A a \in Assets, b \in Accounts :
           first[a][b] = book[a][b] + Part(a, t, Part(b, gov, tSys))
  BY <1>0, BookChange
<1> HIDE DEF first
<1>2. /\ second \in Copies
      /\ \A a \in Assets, b \in Accounts :
           second[a][b] = first[a][b] + Part(a, m, Part(b, gov, mSys))
  BY <1>0, <1>1, BookChange
<1> HIDE DEF second
<1> QED
  BY <1>1, <1>2 DEF SystemPaid, gov, first, second

\* A trade as its event tells it.
Traded(v, maker, taker, t, m, amount, tGets, mGets, tFee, mFee, tChannel, mChannel) ==
  [v EXCEPT !.balance =
              SystemPaid(TradedBook(@, taker.User, maker.User, taker.Channel, maker.Channel,
                                    t, m, tGets - tFee, mGets, mGets - mFee, tGets,
                                    tChannel, mChannel),
                         t, m, tFee - tChannel, mFee - mChannel),
            !.orders = [v.orders EXCEPT ![OrderId[maker]].Filled = @ + amount,
                                        ![OrderId[taker]].Filled = @ + amount]]

LEMMA AfterTradeIs ==
  ASSUME NEW v \in Views, NEW maker \in Orders, NEW taker \in Orders,
         NEW e, e.maker = OrderId[maker], e.taker = OrderId[taker], e.name = "trade"
  PROVE  LET t == IF IsSell(taker) THEN taker.Quote ELSE taker.Base
             m == IF IsSell(taker) THEN taker.Base ELSE taker.Quote
             amount == InUnits(e.amount, taker.Base)
             quoteAmount == InUnits(e.quoteAmount, taker.Quote)
         IN  Learn(v, e) =
               Traded(v, maker, taker, t, m, amount,
                      IF IsSell(taker) THEN quoteAmount ELSE amount,
                      IF IsSell(taker) THEN amount ELSE quoteAmount,
                      InUnits(e.takerFee, t), InUnits(e.makerFee, m),
                      InUnits(e.takerChannelFee, t), InUnits(e.makerChannelFee, m))
<1>1. Behind(Orders, e.maker) = maker /\ Behind(Orders, e.taker) = taker
  BY BehindIs
<1>2. Learn(v, e) = AfterTrade(Orders, v, e)
  BY DEF Learn, LearnWith
<1> QED
  BY <1>1, <1>2 DEF AfterTrade, Traded, TradedBook, SystemPaid

\* Its effect on a copy.
SaysTraded(after, v, maker, taker, t, m, amount,
           tGets, mGets, tFee, mFee, tChannel, mChannel) ==
  /\ after.prepared = v.prepared /\ after.canceled = v.canceled
  /\ after.relays = v.relays
  /\ maker # taker => \A order \in Orders :
       after.orders[OrderId[order]] =
         IF order \in {maker, taker}
         THEN [v.orders[OrderId[order]] EXCEPT !.Filled = @ + amount]
         ELSE v.orders[OrderId[order]]
  /\ \A a \in Assets, b \in Accounts :
       after.balance[a][b] = v.balance[a][b]
         + Part(a, t, Part(b, taker.User, tGets - tFee) - Part(b, maker.User, tGets)
                        + Part(b, taker.Channel, tChannel)
                        + Part(b, GovernanceCtrAccount, tFee - tChannel))
         + Part(a, m, Part(b, maker.User, mGets - mFee) - Part(b, taker.User, mGets)
                        + Part(b, maker.Channel, mChannel)
                        + Part(b, GovernanceCtrAccount, mFee - mChannel))

LEMMA TradedEffect ==
  ASSUME NEW v \in Views, NEW maker \in Orders, NEW taker \in Orders,
         NEW t \in Assets, NEW m \in Assets, NEW amount \in Int, NEW tGets \in Int,
         NEW mGets \in Int, NEW tFee \in Int, NEW mFee \in Int, NEW tChannel \in Int,
         NEW mChannel \in Int
  PROVE  LET after == Traded(v, maker, taker, t, m, amount,
                             tGets, mGets, tFee, mFee, tChannel, mChannel)
         IN  /\ after \in Views
             /\ SaysTraded(after, v, maker, taker, t, m, amount,
                           tGets, mGets, tFee, mFee, tChannel, mChannel)
<1> DEFINE u == taker.User
           w == maker.User
           c == taker.Channel
           d == maker.Channel
           g == GovernanceCtrAccount
           tNet == tGets - tFee
           mNet == mGets - mFee
           tSys == tFee - tChannel
           mSys == mFee - mChannel
           copy == v.balance
           sides == TradedBook(copy, u, w, c, d, t, m, tNet, mGets, mNet, tGets,
                               tChannel, mChannel)
           book == SystemPaid(sides, t, m, tSys, mSys)
           after == Traded(v, maker, taker, t, m, amount,
                           tGets, mGets, tFee, mFee, tChannel, mChannel)
           first == [v.orders EXCEPT ![OrderId[maker]].Filled = @ + amount]
           second == [v.orders EXCEPT ![OrderId[maker]].Filled = @ + amount,
                                      ![OrderId[taker]].Filled = @ + amount]
<1>1. /\ u \in Accounts /\ w \in Accounts /\ c \in Accounts /\ d \in Accounts
      /\ g \in Accounts
      /\ tNet \in Int /\ mNet \in Int /\ tSys \in Int /\ mSys \in Int
      /\ copy \in Copies
      /\ v.orders \in [Ids -> [Filled : Int, Canceled : BOOLEAN]]
  BY OrdersAssumption, AccountsAssumption DEF OrderData, Views
<1>2. after = [v EXCEPT !.balance = book, !.orders = second]
  BY DEF Traded
<1> HIDE DEF u, w, c, d, tNet, mNet, tSys, mSys, copy, after
<1>3. /\ sides \in Copies
      /\ \A a \in Assets, b \in Accounts :
           sides[a][b] = copy[a][b]
             + Part(a, t, Part(b, u, tNet) - Part(b, w, tGets) + Part(b, c, tChannel))
             + Part(a, m, Part(b, w, mNet) - Part(b, u, mGets) + Part(b, d, mChannel))
  BY <1>1, TradedBookEffect
<1> HIDE DEF sides
<1>4. /\ book \in Copies
      /\ \A a \in Assets, b \in Accounts :
           book[a][b] = sides[a][b] + Part(a, t, Part(b, g, tSys)) + Part(a, m, Part(b, g, mSys))
  BY <1>1, <1>3, SystemPaidEffect
<1> HIDE DEF book, g
<1>5. \A a \in Assets, b \in Accounts :
        book[a][b] = copy[a][b]
          + Part(a, t, Part(b, u, tNet) - Part(b, w, tGets) + Part(b, c, tChannel)
                         + Part(b, g, tSys))
          + Part(a, m, Part(b, w, mNet) - Part(b, u, mGets) + Part(b, d, mChannel)
                         + Part(b, g, mSys))
  <2> SUFFICES ASSUME NEW a \in Assets, NEW b \in Accounts
               PROVE  book[a][b] = copy[a][b]
                        + Part(a, t, Part(b, u, tNet) - Part(b, w, tGets) + Part(b, c, tChannel)
                                       + Part(b, g, tSys))
                        + Part(a, m, Part(b, w, mNet) - Part(b, u, mGets) + Part(b, d, mChannel)
                                       + Part(b, g, mSys))
    OBVIOUS
  <2> DEFINE p == Part(b, u, tNet) - Part(b, w, tGets) + Part(b, c, tChannel)
             q == Part(b, w, mNet) - Part(b, u, mGets) + Part(b, d, mChannel)
             pSys == Part(b, g, tSys)
             qSys == Part(b, g, mSys)
  <2>1. p \in Int /\ q \in Int /\ pSys \in Int /\ qSys \in Int /\ copy[a][b] \in Int
    BY <1>1 DEF Part, Copies
  <2>2. book[a][b] = copy[a][b] + Part(a, t, p) + Part(a, m, q) + Part(a, t, pSys)
                       + Part(a, m, qSys)
    BY <1>3, <1>4
  <2> HIDE DEF p, q, pSys, qSys
  <2>3. book[a][b] = copy[a][b] + Part(a, t, p + pSys) + Part(a, m, q + qSys)
    BY <2>1, <2>2 DEF Part
  <2> QED
    BY <2>3 DEF p, q, pSys, qSys
<1>6. /\ OrderId[maker] \in Ids /\ OrderId[taker] \in Ids
      /\ \A order \in Orders : OrderId[order] \in Ids
  BY DEF Ids
<1>7. first \in [Ids -> [Filled : Int, Canceled : BOOLEAN]]
  BY <1>1, <1>6
<1>8. second \in [Ids -> [Filled : Int, Canceled : BOOLEAN]]
  BY <1>1, <1>6, <1>7
<1>9. maker # taker => \A order \in Orders :
        second[OrderId[order]] =
          IF order \in {maker, taker}
          THEN [v.orders[OrderId[order]] EXCEPT !.Filled = @ + amount]
          ELSE v.orders[OrderId[order]]
  <2> SUFFICES ASSUME maker # taker, NEW order \in Orders
               PROVE  second[OrderId[order]] =
                        IF order \in {maker, taker}
                        THEN [v.orders[OrderId[order]] EXCEPT !.Filled = @ + amount]
                        ELSE v.orders[OrderId[order]]
    OBVIOUS
  <2>1. /\ OrderId[maker] # OrderId[taker]
        /\ OrderId[order] = OrderId[maker] <=> order = maker
        /\ OrderId[order] = OrderId[taker] <=> order = taker
    BY IdsAssumption
  <2> QED
    BY <1>1, <1>6, <1>7, <2>1
<1> HIDE DEF first, second
<1>10. /\ after.balance = book /\ after.orders = second
      /\ after.prepared = v.prepared /\ after.canceled = v.canceled /\ after.relays = v.relays
  BY <1>2 DEF Views
<1>11. after \in Views
  BY <1>2, <1>4, <1>8 DEF Views
<1>12. SaysTraded(after, v, maker, taker, t, m, amount,
                  tGets, mGets, tFee, mFee, tChannel, mChannel)
  BY <1>5, <1>9, <1>10 DEF SaysTraded, u, w, c, d, g, tNet, mNet, tSys, mSys, copy
<1> QED
  BY <1>11, <1>12 DEF after

\* Reading an event keeps a copy a copy.
LEMMA LearnTyped ==
  ASSUME NEW v \in Views, NEW e \in Events
  PROVE  Learn(v, e) \in Views
<1>0. /\ v.balance \in Copies
      /\ v.prepared \in Copies
      /\ v.orders \in [Ids -> [Filled : Int, Canceled : BOOLEAN]]
      /\ v.canceled \in [Accounts -> Int]
      /\ v.relays \in SUBSET Accounts
  BY DEF Views
<1>1. CASE e.name \in {"deposit", "withdraw", "prepareWithdraw", "commitWithdraw"}
  <2>1. e.asset \in Assets /\ e.from \in Accounts /\ e.to \in Accounts /\ e.balance \in Int
    BY <1>1 DEF Events
  <2>2. ASSUME NEW a \in Accounts
        PROVE  /\ [v EXCEPT !.balance[e.asset][a] = e.balance] \in Views
               /\ [v EXCEPT !.prepared[e.asset][a] = e.balance] \in Views
               /\ [v EXCEPT !.balance[e.asset][a] = e.balance, !.prepared[e.asset][a] = 0]
                    \in Views
    <3> DEFINE b == [v.balance EXCEPT ![e.asset][a] = e.balance]
               p == [v.prepared EXCEPT ![e.asset][a] = e.balance]
               z == [v.prepared EXCEPT ![e.asset][a] = 0]
    <3>1. /\ b \in Copies
          /\ p \in Copies
          /\ z \in Copies
      BY <1>0, <2>1 DEF Copies
    <3>2. /\ [v EXCEPT !.balance[e.asset][a] = e.balance] = [v EXCEPT !.balance = b]
          /\ [v EXCEPT !.prepared[e.asset][a] = e.balance] = [v EXCEPT !.prepared = p]
          /\ [v EXCEPT !.balance[e.asset][a] = e.balance, !.prepared[e.asset][a] = 0]
               = [v EXCEPT !.balance = b, !.prepared = z]
      BY DEF Views
    <3> HIDE DEF b, p, z
    <3> QED
      BY <3>1, <3>2 DEF Views
  <2> QED
    BY <1>1, <2>1, <2>2 DEF Learn, LearnWith
<1>2. CASE e.name = "delegateWithdraw"
  <2>1. /\ e.asset \in Assets /\ e.from \in Accounts /\ e.relay \in Accounts
        /\ e.fee \in Int /\ e.balance \in Int
    BY <1>2 DEF Events
  <2> DEFINE b == Credited(v.balance, e.relay, e.asset, e.fee)
  <2>2. b \in Copies
    BY <1>0, <2>1, BookChange
  <2>3. Learn(v, e) = [v EXCEPT !.balance = [b EXCEPT ![e.asset][e.from] = e.balance]]
    BY <1>2 DEF Learn, LearnWith
  <2> HIDE DEF b
  <2>4. [b EXCEPT ![e.asset][e.from] = e.balance] \in Copies
    BY <2>1, <2>2 DEF Copies
  <2> QED
    BY <1>0, <2>3, <2>4 DEF Views
<1>3. CASE e.name = "trade"
  <2>1. /\ e.maker \in Ids /\ e.taker \in Ids
        /\ e.amount \in Decimals /\ e.quoteAmount \in Decimals
        /\ e.makerFee \in Decimals /\ e.takerFee \in Decimals
        /\ e.makerChannelFee \in Decimals /\ e.takerChannelFee \in Decimals
    BY <1>3 DEF Events
  <2>2. PICK maker \in Orders, taker \in Orders :
          e.maker = OrderId[maker] /\ e.taker = OrderId[taker]
    BY <2>1 DEF Ids
  <2> DEFINE t == IF IsSell(taker) THEN taker.Quote ELSE taker.Base
             m == IF IsSell(taker) THEN taker.Base ELSE taker.Quote
             amount == InUnits(e.amount, taker.Base)
             quoteAmount == InUnits(e.quoteAmount, taker.Quote)
             tGets == IF IsSell(taker) THEN quoteAmount ELSE amount
             mGets == IF IsSell(taker) THEN amount ELSE quoteAmount
             tFee == InUnits(e.takerFee, t)
             mFee == InUnits(e.makerFee, m)
             tChannel == InUnits(e.takerChannelFee, t)
             mChannel == InUnits(e.makerChannelFee, m)
  <2>3. taker.Base \in Assets /\ taker.Quote \in Assets /\ t \in Assets /\ m \in Assets
    BY OrdersAssumption DEF OrderData
  <2>4. amount \in Int /\ quoteAmount \in Int
    BY <2>1, <2>3, UnitsTyped
  <2>5. /\ tFee \in Int /\ mFee \in Int /\ tChannel \in Int /\ mChannel \in Int
        /\ tGets \in Int /\ mGets \in Int
    BY <2>1, <2>3, <2>4, UnitsTyped
  <2>6. Learn(v, e) = Traded(v, maker, taker, t, m, amount,
                             tGets, mGets, tFee, mFee, tChannel, mChannel)
    BY <1>3, <2>2, AfterTradeIs
  <2> HIDE DEF t, m, amount, quoteAmount, tGets, mGets, tFee, mFee, tChannel, mChannel
  <2>7. Traded(v, maker, taker, t, m, amount,
               tGets, mGets, tFee, mFee, tChannel, mChannel) \in Views
    BY <2>3, <2>4, <2>5, TradedEffect
  <2> QED
    BY <2>6, <2>7
<1>4. CASE e.name = "cancel"
  <2>1. e.id \in Ids
    BY <1>4 DEF Events
  <2> QED
    BY <1>4, <2>1 DEF Learn, LearnWith, Views
<1>5. CASE e.name = "delegateCancel"
  <2>1. e.user \in Accounts /\ e.number \in Int
    BY <1>5 DEF Events
  <2> QED
    BY <1>5, <2>1 DEF Learn, LearnWith, Views
<1>6. CASE e.name = "setRelay"
  <2>1. e.target \in Accounts /\ e.value \in BOOLEAN
    BY <1>6 DEF Events
  <2> QED
    BY <1>6, <2>1 DEF Learn, LearnWith, Views
<1> QED
  BY <1>1, <1>2, <1>3, <1>4, <1>5, <1>6 DEF Events

-----------------------------------------------------------------------------
(* Reading events one after the other.                                     *)

ReadAll(v, s) == FoldLeft(Learn, v, s)

IsReading(h, v, s) ==
  h = [t \in SUBSET (DOMAIN s) |-> IF t = {} THEN v ELSE Learn(h[t \ {Top(t)}], s[Top(t)])]

LEMMA ReadAllIs ==
  ASSUME NEW v, NEW s
  PROVE  ReadAll(v, s) = (CHOOSE h : IsReading(h, v, s))[DOMAIN s]
BY DEF ReadAll, IsReading, Top, FoldLeft, MapThenFoldSet, Max

\* The copies a follower goes through, by the number of events read.
IsRun(r, v, s) ==
  /\ r \in [0..Len(s) -> Views]
  /\ r[0] = v
  /\ \A k \in 1..Len(s) : r[k] = Learn(r[k - 1], s[k])

LEMMA ReadRun ==
  ASSUME NEW v \in Views, NEW s \in Seq(Events)
  PROVE  \E r : IsRun(r, v, s) /\ ReadAll(v, s) = r[Len(s)]
<1> DEFINE n == Len(s)
           step == [p \in (1..n) \X Views |-> Learn(p[2], s[p[1]])]
           h == CHOOSE g : IsReading(g, v, s)
<1>0. n \in Nat /\ DOMAIN s = 1..n /\ \A k \in 1..n : s[k] \in Events
  OBVIOUS
<1>1. step \in Steps(n, Views)
  <2>1. \A k \in 1..n, w \in Views : Learn(w, s[k]) \in Views
    BY <1>0, LearnTyped
  <2> QED
    BY <2>1 DEF Steps
<1>2. \A k \in 1..n, w \in Views : step[<<k, w>>] = Learn(w, s[k])
  OBVIOUS
<1> HIDE DEF step, n
<1>3. \A t \in SUBSET (1..n) : t # {} => Top(t) \in 1..n
  BY <1>0, TopTaken
<1>4. IsReading(h, v, s)
  <2>1. PICK g \in [SUBSET (1..n) -> Views] : IsFold(g, n, v, step)
    BY <1>0, <1>1, FoldExists
  <2>2. \A t \in SUBSET (1..n) : t # {} =>
          step[<<Top(t), g[t \ {Top(t)}]>>] = Learn(g[t \ {Top(t)}], s[Top(t)])
    BY <1>2, <1>3
  <2>3. g = [t \in SUBSET (1..n) |->
               IF t = {} THEN v ELSE Learn(g[t \ {Top(t)}], s[Top(t)])]
    BY <2>1, <2>2 DEF IsFold
  <2>4. IsReading(g, v, s)
    BY <1>0, <2>3 DEF IsReading
  <2> QED
    BY <2>4
<1> HIDE DEF h
<1>5. Goes(h, n, Views, v, step)
  BY <1>0, <1>2, <1>3, <1>4 DEF IsReading, Goes
<1>6. IsChain(Along(h, n), n, Views, v, step) /\ Along(h, n)[n] = h[1..n]
  BY <1>0, <1>1, <1>5, FoldAlong
<1>7. IsRun(Along(h, n), v, s)
  <2> DEFINE r == Along(h, n)
  <2>1. /\ r \in [0..n -> Views] /\ r[0] = v
        /\ \A k \in 1..n : r[k] = step[<<k, r[k - 1]>>]
    BY <1>6 DEF IsChain
  <2> HIDE DEF r
  <2>2. \A k \in 1..n : r[k - 1] \in Views
    BY <1>0, <2>1
  <2>3. \A k \in 1..n : r[k] = Learn(r[k - 1], s[k])
    BY <1>2, <2>1, <2>2
  <2>4. IsRun(r, v, s)
    BY <2>1, <2>3 DEF IsRun, n
  <2> QED
    BY <2>4 DEF r
<1>8. ReadAll(v, s) = Along(h, n)[n]
  BY <1>0, <1>6, ReadAllIs DEF h
<1> QED
  BY <1>7, <1>8 DEF n

\* Nothing to read, an event more at the end, an event read from the front.
LEMMA ReadNone ==
  ASSUME NEW v \in Views
  PROVE  ReadAll(v, <<>>) = v
<1>0. <<>> \in Seq(Events) /\ Len(<<>>) = 0
  OBVIOUS
<1>1. PICK r : IsRun(r, v, <<>>) /\ ReadAll(v, <<>>) = r[Len(<<>>)]
  BY <1>0, ReadRun
<1> QED
  BY <1>0, <1>1 DEF IsRun

LEMMA ReadTyped ==
  ASSUME NEW v \in Views, NEW s \in Seq(Events)
  PROVE  ReadAll(v, s) \in Views
<1>1. PICK r : IsRun(r, v, s) /\ ReadAll(v, s) = r[Len(s)]
  BY ReadRun
<1>2. Len(s) \in 0..Len(s)
  OBVIOUS
<1> QED
  BY <1>1, <1>2 DEF IsRun

LEMMA ReadLast ==
  ASSUME NEW v \in Views, NEW s \in Seq(Events), NEW e \in Events
  PROVE  ReadAll(v, Append(s, e)) = Learn(ReadAll(v, s), e)
<1> DEFINE n == Len(s)
           more == Append(s, e)
<1>0. /\ n \in Nat /\ more \in Seq(Events) /\ Len(more) = n + 1 /\ more[n + 1] = e
      /\ \A k \in 1..n : more[k] = s[k]
  OBVIOUS
<1>1. PICK r : IsRun(r, v, s) /\ ReadAll(v, s) = r[n]
  BY ReadRun
<1>2. PICK q : IsRun(q, v, more) /\ ReadAll(v, more) = q[n + 1]
  BY <1>0, ReadRun
<1> HIDE DEF n, more
<1>3. /\ q[0] = v /\ r[0] = v
      /\ \A k \in 1..n : r[k] = Learn(r[k - 1], s[k])
      /\ \A k \in 1..(n + 1) : q[k] = Learn(q[k - 1], more[k])
  BY <1>0, <1>1, <1>2 DEF IsRun, n
<1>4. \A k \in 1..n : r[k - 1] = q[k - 1] => r[k] = q[k]
  BY <1>0, <1>3
<1>5. \A k \in 0..n : r[k] = q[k]
  <2>1. n \in Nat /\ r[0] = q[0]
    BY <1>0, <1>3
  <2> QED
    BY <1>4, <2>1, SameChain
<1>6. n + 1 \in 1..(n + 1) /\ (n + 1) - 1 = n /\ n \in 0..n
  BY <1>0
<1>7. q[n + 1] = Learn(q[n], e) /\ q[n] = r[n]
  BY <1>0, <1>3, <1>5, <1>6
<1> QED
  BY <1>1, <1>2, <1>7 DEF more

LEMMA ReadFirst ==
  ASSUME NEW v \in Views, NEW s \in Seq(Events), s # <<>>
  PROVE  /\ Head(s) \in Events /\ Tail(s) \in Seq(Events)
         /\ ReadAll(v, s) = ReadAll(Learn(v, Head(s)), Tail(s))
<1> DEFINE n == Len(s)
           rest == Tail(s)
           w == Learn(v, Head(s))
<1>0. /\ n \in Nat \ {0} /\ rest \in Seq(Events) /\ Len(rest) = n - 1
      /\ Head(s) = s[1] /\ s[1] \in Events
      /\ \A k \in 1..(n - 1) : rest[k] = s[k + 1]
  OBVIOUS
<1>1. w \in Views
  BY <1>0, LearnTyped
<1>2. PICK r : IsRun(r, v, s) /\ ReadAll(v, s) = r[n]
  BY ReadRun
<1>3. PICK q : IsRun(q, w, rest) /\ ReadAll(w, rest) = q[n - 1]
  <2> HIDE DEF w, n, rest
  <2> QED
    BY <1>0, <1>1, ReadRun
<1> DEFINE p == [k \in 0..(n - 1) |-> r[k + 1]]
<1> HIDE DEF n, rest
<1>4. /\ r[0] = v /\ q[0] = w
      /\ \A k \in 1..n : r[k] = Learn(r[k - 1], s[k])
      /\ \A k \in 1..(n - 1) : q[k] = Learn(q[k - 1], rest[k])
  <2> HIDE DEF w
  <2> QED
    BY <1>0, <1>2, <1>3 DEF IsRun, n
<1>5. /\ n - 1 \in Nat /\ 0 \in 0..(n - 1) /\ n - 1 \in 0..(n - 1) /\ (n - 1) + 1 = n
      /\ 1 \in 1..n
  BY <1>0
<1>6. p[0] = q[0]
  BY <1>0, <1>4, <1>5
<1>7. ASSUME NEW k \in 1..(n - 1), p[k - 1] = q[k - 1] PROVE p[k] = q[k]
  <2>1. /\ k + 1 \in 1..n /\ (k + 1) - 1 = k /\ k \in 0..(n - 1) /\ k - 1 \in 0..(n - 1)
        /\ (k - 1) + 1 = k
    BY <1>0
  <2>2. p[k] = r[k + 1] /\ p[k - 1] = r[k]
    BY <2>1
  <2>3. r[k + 1] = Learn(r[k], s[k + 1]) /\ q[k] = Learn(q[k - 1], rest[k])
    BY <1>4, <2>1
  <2> QED
    BY <1>0, <1>7, <2>2, <2>3
<1>8. p[n - 1] = q[n - 1]
  <2> HIDE DEF p
  <2>1. \A k \in 0..(n - 1) : p[k] = q[k]
    BY <1>5, <1>6, <1>7, SameChain
  <2> QED
    BY <1>5, <2>1
<1>9. r[n] = q[n - 1]
  BY <1>5, <1>8
<1> QED
  BY <1>0, <1>2, <1>3, <1>9 DEF rest

-----------------------------------------------------------------------------
(* What a copy says of the contract's state; of the governance account no  *)
(* less than it has.                                                       *)

Tells(v, book, records, states, numbers, flagged) ==
  /\ \A asset \in Assets, acc \in Accounts \ {GovernanceCtrAccount} :
       v.balance[asset][acc] = book[asset][acc]
  /\ \A asset \in Assets :
       v.balance[asset][GovernanceCtrAccount] >= book[asset][GovernanceCtrAccount]
  /\ \A asset \in Assets, acc \in Accounts :
       v.prepared[asset][acc] = records[asset][acc].Amount
  /\ \A order \in Orders : v.orders[OrderId[order]] = states[order]
  /\ \A acc \in Accounts : v.canceled[acc] = numbers[acc]
  /\ v.relays = flagged

TellsNow(v) == Tells(v, balance, prepared, orderState, cancelNumber, relays)
TellsNext(v) == Tells(v, balance', prepared', orderState', cancelNumber', relays')

\* The contract's types, for the follower.
LEMMA DexFacts ==
  ASSUME DexTypeOK
  PROVE  /\ BookTypeOK /\ LedgerTypeOK /\ TradingTypeOK
         /\ balance \in [Assets -> [Accounts -> Uint64]]
         /\ \A asset \in Assets, acc \in Accounts :
              balance[asset][acc] \in Nat /\ prepared[asset][acc].Amount \in Nat
         /\ prepared \in [Assets -> [Accounts -> PrepareWithdrawState]]
         /\ orderState \in [Orders -> OrderState]
         /\ \A order \in Orders : orderState[order] \in [Filled : Int, Canceled : BOOLEAN]
         /\ cancelNumber \in [Accounts -> Uint64]
         /\ \A acc \in Accounts : cancelNumber[acc] \in Nat
         /\ relays \subseteq Accounts
<1>1. /\ BookTypeOK /\ LedgerTypeOK /\ TradingTypeOK
      /\ balance \in [Assets -> [Accounts -> Uint64]]
      /\ prepared \in [Assets -> [Accounts -> PrepareWithdrawState]]
      /\ orderState \in [Orders -> OrderState]
      /\ cancelNumber \in [Accounts -> Uint64]
      /\ relays \subseteq Accounts
  BY DEF DexTypeOK, TradingTypeOK, LedgerTypeOK, BookTypeOK, Books, OrdersTypeOK, RecordsTypeOK
<1>2. Uint64 \subseteq Nat
  BY WidthAssumption DEF Uint64
<1>3. \A order \in Orders : orderState[order] \in [Filled : Int, Canceled : BOOLEAN]
  <2>1. ASSUME NEW state \in OrderState PROVE state \in [Filled : Int, Canceled : BOOLEAN]
    <3>1. /\ state = [Filled |-> state.Filled, Canceled |-> state.Canceled]
          /\ state.Filled \in Uint64 /\ state.Canceled \in BOOLEAN
      BY Zenon DEF OrderState
    <3>2. state.Filled \in Int
      BY <1>2, <3>1
    <3> QED
      BY <3>1, <3>2, Zenon
  <2> QED
    BY <1>1, <2>1
<1>4. \A asset \in Assets, acc \in Accounts : prepared[asset][acc].Amount \in Nat
  BY <1>1, <1>2 DEF PrepareWithdrawState
<1> QED
  BY <1>1, <1>2, <1>3, <1>4

LEMMA NextBalances ==
  ASSUME DexTypeOK'
  PROVE  \A asset \in Assets, acc \in Accounts : balance'[asset][acc] \in Int
<1>1. balance' \in [Assets -> [Accounts -> Uint64]]
  BY DEF DexTypeOK, TradingTypeOK, LedgerTypeOK
<1> QED
  BY <1>1, WidthAssumption DEF Uint64

\* A copy that tells the state is what the queries answer.
LEMMA TellsAnswers ==
  ASSUME DexTypeOK
  PROVE  /\ Answers \in Views /\ TellsNow(Answers)
         /\ \A v \in Views : TellsNow(v) =>
              /\ Public(v) = Public(Answers)
              /\ \A asset \in Assets :
                   v.balance[asset][GovernanceCtrAccount]
                     >= BalanceOf(GovernanceCtrAccount, asset)
<1> DEFINE states == [id \in Ids |-> orderState[Behind(Orders, id)]]
           gov == GovernanceCtrAccount
<1>0. /\ \A asset \in Assets, acc \in Accounts :
           balance[asset][acc] \in Nat /\ prepared[asset][acc].Amount \in Nat
      /\ \A order \in Orders : orderState[order] \in [Filled : Int, Canceled : BOOLEAN]
      /\ cancelNumber \in [Accounts -> Uint64]
      /\ \A acc \in Accounts : cancelNumber[acc] \in Nat
      /\ relays \subseteq Accounts
  BY DexFacts
<1>1. Answers =
        [balance  |-> [asset \in Assets |-> [acc \in Accounts |-> balance[asset][acc]]],
         prepared |-> [asset \in Assets |-> [acc \in Accounts |-> prepared[asset][acc].Amount]],
         orders   |-> states,
         canceled |-> cancelNumber,
         relays   |-> relays]
  <2>1. Relays = relays
    BY <1>0 DEF Relays, isRelay
  <2> QED
    BY <2>1 DEF Answers, BalanceOf, GetPrepareWithdrawState, GetOrderState
<1>2. Answers \in Views
  <2>1. /\ [asset \in Assets |-> [acc \in Accounts |-> balance[asset][acc]]] \in Copies
        /\ [asset \in Assets |-> [acc \in Accounts |-> prepared[asset][acc].Amount]] \in Copies
        /\ states \in [Ids -> [Filled : Int, Canceled : BOOLEAN]]
        /\ cancelNumber \in [Accounts -> Int]
    <3>1. \A id \in Ids : Behind(Orders, id) \in Orders
      BY BehindIs DEF Ids
    <3> QED
      BY <1>0, <3>1 DEF Copies
  <2> HIDE DEF states
  <2> QED
    BY <1>0, <1>1, <2>1 DEF Views
<1>3. TellsNow(Answers)
  <2>1. \A order \in Orders : states[OrderId[order]] = orderState[order]
    BY BehindIs DEF Ids
  <2>2. gov \in Accounts
    BY AccountsAssumption
  <2> HIDE DEF states
  <2> QED
    BY <1>0, <1>1, <2>1, <2>2 DEF TellsNow, Tells
<1>4. ASSUME NEW v \in Views, TellsNow(v)
      PROVE  /\ Public(v) = Public(Answers)
             /\ \A asset \in Assets : v.balance[asset][gov] >= BalanceOf(gov, asset)
  <2> DEFINE a == Answers
  <2>0. a \in Views /\ TellsNow(a)
    BY <1>2, <1>3
  <2> HIDE DEF a
  <2>1. /\ \A asset \in Assets, acc \in Accounts \ {GovernanceCtrAccount} :
             v.balance[asset][acc] = a.balance[asset][acc]
        /\ \A asset \in Assets, acc \in Accounts :
             v.prepared[asset][acc] = a.prepared[asset][acc]
        /\ \A order \in Orders : v.orders[OrderId[order]] = a.orders[OrderId[order]]
        /\ \A acc \in Accounts : v.canceled[acc] = a.canceled[acc]
        /\ v.relays = a.relays
    BY <1>4, <2>0 DEF TellsNow, Tells
  <2>2. [asset \in Assets |-> [acc \in Accounts \ {GovernanceCtrAccount} |-> v.balance[asset][acc]]]
          = [asset \in Assets |-> [acc \in Accounts \ {GovernanceCtrAccount} |-> a.balance[asset][acc]]]
    BY <2>1
  <2>3. v.prepared = a.prepared
    BY <2>0, <2>1 DEF Views, Copies
  <2>4. v.orders = a.orders /\ v.canceled = a.canceled
    BY <2>0, <2>1 DEF Views, Ids
  <2>5. Public(v) = Public(a)
    BY <2>0, <2>1, <2>2, <2>3, <2>4 DEF Public, Views
  <2>6. \A asset \in Assets : v.balance[asset][gov] >= BalanceOf(gov, asset)
    BY <1>4 DEF TellsNow, Tells, BalanceOf
  <2> QED
    BY <2>5, <2>6 DEF a
<1> QED
  BY <1>2, <1>3, <1>4
-----------------------------------------------------------------------------
(* One logged call after the other.                                        *)

\* An event that gives the new balance of the one account that changed.
LEMMA TellBalance ==
  ASSUME NEW v \in Views, NEW asset \in Assets, NEW acc \in Accounts, NEW n \in Int
  PROVE  LET w == [v EXCEPT !.balance[asset][acc] = n]
         IN  /\ \A a \in Assets, b \in Accounts :
                  w.balance[a][b] = IF a = asset /\ b = acc THEN n ELSE v.balance[a][b]
             /\ w.prepared = v.prepared /\ w.orders = v.orders
             /\ w.canceled = v.canceled /\ w.relays = v.relays
<1>1. v.balance \in [Assets -> [Accounts -> Int]]
  BY DEF Views, Copies
<1>2. [v EXCEPT !.balance[asset][acc] = n].balance = [v.balance EXCEPT ![asset][acc] = n]
  BY DEF Views
<1>3. \A a \in Assets, b \in Accounts :
        [v.balance EXCEPT ![asset][acc] = n][a][b]
          = IF a = asset /\ b = acc THEN n ELSE v.balance[a][b]
  BY <1>1
<1>4. LET w == [v EXCEPT !.balance[asset][acc] = n]
      IN  /\ w.prepared = v.prepared /\ w.orders = v.orders
          /\ w.canceled = v.canceled /\ w.relays = v.relays
  BY DEF Views
<1> QED
  BY <1>2, <1>3, <1>4

\* It tells the next state when the rest of the state stays.
LEMMA ToldBalance ==
  ASSUME NEW v \in Views, TellsNow(v), NEW asset \in Assets, NEW acc \in Accounts,
         balance'[asset][acc] \in Int,
         \A a \in Assets, b \in Accounts :
           (a # asset \/ b # acc) => balance'[a][b] = balance[a][b],
         prepared' = prepared, orderState' = orderState, cancelNumber' = cancelNumber,
         relays' = relays
  PROVE  TellsNext([v EXCEPT !.balance[asset][acc] = balance'[asset][acc]])
<1> DEFINE n == balance'[asset][acc]
           w == [v EXCEPT !.balance[asset][acc] = n]
<1>1. /\ \A a \in Assets, b \in Accounts :
           w.balance[a][b] = IF a = asset /\ b = acc THEN n ELSE v.balance[a][b]
      /\ w.prepared = v.prepared /\ w.orders = v.orders
      /\ w.canceled = v.canceled /\ w.relays = v.relays
  <2> HIDE DEF n
  <2> QED
    BY TellBalance DEF n
<1> HIDE DEF w
<1>2. /\ \A a \in Assets, b \in Accounts \ {GovernanceCtrAccount} :
           w.balance[a][b] = balance'[a][b]
      /\ \A a \in Assets :
           w.balance[a][GovernanceCtrAccount] >= balance'[a][GovernanceCtrAccount]
  BY <1>1, AccountsAssumption DEF TellsNow, Tells
<1>3. TellsNext(w)
  BY <1>1, <1>2 DEF TellsNow, TellsNext, Tells
<1> QED
  BY <1>3 DEF w

LEMMA TransferTold ==
  ASSUME DexTypeOK, DexTypeOK', NEW v \in Views, TellsNow(v),
         NEW asset \in Assets, NEW from \in Accounts, NEW to \in Accounts,
         NEW amount \in Uint64, NEW e,
         \/ /\ Deposit(asset, from, to, amount)
            /\ e = TransferEvtLog("deposit", asset, from, to, amount, balance'[asset][to])
         \/ /\ Withdraw(asset, from, to, amount)
            /\ e = TransferEvtLog("withdraw", asset, from, to, amount, balance'[asset][from]),
         NoCustody, NoTrading
  PROVE  e \in Events /\ TellsNext(Learn(v, e))
<1>0. /\ balance \in [Assets -> [Accounts -> Uint64]]
      /\ amount \in Int
      /\ \A a \in Assets, b \in Accounts : balance'[a][b] \in Int
      /\ prepared' = prepared /\ orderState' = orderState /\ cancelNumber' = cancelNumber
  <2>1. balance \in [Assets -> [Accounts -> Uint64]]
    BY DexFacts
  <2>2. amount \in Int /\ \A a \in Assets, b \in Accounts : balance'[a][b] \in Int
    BY NextBalances, WidthAssumption DEF Uint64
  <2> QED
    BY <2>1, <2>2 DEF NoCustody, NoTrading, custodyVars, orderVars
<1>1. PICK acc \in Accounts, name \in {"deposit", "withdraw"} :
        /\ e = [name |-> name, asset |-> asset, from |-> from, to |-> to,
                amount |-> amount, balance |-> balance'[asset][acc]]
        /\ Learn(v, e) = [v EXCEPT !.balance[asset][acc] = balance'[asset][acc]]
        /\ \A a \in Assets, b \in Accounts :
             (a # asset \/ b # acc) => balance'[a][b] = balance[a][b]
        /\ relays' = relays
  <2>1. CASE Deposit(asset, from, to, amount)
             /\ e = TransferEvtLog("deposit", asset, from, to, amount, balance'[asset][to])
    <3>1. /\ balance' = [balance EXCEPT ![asset] = BalanceAdd(@, to, amount)]
          /\ relays' = relays
      BY <2>1 DEF Deposit, DoDeposit, contextVars
    <3>2. \A a \in Assets, b \in Accounts :
            (a # asset \/ b # to) => balance'[a][b] = balance[a][b]
      BY <1>0, <3>1 DEF BalanceAdd
    <3>3. /\ e = [name |-> "deposit", asset |-> asset, from |-> from, to |-> to,
                  amount |-> amount, balance |-> balance'[asset][to]]
          /\ Learn(v, e) = [v EXCEPT !.balance[asset][to] = balance'[asset][to]]
      BY <2>1 DEF TransferEvtLog, Learn, LearnWith
    <3> QED
      BY <3>1, <3>2, <3>3
  <2>2. CASE Withdraw(asset, from, to, amount)
             /\ e = TransferEvtLog("withdraw", asset, from, to, amount, balance'[asset][from])
    <3>1. /\ balance' = [balance EXCEPT ![asset] = BalanceSub(@, from, amount)]
          /\ relays' = relays
      BY <2>2 DEF Withdraw, DoWithdraw, contextVars
    <3>2. \A a \in Assets, b \in Accounts :
            (a # asset \/ b # from) => balance'[a][b] = balance[a][b]
      BY <1>0, <3>1 DEF BalanceSub
    <3>3. /\ e = [name |-> "withdraw", asset |-> asset, from |-> from, to |-> to,
                  amount |-> amount, balance |-> balance'[asset][from]]
          /\ Learn(v, e) = [v EXCEPT !.balance[asset][from] = balance'[asset][from]]
      BY <2>2 DEF TransferEvtLog, Learn, LearnWith
    <3> QED
      BY <3>1, <3>2, <3>3
  <2> QED
    BY <2>1, <2>2
<1>2. e \in Events
  BY <1>0, <1>1 DEF Events
<1>3. TellsNext([v EXCEPT !.balance[asset][acc] = balance'[asset][acc]])
  BY <1>0, <1>1, ToldBalance
<1> QED
  BY <1>1, <1>2, <1>3


LEMMA PrepareTold ==
  ASSUME DexTypeOK, DexTypeOK', NEW v \in Views, TellsNow(v),
         NEW asset \in Assets, NEW from \in Accounts, NEW amount \in Uint64,
         PrepareWithdraw(asset, from, amount), NoTrading,
         NEW e, e = TransferEvtLog("prepareWithdraw", asset, from, from, amount,
                                   prepared'[asset][from].Amount)
  PROVE  e \in Events /\ TellsNext(Learn(v, e))
<1> DEFINE n == prepared'[asset][from].Amount
           w == [v EXCEPT !.prepared[asset][from] = n]
<1>0. /\ prepared \in [Assets -> [Accounts -> PrepareWithdrawState]]
      /\ amount \in Int
      /\ prepared' = [prepared EXCEPT ![asset][from] = Apply(prepared[asset][from], amount)]
      /\ balance' = balance /\ relays' = relays
      /\ orderState' = orderState /\ cancelNumber' = cancelNumber
  BY DexFacts, WidthAssumption
     DEF PrepareWithdraw, ledgerVars, NoTrading, orderVars, Uint64
<1>1. prepared[asset][from].Amount \in Nat
  BY DexFacts
<1>2. n = prepared[asset][from].Amount + amount
  BY <1>0 DEF Apply
<1>3. e = [name |-> "prepareWithdraw", asset |-> asset, from |-> from, to |-> from,
           amount |-> amount, balance |-> n]
  BY DEF TransferEvtLog
<1>4. \A a \in Assets, b \in Accounts :
        (a # asset \/ b # from) => prepared'[a][b] = prepared[a][b]
  BY <1>0
<1>5. n \in Int
  BY <1>0, <1>1, <1>2
<1> HIDE DEF n
<1>6. Learn(v, e) = w
  <2>1. e.name = "prepareWithdraw" /\ e.asset = asset /\ e.from = from /\ e.balance = n
    BY <1>3
  <2> QED
    BY <2>1 DEF Learn, LearnWith
<1>7. /\ \A a \in Assets, b \in Accounts :
           w.prepared[a][b] = IF a = asset /\ b = from THEN n ELSE v.prepared[a][b]
      /\ w.balance = v.balance /\ w.orders = v.orders
      /\ w.canceled = v.canceled /\ w.relays = v.relays
  <2>1. v.prepared \in [Assets -> [Accounts -> Int]]
    BY DEF Views, Copies
  <2>2. w.prepared = [v.prepared EXCEPT ![asset][from] = n]
    BY DEF Views
  <2>3. /\ w.balance = v.balance /\ w.orders = v.orders
        /\ w.canceled = v.canceled /\ w.relays = v.relays
    BY DEF Views
  <2> HIDE DEF w
  <2> QED
    BY <2>1, <2>2, <2>3
<1> HIDE DEF w
<1>8. \A a \in Assets, b \in Accounts : w.prepared[a][b] = prepared'[a][b].Amount
  BY <1>4, <1>7 DEF n, TellsNow, Tells
<1>9. TellsNext(w)
  BY <1>0, <1>7, <1>8 DEF TellsNow, TellsNext, Tells
<1> QED
  BY <1>0, <1>3, <1>5, <1>6, <1>9 DEF Events

LEMMA CommitTold ==
  ASSUME DexTypeOK, DexTypeOK', NEW v \in Views, TellsNow(v),
         NEW asset \in Assets, NEW from \in Accounts,
         CommitWithdraw(asset, from), NoTrading,
         NEW e, e = TransferEvtLog("commitWithdraw", asset, from, from,
                                   Payable(prepared[asset][from], balance[asset][from]),
                                   balance'[asset][from])
  PROVE  e \in Events /\ TellsNext(Learn(v, e))
<1> DEFINE n == balance'[asset][from]
           paid == Payable(prepared[asset][from], balance[asset][from])
           w == [v EXCEPT !.balance[asset][from] = n, !.prepared[asset][from] = 0]
<1>0. /\ prepared \in [Assets -> [Accounts -> PrepareWithdrawState]]
      /\ balance \in [Assets -> [Accounts -> Uint64]]
      /\ balance[asset][from] \in Nat /\ prepared[asset][from].Amount \in Nat
      /\ n \in Int
  BY DexFacts, NextBalances
<1>1. /\ prepared' = [prepared EXCEPT ![asset][from] = NoRecord]
      /\ balance' = [balance EXCEPT ![asset] = BalanceSub(@, from, paid)]
      /\ relays' = relays /\ orderState' = orderState /\ cancelNumber' = cancelNumber
  BY DEF CommitWithdraw, DoWithdraw, AfterCommit, contextVars, NoTrading, orderVars
<1>2. paid \in Int
  BY <1>0 DEF Payable
<1>3. e = [name |-> "commitWithdraw", asset |-> asset, from |-> from, to |-> from,
           amount |-> paid, balance |-> n]
  BY DEF TransferEvtLog
<1>4. \A a \in Assets, b \in Accounts :
        (a # asset \/ b # from) =>
          prepared'[a][b] = prepared[a][b] /\ balance'[a][b] = balance[a][b]
  BY <1>0, <1>1 DEF BalanceSub
<1>5. prepared'[asset][from].Amount = 0
  BY <1>0, <1>1 DEF NoRecord
<1> HIDE DEF n, paid
<1>6. Learn(v, e) = w
  <2>1. e.name = "commitWithdraw" /\ e.asset = asset /\ e.from = from /\ e.balance = n
    BY <1>3
  <2> QED
    BY <2>1 DEF Learn, LearnWith
<1>7. /\ \A a \in Assets, b \in Accounts :
           /\ w.balance[a][b] = IF a = asset /\ b = from THEN n ELSE v.balance[a][b]
           /\ w.prepared[a][b] = IF a = asset /\ b = from THEN 0 ELSE v.prepared[a][b]
      /\ w.orders = v.orders /\ w.canceled = v.canceled /\ w.relays = v.relays
  <2>1. /\ v.balance \in [Assets -> [Accounts -> Int]]
        /\ v.prepared \in [Assets -> [Accounts -> Int]]
    BY DEF Views, Copies
  <2>2. /\ w.balance = [v.balance EXCEPT ![asset][from] = n]
        /\ w.prepared = [v.prepared EXCEPT ![asset][from] = 0]
    BY DEF Views
  <2>3. w.orders = v.orders /\ w.canceled = v.canceled /\ w.relays = v.relays
    BY DEF Views
  <2> HIDE DEF w
  <2> QED
    BY <2>1, <2>2, <2>3
<1> HIDE DEF w
<1>8. /\ \A a \in Assets, b \in Accounts : w.prepared[a][b] = prepared'[a][b].Amount
      /\ \A a \in Assets, b \in Accounts \ {GovernanceCtrAccount} :
           w.balance[a][b] = balance'[a][b]
      /\ \A a \in Assets :
           w.balance[a][GovernanceCtrAccount] >= balance'[a][GovernanceCtrAccount]
  <2>1. \A a \in Assets, b \in Accounts : w.prepared[a][b] = prepared'[a][b].Amount
    BY <1>4, <1>5, <1>7 DEF TellsNow, Tells
  <2>2. \A a \in Assets, b \in Accounts \ {GovernanceCtrAccount} :
          w.balance[a][b] = balance'[a][b]
    BY <1>4, <1>7 DEF n, TellsNow, Tells
  <2>3. GovernanceCtrAccount \in Accounts
    BY AccountsAssumption
  <2>4. \A a \in Assets :
          w.balance[a][GovernanceCtrAccount] >= balance'[a][GovernanceCtrAccount]
    <3> SUFFICES ASSUME NEW a \in Assets
                 PROVE  w.balance[a][GovernanceCtrAccount] >= balance'[a][GovernanceCtrAccount]
      OBVIOUS
    <3>1. CASE a = asset /\ from = GovernanceCtrAccount
      BY <1>0, <1>7, <2>3, <3>1 DEF n
    <3>2. CASE ~(a = asset /\ from = GovernanceCtrAccount)
      BY <1>4, <1>7, <2>3, <3>2 DEF TellsNow, Tells
    <3> QED
      BY <3>1, <3>2
  <2> QED
    BY <2>1, <2>2, <2>4
<1>9. TellsNext(w)
  BY <1>1, <1>7, <1>8 DEF TellsNow, TellsNext, Tells
<1> QED
  BY <1>0, <1>2, <1>3, <1>6, <1>9 DEF Events

LEMMA DelegateTold ==
  ASSUME DexTypeOK, DexTypeOK', NEW v \in Views, TellsNow(v),
         NEW req \in Requests, NEW relay \in Accounts,
         DelegateWithdraw(req, relay), NoTrading,
         NEW e, e = DWithdrawEvtLog(req, relay, balance'[req.asset][req.from])
  PROVE  e \in Events /\ TellsNext(Learn(v, e))
<1> DEFINE asset == req.asset
           from == req.from
           fee == req.fee
           n == balance'[asset][from]
           paid == Credited(v.balance, relay, asset, fee)
           w == [v EXCEPT !.balance = [paid EXCEPT ![asset][from] = n]]
<1>0. /\ asset \in Assets /\ from \in Accounts /\ req.to \in Accounts
      /\ fee \in Int /\ req.amount \in Int
      /\ balance \in [Assets -> [Accounts -> Uint64]]
      /\ \A a \in Assets, b \in Accounts : balance[a][b] \in Int
      /\ n \in Int
  <2>1. asset \in Assets /\ from \in Accounts /\ req.to \in Accounts
    BY RequestAssumption DEF DWithdrawArgs
  <2>2. fee \in Int /\ req.amount \in Int
    BY RequestAssumption, WidthAssumption DEF DWithdrawArgs, Uint64
  <2> HIDE DEF asset, from, fee
  <2> QED
    BY <2>1, <2>2, DexFacts, NextBalances
<1>1. /\ balance' = [balance EXCEPT ![asset] =
                       BalanceSub(PayFee(@, relay, req), from, req.amount)]
      /\ prepared' = prepared
      /\ relays' = relays /\ orderState' = orderState /\ cancelNumber' = cancelNumber
  BY DEF DelegateWithdraw, DoDelegateWithdraw, contextVars, NoTrading, orderVars
<1>2. e = [name |-> "delegateWithdraw", asset |-> asset, relay |-> relay, from |-> from,
           to |-> req.to, amount |-> req.amount - fee, fee |-> fee, balance |-> n]
  BY DEF DWithdrawEvtLog
<1>3. Learn(v, e) = w
  BY <1>2 DEF Learn, LearnWith
<1>4. e \in Events
  <2>1. req.amount - fee \in Int
    BY <1>0
  <2> HIDE DEF asset, from, fee, n
  <2> QED
    BY <1>0, <1>2, <2>1 DEF Events
<1>5. \A a \in Assets, b \in Accounts :
        (a # asset \/ b # from) => balance'[a][b] = balance[a][b] + Part(a, asset, Part(b, relay, fee))
  <2>1. ASSUME NEW b \in Accounts, b # from
        PROVE  balance'[asset][b] = balance[asset][b] + Part(b, relay, fee)
    BY <1>0, <1>1, <2>1 DEF BalanceSub, PayFee, BalanceAdd, Part
  <2>2. ASSUME NEW a \in Assets, a # asset, NEW b \in Accounts
        PROVE  balance'[a][b] = balance[a][b] + 0
    BY <1>0, <1>1, <2>2
  <2> HIDE DEF asset, from, fee
  <2> QED
    BY <2>1, <2>2 DEF Part
<1> HIDE DEF asset, from, fee, n
<1>6. /\ paid \in Copies
      /\ \A a \in Assets, b \in Accounts :
           paid[a][b] = v.balance[a][b] + Part(a, asset, Part(b, relay, fee))
  <2> DEFINE copy == v.balance
  <2>1. copy \in Copies
    BY DEF Views
  <2>2. paid = Credited(copy, relay, asset, fee)
    OBVIOUS
  <2> HIDE DEF copy, paid
  <2>3. /\ paid \in Copies
        /\ \A a \in Assets, b \in Accounts :
             paid[a][b] = copy[a][b] + Part(a, asset, Part(b, relay, fee))
    <3>1. asset \in Assets /\ fee \in Int
      BY <1>0
    <3> QED
      BY <2>1, <2>2, <3>1, BookChange
  <2> QED
    BY <2>3 DEF copy
<1> HIDE DEF paid
<1>7. /\ \A a \in Assets, b \in Accounts :
           w.balance[a][b] = IF a = asset /\ b = from THEN n ELSE paid[a][b]
      /\ w.prepared = v.prepared /\ w.orders = v.orders
      /\ w.canceled = v.canceled /\ w.relays = v.relays
  <2>1. w.balance = [paid EXCEPT ![asset][from] = n]
    BY DEF Views
  <2>2. /\ w.prepared = v.prepared /\ w.orders = v.orders
        /\ w.canceled = v.canceled /\ w.relays = v.relays
    BY DEF Views
  <2> HIDE DEF w
  <2> QED
    BY <1>6, <2>1, <2>2 DEF Copies
<1> HIDE DEF w
<1>8. /\ \A a \in Assets, b \in Accounts \ {GovernanceCtrAccount} :
           w.balance[a][b] = balance'[a][b]
      /\ \A a \in Assets :
           w.balance[a][GovernanceCtrAccount] >= balance'[a][GovernanceCtrAccount]
  <2>1. GovernanceCtrAccount \in Accounts
    BY AccountsAssumption
  <2>2. \A a \in Assets, b \in Accounts : v.balance[a][b] \in Int
    BY DEF Views, Copies
  <2>3. \A a \in Assets, b \in Accounts : Part(a, asset, Part(b, relay, fee)) \in Int
    BY <1>0 DEF Part
  <2> QED
    BY <1>0, <1>5, <1>6, <1>7, <2>1, <2>2, <2>3 DEF n, TellsNow, Tells
<1>9. TellsNext(w)
  BY <1>1, <1>7, <1>8 DEF TellsNow, TellsNext, Tells
<1> QED
  BY <1>3, <1>4, <1>9

\* What an event writes in an asset's units is read in them.
LEMMA UnitsRead ==
  ASSUME NEW units \in Nat, NEW asset \in Assets
  PROVE  /\ Uint64ToDecimal(units, asset) \in Decimals
         /\ InUnits(Uint64ToDecimal(units, asset), asset) = units
<1> DEFINE p == Precision[asset]
<1>1. p \in Nat \ {0}
  BY OrdersAssumption
<1>2. Uint64ToDecimal(units, asset) = [units |-> units, scale |-> p]
  BY DEF Uint64ToDecimal
<1>3. InUnits([units |-> units, scale |-> p], asset) = (units * p) \div p
  BY DEF InUnits
<1> HIDE DEF p
<1>4. (units * p) \div p = units
  <2> DEFINE q == (units * p) \div p
  <2>1. units * p \in Nat
    BY <1>1, ProductFacts
  <2>2. q \in Nat /\ units * p < q * p + p
    BY <1>1, <2>1, QuotientFacts
  <2>3. units <= q
    BY <1>1, <2>1, QuotientLargest
  <2>4. q * p <= units * p
    BY <1>1, <2>1, QuotientFacts
  <2> HIDE DEF q
  <2>5. ~(units + 1 <= q)
    <3> SUFFICES ASSUME units + 1 <= q PROVE FALSE
      OBVIOUS
    <3>1. units + 1 \in Nat /\ (units + 1) * p <= q * p
      BY <1>1, <2>2, ProductFacts
    <3>2. (units + 1) * p = units * p + p
      BY <1>1
    <3>3. q * p \in Nat
      BY <1>1, <2>2, ProductFacts
    <3> QED
      BY <1>1, <2>1, <2>4, <3>1, <3>2, <3>3
  <2>6. q = units
    BY <2>2, <2>3, <2>5
  <2> QED
    BY <2>6 DEF q
<1>5. [units |-> units, scale |-> p] \in Decimals
  BY <1>1 DEF Decimals
<1> QED
  BY <1>2, <1>3, <1>4, <1>5

LEMMA LegRest ==
  ASSUME NEW r \in Nat, NEW g \in Nat, NEW c \in Nat, NEW s \in Nat, r - g + c + s = 0
  PROVE  r = g - (s + c)
OBVIOUS

\* If the rates fit, a side receives its leg less the fee that is logged, and
\* what of it is not the channel's is the system's.
LEMMA NetReceipts ==
  ASSUME RatesFit, LedgerTypeOK, NEW maker \in Orders, NEW taker \in Orders,
         SignedOrder(maker), SignedOrder(taker),
         NEW amount \in Uint64, MatchOrder(maker, taker, amount)
  PROVE  LET clear == countFee(maker, taker, amount)
         IN  /\ Receipts(clear).taker = clear.takerGets.amount - clear.TakerFee
             /\ Receipts(clear).maker = clear.makerGets.amount - clear.MakerFee
             /\ clear.TakerFee - clear.TakerChannelFee = clear.TakerSysFee
             /\ clear.MakerFee - clear.MakerChannelFee = clear.MakerSysFee
<1> DEFINE clear == countFee(maker, taker, amount)
<1>1. ClearOK(clear) /\ TakerSum(clear) = 0 /\ MakerSum(clear) = 0
  BY ClearTyped, TradeAddsUp
<1>2. /\ clear.TakerFee = WrapUint64(clear.TakerSysFee + clear.TakerChannelFee)
      /\ clear.MakerFee = WrapUint64(clear.MakerSysFee + clear.MakerChannelFee)
  BY DEF countFee
<1> HIDE DEF clear
<1>3. /\ Receipts(clear).taker \in Nat /\ Receipts(clear).maker \in Nat
      /\ clear.takerGets.amount \in Nat /\ clear.makerGets.amount \in Nat
      /\ clear.TakerChannelFee \in Nat /\ clear.MakerChannelFee \in Nat
      /\ clear.TakerSysFee \in Nat /\ clear.MakerSysFee \in Nat
  BY <1>1, ClearIntegers
<1>4. clear.takerGets.amount <= MaxUint64 /\ clear.makerGets.amount <= MaxUint64
  BY <1>1, WidthAssumption DEF ClearOK, Leg, Uint64
<1>5. /\ Receipts(clear).taker
           = clear.takerGets.amount - (clear.TakerSysFee + clear.TakerChannelFee)
      /\ Receipts(clear).maker
           = clear.makerGets.amount - (clear.MakerSysFee + clear.MakerChannelFee)
  <2>1. /\ Receipts(clear).taker - clear.takerGets.amount + clear.TakerChannelFee
             + clear.TakerSysFee = 0
        /\ Receipts(clear).maker - clear.makerGets.amount + clear.MakerChannelFee
             + clear.MakerSysFee = 0
    BY <1>1 DEF TakerSum, MakerSum
  <2>2. Receipts(clear).taker
          = clear.takerGets.amount - (clear.TakerSysFee + clear.TakerChannelFee)
    <3> DEFINE r == Receipts(clear).taker
               g == clear.takerGets.amount
               c == clear.TakerChannelFee
               s == clear.TakerSysFee
    <3>1. r \in Nat /\ g \in Nat /\ c \in Nat /\ s \in Nat /\ r - g + c + s = 0
      BY <1>3, <2>1
    <3> HIDE DEF r, g, c, s
    <3>2. r = g - (s + c)
      BY <3>1, LegRest
    <3> QED
      BY <3>2 DEF r, g, c, s
  <2>3. Receipts(clear).maker
          = clear.makerGets.amount - (clear.MakerSysFee + clear.MakerChannelFee)
    BY <1>3, <2>1, LegRest
  <2> QED
    BY <2>2, <2>3
<1>6. /\ WrapUint64(clear.TakerSysFee + clear.TakerChannelFee)
           = clear.TakerSysFee + clear.TakerChannelFee
      /\ WrapUint64(clear.MakerSysFee + clear.MakerChannelFee)
           = clear.MakerSysFee + clear.MakerChannelFee
  <2>1. /\ clear.TakerSysFee + clear.TakerChannelFee <= clear.takerGets.amount
        /\ clear.MakerSysFee + clear.MakerChannelFee <= clear.makerGets.amount
    BY <1>3, <1>5
  <2> QED
    BY <1>3, <1>4, <2>1, LegAddsUp
<1>7. /\ clear.TakerFee - clear.TakerChannelFee = clear.TakerSysFee
      /\ clear.MakerFee - clear.MakerChannelFee = clear.MakerSysFee
  BY <1>2, <1>3, <1>6
<1> QED
  BY <1>2, <1>5, <1>6, <1>7 DEF clear

\* A trade's event tells the trade.
LEMMA TradeTold ==
  ASSUME RatesFit, DexTypeOK, DexTypeOK', NEW v \in Views, TellsNow(v),
         NEW maker \in Orders, NEW taker \in Orders, NEW relay \in Accounts,
         NEW amount \in Uint64, Trade(maker, taker, relay, amount), NoCustody,
         NEW e, e = TradeEvtLog(maker, taker, amount)
  PROVE  e \in Events /\ TellsNext(Learn(v, e))
<1> DEFINE clear == countFee(maker, taker, amount)
           quote == QuoteFor(maker, amount, Precision)
           t == clear.takerGets.asset
           m == clear.makerGets.asset
           tGets == clear.takerGets.amount
           mGets == clear.makerGets.amount
           w == Traded(v, maker, taker, t, m, amount, tGets, mGets,
                       clear.TakerFee, clear.MakerFee,
                       clear.TakerChannelFee, clear.MakerChannelFee)
<1>0. LedgerTypeOK /\ TradingTypeOK /\ BookTypeOK
  BY DexFacts
<1>1. /\ MatchOrder(maker, taker, amount)
      /\ SignedOrder(maker) /\ SignedOrder(taker)
      /\ updateBalance(maker, taker, clear)
      /\ cancelNumber' = cancelNumber /\ relays' = relays /\ prepared' = prepared
  BY DEF Trade, verify, Tradable, contextVars, NoCustody, custodyVars
<1>2. /\ maker # taker /\ maker.Base = taker.Base /\ maker.Quote = taker.Quote
      /\ taker.Base \in Assets /\ taker.Quote \in Assets
      /\ amount \in Nat /\ quote \in Nat
  <2>1. taker.Base \in Assets /\ taker.Quote \in Assets
    BY OrdersAssumption DEF OrderData
  <2>2. amount \in Nat
    BY WidthAssumption DEF Uint64
  <2>3. quote \in Nat
    BY <2>2, TradeArithmetic
  <2>4. maker # taker /\ maker.Base = taker.Base /\ maker.Quote = taker.Quote
    BY <1>0, TradedOrders
  <2> QED
    BY <2>1, <2>2, <2>3, <2>4
<1>3. /\ clear.takerGets = IF IsSell(taker) THEN [asset |-> taker.Quote, amount |-> quote]
                                            ELSE [asset |-> taker.Base, amount |-> amount]
      /\ clear.makerGets = IF IsSell(taker) THEN [asset |-> taker.Base, amount |-> amount]
                                            ELSE [asset |-> taker.Quote, amount |-> quote]
  BY <1>2 DEF countFee, Amounts
<1>4. ClearOK(clear)
  BY <1>0, <1>1, ClearTyped
<1>5. /\ Receipts(clear).taker = tGets - clear.TakerFee
      /\ Receipts(clear).maker = mGets - clear.MakerFee
      /\ clear.TakerFee - clear.TakerChannelFee = clear.TakerSysFee
      /\ clear.MakerFee - clear.MakerChannelFee = clear.MakerSysFee
  BY <1>0, <1>1, NetReceipts
<1>6. e = [name |-> "trade", maker |-> OrderId[maker], taker |-> OrderId[taker],
           price |-> LoggedPrice(maker.Price),
           amount |-> Uint64ToDecimal(amount, taker.Base),
           quoteAmount |-> Uint64ToDecimal(quote, taker.Quote),
           makerFee |-> Uint64ToDecimal(clear.MakerFee, m),
           takerFee |-> Uint64ToDecimal(clear.TakerFee, t),
           makerChannelFee |-> Uint64ToDecimal(clear.MakerChannelFee, m),
           takerChannelFee |-> Uint64ToDecimal(clear.TakerChannelFee, t)]
  <2>1. /\ t = IF taker.Side = "sell" THEN taker.Quote ELSE taker.Base
        /\ m = IF taker.Side = "sell" THEN taker.Base ELSE taker.Quote
    BY <1>3 DEF IsSell
  <2>2. Amounts(maker, amount).quote.amount = quote
    BY DEF Amounts
  <2> HIDE DEF clear, quote
  <2> QED
    BY <2>1, <2>2 DEF TradeEvtLog, clear
<1> HIDE DEF clear, quote
<1>7. /\ t \in Assets /\ m \in Assets /\ tGets \in Int /\ mGets \in Int
      /\ clear.TakerFee \in Nat /\ clear.MakerFee \in Nat
      /\ clear.TakerChannelFee \in Nat /\ clear.MakerChannelFee \in Nat
      /\ clear.TakerSysFee \in Nat /\ clear.MakerSysFee \in Nat
  BY <1>4, WidthAssumption DEF ClearOK, Leg, Uint64
<1>8. e \in Events
  <2>1. /\ e.amount \in Decimals /\ e.quoteAmount \in Decimals
        /\ e.makerFee \in Decimals /\ e.takerFee \in Decimals
        /\ e.makerChannelFee \in Decimals /\ e.takerChannelFee \in Decimals
    BY <1>2, <1>6, <1>7, UnitsRead
  <2>2. LoggedPrice(maker.Price) \in [units : Int, scale : Int]
    <3>1. maker.Price \in Int /\ Division \in Int
      BY OrdersAssumption, WidthAssumption, ScaleAssumption DEF OrderData, Uint64
    <3> QED
      BY <3>1 DEF LoggedPrice
  <2>3. OrderId[maker] \in Ids /\ OrderId[taker] \in Ids
    BY DEF Ids
  <2> QED
    BY <1>6, <2>1, <2>2, <2>3 DEF Events
<1>9. Learn(v, e) = w
  <2>1. /\ e.taker = OrderId[taker] /\ e.maker = OrderId[maker] /\ e.name = "trade"
        /\ InUnits(e.amount, taker.Base) = amount
        /\ InUnits(e.quoteAmount, taker.Quote) = quote
        /\ InUnits(e.takerFee, t) = clear.TakerFee
        /\ InUnits(e.makerFee, m) = clear.MakerFee
        /\ InUnits(e.takerChannelFee, t) = clear.TakerChannelFee
        /\ InUnits(e.makerChannelFee, m) = clear.MakerChannelFee
    BY <1>2, <1>6, <1>7, UnitsRead
  <2>2. /\ t = IF IsSell(taker) THEN taker.Quote ELSE taker.Base
        /\ m = IF IsSell(taker) THEN taker.Base ELSE taker.Quote
        /\ tGets = IF IsSell(taker) THEN quote ELSE amount
        /\ mGets = IF IsSell(taker) THEN amount ELSE quote
    BY <1>3
  <2> HIDE DEF t, m, tGets, mGets
  <2> QED
    BY <2>1, <2>2, AfterTradeIs
<1> HIDE DEF t, m, tGets, mGets
<1>10. SaysTraded(w, v, maker, taker, t, m, amount, tGets, mGets,
                  clear.TakerFee, clear.MakerFee, clear.TakerChannelFee, clear.MakerChannelFee)
  <2> DEFINE tFee == clear.TakerFee
             mFee == clear.MakerFee
             tChannel == clear.TakerChannelFee
             mChannel == clear.MakerChannelFee
  <2>1. /\ amount \in Int /\ tFee \in Int /\ mFee \in Int
        /\ tChannel \in Int /\ mChannel \in Int
    BY <1>2, <1>7
  <2>2. w = Traded(v, maker, taker, t, m, amount, tGets, mGets, tFee, mFee, tChannel, mChannel)
    OBVIOUS
  <2> HIDE DEF w, tFee, mFee, tChannel, mChannel
  <2>3. SaysTraded(w, v, maker, taker, t, m, amount,
                   tGets, mGets, tFee, mFee, tChannel, mChannel)
    BY <1>7, <2>1, <2>2, TradedEffect
  <2> QED
    BY <2>3 DEF tFee, mFee, tChannel, mChannel
<1> HIDE DEF w
<1>11. \A a \in Assets, b \in Accounts :
         w.balance[a][b] - v.balance[a][b] = balance'[a][b] - balance[a][b]
  <2>1. ASSUME NEW a \in Assets, NEW b \in Accounts
        PROVE  /\ balance'[a][b] = balance[a][b] + Part(a, t, TakerLeg(maker, taker, clear, b))
                                    + Part(a, m, MakerLeg(maker, taker, clear, b))
               /\ w.balance[a][b] = v.balance[a][b] + Part(a, t, TakerLeg(maker, taker, clear, b))
                                    + Part(a, m, MakerLeg(maker, taker, clear, b))
    <3>1. balance'[a][b] = balance[a][b] + Part(a, t, TakerLeg(maker, taker, clear, b))
                             + Part(a, m, MakerLeg(maker, taker, clear, b))
      BY <1>0, <1>1, <1>4, TradeBooks DEF t, m
    <3>2. /\ TakerLeg(maker, taker, clear, b)
               = Part(b, taker.User, tGets - clear.TakerFee) - Part(b, maker.User, tGets)
                   + Part(b, taker.Channel, clear.TakerChannelFee)
                   + Part(b, GovernanceCtrAccount, clear.TakerFee - clear.TakerChannelFee)
          /\ MakerLeg(maker, taker, clear, b)
               = Part(b, maker.User, mGets - clear.MakerFee) - Part(b, taker.User, mGets)
                   + Part(b, maker.Channel, clear.MakerChannelFee)
                   + Part(b, GovernanceCtrAccount, clear.MakerFee - clear.MakerChannelFee)
      BY <1>5 DEF TakerLeg, MakerLeg, tGets, mGets
    <3>3. w.balance[a][b] = v.balance[a][b] + Part(a, t, TakerLeg(maker, taker, clear, b))
                              + Part(a, m, MakerLeg(maker, taker, clear, b))
      BY <1>10, <3>2 DEF SaysTraded
    <3> QED
      BY <3>1, <3>3
  <2>2. ASSUME NEW a \in Assets, NEW b \in Accounts
        PROVE  /\ balance[a][b] \in Int /\ v.balance[a][b] \in Int
               /\ Part(a, t, TakerLeg(maker, taker, clear, b)) \in Int
               /\ Part(a, m, MakerLeg(maker, taker, clear, b)) \in Int
    <3>1. balance[a][b] \in Int /\ v.balance[a][b] \in Int
      BY DexFacts DEF Views, Copies
    <3>2. \A whom : \A n \in Int : Part(b, whom, n) \in Int
      BY DEF Part
    <3>3. Receipts(clear).taker \in Int /\ Receipts(clear).maker \in Int
      BY <1>5, <1>7
    <3>4. TakerLeg(maker, taker, clear, b) \in Int /\ MakerLeg(maker, taker, clear, b) \in Int
      BY <1>7, <3>2, <3>3 DEF TakerLeg, MakerLeg, tGets, mGets
    <3> QED
      BY <3>1, <3>4 DEF Part
  <2> QED
    BY <2>1, <2>2
<1>12. \A order \in Orders : w.orders[OrderId[order]] = orderState'[order]
  <2>1. orderState' = [orderState EXCEPT ![maker].Filled = @ + amount,
                                         ![taker].Filled = @ + amount]
    BY DEF Trade, updateOrderState
  <2>2. orderState \in [Orders -> OrderState]
    BY DexFacts
  <2>3. \A order \in Orders :
          w.orders[OrderId[order]] =
            IF order \in {maker, taker}
            THEN [v.orders[OrderId[order]] EXCEPT !.Filled = @ + amount]
            ELSE v.orders[OrderId[order]]
    BY <1>2, <1>10 DEF SaysTraded
  <2> QED
    BY <1>2, <2>1, <2>2, <2>3 DEF TellsNow, Tells
<1>13. /\ \A a \in Assets, b \in Accounts \ {GovernanceCtrAccount} :
            w.balance[a][b] = balance'[a][b]
       /\ \A a \in Assets :
            w.balance[a][GovernanceCtrAccount] >= balance'[a][GovernanceCtrAccount]
  <2>1. GovernanceCtrAccount \in Accounts
    BY AccountsAssumption
  <2>2. v \in Views /\ Learn(v, e) \in Views
    BY <1>8, LearnTyped
  <2>3. \A a \in Assets, b \in Accounts :
          /\ v.balance[a][b] \in Int /\ w.balance[a][b] \in Int
          /\ balance[a][b] \in Int /\ balance'[a][b] \in Int
    BY <1>9, <2>2, DexFacts, NextBalances DEF Views, Copies
  <2> QED
    BY <1>11, <2>1, <2>3 DEF TellsNow, Tells
<1>14. TellsNext(w)
  BY <1>1, <1>10, <1>12, <1>13 DEF SaysTraded, TellsNow, TellsNext, Tells
<1> QED
  BY <1>8, <1>9, <1>14

LEMMA CancelTold ==
  ASSUME DexTypeOK, NEW v \in Views, TellsNow(v), NEW order \in Orders,
         CancelOrder(order), NoCustody,
         NEW e, e = [name |-> "cancel", from |-> order.User, id |-> OrderId[order]]
  PROVE  e \in Events /\ TellsNext(Learn(v, e))
<1> DEFINE w == [v EXCEPT !.orders[OrderId[order]].Canceled = TRUE]
<1>1. /\ orderState' = [orderState EXCEPT ![order].Canceled = TRUE]
      /\ balance' = balance /\ relays' = relays /\ cancelNumber' = cancelNumber
      /\ prepared' = prepared
  BY DEF CancelOrder, ledgerVars, NoCustody, custodyVars
<1>2. orderState \in [Orders -> OrderState]
  BY DexFacts
<1>3. Learn(v, e) = w
  <2>1. e.name = "cancel" /\ e.id = OrderId[order]
    OBVIOUS
  <2> QED
    BY <2>1 DEF Learn, LearnWith
<1>4. /\ w.orders = [v.orders EXCEPT ![OrderId[order]].Canceled = TRUE]
      /\ w.balance = v.balance /\ w.prepared = v.prepared
      /\ w.canceled = v.canceled /\ w.relays = v.relays
  BY DEF Views
<1> HIDE DEF w
<1>5. \A o \in Orders : w.orders[OrderId[o]] = orderState'[o]
  <2>1. v.orders \in [Ids -> [Filled : Int, Canceled : BOOLEAN]]
    BY DEF Views
  <2>2. \A o \in Orders : v.orders[OrderId[o]] = orderState[o]
    BY DEF TellsNow, Tells
  <2>3. \A o \in Orders :
          OrderId[o] \in Ids /\ (OrderId[o] = OrderId[order] <=> o = order)
    BY IdsAssumption DEF Ids
  <2> QED
    BY <1>1, <1>2, <1>4, <2>1, <2>2, <2>3
<1>6. TellsNext(w)
  <2>1. /\ balance' = balance /\ relays' = relays /\ cancelNumber' = cancelNumber
        /\ prepared' = prepared
        /\ w.balance = v.balance /\ w.prepared = v.prepared
        /\ w.canceled = v.canceled /\ w.relays = v.relays
    BY <1>1, <1>4
  <2> QED
    BY <1>5, <2>1 DEF TellsNow, TellsNext, Tells
<1>7. e \in Events
  <2>1. order.User \in Accounts /\ OrderId[order] \in Ids
    BY OrdersAssumption DEF OrderData, Ids
  <2> QED
    BY <2>1 DEF Events
<1> QED
  BY <1>3, <1>6, <1>7

LEMMA DelegateCancelTold ==
  ASSUME DexTypeOK, NEW v \in Views, TellsNow(v),
         NEW relay \in Accounts, NEW user \in Accounts, NEW number \in CancelNumbers,
         DelegateCancelOrder(relay, user, number), NoCustody,
         NEW e, e = [name |-> "delegateCancel", from |-> relay, user |-> user,
                     number |-> number]
  PROVE  e \in Events /\ TellsNext(Learn(v, e))
<1> DEFINE w == [v EXCEPT !.canceled[user] = number]
<1>1. /\ cancelNumber' = [cancelNumber EXCEPT ![user] = number]
      /\ balance' = balance /\ relays' = relays /\ orderState' = orderState
      /\ prepared' = prepared
  BY DEF DelegateCancelOrder, ledgerVars, NoCustody, custodyVars
<1>2. cancelNumber \in [Accounts -> Uint64] /\ number \in Int
  <2>1. number \in Uint64
    BY OrdersAssumption
  <2> QED
    BY <2>1, DexFacts, WidthAssumption DEF Uint64
<1>3. Learn(v, e) = w
  <2>1. e.name = "delegateCancel" /\ e.user = user /\ e.number = number
    OBVIOUS
  <2> QED
    BY <2>1 DEF Learn, LearnWith
<1>4. /\ w.canceled = [v.canceled EXCEPT ![user] = number]
      /\ w.balance = v.balance /\ w.prepared = v.prepared
      /\ w.orders = v.orders /\ w.relays = v.relays
  BY DEF Views
<1> HIDE DEF w
<1>5. \A acc \in Accounts : w.canceled[acc] = cancelNumber'[acc]
  <2>1. v.canceled \in [Accounts -> Int]
    BY DEF Views
  <2>2. \A acc \in Accounts : v.canceled[acc] = cancelNumber[acc]
    BY DEF TellsNow, Tells
  <2> QED
    BY <1>1, <1>2, <1>4, <2>1, <2>2
<1>6. TellsNext(w)
  BY <1>1, <1>4, <1>5 DEF TellsNow, TellsNext, Tells
<1>7. e \in Events
  BY <1>2 DEF Events
<1> QED
  BY <1>3, <1>6, <1>7

LEMMA RelayTold ==
  ASSUME NEW v \in Views, TellsNow(v),
         NEW from \in Accounts, NEW target \in Accounts, NEW value \in BOOLEAN,
         SetRelay(from, target, value), NoCustody, NoTrading,
         NEW e, e = [name |-> "setRelay", target |-> target, value |-> value]
  PROVE  e \in Events /\ TellsNext(Learn(v, e))
<1>1. /\ relays' = IF value THEN relays \cup {target} ELSE relays \ {target}
      /\ balance' = balance /\ orderState' = orderState /\ cancelNumber' = cancelNumber
      /\ prepared' = prepared
  BY DEF SetRelay, NoCustody, NoTrading, custodyVars, orderVars
<1>2. v.relays = relays
  BY DEF TellsNow, Tells
<1>3. Learn(v, e) = [v EXCEPT !.relays = relays']
  <2>1. e.name = "setRelay" /\ e.target = target /\ e.value = value
    OBVIOUS
  <2>2. Learn(v, e) =
          [v EXCEPT !.relays = IF e.value THEN v.relays \cup {e.target}
                                          ELSE v.relays \ {e.target}]
    BY <2>1 DEF Learn, LearnWith
  <2> QED
    BY <1>1, <1>2, <2>1, <2>2
<1> DEFINE w == [v EXCEPT !.relays = relays']
<1>4. /\ w.relays = relays'
      /\ w.balance = v.balance /\ w.prepared = v.prepared
      /\ w.orders = v.orders /\ w.canceled = v.canceled
  BY DEF Views
<1> HIDE DEF w
<1>5. TellsNext(w)
  BY <1>1, <1>4 DEF TellsNow, TellsNext, Tells
<1>6. e \in Events
  BY DEF Events
<1> QED
  BY <1>3, <1>5, <1>6 DEF w

\* What is not logged changes nothing that is told.
LEMMA UnloggedTold ==
  ASSUME DexTypeOK, DexTypeOK', Unlogged, NEW v \in Views, TellsNow(v)
  PROVE  TellsNext(v)
<1>1. /\ prepared' = prepared /\ orderState' = orderState
      /\ cancelNumber' = cancelNumber /\ relays' = relays
      /\ \A asset \in Assets, acc \in Accounts \ {GovernanceCtrAccount} :
           balance'[asset][acc] = balance[asset][acc]
      /\ \A asset \in Assets :
           balance'[asset][GovernanceCtrAccount] <= balance[asset][GovernanceCtrAccount]
  <2>0. /\ GovernanceCtrAccount \in Accounts
        /\ \A asset \in Assets : balance[asset][GovernanceCtrAccount] \in Int
    BY AccountsAssumption, DexFacts
  <2>1. UNCHANGED custodyVars
    BY DEF Unlogged, NoCustody
  <2>2. CASE \/ \E asset \in Assets, from, to \in Accounts, amount \in Uint64 :
                  PayOutside(asset, from, to, amount) /\ NoTrading
             \/ (Tick \/ UpdateParams) /\ NoTrading
    BY <2>0, <2>1, <2>2 DEF PayOutside, Tick, UpdateParams, NoTrading, contextVars, custodyVars, orderVars
  <2>3. CASE GovernanceStep /\ UNCHANGED orderVars
    <3>1. CASE \E round \in Rounds : EpochEnd(round)
      BY <2>0, <2>1, <2>3, <3>1 DEF EpochEnd, ledgerVars, custodyVars, orderVars
    <3>2. ASSUME NEW a \in Assets, ClaimSpProfit(a)
          PROVE  /\ relays' = relays
                 /\ \A asset \in Assets, acc \in Accounts \ {GovernanceCtrAccount} :
                      balance'[asset][acc] = balance[asset][acc]
                 /\ \A asset \in Assets :
                      balance'[asset][GovernanceCtrAccount] <= balance[asset][GovernanceCtrAccount]
      <4> DEFINE n == Claimable(spProfit[a])
      <4>1. /\ balance' = [balance EXCEPT ![a] = BalanceSub(balance[a], GovernanceCtrAccount, n)]
            /\ relays' = relays
        BY <3>2 DEF ClaimSpProfit, DoWithdraw, contextVars
      <4>2. balance \in [Assets -> [Accounts -> Uint64]]
        BY DexFacts
      <4>3. n \in Nat
        <5>1. RoundsTypeOK /\ spProfit[a] \in SpProfit
          BY DexFacts DEF TradingTypeOK, RoundsTypeOK
        <5> QED
          BY <5>1, ClaimTyped, WidthAssumption DEF Uint64
      <4> HIDE DEF n
      <4>4. \A asset \in Assets, acc \in Accounts :
              balance'[asset][acc] =
                IF asset = a /\ acc = GovernanceCtrAccount
                THEN balance[asset][acc] - n ELSE balance[asset][acc]
        BY <4>1, <4>2 DEF BalanceSub
      <4> QED
        BY <2>0, <4>1, <4>3, <4>4
    <3> QED
      BY <2>0, <2>1, <2>3, <3>1, <3>2 DEF GovernanceStep, custodyVars, orderVars
  <2> QED
    BY <2>2, <2>3 DEF Unlogged
<1>2. \A asset \in Assets :
        v.balance[asset][GovernanceCtrAccount] >= balance'[asset][GovernanceCtrAccount]
  <2>1. GovernanceCtrAccount \in Accounts
    BY AccountsAssumption
  <2>2. \A asset \in Assets :
          /\ balance[asset][GovernanceCtrAccount] \in Int
          /\ balance'[asset][GovernanceCtrAccount] \in Int
          /\ v.balance[asset][GovernanceCtrAccount] \in Int
    BY <2>1, DexFacts, NextBalances DEF Views, Copies
  <2> QED
    BY <1>1, <2>2 DEF TellsNow, Tells
<1> QED
  BY <1>1, <1>2 DEF TellsNow, TellsNext, Tells
-----------------------------------------------------------------------------
(* A follower that reads what is pending knows the answers.                *)

EventInv ==
  /\ DexTypeOK
  /\ view \in Views
  /\ pending \in Seq(Events)
  /\ held \subseteq Orders
  /\ TellsNow(ReadAll(view, pending))

\* The contract's part of an event step is a step of the contract.
LEMMA EventInvoke ==
  ASSUME EventNext
  PROVE  [Invoke]_dexVars
BY DEF EventNext, LoggedTransfer, LoggedDelegateWithdraw, LoggedPrepare, LoggedCommit,
       LoggedTrade, LoggedCancel, LoggedDelegateCancel, LoggedSetRelay, Unlogged, Follow, Collect,
       NoCustody, NoTrading, Invoke, CustodyStep, TradingNext, LedgerNext, TradingStep, Canceling

\* An event that tells the step, emitted with it.
LEMMA Emitted ==
  ASSUME EventInv, DexTypeOK', NEW e \in Events, Emit(e),
         TellsNext(Learn(ReadAll(view, pending), e))
  PROVE  EventInv'
<1>1. /\ pending' = Append(pending, e) /\ view' = view /\ held' = held
      /\ view \in Views /\ pending \in Seq(Events)
  BY DEF Emit, EventInv
<1>2. ReadAll(view', pending') = Learn(ReadAll(view, pending), e)
  BY <1>1, ReadLast
<1>3. pending' \in Seq(Events)
  BY <1>1
<1> QED
  BY <1>1, <1>2, <1>3 DEF EventInv, TellsNow, TellsNext

\* Every step keeps the invariant if the rates fit.
LEMMA EventStep ==
  ASSUME RatesFit, EventInv, [EventNext]_eventSpecVars
  PROVE  EventInv'
<1> DEFINE v == ReadAll(view, pending)
<1>0. /\ DexTypeOK /\ view \in Views /\ pending \in Seq(Events) /\ held \subseteq Orders
      /\ v \in Views /\ TellsNow(v)
  BY ReadTyped DEF EventInv
<1>1. DexTypeOK'
  <2>1. [Invoke]_dexVars
    <3>1. CASE EventNext
      BY <3>1, EventInvoke
    <3>2. CASE UNCHANGED eventSpecVars
      BY <3>2 DEF eventSpecVars
    <3> QED
      BY <3>1, <3>2
  <2> QED
    BY <1>0, <2>1, InvokeTypes
<1>2. ASSUME NEW e, Emit(e), e \in Events /\ TellsNext(Learn(v, e))
      PROVE  EventInv'
  BY <1>1, <1>2, Emitted
<1>3. ASSUME UNCHANGED eventVars, TellsNext(v)
      PROVE  EventInv'
  <2>1. view' = view /\ pending' = pending /\ held' = held
    BY <1>3 DEF eventVars
  <2> QED
    BY <1>0, <1>1, <1>3, <2>1 DEF EventInv, TellsNow, TellsNext
<1> HIDE DEF v
<1>4. ASSUME NEW asset \in Assets, NEW from \in Accounts, NEW to \in Accounts,
             NEW amount \in Uint64, LoggedTransfer(asset, from, to, amount)
      PROVE  EventInv'
  <2>1. NoCustody /\ NoTrading
    BY <1>4 DEF LoggedTransfer
  <2>2. ASSUME NEW e,
               \/ /\ Deposit(asset, from, to, amount)
                  /\ e = TransferEvtLog("deposit", asset, from, to, amount, balance'[asset][to])
               \/ /\ Withdraw(asset, from, to, amount)
                  /\ e = TransferEvtLog("withdraw", asset, from, to, amount,
                                        balance'[asset][from]),
               Emit(e)
        PROVE  EventInv'
    <3>1. e \in Events /\ TellsNext(Learn(v, e))
      BY <1>0, <1>1, <2>1, <2>2, TransferTold
    <3> QED
      BY <1>2, <2>2, <3>1
  <2> QED
    BY <1>4, <2>2 DEF LoggedTransfer
<1>5. ASSUME NEW req \in Requests, NEW relay \in Accounts, LoggedDelegateWithdraw(req, relay)
      PROVE  EventInv'
  <2> DEFINE e == DWithdrawEvtLog(req, relay, balance'[req.asset][req.from])
  <2>1. DelegateWithdraw(req, relay) /\ NoTrading /\ Emit(e)
    BY <1>5 DEF LoggedDelegateWithdraw
  <2>2. e \in Events /\ TellsNext(Learn(v, e))
    BY <1>0, <1>1, <2>1, DelegateTold
  <2> HIDE DEF e
  <2> QED
    BY <1>2, <2>1, <2>2
<1>6. ASSUME NEW asset \in Assets, NEW from \in Accounts, NEW amount \in Uint64,
             LoggedPrepare(asset, from, amount)
      PROVE  EventInv'
  <2> DEFINE e == TransferEvtLog("prepareWithdraw", asset, from, from, amount,
                                 prepared'[asset][from].Amount)
  <2>1. PrepareWithdraw(asset, from, amount) /\ NoTrading /\ Emit(e)
    BY <1>6 DEF LoggedPrepare
  <2>2. e \in Events /\ TellsNext(Learn(v, e))
    BY <1>0, <1>1, <2>1, PrepareTold
  <2> HIDE DEF e
  <2> QED
    BY <1>2, <2>1, <2>2
<1>7. ASSUME NEW asset \in Assets, NEW from \in Accounts, LoggedCommit(asset, from)
      PROVE  EventInv'
  <2> DEFINE e == TransferEvtLog("commitWithdraw", asset, from, from,
                                 Payable(prepared[asset][from], balance[asset][from]),
                                 balance'[asset][from])
  <2>1. CommitWithdraw(asset, from) /\ NoTrading /\ Emit(e)
    BY <1>7 DEF LoggedCommit
  <2>2. e \in Events /\ TellsNext(Learn(v, e))
    BY <1>0, <1>1, <2>1, CommitTold
  <2> HIDE DEF e
  <2> QED
    BY <1>2, <2>1, <2>2
<1>8. ASSUME NEW maker \in Orders, NEW taker \in Orders, NEW relay \in Accounts,
             NEW amount \in Uint64, LoggedTrade(maker, taker, relay, amount)
      PROVE  EventInv'
  <2> DEFINE e == TradeEvtLog(maker, taker, amount)
  <2>1. Trade(maker, taker, relay, amount) /\ NoCustody /\ Emit(e)
    BY <1>8 DEF LoggedTrade
  <2>2. e \in Events /\ TellsNext(Learn(v, e))
    BY <1>0, <1>1, <2>1, TradeTold
  <2> HIDE DEF e
  <2> QED
    BY <1>2, <2>1, <2>2
<1>9. ASSUME NEW order \in Orders, LoggedCancel(order)
      PROVE  EventInv'
  <2> DEFINE e == [name |-> "cancel", from |-> order.User, id |-> OrderId[order]]
  <2>1. CancelOrder(order) /\ NoCustody /\ Emit(e)
    BY <1>9 DEF LoggedCancel
  <2>2. e \in Events /\ TellsNext(Learn(v, e))
    BY <1>0, <2>1, CancelTold
  <2> HIDE DEF e
  <2> QED
    BY <1>2, <2>1, <2>2
<1>10. ASSUME NEW relay \in Accounts, NEW user \in Accounts, NEW number \in CancelNumbers,
              LoggedDelegateCancel(relay, user, number)
       PROVE  EventInv'
  <2> DEFINE e == [name |-> "delegateCancel", from |-> relay, user |-> user, number |-> number]
  <2>1. DelegateCancelOrder(relay, user, number) /\ NoCustody /\ Emit(e)
    BY <1>10 DEF LoggedDelegateCancel
  <2>2. e \in Events /\ TellsNext(Learn(v, e))
    BY <1>0, <2>1, DelegateCancelTold
  <2> HIDE DEF e
  <2> QED
    BY <1>2, <2>1, <2>2
<1>11. ASSUME NEW from \in Accounts, NEW target \in Accounts, NEW value \in BOOLEAN,
              LoggedSetRelay(from, target, value)
       PROVE  EventInv'
  <2> DEFINE e == [name |-> "setRelay", target |-> target, value |-> value]
  <2>1. SetRelay(from, target, value) /\ NoCustody /\ NoTrading /\ Emit(e)
    BY <1>11 DEF LoggedSetRelay
  <2>2. e \in Events /\ TellsNext(Learn(v, e))
    BY <1>0, <2>1, RelayTold
  <2> HIDE DEF e
  <2> QED
    BY <1>2, <2>1, <2>2
<1>12. ASSUME Unlogged PROVE EventInv'
  <2>1. TellsNext(v) /\ UNCHANGED eventVars
    BY <1>0, <1>1, <1>12, UnloggedTold DEF Unlogged
  <2> QED
    BY <1>3, <2>1
<1>13. ASSUME Follow PROVE EventInv'
  <2>0. /\ pending # <<>> /\ view' = LearnWith(held, view, Head(pending))
        /\ pending' = Tail(pending) /\ held' = held /\ UNCHANGED dexVars
        /\ Needed(Head(pending)) \subseteq held
    BY <1>13 DEF Follow
  <2>1. view' = Learn(view, Head(pending))
    <3>1. Head(pending) \in Events
      BY <1>0, <2>0, ReadFirst
    <3> QED
      BY <1>0, <2>0, <3>1, EnoughHeld
  <2>2. /\ Head(pending) \in Events /\ pending' \in Seq(Events)
        /\ ReadAll(view', pending') = v
    BY <1>0, <2>0, <2>1, ReadFirst DEF v
  <2>3. view' \in Views
    BY <1>0, <2>1, <2>2, LearnTyped
  <2>4. TellsNext(v)
    BY <1>0, <2>0
       DEF TellsNow, TellsNext, dexVars, ledgerVars, custodyVars, orderVars
  <2> QED
    BY <1>0, <1>1, <2>0, <2>2, <2>3, <2>4 DEF EventInv, TellsNow, TellsNext
<1>14. ASSUME NEW order \in Orders, Collect(order) PROVE EventInv'
  <2>1. /\ held' = held \cup {order} /\ view' = view /\ pending' = pending
        /\ UNCHANGED dexVars
    BY <1>14 DEF Collect
  <2>2. TellsNext(v)
    BY <1>0, <2>1
       DEF TellsNow, TellsNext, dexVars, ledgerVars, custodyVars, orderVars
  <2> QED
    BY <1>0, <1>1, <2>1, <2>2 DEF EventInv, TellsNow, TellsNext, v
<1>15. CASE UNCHANGED eventSpecVars
  <2>1. UNCHANGED eventVars /\ UNCHANGED dexVars
    BY <1>15 DEF eventSpecVars
  <2>2. TellsNext(v)
    BY <1>0, <2>1
       DEF TellsNow, TellsNext, dexVars, ledgerVars, custodyVars, orderVars
  <2> QED
    BY <1>3, <2>1, <2>2
<1> QED
  BY <1>4, <1>5, <1>6, <1>7, <1>8, <1>9, <1>10, <1>11, <1>12, <1>13, <1>14, <1>15
     DEF EventNext

(* If the rates fit, whatever the calls, their order and how far behind a  *)
(* follower is, the events it has not read yet, with the orders behind the *)
(* ids they name, bring its copy to what the contract would answer, with a *)
(* governance balance that is never below the contract's.                  *)
THEOREM EventsSuffice ==
  ASSUME RatesFit
  PROVE  EventSpec => []EventsTellAll
<1>1. ASSUME DexInit, FollowerInit PROVE EventInv
  <2>1. DexTypeOK
    BY <1>1, DexInitOK
  <2>2. view \in Views /\ TellsNow(view)
    BY <1>1, <2>1, TellsAnswers DEF FollowerInit
  <2>3. pending = <<>> /\ pending \in Seq(Events) /\ held \subseteq Orders
    BY <1>1 DEF FollowerInit
  <2>4. ReadAll(view, pending) = view
    BY <2>2, <2>3, ReadNone
  <2> QED
    BY <2>1, <2>2, <2>3, <2>4 DEF EventInv
<1>2. EventInv /\ [EventNext]_eventSpecVars => EventInv'
  BY EventStep
<1>3. EventInv => EventsTellAll
  <2> SUFFICES ASSUME EventInv PROVE EventsTellAll
    OBVIOUS
  <2> DEFINE v == ReadAll(view, pending)
  <2>1. v \in Views /\ TellsNow(v) /\ DexTypeOK
    BY ReadTyped DEF EventInv
  <2> HIDE DEF v
  <2>2. /\ Public(v) = Public(Answers)
        /\ \A asset \in Assets :
             v.balance[asset][GovernanceCtrAccount] >= BalanceOf(GovernanceCtrAccount, asset)
    BY <2>1, TellsAnswers
  <2>3. Told = v
    BY DEF Told, ReadAll, v
  <2> QED
    BY <2>2, <2>3 DEF EventsTellAll
<1> QED
  BY <1>1, <1>2, <1>3, PTL DEF EventSpec
=============================================================================
