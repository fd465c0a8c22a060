------------------------------ MODULE DexLedger ------------------------------
(***************************************************************************)
(* The balance book of the DEX contract and the accounts it moves tokens   *)
(* between (dex.go Deposit and Withdraw, helper.go, management.go          *)
(* SetRelay), with the parts of the host every other component leans on:   *)
(* the token contracts, the block timestamp and the global parameters.     *)
(*                                                                         *)
(* A transaction is one step.  The host runs transactions one after the    *)
(* other and throws away what a failing call wrote, so a handler that      *)
(* returns an error changes nothing: here its action is not enabled.       *)
(***************************************************************************)
EXTENDS Integers, FiniteSets, Functions

CONSTANTS
  Accounts,               \* user, channel, relay and contract accounts
  Assets,                 \* token contracts
  DexCtrAccount,          \* the account the contract holds its tokens in
  GovernanceCtrAccount, StakingCtrAccount, NameServiceCtrAccount,
  Operator,               \* the operator kept by the global_params contract
  Signers,                \* accounts that witness transactions
  InitialWallet,          \* tokens each account holds outside the DEX
  ParamValues,            \* values the global parameters may take
  MaxUint64, MaxUint32,   \* widths of the contract's integers
  Horizon                 \* bound: the last block timestamp considered

Uint64 == 0..MaxUint64
Uint32 == 0..MaxUint32

GlobalParams == [MakerSysFeeRate : Nat, TakerSysFeeRate : Nat,
                 PrimeFeeDiscountPercent : Nat, WithdrawApplyWaitTime : Nat]

ASSUME AccountsAssumption ==
  /\ IsFiniteSet(Accounts)
  /\ {DexCtrAccount, GovernanceCtrAccount} \subseteq Accounts
  /\ Signers \subseteq Accounts \ {DexCtrAccount}

ASSUME WidthAssumption ==
  /\ MaxUint64 \in Nat
  /\ MaxUint32 \in Nat
  /\ Horizon \in Uint32

ASSUME ContextAssumption ==
  /\ InitialWallet \in [Assets -> [Accounts -> Uint64]]
  /\ ParamValues \subseteq GlobalParams

VARIABLES
  balance,        \* balance[asset][acc]: what the DEX owes acc; absent keys are 0
  wallet,         \* wallet[asset][acc]: what the token contract says acc holds
  relays,         \* accounts with the relay flag
  timestamp,      \* timestamp of the current block
  globalParams    \* current values of the global parameters

bookVars == <<balance, wallet>>
contextVars == <<relays, timestamp, globalParams>>
ledgerVars == <<balance, wallet, relays, timestamp, globalParams>>

Total(book) == SumFunctionOnSet(book, Accounts)
-----------------------------------------------------------------------------
(* One asset's column of the book, as the helpers see it.                  *)

BalanceAddOK(book, acc, amount) == book[acc] + amount <= MaxUint64
BalanceAdd(book, acc, amount) == [book EXCEPT ![acc] = @ + amount]

\* Slip: the check compares the wrong way round for the last unit.
BalanceSubOKSlip(book, acc, amount) == book[acc] + 1 >= amount
BalanceSubOK(book, acc, amount) == book[acc] >= amount
BalanceSub(book, acc, amount) == [book EXCEPT ![acc] = @ - amount]

(* The transfer method of a token contract, as DoTransfer relies on it: it *)
(* moves the whole amount or fails.                                        *)
TransferOK(holdings, from, to, amount) ==
  /\ amount <= holdings[from]
  /\ from # to => holdings[to] + amount <= MaxUint64
Transfer(holdings, from, to, amount) ==
  [[holdings EXCEPT ![from] = @ - amount] EXCEPT ![to] = @ + amount]

DoTransfer(asset, from, to, amount) ==
  /\ TransferOK(wallet[asset], from, to, amount)
  /\ wallet' = [wallet EXCEPT ![asset] = Transfer(@, from, to, amount)]

(* Credit what arrived to `to`, who need not be the payer.                 *)
\* Slip: the tokens go to the beneficiary's wallet instead.
DoDepositSlip(asset, from, to, amount) ==
  /\ DoTransfer(asset, from, to, amount)
  /\ BalanceAddOK(balance[asset], to, amount)
  /\ balance' = [balance EXCEPT ![asset] = BalanceAdd(@, to, amount)]
DoDeposit(asset, from, to, amount) ==
  /\ DoTransfer(asset, from, DexCtrAccount, amount)
  /\ BalanceAddOK(balance[asset], to, amount)
  /\ balance' = [balance EXCEPT ![asset] = BalanceAdd(@, to, amount)]

DoWithdraw(asset, from, to, amount) ==
  /\ DoTransfer(asset, DexCtrAccount, to, amount)
  /\ BalanceSubOK(balance[asset], from, amount)
  /\ balance' = [balance EXCEPT ![asset] = BalanceSub(@, from, amount)]
-----------------------------------------------------------------------------
(* Transactions.                                                           *)

Deposit(asset, from, to, amount) ==
  /\ from \in Signers
  /\ DoDeposit(asset, from, to, amount)
  /\ UNCHANGED contextVars

withdrawList ==
  {StakingCtrAccount, GovernanceCtrAccount, NameServiceCtrAccount, DexCtrAccount}

Withdraw(asset, from, to, amount) ==
  /\ from \in Signers
  /\ from \in withdrawList
  /\ DoWithdraw(asset, from, to, amount)
  /\ UNCHANGED contextVars

isOperator(acc) == acc = Operator
isRelay(acc) == acc \in relays

SetRelay(from, target, value) ==
  /\ from \in Signers
  /\ isOperator(from)
  /\ relays' = IF value THEN relays \cup {target} ELSE relays \ {target}
  /\ UNCHANGED <<balance, wallet, timestamp, globalParams>>
-----------------------------------------------------------------------------
(* The world around the contract.                                          *)

\* Holders move tokens among themselves, or send some to the DEX account
\* without a deposit.
PayOutside(asset, from, to, amount) ==
  /\ from \in Signers
  /\ DoTransfer(asset, from, to, amount)
  /\ UNCHANGED <<balance, contextVars>>

Tick ==
  /\ timestamp' \in (timestamp + 1)..Horizon
  /\ UNCHANGED <<balance, wallet, relays, globalParams>>

UpdateParams ==
  /\ globalParams' \in ParamValues
  /\ UNCHANGED <<balance, wallet, relays, timestamp>>

LedgerInit ==
  /\ balance = [asset \in Assets |-> [acc \in Accounts |-> 0]]
  /\ wallet = InitialWallet
  /\ relays = {}
  /\ timestamp = 0
  /\ globalParams \in ParamValues

LedgerNext ==
  \/ \E asset \in Assets, from, to \in Accounts, amount \in Uint64 :
       \/ Deposit(asset, from, to, amount)
       \/ Withdraw(asset, from, to, amount)
       \/ PayOutside(asset, from, to, amount)
  \/ \E from, target \in Accounts, value \in BOOLEAN : SetRelay(from, target, value)
  \/ Tick
  \/ UpdateParams
-----------------------------------------------------------------------------
LedgerTypeOK ==
  /\ balance \in [Assets -> [Accounts -> Uint64]]
  /\ wallet \in [Assets -> [Accounts -> Uint64]]
  /\ relays \subseteq Accounts
  /\ timestamp \in 0..Horizon
  /\ globalParams \in ParamValues

(* The DEX account holds at least what the book promises: every balance    *)
(* can be paid, whatever deposits, withdrawals, fees and trades came       *)
(* before (helper.go moves the tokens and edits the book separately).      *)
Solvent ==
  \A asset \in Assets : Total(balance[asset]) <= wallet[asset][DexCtrAccount]

\* What an account outside Signers loses in a step; it never sends one itself.
Loss(asset, acc) ==
  IF acc \notin Signers /\ balance'[asset][acc] < balance[asset][acc]
  THEN balance[asset][acc] - balance'[asset][acc]
  ELSE 0

Promise == INSTANCE Vault WITH
  owed <- [asset \in Assets |-> Total(balance[asset])],
  held <- [asset \in Assets |-> wallet[asset][DexCtrAccount]]

(* Step by step the book and the DEX account behave like a vault: debt     *)
(* grows only with tokens that arrive in the same transaction, and tokens  *)
(* leave only against debt struck off in the same transaction.             *)
KeepsPromise == Promise!Spec
=============================================================================
