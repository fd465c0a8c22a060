------------------------------- MODULE Custody -------------------------------
(***************************************************************************)
(* Getting tokens out of the DEX without its help: a withdrawal the owner  *)
(* signs and a relay submits (dex.go DelegateWithdraw), and the two-phase  *)
(* withdrawal no relay can hold up (PrepareWithdraw, CommitWithdraw).      *)
(*                                                                         *)
(* A request [asset, from, to, amount, fee, salt] stands for the hash of   *)
(* its fields (types.go HashParams, one to one), and a signature           *)
(* [signer, data] for a valid one: forging is left to cryptography.        *)
(***************************************************************************)
EXTENDS DexLedger

CONSTANTS
  Requests,       \* delegated withdrawals somebody may submit
  WithdrawSigs    \* the signatures that exist: [signer : Accounts, data : Requests]

DWithdrawArgs == [asset : Assets, from : Accounts, to : Accounts,
                  amount : Uint64, fee : Uint64, salt : Nat]

ASSUME RequestAssumption ==
  /\ Requests \subseteq DWithdrawArgs
  /\ IsFiniteSet(Requests)
  /\ WithdrawSigs \subseteq [signer : Accounts, data : Requests]

VARIABLES
  withdrawn,      \* requests (hashes) already paid
  prepared        \* prepared[asset][acc]: the pending two-phase withdrawal

custodyVars == <<withdrawn, prepared>>
custodySpecVars == <<ledgerVars, custodyVars>>

PrepareWithdrawState == [Time : Uint32, Amount : Uint64]
NoRecord == [Time |-> 0, Amount |-> 0]

RecordsInit ==
  /\ withdrawn = {}
  /\ prepared = [asset \in Assets |-> [acc \in Accounts |-> NoRecord]]
-----------------------------------------------------------------------------
(* Withdrawal by a relay.                                                  *)

Signed(req) ==      \* VerifySigUser and VerifySig
  \E sig \in WithdrawSigs : sig.signer = req.from /\ sig.data = req

\* The relay is paid before the owner is charged; both act on the book.
PayFee(book, relay, req) == BalanceAdd(book, relay, req.fee)

\* Slip: the fee is paid on top of the amount that leaves the DEX.
DoDelegateWithdrawSlip(req, relay) ==
  LET book == balance[req.asset] IN
    /\ DoTransfer(req.asset, DexCtrAccount, req.to, req.amount)
    /\ BalanceAddOK(book, relay, req.fee)
    /\ BalanceSubOK(PayFee(book, relay, req), req.from, req.amount)
    /\ balance' = [balance EXCEPT ![req.asset] =
                     BalanceSub(PayFee(@, relay, req), req.from, req.amount)]
DoDelegateWithdraw(req, relay) ==
  LET book == balance[req.asset] IN
    /\ DoTransfer(req.asset, DexCtrAccount, req.to, req.amount - req.fee)
    /\ BalanceAddOK(book, relay, req.fee)
    /\ BalanceSubOK(PayFee(book, relay, req), req.from, req.amount)
    /\ balance' = [balance EXCEPT ![req.asset] =
                     BalanceSub(PayFee(@, relay, req), req.from, req.amount)]

\* Slip: the mark is filed under the request without its salt.
MarkWithdrawnSlip(req) == withdrawn \cup {[req EXCEPT !.salt = 0]}
MarkWithdrawn(req) == withdrawn \cup {req}

DelegateWithdraw(req, relay) ==
  /\ req.fee <= req.amount
  /\ relay \in Signers
  /\ isRelay(relay)
  /\ req \notin withdrawn
  /\ Signed(req)
  /\ DoDelegateWithdraw(req, relay)
  /\ withdrawn' = MarkWithdrawn(req)
  /\ UNCHANGED <<contextVars, prepared>>
-----------------------------------------------------------------------------
(* Two-phase withdrawal.                                                   *)

AddUint32(a, b) == (a + b) % (MaxUint32 + 1)

\* When a record of time `time` may be committed: uint32 arithmetic, on the
\* parameter truncated to uint32.
MaturesAt(time) ==
  AddUint32(time, globalParams.WithdrawApplyWaitTime % (MaxUint32 + 1))

\* Slip: a later request joins the pending one without restarting its clock.
ApplySlip(ws, amount) ==
  [Time   |-> IF ws.Amount = 0 THEN timestamp ELSE ws.Time,
   Amount |-> ws.Amount + amount]
Apply(ws, amount) == [Time |-> timestamp, Amount |-> ws.Amount + amount]

\* The account named by From and To; a request for anybody else is refused.
PrepareWithdraw(asset, from, amount) ==
  LET ws == prepared[asset][from] IN
    /\ from \in Signers
    /\ balance[asset][from] >= amount
    /\ ws.Amount + amount <= MaxUint64
    /\ prepared' = [prepared EXCEPT ![asset][from] = Apply(ws, amount)]
    /\ UNCHANGED <<ledgerVars, withdrawn>>

\* Slip: the record is kept when the balance did not cover it.
AfterCommitSlip(ws, paid) ==
  IF paid < ws.Amount THEN [ws EXCEPT !.Amount = @ - paid] ELSE NoRecord
AfterCommit(ws, paid) == NoRecord

\* Slip: a record larger than the balance is paid in full or not at all.
PayableSlip(ws, available) == ws.Amount
Payable(ws, available) == IF available < ws.Amount THEN available ELSE ws.Amount

CommitWithdraw(asset, from) ==
  LET ws == prepared[asset][from]
      withdrawAmount == Payable(ws, balance[asset][from])
  IN  /\ from \in Signers
      /\ ~ timestamp < MaturesAt(ws.Time)
      /\ ws.Amount # 0
      /\ prepared' = [prepared EXCEPT ![asset][from] = AfterCommit(ws, withdrawAmount)]
      /\ DoWithdraw(asset, from, from, withdrawAmount)
      /\ UNCHANGED <<contextVars, withdrawn>>
-----------------------------------------------------------------------------
CustodyStep ==
  \/ \E req \in Requests, relay \in Accounts : DelegateWithdraw(req, relay)
  \/ \E asset \in Assets, from \in Accounts :
       \/ \E amount \in Uint64 : PrepareWithdraw(asset, from, amount)
       \/ CommitWithdraw(asset, from)

CustodyInit == LedgerInit /\ RecordsInit
CustodyNext == (LedgerNext /\ UNCHANGED custodyVars) \/ CustodyStep
CustodySpec == CustodyInit /\ [][CustodyNext]_custodySpecVars
-----------------------------------------------------------------------------
RecordsTypeOK ==
  /\ withdrawn \subseteq Requests
  /\ prepared \in [Assets -> [Accounts -> PrepareWithdrawState]]

CustodyTypeOK == LedgerTypeOK /\ RecordsTypeOK

\* The sum of the distinct requests an owner signed, fees included.
SignedAway(acc, asset) ==
  SumFunctionOnSet([req \in Requests |-> req.amount],
    {req \in Requests : /\ req.from = acc
                        /\ req.asset = asset
                        /\ [signer |-> acc, data |-> req] \in WithdrawSigs})
=============================================================================
